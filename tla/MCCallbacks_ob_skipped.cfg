CONSTANTS
  cb1 = cb1
  cb2 = cb2
  reg1 = reg1
  reg2 = reg2
  Routines = {cb1, cb2}
  NoRoutine = NoRoutine
  Pre <- PreOf
  Post <- PostOf
  MaxListed = 2
  Registrations = {reg1, reg2}
  Ps = {}
  UseOb = TRUE
  UseCm = FALSE
SPECIFICATION Spec
PROPERTY EveryRegistrationReached
