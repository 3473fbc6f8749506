CONSTANTS
  dev1 = dev1
  dev2 = dev2
  irp1 = irp1
  irp2 = irp2
  NoIrp = NoIrp
  NoDevice = NoDevice
  Devices = {dev1, dev2}
  Irps = {irp1, irp2}
  Invites = {{"success"}}
  MaxLocs = 2
  MaxDepth = 3
  MaxDeferred = 1
SPECIFICATION MCSpec
SYMMETRY Symmetry
CHECK_DEADLOCK FALSE
INVARIANT TypedInArray
INVARIANT CurrentIrpInDispatch
INVARIANT FinishedWasCompleted
