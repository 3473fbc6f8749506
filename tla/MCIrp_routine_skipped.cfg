CONSTANTS
  dev1 = dev1
  dev2 = dev2
  irp1 = irp1
  irp2 = irp2
  NoIrp = NoIrp
  NoDevice = NoDevice
  Devices = {dev1}
  Irps = {irp1}
  Invites = {{"success", "error", "cancel"}}
  MaxLocs = 1
  MaxDepth = 4
  MaxDeferred = 0
SPECIFICATION MCSpec
CHECK_DEADLOCK FALSE
PROPERTY NoneSkipped
