SPECIFICATION Spec
CONSTANTS
  Devices = {emmc, nic}
  emmc = emmc
  nic = nic
  NetDevices = {nic}
  Bootable = {nic}
  MaxEvents = 3
INVARIANTS RefreshedForNew
CHECK_DEADLOCK FALSE
