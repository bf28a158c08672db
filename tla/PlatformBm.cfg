SPECIFICATION FairSpec
CONSTANTS
  Devices = {emmc, nic}
  emmc = emmc
  nic = nic
  NetDevices = {nic}
  Bootable = {nic}
  MaxEvents = 3
INVARIANTS TypeOK NoDuplicates KeysHaveOptions NewDevicesOffered MenuIsLast
PROPERTIES Settles
CHECK_DEADLOCK FALSE
