CONSTANTS
  PMIC_I2C_ADDR = "0x20"
  PmicReg <- MCPmicReg
  PmicValue <- MCPmicValue
  OtpRequests <- MCOtpRequests
  RngLengths <- MCRngLengths
  Drams <- MCDrams
  PciAccesses <- MCPciAccesses
SPECIFICATION FairSpec
INVARIANTS BoardTypeOK SuccessMeansDone OtpExact FreshRandom XhciReady BridgeReady DriversKept MemorySound
PROPERTIES PciAccessExact BootReachesBds
