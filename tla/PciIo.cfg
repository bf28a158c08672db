CONSTANTS
  PMIC_I2C_ADDR = "0x20"
  PmicReg <- MCPmicReg
  PmicValue <- MCPmicValue
  OtpRequests <- MCOtpRequests
  RngLengths <- MCRngLengths
  Drams <- MCDrams
  PciAccesses <- MCPciAccesses
SPECIFICATION Spec
INVARIANT IoReachesIo
