CONSTANTS
  Main = Main
  Servers = {s1, s2}
  Cores = {"tcp", "udp", "usb", "pcie"}
  Addrs = {0, 1}
  Vals = {0, 1}
  Boot <- MCBoot
  Operations <- MCOperations
  Capacity = 2
  NULL = NULL
SPECIFICATION Spec
INVARIANTS TypeOK Paired PeekSeesPokes
PROPERTIES Returns ConnectReturns
CHECK_DEADLOCK FALSE
