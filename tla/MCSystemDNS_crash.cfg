SPECIFICATION DNSSpec
CONSTANTS
  wifi = wifi
  wired = wired
  usb = usb
  manual = manual
  Stub = Stub
  DHCP = DHCP
  NoRecord = NoRecord
  Services <- MCServices
  Settings <- MCSettings
  Original <- MCOriginal
  ConcurrentRepair = FALSE
  MaxCrashes = 1
  MaxFailures = 0
INVARIANT CloseRestores
CHECK_DEADLOCK FALSE
