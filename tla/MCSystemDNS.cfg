SPECIFICATION DNSSpec
CONSTANTS
  wifi = wifi
  wired = wired
  usb = usb
  manual = manual
  Stub = Stub
  DHCP = DHCP
  NoRecord = NoRecord
  Services <- MCServices
  Settings <- MCSettings
  Original <- MCOriginal
  ConcurrentRepair = FALSE
  MaxCrashes = 2
  MaxFailures = 3
INVARIANTS
  UndoIsRecorded
  NeverReplaced
CHECK_DEADLOCK FALSE
