CONSTANTS
  RxCap = 2
  None = None
  Servers = {s1, s2}
  StaticIp = static
  ForeignIp = foreign
  Files <- SomeFiles
  HeaderLen = 2
  MaxReboots = 1
SPECIFICATION Spec
INVARIANTS AddressKnown SavedBegins
PROPERTIES BootGoesOn TransferEnds RecvListens
