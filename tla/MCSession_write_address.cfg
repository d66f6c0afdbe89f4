SPECIFICATION Spec
CONSTANTS
  WRITE_SIZE = 2
  ERASE_SIZE = 4
  FLASH_SIZE = 4
  MAX_PAYLOAD = 4
  RxPayload = 4
  LenMod = 8
  AddrMod = 32
  Word <- MCWord
  Blank = "blank"
  Zero = "zero"
  DeviceIds = {"known", "unknown"}
  Supported = {"known"}
  NoBody = NoBody
  Idle = Idle
  Broadcast = Broadcast
  NoAddr = NoAddr
  NoDevice = NoDevice
  Nobody = Nobody
  Programmers = {p1}
  Targets = {t1}
  DeviceId <- AllKnown
  Facades <- NoFacade
  SeqMod = 3
  Lifetime = 3
  Ordered = FALSE
  MaxSends = 5
  MaxRestarts = 0
  Reads <- NoReads
  Erases <- NoErases
  Writes <- OneWrite
  Calls <- Connecting
INVARIANTS
  WriteReachesItsAddress
