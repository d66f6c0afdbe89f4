SPECIFICATION Spec
CONSTANTS
  WRITE_SIZE = 2
  ERASE_SIZE = 4
  FLASH_SIZE = 4
  MAX_PAYLOAD = 4
  RxPayload = 4
  LenMod = 8
  AddrMod = 32
  Word <- MCWord
  Blank = "blank"
  Zero = "zero"
  DeviceIds = {"known", "unknown"}
  Supported = {"known"}
  NoBody = NoBody
  Idle = Idle
  Broadcast = Broadcast
  NoAddr = NoAddr
  NoDevice = NoDevice
  Nobody = Nobody
  Programmers = {p1, p2}
  Targets = {t1}
  DeviceId <- AllKnown
  Facades <- NoFacade
  SeqMod = 2
  Lifetime = 2
  Ordered = TRUE
  MaxSends = 4
  MaxRestarts = 0
  Reads <- OneRead
  Erases <- OneErase
  Writes <- NoWrites
  Calls <- Connecting
SYMMETRY ProgrammerSymmetry
INVARIANTS
  NoReexecution
  FreshNotDropped
  ReadIsCurrent
