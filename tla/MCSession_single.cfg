SPECIFICATION Spec
CONSTANTS
  WRITE_SIZE = 2
  ERASE_SIZE = 4
  FLASH_SIZE = 8
  MAX_PAYLOAD = 4
  RxPayload = 4
  LenMod = 8
  AddrMod = 32
  Word <- MCWord
  Blank = "blank"
  Zero = "zero"
  DeviceIds = {"known", "unknown"}
  Supported = {"known"}
  NoBody = NoBody
  Idle = Idle
  Broadcast = Broadcast
  NoAddr = NoAddr
  NoDevice = NoDevice
  Nobody = Nobody
  Programmers = {p1}
  Targets = {t1}
  DeviceId <- AllKnown
  Facades = {p1}
  SeqMod = 2
  Lifetime = 2
  Ordered = FALSE
  MaxSends = 5
  MaxRestarts = 1
  Reads <- AllReads
  Erases <- AllErases
  Writes <- AllWrites
  Calls <- Everything
INVARIANTS
  TypeOK
  AckMeansExecuted
  InvalidMeansOutside
  ReadsInFull
