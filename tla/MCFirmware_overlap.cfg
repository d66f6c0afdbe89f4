SPECIFICATION Spec
CONSTANTS
  Byte <- MCByte
  Zero = Zero
  Blank = Blank
  Garbage = Garbage
  Old = Old
  WRITE_SIZE = 2
  ERASE_SIZE = 4
  FLASH_SIZE = 16
  Kinds = {"hex"}
  DataRecords <- WideRecords
  SegmentBases = {1}
  LinearBases = {0, 1}
  Paragraph = 2
  Window = 4
  MaxLines = 4
  EhdrSize = 2
  PhdrSize = 2
  ShdrSize = 2
  OffMod = 32
  Content <- MCContent
  ElfHeaders <- MCHeaders
  ProgramHeaders <- MCPrograms
  SectionHeaders <- MCSections
  Uses = {"programs", "sections"}
INVARIANTS
  OverlapRefused
