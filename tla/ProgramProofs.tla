---------------------------- MODULE ProgramProofs ----------------------------
(***************************************************************************)
(* What ImageProgrammer::program() does with every image: it stays inside  *)
(* its buffer, wears the flash once, and leaves the image on the device.   *)
(***************************************************************************)
EXTENDS LoadingProofs

Sectors == {SectorAlign(x) : x \in Addr}
Pages   == {EraseAlign(x) : x \in Addr}

\* The sectors and the pages of the device.
LEMMA SectorSet ==
  /\ \A a \in Addr : SectorAlign(a) \in Sectors /\ EraseAlign(a) \in Pages
  /\ \A s \in Sectors : /\ s \in Addr /\ Multiple(s, WRITE_SIZE)
                        /\ s + WRITE_SIZE <= FLASH_SIZE
                        /\ EraseAlign(s) \in Pages /\ EraseAlign(s) <= s
                        /\ s + WRITE_SIZE <= EraseAlign(s) + ERASE_SIZE
  /\ \A p \in Pages : p \in Addr /\ Multiple(p, ERASE_SIZE) /\ p + ERASE_SIZE <= FLASH_SIZE
  /\ 0 \in Sectors
<1>1. \A a \in Addr : a \in Nat /\ a < FLASH_SIZE
  BY ProgramAssumption DEF Addr
<1>2. ASSUME NEW s \in Sectors
      PROVE  /\ s \in Addr /\ Multiple(s, WRITE_SIZE) /\ s + WRITE_SIZE <= FLASH_SIZE
             /\ EraseAlign(s) \in Pages /\ EraseAlign(s) <= s
             /\ s + WRITE_SIZE <= EraseAlign(s) + ERASE_SIZE
  <2>1. PICK x \in Addr : s = SectorAlign(x)
    BY DEF Sectors
  <2>2. /\ s \in Nat /\ s <= x /\ Multiple(s, WRITE_SIZE)
        /\ EraseAlign(s) = EraseAlign(x) /\ EraseAlign(x) <= s
        /\ s + WRITE_SIZE <= EraseAlign(x) + ERASE_SIZE
        /\ EraseAlign(x) + ERASE_SIZE <= FLASH_SIZE
        /\ EraseAlign(x) \in Nat
    BY <1>1, <2>1, SectorFacts, SectorInPage, PageInDevice, PageFacts
  <2>3. s \in Addr /\ s + WRITE_SIZE <= FLASH_SIZE
    BY <1>1, <2>2, ProgramAssumption DEF Addr
  <2> QED BY <2>2, <2>3 DEF Pages
<1>3. ASSUME NEW p \in Pages
      PROVE  p \in Addr /\ Multiple(p, ERASE_SIZE) /\ p + ERASE_SIZE <= FLASH_SIZE
  <2>1. PICK x \in Addr : p = EraseAlign(x)
    BY DEF Pages
  <2>2. p \in Nat /\ p <= x /\ Multiple(p, ERASE_SIZE) /\ p + ERASE_SIZE <= FLASH_SIZE
    BY <1>1, <2>1, PageFacts, PageInDevice
  <2> QED BY <1>1, <2>2, ProgramAssumption DEF Addr
<1>4. 0 \in Sectors
  <2>1. 0 \in Addr
    BY ProgramAssumption DEF Addr
  <2>2. SectorAlign(0) = 0
    <3>1. SectorAlign(0) \in Nat /\ SectorAlign(0) <= 0
      BY SectorFacts
    <3> QED BY <3>1
  <2> QED BY <2>1, <2>2 DEF Sectors
<1>5. \A a \in Addr : SectorAlign(a) \in Sectors /\ EraseAlign(a) \in Pages
  BY DEF Sectors, Pages
<1> QED BY <1>2, <1>3, <1>4, <1>5

-----------------------------------------------------------------------------
(***************************************************************************)
(* Types                                                                   *)
(***************************************************************************)
LoopType ==
  /\ cur \in Nat
  /\ address \in 0 .. FLASH_SIZE
  /\ sectorAddr \in Sectors
  /\ sectorEnd \in 0 .. FLASH_SIZE
  /\ eraseEnd \in 0 .. FLASH_SIZE
  /\ buffer \in [0 .. WRITE_SIZE - 1 -> BufferByte]
  /\ flash \in [Addr -> BufferByte \cup {Old}]
  /\ writes \in [Sectors -> Nat]
  /\ erasures \in [Pages -> Nat]

\* Where the loop is in the sorted list.
Position ==
  /\ \A i, j \in DOMAIN sections : i < j => sections[i].lo <= sections[j].lo
  /\ cur \in 1 .. Len(sections) + 1
  /\ cur \in DOMAIN sections => sections[cur].lo <= address /\ address <= sections[cur].hi

TypeInv ==
  /\ ShapeInv
  /\ LoopType
  /\ phase = "program" => Position

LEMMA TypeInvSuffices == TypeInv => TypeOK
<1> SUFFICES ASSUME TypeInv PROVE TypeOK
  OBVIOUS
<1>1. DOMAIN writes = Sectors
  BY DEF TypeInv, LoopType
<1>2. /\ \A i \in DOMAIN sections : IsPiece(sections[i]) /\ sections[i].hi <= FLASH_SIZE
      /\ \A i \in DOMAIN given : IsPiece(given[i]) /\ given[i].hi <= FLASH_SIZE
  BY PieceFacts DEF TypeInv, ShapeInv, PiecesOK, FitDevice
<1>3. phase \in {"loading", "loaded", "program", "done", "undefined", "refused", "failed",
                 "terminated"}
  BY DEF TypeInv, ShapeInv, PiecesOK, Phases
<1> QED BY <1>1, <1>2, <1>3 DEF TypeInv, LoopType, TypeOK, Sectors, Pages

LEMMA TypeStart == Init => TypeInv
<1> SUFFICES ASSUME Init PROVE TypeInv
  OBVIOUS
<1>1. ProgramInit
  BY DEF Init
<1>2. 0 \in Sectors /\ FLASH_SIZE \in Nat
  BY SectorSet, ProgramAssumption
<1>3. LoopType
  BY <1>1, <1>2 DEF ProgramInit, LoopType, BufferByte, Sectors, Pages
<1> QED BY <1>3, ShapeInit DEF TypeInv, Init, ImageInit

\* Where a section starts lies on the device.
LEMMA StartOnDevice ==
  ASSUME NEW L \in Seq(PieceSet), FitDevice(L), NEW i
  PROVE  StartOf(L, i) \in 0 .. FLASH_SIZE
<1>1. CASE i \in DOMAIN L
  <2>1. L[i].lo \in Nat /\ L[i].hi \in Nat /\ L[i].lo <= L[i].hi /\ L[i].hi <= FLASH_SIZE
    BY <1>1, PieceFacts DEF FitDevice
  <2> QED BY <1>1, <2>1, ProgramAssumption DEF StartOf
<1>2. CASE i \notin DOMAIN L
  BY <1>2, ProgramAssumption DEF StartOf
<1> QED BY <1>1, <1>2

\* The address of a section in progress, and the sector and the page around it.
LEMMA AddressFacts ==
  ASSUME TypeInv, InSection
  PROVE  /\ sections[cur] \in PieceSet /\ cur \in DOMAIN sections
         /\ address \in Addr /\ address \in Nat /\ address < sections[cur].hi
         /\ sections[cur].hi \in Nat /\ sections[cur].lo \in Nat
         /\ sections[cur].hi <= FLASH_SIZE
         /\ sections[cur].lo <= address /\ address \in DOMAIN sections[cur].mem
         /\ SectorAlign(address) \in Sectors
         /\ SectorAlign(address) \in Nat
         /\ SectorAlign(address) <= address /\ address < SectorAlign(address) + WRITE_SIZE
         /\ SectorAlign(address) + WRITE_SIZE <= FLASH_SIZE
         /\ Multiple(SectorAlign(address), WRITE_SIZE)
         /\ EraseAlign(SectorAlign(address)) \in Pages
         /\ EraseAlign(SectorAlign(address)) \in Nat
         /\ EraseAlign(SectorAlign(address)) <= SectorAlign(address)
         /\ SectorAlign(address) + WRITE_SIZE <= EraseAlign(SectorAlign(address)) + ERASE_SIZE
         /\ EraseAlign(SectorAlign(address)) + ERASE_SIZE <= FLASH_SIZE
         /\ Multiple(EraseAlign(SectorAlign(address)), ERASE_SIZE)
<1>1. /\ cur \in DOMAIN sections /\ address < sections[cur].hi /\ address \in Nat
      /\ sections \in Seq(PieceSet) /\ FitDevice(sections)
  BY ProgramAssumption DEF InSection, TypeInv, LoopType, ShapeInv, PiecesOK
<1>2. sections[cur] \in PieceSet /\ sections[cur].hi <= FLASH_SIZE
  BY <1>1 DEF FitDevice
<1>3. /\ sections[cur].hi \in Nat /\ sections[cur].lo \in Nat
      /\ DOMAIN sections[cur].mem = sections[cur].lo .. sections[cur].hi - 1
  BY <1>2, PieceFacts
<1>8. sections[cur].lo <= address /\ address \in DOMAIN sections[cur].mem
  BY <1>1, <1>3 DEF InSection, TypeInv, Position
<1>4. address \in Addr
  BY <1>1, <1>2, <1>3, ProgramAssumption DEF Addr
<1>5. /\ SectorAlign(address) \in Nat
      /\ SectorAlign(address) <= address /\ address < SectorAlign(address) + WRITE_SIZE
      /\ Multiple(SectorAlign(address), WRITE_SIZE)
  BY <1>1, SectorFacts
<1>6. /\ EraseAlign(SectorAlign(address)) = EraseAlign(address)
      /\ EraseAlign(address) <= SectorAlign(address)
      /\ SectorAlign(address) + WRITE_SIZE <= EraseAlign(address) + ERASE_SIZE
      /\ EraseAlign(address) + ERASE_SIZE <= FLASH_SIZE
      /\ EraseAlign(address) \in Nat /\ Multiple(EraseAlign(address), ERASE_SIZE)
  BY <1>1, <1>4, SectorInPage, PageInDevice, PageFacts
<1>7. SectorAlign(address) \in Sectors /\ EraseAlign(address) \in Pages
      /\ SectorAlign(address) + WRITE_SIZE <= FLASH_SIZE
  BY <1>4, SectorSet
<1> QED BY <1>1, <1>2, <1>3, <1>4, <1>5, <1>6, <1>7, <1>8

\* What a write and an erase leave in the memory of the device.
LEMMA WrittenType ==
  ASSUME NEW mem \in [Addr -> BufferByte \cup {Old}], NEW at \in Nat,
         NEW data \in [0 .. WRITE_SIZE - 1 -> BufferByte]
  PROVE  WrittenAt(mem, at, data) \in [Addr -> BufferByte \cup {Old}]
<1> SUFFICES ASSUME NEW a \in Addr, a \in at .. at + WRITE_SIZE - 1
             PROVE  data[a - at] \in BufferByte
  BY DEF WrittenAt
<1>1. a - at \in 0 .. WRITE_SIZE - 1
  BY ProgramAssumption
<1> QED BY <1>1

LEMMA ErasedType ==
  ASSUME NEW mem \in [Addr -> BufferByte \cup {Old}], NEW at
  PROVE  ErasedAt(mem, at) \in [Addr -> BufferByte \cup {Old}]
  BY ProgramAssumption DEF ErasedAt, BufferByte

LEMMA TypeSwitch == ASSUME TypeInv, SwitchSector PROVE LoopType'
<1> DEFINE sector == SectorAlign(address)
<1> DEFINE page == EraseAlign(sector)
<1> DEFINE old == IF sectorEnd # 0 THEN WrittenAt(flash, sectorAddr, buffer) ELSE flash
<1>1. /\ sectorAddr' = sector
      /\ sectorEnd' = sector + WRITE_SIZE
      /\ buffer' = Fresh
      /\ writes' = IF sectorEnd # 0 THEN [writes EXCEPT ![sectorAddr] = @ + 1] ELSE writes
      /\ \/ /\ flash' = ErasedAt(old, page)
            /\ erasures' = [erasures EXCEPT ![page] = @ + 1]
            /\ eraseEnd' = page + ERASE_SIZE
         \/ /\ flash' = old
            /\ erasures' = erasures
            /\ eraseEnd' = eraseEnd
      /\ UNCHANGED <<cur, address>>
  BY DEF SwitchSector
<1>2. /\ sector \in Sectors /\ page \in Pages /\ sector \in Nat /\ page \in Nat
      /\ sector + WRITE_SIZE <= FLASH_SIZE /\ page + ERASE_SIZE <= FLASH_SIZE
  BY AddressFacts DEF SwitchSector
<1>3. LoopType
  BY DEF TypeInv
<1>4. sectorAddr \in Nat
  BY <1>3, SectorSet DEF LoopType, Addr
<1>5. old \in [Addr -> BufferByte \cup {Old}]
  BY <1>3, <1>4, WrittenType DEF LoopType
<1>6. Fresh \in [0 .. WRITE_SIZE - 1 -> BufferByte]
  BY ProgramAssumption DEF Fresh, BufferByte
<1> HIDE DEF sector, page, old
<1>7. flash' \in [Addr -> BufferByte \cup {Old}]
  <2>1. ErasedAt(old, page) \in [Addr -> BufferByte \cup {Old}]
    BY <1>5, ErasedType
  <2>2. flash' = ErasedAt(old, page) \/ flash' = old
    BY <1>1
  <2> QED BY <1>5, <2>1, <2>2
<1>8. writes' \in [Sectors -> Nat] /\ erasures' \in [Pages -> Nat]
  BY <1>1, <1>2, <1>3, SMTT(30) DEF LoopType
<1>9. sectorEnd' \in 0 .. FLASH_SIZE /\ eraseEnd' \in 0 .. FLASH_SIZE
  BY <1>1, <1>2, <1>3, ProgramAssumption DEF LoopType
<1> QED BY <1>1, <1>2, <1>3, <1>6, <1>7, <1>8, <1>9 DEF LoopType, Sectors, Pages

LEMMA TypeFill == ASSUME TypeInv, FillSector PROVE LoopType'
<1> DEFINE end == IF sectorEnd < sections[cur].hi THEN sectorEnd ELSE sections[cur].hi
<1>1. /\ buffer' = [i \in DOMAIN buffer |->
                      IF sectorAddr + i \in address .. end - 1
                      THEN sections[cur].mem[sectorAddr + i] ELSE buffer[i]]
      /\ address' = end
      /\ UNCHANGED <<cur, sectorAddr, sectorEnd, eraseEnd, flash, writes, erasures>>
      /\ address < sections[cur].hi
  BY DEF FillSector, devVars, InSection
<1>2. /\ sections[cur] \in PieceSet /\ sections[cur].hi \in Nat /\ sections[cur].hi <= FLASH_SIZE
      /\ address \in Nat /\ sections[cur].lo \in Nat /\ sections[cur].lo <= address
      /\ DOMAIN sections[cur].mem = sections[cur].lo .. sections[cur].hi - 1
  BY AddressFacts, PieceFacts DEF FillSector
<1>3. LoopType /\ sections \in Seq(PieceSet)
  BY DEF TypeInv, ShapeInv, PiecesOK
<1>4. end \in 0 .. FLASH_SIZE /\ end <= sections[cur].hi
  BY <1>2, <1>3, ProgramAssumption DEF LoopType
<1> HIDE DEF end
<1>5. sectorAddr \in Nat
  BY <1>3, SectorSet DEF LoopType, Addr
<1>6. buffer' \in [0 .. WRITE_SIZE - 1 -> BufferByte]
  <2>1. ASSUME NEW i \in 0 .. WRITE_SIZE - 1, sectorAddr + i \in address .. end - 1
        PROVE  sections[cur].mem[sectorAddr + i] \in BufferByte
    <3>1. sectorAddr + i \in DOMAIN sections[cur].mem
      BY <1>2, <1>4, <1>5, <2>1, ProgramAssumption
    <3>2. sections[cur].mem[sectorAddr + i] \in Byte
      BY <1>2, <3>1, PieceFacts
    <3> QED BY <3>2 DEF BufferByte
  <2> QED BY <1>1, <1>3, <2>1 DEF LoopType
<1> QED BY <1>1, <1>3, <1>4, <1>6 DEF LoopType, Sectors, Pages

\* The loop keeps its variables in their ranges.
LEMMA TypeProgram == ASSUME TypeInv, Programs PROVE LoopType'
<1>1. LoopType /\ ShapeInv /\ ShapeInv'
  BY ShapeProgram DEF TypeInv
<1>2. sections' \in Seq(PieceSet) /\ FitDevice(sections)'
  BY <1>1 DEF ShapeInv, PiecesOK
<1>3. FitDevice(sections')
  BY <1>2 DEF FitDevice
<1>4. CASE Begin
  <2>1. cur' = 1 /\ address' = StartOf(sections', 1)
        /\ UNCHANGED <<sectorAddr, sectorEnd, eraseEnd, buffer, flash, writes, erasures>>
    BY <1>4 DEF Begin, devVars
  <2>2. address' \in 0 .. FLASH_SIZE
    BY <1>2, <1>3, <2>1, StartOnDevice
  <2> QED BY <1>1, <2>1, <2>2 DEF LoopType, Sectors, Pages
<1>5. CASE NextSection
  <2>1. cur' = cur + 1 /\ address' = StartOf(sections', cur + 1)
        /\ UNCHANGED <<sectorAddr, sectorEnd, eraseEnd, buffer, flash, writes, erasures>>
    BY <1>5 DEF NextSection, devVars, imageVars
  <2>2. address' \in 0 .. FLASH_SIZE
    BY <1>2, <1>3, <2>1, StartOnDevice
  <2> QED BY <1>1, <2>1, <2>2 DEF LoopType, Sectors, Pages
<1>6. CASE Underflow
  <2>1. UNCHANGED <<cur, address, sectorAddr, sectorEnd, eraseEnd, buffer, flash, writes, erasures>>
    BY <1>6 DEF Underflow, loopVars, devVars
  <2> QED BY <1>1, <2>1 DEF LoopType, Sectors, Pages
<1>7. CASE Finish
  <2>1. /\ flash' = WrittenAt(flash, sectorAddr, buffer)
        /\ writes' = [writes EXCEPT ![sectorAddr] = @ + 1]
        /\ UNCHANGED <<cur, address, sectorAddr, sectorEnd, eraseEnd, buffer, erasures>>
    BY <1>7 DEF Finish, loopVars
  <2>2. sectorAddr \in Nat
    BY <1>1, SectorSet DEF LoopType, Addr
  <2>3. flash' \in [Addr -> BufferByte \cup {Old}]
    BY <1>1, <2>1, <2>2, WrittenType DEF LoopType
  <2>4. writes' \in [Sectors -> Nat]
    BY <1>1, <2>1 DEF LoopType
  <2> QED BY <1>1, <2>1, <2>3, <2>4 DEF LoopType, Sectors, Pages
<1> QED BY <1>4, <1>5, <1>6, <1>7, TypeSwitch, TypeFill DEF Programs, Program

\* The loop goes through the sorted list from its start to its end.
LEMMA PositionKept ==
  ASSUME TypeInv, Programs, phase' = "program"
  PROVE  Position'
<1>1. sections \in Seq(PieceSet) /\ sections' \in Seq(PieceSet)
  BY ShapeProgram DEF TypeInv, ShapeInv, PiecesOK
<1>2. /\ DOMAIN sections' = 1 .. Len(sections') /\ Len(sections') \in Nat
      /\ \A i \in DOMAIN sections' : sections'[i] \in PieceSet
  BY <1>1
<1>3. \A i \in DOMAIN sections' :
        /\ sections'[i].lo \in Nat /\ sections'[i].hi \in Nat
        /\ sections'[i].lo <= sections'[i].hi
  BY <1>2, PieceFacts
<1>4. CASE Begin
  <2>1. sections' = SortedSections /\ cur' = 1 /\ address' = StartOf(sections', 1)
    BY <1>4 DEF Begin
  <2>2. \A i, j \in DOMAIN sections' : i < j => sections'[i].lo <= sections'[j].lo
    BY <1>1, <2>1, SortKeeps
  <2>3. 1 \in DOMAIN sections' => address' = sections'[1].lo
    BY <2>1 DEF StartOf
  <2> QED BY <1>2, <1>3, <2>1, <2>2, <2>3 DEF Position
<1>5. CASE NextSection
  <2>1. phase = "program" /\ sections' = sections /\ cur \in DOMAIN sections
        /\ cur' = cur + 1 /\ address' = StartOf(sections', cur + 1)
    BY <1>5 DEF NextSection, imageVars
  <2>2. Position
    BY <2>1 DEF TypeInv
  <2>3. cur' \in DOMAIN sections' => address' = sections'[cur'].lo
    BY <2>1 DEF StartOf
  <2> QED BY <1>2, <1>3, <2>1, <2>2, <2>3 DEF Position
<1>6. CASE SwitchSector
  <2>1. phase = "program" /\ sections' = sections /\ UNCHANGED <<cur, address>>
    BY <1>6 DEF SwitchSector, imageVars
  <2>2. Position
    BY <2>1 DEF TypeInv
  <2> QED BY <2>1, <2>2 DEF Position
<1>7. CASE FillSector
  <2>1. /\ phase = "program" /\ sections' = sections /\ cur' = cur
        /\ address < sectorEnd /\ address < sections[cur].hi
        /\ address' = IF sectorEnd < sections[cur].hi THEN sectorEnd ELSE sections[cur].hi
    BY <1>7 DEF FillSector, InSection, imageVars
  <2>2. Position
    BY <2>1 DEF TypeInv
  <2>3. address \in Nat /\ sectorEnd \in Nat
    BY ProgramAssumption DEF TypeInv, LoopType
  <2> QED BY <1>3, <2>1, <2>2, <2>3 DEF Position
<1>8. CASE Underflow \/ Finish
  BY <1>8 DEF Underflow, Finish
<1> QED BY <1>4, <1>5, <1>6, <1>7, <1>8 DEF Programs, Program

\* While a file is read, the loop has not begun.
LEMMA ReadPhase ==
  ASSUME ReadsHex \/ ReadsElf
  PROVE  /\ phase = "loading"
         /\ phase' \in {"loading", "loaded", "refused", "failed", "terminated"}
         /\ UNCHANGED <<cur, address, sectorAddr, sectorEnd, eraseEnd, buffer, flash, writes, erasures>>
<1>1. UNCHANGED <<cur, address, sectorAddr, sectorEnd, eraseEnd, buffer, flash, writes, erasures>>
  BY DEF ReadsHex, ReadsElf, loopVars, devVars
<1>2. CASE ReadsHex
  <2>1. ReadHex
    BY <1>2 DEF ReadsHex
  <2>2. ASSUME NEW d \in DataRecords, DataRecord(d)
        PROVE  phase = "loading" /\ phase' \in {"loading", "refused"}
    <3>1. phase = "loading" /\ Process(RecordPiece(segment, d))
      BY <2>2 DEF DataRecord, ReadLine
    <3> QED BY <3>1 DEF Process, SkipEmpty, Extend, RefuseOverlap, Place
  <2>3. ASSUME NEW v, ExtSegAddr(v) \/ ExtAddr(v)
        PROVE  phase = "loading" /\ phase' = "loading"
    BY <2>3 DEF ExtSegAddr, ExtAddr, ReadLine, imageVars
  <2>4. ASSUME EndOfFile \/ BadRecord \/ EndsEarly
        PROVE  phase = "loading" /\ phase' \in {"loaded", "failed"}
    BY <2>4 DEF EndOfFile, BadRecord, EndsEarly, ReadLine
  <2> QED BY <1>1, <2>1, <2>2, <2>3, <2>4 DEF ReadHex
<1>3. CASE ReadsElf
  <2>1. ReadElf
    BY <1>3 DEF ReadsElf
  <2>2. CASE ReadHeader \/ ReadSection \/ ReadNames \/ ReadProgram \/ Opened
    BY <1>1, <2>2 DEF ReadHeader, ReadSection, ReadNames, ReadProgram, Opened, AtStage, Abandon, imageVars
  <2>3. CASE LoadProgram
    BY <1>1, <2>3 DEF LoadProgram, AtEntry, AtStage, Fill, Load, LoadFails, Take, Abandon, imageVars
  <2>4. CASE LoadSection
    BY <1>1, <2>4 DEF LoadSection, AtEntry, AtStage, Fill, Load, LoadFails, Take, Abandon, imageVars
  <2>5. CASE ImageRead
    BY <1>1, <2>5 DEF ImageRead, AtStage
  <2> QED BY <2>1, <2>2, <2>3, <2>4, <2>5 DEF ReadElf
<1> QED BY <1>2, <1>3

LEMMA TypeNext == TypeInv /\ [Next]_vars => TypeInv'
<1> SUFFICES ASSUME TypeInv, [Next]_vars PROVE TypeInv'
  OBVIOUS
<1>1. ShapeInv'
  BY ShapeNext DEF TypeInv
<1>2. ASSUME UNCHANGED <<cur, address, sectorAddr, sectorEnd, eraseEnd, buffer, flash, writes, erasures>>
      PROVE  LoopType'
  BY <1>2 DEF TypeInv, LoopType, Sectors, Pages
<1>3. CASE ReadsHex \/ ReadsElf
  BY <1>1, <1>2, <1>3, ReadPhase DEF TypeInv
<1>4. CASE Programs
  BY <1>1, <1>4, TypeProgram, PositionKept DEF TypeInv
<1>5. CASE UNCHANGED vars
  <2>1. /\ UNCHANGED <<cur, address, sectorAddr, sectorEnd, eraseEnd, buffer, flash, writes, erasures>>
        /\ UNCHANGED <<phase, sections>>
    BY <1>5 DEF vars, loopVars, devVars, imageVars
  <2> QED BY <1>1, <1>2, <2>1 DEF TypeInv, Position
<1> QED BY <1>3, <1>4, <1>5, NextForm

\* Every variable of the loader and of ImageProgrammer::program() keeps its type, and no
\* address leaves the device, for a device, sectors and pages of any size.
THEOREM TypeCorrect == Spec => []TypeOK
  BY TypeStart, TypeNext, TypeInvSuffices, PTL DEF Spec

-----------------------------------------------------------------------------
(***************************************************************************)
(* The loop and the device                                                 *)
(***************************************************************************)
\* The loop has taken address a from section i.
PassedBy(i, a) == a \in DOMAIN sections[i].mem /\ (i < cur \/ (i = cur /\ a < address))

Passed(a) == \E i \in DOMAIN sections : PassedBy(i, a)

\* The memory once the sector in the buffer is written.
Held(a) ==
  IF sectorEnd # 0 /\ a \in sectorAddr .. sectorAddr + WRITE_SIZE - 1
  THEN buffer[a - sectorAddr] ELSE flash[a]

Erased(a) == erasures[EraseAlign(a)] = 1

\* No sector has been prepared yet.
Untouched ==
  /\ sectorEnd = 0 /\ sectorAddr = 0 /\ eraseEnd = 0
  /\ \A page \in Pages : erasures[page] = 0
  /\ \A sector \in Sectors : writes[sector] = 0
  /\ \A a \in Addr : flash[a] = Old /\ ~Passed(a)

\* The sector in the buffer lies in the page that was erased last.
InPage ==
  /\ sectorEnd = sectorAddr + WRITE_SIZE
  /\ eraseEnd = EraseAlign(sectorAddr) + ERASE_SIZE
  /\ Erased(sectorAddr)

Prepared == Untouched \/ InPage

\* No page from the last erased one on was erased before, and no sector from the one in
\* the buffer on was written.
Wear ==
  /\ \A page \in Pages : erasures[page] <= 1 /\ (page >= eraseEnd => erasures[page] = 0)
  /\ \A sector \in Sectors :
       /\ sector >= sectorAddr => writes[sector] = 0
       /\ writes[sector] > 0 => writes[sector] = 1 /\ Erased(sector)

\* The addresses passed lie in erased pages in front of the end of the sector, the rest is
\* blank or old, and a page is erased for a byte of the image only.
RestKept ==
  /\ \A a \in Addr : Passed(a) => a < sectorEnd /\ Erased(a)
  /\ \A a \in Addr : ~Passed(a) => Held(a) = IF Erased(a) THEN Blank ELSE Old
  /\ \A page \in Pages :
       erasures[page] = 1 =>
         \E i \in DOMAIN sections : \E x \in DOMAIN sections[i].mem : EraseAlign(x) = page

\* The bytes passed are in the memory or in the buffer.
BytesKept ==
  \A i \in DOMAIN sections : \A a \in Addr : PassedBy(i, a) => Held(a) = sections[i].mem[a]

\* What is still to come lies behind the start of the sector.
AheadOfSector ==
  /\ cur \in DOMAIN sections /\ address < sections[cur].hi => sectorAddr <= address
  /\ \A j \in DOMAIN sections :
       j > cur /\ sections[j].lo # sections[j].hi => sectorAddr <= sections[j].lo

LoopInv ==
  /\ Prepared /\ Wear /\ RestKept
  /\ Disjoint(given) => BytesKept /\ AheadOfSector

\* The sector and the page SwitchSector goes to.
NewSector == SectorAlign(address)
NewPage   == EraseAlign(NewSector)

\* They lie behind the sector in the buffer, and the page behind the last erased one or at it.
LEMMA SwitchOrder ==
  ASSUME TypeInv, Prepared, SwitchSector
  PROVE  /\ NewSector \in Sectors /\ NewPage \in Pages
         /\ NewSector \in Nat /\ NewPage \in Nat
         /\ sectorEnd \in Nat /\ eraseEnd \in Nat /\ sectorAddr \in Nat
         /\ sectorEnd <= NewSector
         /\ sectorEnd # 0 => sectorAddr < sectorEnd
         /\ sectorEnd <= eraseEnd
         /\ NeedsErase(NewSector) => eraseEnd <= NewPage
         /\ ~NeedsErase(NewSector) =>
              sectorEnd # 0 /\ NewPage = EraseAlign(sectorAddr) /\ eraseEnd = NewPage + ERASE_SIZE
<1>1. /\ NewSector \in Sectors /\ NewPage \in Pages /\ NewSector \in Nat /\ NewPage \in Nat
      /\ NewPage <= NewSector /\ NewSector <= address /\ address < NewSector + WRITE_SIZE
      /\ NewSector < NewPage + ERASE_SIZE /\ address \in Nat
      /\ Multiple(NewSector, WRITE_SIZE) /\ Multiple(NewPage, ERASE_SIZE)
  BY AddressFacts, ProgramAssumption DEF SwitchSector, NewSector, NewPage
<1>2. address >= sectorEnd
  BY DEF SwitchSector
<1>3. WRITE_SIZE \in Nat \ {0} /\ ERASE_SIZE \in Nat \ {0} /\ FLASH_SIZE \in Nat
  BY ProgramAssumption
<1>4. /\ sectorAddr \in Sectors /\ sectorEnd \in Nat /\ eraseEnd \in Nat
      /\ sectorAddr \in Nat
      /\ Multiple(sectorAddr, WRITE_SIZE)
      /\ EraseAlign(sectorAddr) \in Pages /\ EraseAlign(sectorAddr) <= sectorAddr
      /\ sectorAddr + WRITE_SIZE <= EraseAlign(sectorAddr) + ERASE_SIZE
      /\ EraseAlign(sectorAddr) \in Nat
      /\ Multiple(EraseAlign(sectorAddr), ERASE_SIZE)
  BY <1>3, SectorSet DEF TypeInv, LoopType, Addr
<1>5. CASE Untouched
  BY <1>1, <1>3, <1>4, <1>5 DEF Untouched, NeedsErase
<1>6. CASE InPage
  <2>1. sectorEnd = sectorAddr + WRITE_SIZE /\ eraseEnd = EraseAlign(sectorAddr) + ERASE_SIZE
    BY <1>6 DEF InPage
  <2>2. Multiple(sectorEnd, WRITE_SIZE) /\ Multiple(eraseEnd, ERASE_SIZE)
    BY <1>3, <1>4, <2>1, MultiplePlus, MultipleSelf
  <2>3. sectorEnd <= NewSector
    <3>1. NewSector < sectorEnd => NewSector + WRITE_SIZE <= sectorEnd
      BY <1>1, <1>3, <2>2, MultipleStep
    <3> QED BY <1>1, <1>2, <1>3, <1>4, <3>1
  <2>4. NeedsErase(NewSector) => eraseEnd <= NewPage
    <3>1. NewPage < eraseEnd => NewPage + ERASE_SIZE <= eraseEnd
      BY <1>1, <1>3, <2>2, MultipleStep
    <3> QED BY <1>1, <1>3, <1>4, <3>1 DEF NeedsErase
  <2>5. ~NeedsErase(NewSector) => NewPage = EraseAlign(sectorAddr)
    <3> SUFFICES ASSUME ~NeedsErase(NewSector) PROVE NewPage = EraseAlign(sectorAddr)
      OBVIOUS
    <3>1. EraseAlign(sectorAddr) <= NewSector /\ NewSector < EraseAlign(sectorAddr) + ERASE_SIZE
      BY <1>1, <1>3, <1>4, <2>1, <2>3 DEF NeedsErase
    <3> QED BY <1>1, <1>4, <3>1, PageOf DEF NewPage
  <2> QED BY <1>1, <1>3, <1>4, <2>1, <2>3, <2>4, <2>5
<1> QED BY <1>5, <1>6 DEF Prepared

\* The page of an address.
LEMMA InItsPage ==
  ASSUME NEW page \in Pages, NEW a \in Addr
  PROVE  (a \in page .. page + ERASE_SIZE - 1) <=> (EraseAlign(a) = page)
<1>1. a \in Nat /\ page \in Nat /\ Multiple(page, ERASE_SIZE) /\ ERASE_SIZE \in Nat \ {0}
  BY SectorSet, ProgramAssumption DEF Addr
<1>2. EraseAlign(a) \in Nat /\ EraseAlign(a) <= a /\ a < EraseAlign(a) + ERASE_SIZE
  BY <1>1, PageFacts
<1>3. page <= a /\ a < page + ERASE_SIZE => EraseAlign(a) = page
  BY <1>1, PageOf
<1> QED BY <1>1, <1>2, <1>3

\* What SwitchSector does to the device: it writes the sector that is complete, and erases
\* the page when it is a new one.
LEMMA SwitchDevice ==
  ASSUME TypeInv, Prepared, Wear, SwitchSector
  PROVE  /\ eraseEnd' = NewPage + ERASE_SIZE
         /\ eraseEnd <= eraseEnd'
         /\ \A page \in Pages :
              /\ erasures'[page] = IF page = NewPage THEN 1 ELSE erasures[page]
              /\ erasures[page] = 1 => erasures'[page] = 1
         /\ \A sector \in Sectors :
              writes'[sector] =
                IF sectorEnd # 0 /\ sector = sectorAddr THEN writes[sector] + 1 ELSE writes[sector]
         /\ \A a \in Addr :
              flash'[a] =
                IF NeedsErase(NewSector) /\ EraseAlign(a) = NewPage THEN Blank ELSE Held(a)
<1> DEFINE old == IF sectorEnd # 0 THEN WrittenAt(flash, sectorAddr, buffer) ELSE flash
<1>1. /\ NewSector \in Sectors /\ NewPage \in Pages
      /\ NewSector \in Nat /\ NewPage \in Nat
      /\ sectorEnd \in Nat /\ eraseEnd \in Nat /\ sectorAddr \in Nat
      /\ NeedsErase(NewSector) => eraseEnd <= NewPage
      /\ ~NeedsErase(NewSector) =>
           sectorEnd # 0 /\ NewPage = EraseAlign(sectorAddr) /\ eraseEnd = NewPage + ERASE_SIZE
  BY SwitchOrder
<1>2. ERASE_SIZE \in Nat \ {0}
  BY ProgramAssumption
<1>3. /\ flash \in [Addr -> BufferByte \cup {Old}]
      /\ writes \in [Sectors -> Nat] /\ erasures \in [Pages -> Nat]
  BY DEF TypeInv, LoopType
<1>4. /\ writes' = IF sectorEnd # 0 THEN [writes EXCEPT ![sectorAddr] = @ + 1] ELSE writes
      /\ \/ /\ NeedsErase(NewSector)
            /\ flash' = ErasedAt(old, NewPage)
            /\ erasures' = [erasures EXCEPT ![NewPage] = @ + 1]
            /\ eraseEnd' = NewPage + ERASE_SIZE
         \/ /\ ~NeedsErase(NewSector)
            /\ flash' = old
            /\ erasures' = erasures /\ eraseEnd' = eraseEnd
  BY DEF SwitchSector, NewSector, NewPage
<1>5. \A a \in Addr : old[a] = Held(a)
  BY <1>3 DEF WrittenAt, Held
<1> HIDE DEF old
<1>6. eraseEnd' = NewPage + ERASE_SIZE /\ eraseEnd <= eraseEnd'
  BY <1>1, <1>2, <1>4
<1>7. \A page \in Pages :
        /\ erasures'[page] = IF page = NewPage THEN 1 ELSE erasures[page]
        /\ erasures[page] = 1 => erasures'[page] = 1
  <2>1. CASE NeedsErase(NewSector)
    <3>1. erasures[NewPage] = 0
      BY <1>1, <2>1 DEF Wear
    <3>2. erasures' = [erasures EXCEPT ![NewPage] = @ + 1]
      BY <1>4, <2>1
    <3> QED BY <1>1, <1>3, <3>1, <3>2
  <2>2. CASE ~NeedsErase(NewSector)
    <3>1. erasures' = erasures /\ NewPage = EraseAlign(sectorAddr) /\ sectorEnd # 0
      BY <1>1, <1>4, <2>2
    <3>2. erasures[NewPage] = 1
      BY <3>1 DEF Prepared, Untouched, InPage, Erased
    <3> QED BY <3>1, <3>2
  <2> QED BY <2>1, <2>2
<1>8. \A sector \in Sectors :
        writes'[sector] =
          IF sectorEnd # 0 /\ sector = sectorAddr THEN writes[sector] + 1 ELSE writes[sector]
  BY <1>3, <1>4
<1>9. ASSUME NEW a \in Addr
      PROVE  flash'[a] = IF NeedsErase(NewSector) /\ EraseAlign(a) = NewPage THEN Blank ELSE Held(a)
  <2>1. CASE NeedsErase(NewSector)
    <3>1. flash' = ErasedAt(old, NewPage)
      BY <1>4, <2>1
    <3>2. flash'[a] = IF a \in NewPage .. NewPage + ERASE_SIZE - 1 THEN Blank ELSE old[a]
      BY <3>1 DEF ErasedAt
    <3> QED BY <1>1, <1>5, <2>1, <3>2, InItsPage
  <2>2. CASE ~NeedsErase(NewSector)
    BY <1>4, <1>5, <2>2
  <2> QED BY <2>1, <2>2
<1> QED BY <1>6, <1>7, <1>8, <1>9

\* Preparing a sector wears neither a page nor a sector twice.
LEMMA SwitchWear ==
  ASSUME TypeInv, Prepared, Wear, SwitchSector
  PROVE  InPage' /\ Wear'
<1>1. /\ NewSector \in Sectors /\ NewPage \in Pages /\ NewSector \in Nat /\ NewPage \in Nat
      /\ sectorEnd \in Nat /\ eraseEnd \in Nat /\ sectorAddr \in Nat
      /\ sectorEnd <= NewSector
      /\ sectorEnd # 0 => sectorAddr < sectorEnd
  BY SwitchOrder
<1>2. /\ eraseEnd' = NewPage + ERASE_SIZE /\ eraseEnd <= eraseEnd'
      /\ \A page \in Pages :
           /\ erasures'[page] = IF page = NewPage THEN 1 ELSE erasures[page]
           /\ erasures[page] = 1 => erasures'[page] = 1
      /\ \A sector \in Sectors :
           writes'[sector] =
             IF sectorEnd # 0 /\ sector = sectorAddr THEN writes[sector] + 1 ELSE writes[sector]
  BY SwitchDevice
<1>3. sectorAddr' = NewSector /\ sectorEnd' = NewSector + WRITE_SIZE
  BY DEF SwitchSector, NewSector
<1>4. InPage'
  BY <1>1, <1>2, <1>3 DEF InPage, Erased, NewPage
<1>5. /\ ERASE_SIZE \in Nat \ {0}
      /\ \A page \in Pages : page \in Nat
      /\ \A sector \in Sectors : sector \in Nat /\ EraseAlign(sector) \in Pages
  BY SectorSet, ProgramAssumption DEF Addr
<1>6. erasures \in [Pages -> Nat] /\ writes \in [Sectors -> Nat] /\ sectorAddr \in Sectors
  BY DEF TypeInv, LoopType
<1>7. ASSUME NEW page \in Pages
      PROVE  erasures'[page] <= 1 /\ (page >= eraseEnd' => erasures'[page] = 0)
  <2>1. erasures[page] <= 1 /\ (page >= eraseEnd => erasures[page] = 0)
    BY DEF Wear
  <2> QED BY <1>1, <1>2, <1>5, <2>1
<1>8. ASSUME NEW sector \in Sectors
      PROVE  /\ sector >= sectorAddr' => writes'[sector] = 0
             /\ writes'[sector] > 0 => writes'[sector] = 1 /\ Erased(sector)'
  <2>1. /\ sector >= sectorAddr => writes[sector] = 0
        /\ writes[sector] > 0 => writes[sector] = 1 /\ erasures[EraseAlign(sector)] = 1
    BY DEF Wear, Erased
  <2>2. writes[sector] \in Nat /\ sector \in Nat /\ writes[sectorAddr] \in Nat
    BY <1>5, <1>6
  <2>3. sectorEnd # 0 => erasures[EraseAlign(sectorAddr)] = 1
    BY DEF Prepared, Untouched, InPage, Erased
  <2>4. sectorEnd = 0 => writes[sector] = 0
    BY <1>1, ProgramAssumption DEF Prepared, Untouched, InPage
  <2>5. sector >= sectorAddr' => writes'[sector] = 0
    BY <1>1, <1>2, <1>3, <2>1, <2>2, <2>4
  <2>6. ASSUME writes'[sector] > 0
        PROVE  writes'[sector] = 1 /\ erasures[EraseAlign(sector)] = 1
    BY <1>2, <2>1, <2>2, <2>3, <2>6
  <2> QED BY <1>2, <1>5, <2>5, <2>6 DEF Erased
<1> QED BY <1>4, <1>7, <1>8 DEF Wear

\* Preparing a sector keeps what is in the memory and in the buffer.
LEMMA SwitchKeeps ==
  ASSUME TypeInv, Prepared, Wear, RestKept, SwitchSector
  PROVE  /\ RestKept'
         /\ BytesKept => BytesKept'
<1>1. /\ NewSector \in Sectors /\ NewPage \in Pages /\ NewSector \in Nat /\ NewPage \in Nat
      /\ sectorEnd \in Nat /\ eraseEnd \in Nat /\ sectorAddr \in Nat
      /\ sectorEnd <= NewSector /\ sectorEnd <= eraseEnd
      /\ NeedsErase(NewSector) => eraseEnd <= NewPage
  BY SwitchOrder
<1>2. /\ \A page \in Pages :
           /\ erasures'[page] = IF page = NewPage THEN 1 ELSE erasures[page]
           /\ erasures[page] = 1 => erasures'[page] = 1
      /\ \A a \in Addr :
           flash'[a] = IF NeedsErase(NewSector) /\ EraseAlign(a) = NewPage THEN Blank ELSE Held(a)
  BY SwitchDevice
<1>3. /\ sectorAddr' = NewSector /\ sectorEnd' = NewSector + WRITE_SIZE /\ buffer' = Fresh
      /\ sections' = sections /\ cur' = cur /\ address' = address
  BY DEF SwitchSector, NewSector, imageVars
<1>4. \A i, a : PassedBy(i, a)' <=> PassedBy(i, a)
  BY <1>3 DEF PassedBy
<1>5. \A a : Passed(a)' <=> Passed(a)
  BY <1>3, <1>4 DEF Passed
<1>6. WRITE_SIZE \in Nat \ {0} /\ ERASE_SIZE \in Nat \ {0}
      /\ \A a \in Addr : a \in Nat /\ EraseAlign(a) \in Pages
  BY ProgramAssumption, SectorSet DEF Addr
<1>7. \A a \in Addr :
        Held(a)' = IF a \in NewSector .. NewSector + WRITE_SIZE - 1 THEN Blank ELSE flash'[a]
  <2> TAKE a \in Addr
  <2>1. sectorEnd' # 0
    BY <1>1, <1>3, <1>6
  <2>2. a \in NewSector .. NewSector + WRITE_SIZE - 1 =>
          a - NewSector \in 0 .. WRITE_SIZE - 1
    BY <1>1, <1>6
  <2>3. Held(a)' = IF a \in NewSector .. NewSector + WRITE_SIZE - 1
                   THEN Fresh[a - NewSector] ELSE flash'[a]
    BY <1>3, <2>1 DEF Held
  <2> QED BY <2>2, <2>3 DEF Fresh
\* The sector lies in its page.
<1>8. \A a \in Addr : a \in NewSector .. NewSector + WRITE_SIZE - 1 => EraseAlign(a) = NewPage
  <2> TAKE a \in Addr
  <2> HAVE a \in NewSector .. NewSector + WRITE_SIZE - 1
  <2>1. NewPage <= NewSector /\ NewSector + WRITE_SIZE <= NewPage + ERASE_SIZE
    BY <1>1, SectorSet DEF NewPage
  <2>2. a \in NewPage .. NewPage + ERASE_SIZE - 1
    BY <1>1, <1>6, <2>1
  <2> QED BY <1>1, <2>2, InItsPage
<1>9. ASSUME NEW a \in Addr, Passed(a)
      PROVE  a < sectorEnd' /\ Erased(a)' /\ Held(a)' = Held(a)
  <2>1. a < sectorEnd /\ erasures[EraseAlign(a)] = 1
    BY <1>9 DEF RestKept, Erased
  <2>2. a \notin NewSector .. NewSector + WRITE_SIZE - 1 /\ a < sectorEnd'
    BY <1>1, <1>3, <1>6, <2>1
  <2>3. Erased(a)'
    BY <1>2, <1>6, <2>1 DEF Erased
  <2>4. ~(NeedsErase(NewSector) /\ EraseAlign(a) = NewPage)
    <3>1. EraseAlign(a) <= a
      BY <1>6, PageFacts
    <3> QED BY <1>1, <1>6, <2>1, <3>1, PageFacts
  <2> QED BY <1>2, <1>7, <2>2, <2>3, <2>4
<1>10. ASSUME NEW a \in Addr, ~Passed(a)
       PROVE  Held(a)' = IF Erased(a)' THEN Blank ELSE Old
  <2>1. Held(a) = IF erasures[EraseAlign(a)] = 1 THEN Blank ELSE Old
    BY <1>10 DEF RestKept, Erased
  <2>2. Erased(a)' <=> erasures'[EraseAlign(a)] = 1
    BY DEF Erased
  <2>3. CASE EraseAlign(a) = NewPage
    <3>1. Erased(a)'
      BY <1>1, <1>2, <2>2, <2>3
    <3>2. flash'[a] = Blank
      <4>1. CASE NeedsErase(NewSector)
        BY <1>2, <2>3, <4>1
      <4>2. CASE ~NeedsErase(NewSector)
        <5>1. erasures[EraseAlign(a)] = 1
          BY <2>3, <4>2, SwitchOrder DEF Prepared, Untouched, InPage, Erased
        <5> QED BY <1>2, <2>1, <4>2, <5>1
      <4> QED BY <4>1, <4>2
    <3> QED BY <1>7, <3>1, <3>2
  <2>4. CASE EraseAlign(a) # NewPage
    <3>1. Held(a)' = Held(a)
      BY <1>2, <1>7, <1>8, <2>4
    <3>2. erasures'[EraseAlign(a)] = erasures[EraseAlign(a)]
      BY <1>2, <1>6, <2>4
    <3> QED BY <2>1, <2>2, <3>1, <3>2
  <2> QED BY <2>3, <2>4
<1>11. ASSUME NEW page \in Pages, erasures'[page] = 1
       PROVE  \E i \in DOMAIN sections : \E x \in DOMAIN sections[i].mem : EraseAlign(x) = page
  <2>1. CASE page = NewPage
    <3>1. /\ cur \in DOMAIN sections /\ address \in DOMAIN sections[cur].mem /\ address \in Nat
      BY AddressFacts DEF SwitchSector
    <3>2. EraseAlign(address) = NewPage
      BY <3>1, SectorInPage DEF NewPage, NewSector
    <3> QED BY <2>1, <3>1, <3>2
  <2>2. CASE page # NewPage
    BY <1>2, <1>11, <2>2 DEF RestKept
  <2> QED BY <2>1, <2>2
<1>12. RestKept'
  BY <1>3, <1>5, <1>9, <1>10, <1>11 DEF RestKept
<1>13. ASSUME BytesKept PROVE BytesKept'
  <2> SUFFICES ASSUME NEW i \in DOMAIN sections, NEW a \in Addr, PassedBy(i, a)
               PROVE  Held(a)' = sections[i].mem[a]
    BY <1>3, <1>4 DEF BytesKept
  <2>1. Passed(a)
    BY DEF Passed
  <2> QED BY <1>9, <1>13, <2>1 DEF BytesKept
<1> QED BY <1>12, <1>13

\* Sections that do not overlap and start in order end in order.
LEMMA OrderedApart ==
  ASSUME sections \in Seq(PieceSet), Disjoint(sections),
         NEW i \in DOMAIN sections, NEW j \in DOMAIN sections, i # j,
         sections[i].lo <= sections[j].lo,
         sections[i].lo # sections[i].hi, sections[j].lo # sections[j].hi
  PROVE  sections[i].hi <= sections[j].lo
<1>1. /\ sections[i].lo \in Nat /\ sections[i].hi \in Nat /\ sections[i].lo <= sections[i].hi
      /\ sections[j].lo \in Nat /\ sections[j].hi \in Nat /\ sections[j].lo <= sections[j].hi
  BY PieceFacts
<1>2. ~Overlap(sections[i], sections[j])
  BY DEF Disjoint
<1> QED BY <1>1, <1>2 DEF Overlap

\* The sector prepared lies in front of all that is still to come.
LEMMA SwitchAhead ==
  ASSUME TypeInv, Disjoint(sections), SwitchSector
  PROVE  AheadOfSector'
<1>1. sectorAddr' = SectorAlign(address) /\ UNCHANGED <<sections, cur, address>>
  BY DEF SwitchSector, imageVars
<1>2. /\ cur \in DOMAIN sections /\ address < sections[cur].hi /\ address \in Nat
      /\ SectorAlign(address) <= address /\ SectorAlign(address) \in Nat
      /\ sections[cur].lo <= address /\ sections[cur].lo \in Nat /\ sections[cur].hi \in Nat
  BY AddressFacts DEF SwitchSector
<1>3. sections \in Seq(PieceSet) /\ Position
  BY DEF TypeInv, ShapeInv, PiecesOK, SwitchSector, InSection
<1>4. ASSUME NEW j \in DOMAIN sections, j > cur, sections[j].lo # sections[j].hi
      PROVE  SectorAlign(address) <= sections[j].lo
  <2>1. sections[cur].lo <= sections[j].lo /\ cur # j /\ sections[cur].lo # sections[cur].hi
    BY <1>2, <1>3, <1>4 DEF Position
  <2>2. sections[cur].hi <= sections[j].lo
    BY <1>2, <1>3, <1>4, <2>1, OrderedApart
  <2>3. sections[j].lo \in Nat
    BY <1>3, PieceFacts
  <2> QED BY <1>2, <2>2, <2>3
<1> QED BY <1>1, <1>2, <1>4 DEF AheadOfSector

\* Preparing a sector.
LEMMA LoopSwitch ==
  ASSUME TypeInv, LoopInv, Disjoint(given) => Disjoint(sections), SwitchSector
  PROVE  LoopInv'
<1>1. InPage' /\ Wear'
  BY SwitchWear DEF LoopInv
<1>2. RestKept' /\ (BytesKept => BytesKept')
  BY SwitchKeeps DEF LoopInv
<1>3. Disjoint(sections) => AheadOfSector'
  BY SwitchAhead
<1>4. given' = given
  BY DEF SwitchSector, imageVars
<1>5. Disjoint(given)' = Disjoint(given)
  BY <1>4 DEF Disjoint
<1> QED BY <1>1, <1>2, <1>3, <1>5 DEF LoopInv, Prepared

\* What is passed after part of the section was copied.
LEMMA FillPasses ==
  ASSUME TypeInv, FillSector
  PROVE  /\ UNCHANGED <<sections, given, cur, sectorAddr, sectorEnd, eraseEnd>>
         /\ UNCHANGED <<flash, writes, erasures>>
         /\ sections[cur] \in PieceSet /\ cur \in DOMAIN sections /\ cur \in Nat
         /\ address \in Nat /\ address' \in Nat /\ address <= address'
         /\ address' <= sectorEnd /\ address' <= sections[cur].hi
         /\ sectorAddr \in Nat /\ sectorEnd \in Nat
         /\ sectorAddr <= address /\ address < sectorEnd
         /\ sections[cur].lo \in Nat /\ sections[cur].hi \in Nat /\ sections[cur].lo <= address
         /\ DOMAIN sections[cur].mem = sections[cur].lo .. sections[cur].hi - 1
         /\ buffer' = [i \in DOMAIN buffer |->
                         IF sectorAddr + i \in address .. address' - 1
                         THEN sections[cur].mem[sectorAddr + i] ELSE buffer[i]]
         /\ DOMAIN buffer = 0 .. WRITE_SIZE - 1
<1>1. /\ UNCHANGED <<sections, given, cur, sectorAddr, sectorEnd, eraseEnd>>
      /\ UNCHANGED <<flash, writes, erasures>>
      /\ address' = IF sectorEnd < sections[cur].hi THEN sectorEnd ELSE sections[cur].hi
      /\ sectorAddr <= address /\ address < sectorEnd
  BY DEF FillSector, imageVars, devVars
<1>2. buffer' = [i \in DOMAIN buffer |->
                   IF sectorAddr + i \in address .. address' - 1
                   THEN sections[cur].mem[sectorAddr + i] ELSE buffer[i]]
  BY DEF FillSector
<1>3. /\ sections[cur] \in PieceSet /\ cur \in DOMAIN sections
      /\ address \in Nat /\ address < sections[cur].hi
      /\ sections[cur].lo \in Nat /\ sections[cur].hi \in Nat /\ sections[cur].lo <= address
  BY AddressFacts DEF FillSector
<1>4. DOMAIN sections[cur].mem = sections[cur].lo .. sections[cur].hi - 1
  BY <1>3, PieceFacts
<1>5. /\ sectorAddr \in Nat /\ sectorEnd \in Nat /\ cur \in Nat
      /\ DOMAIN buffer = 0 .. WRITE_SIZE - 1
  BY SectorSet, ProgramAssumption DEF TypeInv, LoopType, Addr
<1> QED BY <1>1, <1>2, <1>3, <1>4, <1>5

\* Copying part of a section into the buffer keeps the rest as it is.
LEMMA FillKeeps ==
  ASSUME TypeInv, Prepared, RestKept, FillSector
  PROVE  /\ InPage'
         /\ RestKept'
         /\ Disjoint(sections) /\ BytesKept => BytesKept'
<1>1. /\ UNCHANGED <<sections, given, cur, sectorAddr, sectorEnd, eraseEnd>>
      /\ UNCHANGED <<flash, writes, erasures>>
      /\ sections[cur] \in PieceSet /\ cur \in DOMAIN sections /\ cur \in Nat
      /\ address \in Nat /\ address' \in Nat /\ address <= address'
      /\ address' <= sectorEnd /\ address' <= sections[cur].hi
      /\ sectorAddr \in Nat /\ sectorEnd \in Nat
      /\ sectorAddr <= address /\ address < sectorEnd
      /\ sections[cur].lo \in Nat /\ sections[cur].hi \in Nat /\ sections[cur].lo <= address
      /\ DOMAIN sections[cur].mem = sections[cur].lo .. sections[cur].hi - 1
      /\ DOMAIN buffer = 0 .. WRITE_SIZE - 1
  BY FillPasses
<1>2. InPage
  BY <1>1 DEF Prepared, Untouched
<1>3. InPage'
  BY <1>1, <1>2 DEF InPage, Erased
<1>4. /\ sectorEnd = sectorAddr + WRITE_SIZE /\ sectorEnd # 0 /\ sectorEnd' # 0
      /\ WRITE_SIZE \in Nat \ {0}
  BY <1>1, <1>2, ProgramAssumption DEF InPage
\* The bytes between the old and the new address are copied.
<1> DEFINE copied == address .. address' - 1
<1>5. \A a \in Addr : a \in Nat
  BY DEF Addr
<1>6. /\ copied \subseteq DOMAIN sections[cur].mem
      /\ copied \subseteq sectorAddr .. sectorAddr + WRITE_SIZE - 1
      /\ \A a \in Addr : a \in copied <=> (a >= address /\ a < address')
  <2>1. ASSUME NEW e \in Nat, address <= e, e <= sectorEnd, e <= sections[cur].hi
        PROVE  /\ address .. e - 1 \subseteq sections[cur].lo .. sections[cur].hi - 1
               /\ address .. e - 1 \subseteq sectorAddr .. sectorAddr + WRITE_SIZE - 1
               /\ \A a \in Nat : a \in address .. e - 1 <=> (a >= address /\ a < e)
    <3>1. /\ address \in Nat /\ sectorAddr \in Nat /\ sections[cur].lo \in Nat
          /\ sections[cur].hi \in Nat /\ WRITE_SIZE \in Nat
          /\ sections[cur].lo <= address /\ sectorAddr <= address
          /\ sectorEnd = sectorAddr + WRITE_SIZE
      BY <1>1, <1>4
    <3> QED BY <2>1, <3>1
  <2>2. address' \in Nat /\ address <= address' /\ address' <= sectorEnd /\ address' <= sections[cur].hi
    BY <1>1
  <2> QED BY <1>1, <1>5, <2>1, <2>2
<1>7. \A i \in DOMAIN sections : \A a \in Addr :
        PassedBy(i, a)' <=> (PassedBy(i, a) \/ (i = cur /\ a \in copied))
  <2> TAKE i \in DOMAIN sections
  <2> TAKE a \in Addr
  <2>1. CASE i = cur
    BY <1>1, <1>5, <1>6, <2>1 DEF PassedBy
  <2>2. CASE i # cur
    BY <1>1, <2>2 DEF PassedBy
  <2> QED BY <2>1, <2>2
<1>8. \A a \in Addr : Passed(a)' <=> (Passed(a) \/ a \in copied)
  BY <1>1, <1>7 DEF Passed
<1>9. \A a \in Addr : Held(a)' = IF a \in copied THEN sections[cur].mem[a] ELSE Held(a)
  <2> TAKE a \in Addr
  <2>1. CASE a \in sectorAddr .. sectorAddr + WRITE_SIZE - 1
    <3>1. PICK n \in 0 .. WRITE_SIZE - 1 : n = a - sectorAddr /\ a = sectorAddr + n
      BY <1>1, <1>4, <1>5, <2>1
    <3>2. buffer'[n] = IF sectorAddr + n \in copied
                       THEN sections[cur].mem[sectorAddr + n] ELSE buffer[n]
      BY <1>1, <3>1, FillPasses
    <3>3. Held(a)' = buffer'[n] /\ Held(a) = buffer[n]
      BY <1>1, <1>4, <2>1, <3>1 DEF Held
    <3> HIDE DEF copied
    <3> QED BY <3>1, <3>2, <3>3
  <2>2. CASE a \notin sectorAddr .. sectorAddr + WRITE_SIZE - 1
    <3>1. Held(a)' = flash[a] /\ Held(a) = flash[a]
      BY <1>1, <2>2 DEF Held
    <3> QED BY <1>6, <2>2, <3>1
  <2> QED BY <2>1, <2>2
<1>12. \A a \in Addr : a \in copied => sectorAddr <= a /\ a < sectorEnd
  <2> HIDE DEF copied
  <2> TAKE a \in Addr
  <2> HAVE a \in copied
  <2>1. a \in Nat /\ a >= address /\ a < address'
    BY <1>5, <1>6
  <2> QED BY <1>1, <2>1
\* The sector has one page, and that is erased.
<1>10. \A a \in Addr : a \in copied => Erased(a)
  <2> TAKE a \in Addr
  <2> HAVE a \in copied
  <2>1. sectorAddr \in Sectors /\ EraseAlign(sectorAddr) \in Pages
    BY SectorSet DEF TypeInv, LoopType
  <2>2. /\ EraseAlign(sectorAddr) <= sectorAddr /\ EraseAlign(sectorAddr) \in Nat
        /\ sectorAddr + WRITE_SIZE <= EraseAlign(sectorAddr) + ERASE_SIZE
    BY <2>1, SectorSet DEF Addr
  <2>3. a \in Nat /\ sectorAddr <= a /\ a < sectorAddr + WRITE_SIZE
    BY <1>1, <1>4, <1>5, <1>12
  <2>5. a \in EraseAlign(sectorAddr) .. EraseAlign(sectorAddr) + ERASE_SIZE - 1
    <3>1. sectorAddr \in Nat /\ WRITE_SIZE \in Nat /\ ERASE_SIZE \in Nat
      BY <1>4, <2>1, SectorSet, ProgramAssumption DEF Addr
    <3> QED BY <2>2, <2>3, <3>1
  <2>4. EraseAlign(a) = EraseAlign(sectorAddr)
    BY <2>1, <2>5, InItsPage
  <2> QED BY <1>2, <2>4 DEF InPage, Erased
<1>11. \A a : Erased(a)' <=> Erased(a)
  BY <1>1 DEF Erased
<1> HIDE DEF copied
<1>13. RestKept'
  BY <1>1, <1>8, <1>9, <1>10, <1>11, <1>12 DEF RestKept
<1>14. ASSUME Disjoint(sections), BytesKept
       PROVE  BytesKept'
  <2> SUFFICES ASSUME NEW i \in DOMAIN sections, NEW a \in Addr, PassedBy(i, a)'
               PROVE  Held(a)' = sections[i].mem[a]
    BY <1>1 DEF BytesKept
  <2>1. CASE a \notin copied
    BY <1>7, <1>9, <1>14, <2>1 DEF BytesKept
  <2>2. CASE a \in copied
    <3>1. i = cur
      <4> SUFFICES ASSUME i # cur PROVE FALSE
        OBVIOUS
      <4>1. a \in DOMAIN sections[i].mem /\ a \in DOMAIN sections[cur].mem
        BY <1>6, <1>7, <2>2 DEF PassedBy
      <4>2. sections[i] \in PieceSet
        BY DEF TypeInv, ShapeInv, PiecesOK
      <4>3. Overlap(sections[i], sections[cur])
        BY <1>1, <4>1, <4>2, OverlapMeansShared
      <4> QED BY <1>1, <1>14, <4>3 DEF Disjoint
    <3> QED BY <1>9, <2>2, <3>1
  <2> QED BY <2>1, <2>2
<1> QED BY <1>3, <1>13, <1>14

\* Filling the sector.
LEMMA LoopFill ==
  ASSUME TypeInv, LoopInv, Disjoint(given) => Disjoint(sections), FillSector
  PROVE  LoopInv'
<1>1. InPage' /\ RestKept' /\ (Disjoint(sections) /\ BytesKept => BytesKept')
  BY FillKeeps DEF LoopInv
<1>2. /\ UNCHANGED <<sections, given, cur, sectorAddr, sectorEnd, eraseEnd>>
      /\ UNCHANGED <<flash, writes, erasures>>
      /\ address \in Nat /\ address' \in Nat /\ address <= address'
      /\ sectorAddr \in Nat /\ sectorAddr <= address
  BY FillPasses
<1>3. Wear'
  BY <1>2 DEF LoopInv, Wear, Erased
<1>4. AheadOfSector => AheadOfSector'
  BY <1>2 DEF AheadOfSector
<1>5. Disjoint(given)' = Disjoint(given)
  BY <1>2 DEF Disjoint
<1> QED BY <1>1, <1>3, <1>4, <1>5 DEF LoopInv, Prepared

\* Going to the next section.
LEMMA LoopNextSection ==
  ASSUME TypeInv, LoopInv, Disjoint(given) => Disjoint(sections), NextSection
  PROVE  LoopInv'
<1>1. /\ UNCHANGED <<sections, given, sectorAddr, sectorEnd, eraseEnd, buffer>>
      /\ UNCHANGED <<flash, writes, erasures>>
      /\ cur \in DOMAIN sections /\ address >= sections[cur].hi
      /\ cur' = cur + 1
      /\ cur + 1 \in DOMAIN sections => address' = sections[cur + 1].lo
  BY DEF NextSection, imageVars, devVars, StartOf
<1>2. /\ sections \in Seq(PieceSet) /\ cur \in Nat /\ address \in Nat
      /\ DOMAIN sections = 1 .. Len(sections) /\ Len(sections) \in Nat
      /\ sectorAddr \in Nat
  BY ProgramAssumption, SectorSet DEF TypeInv, LoopType, ShapeInv, PiecesOK, Addr
<1>3. \A i \in DOMAIN sections :
        /\ sections[i].lo \in Nat /\ sections[i].hi \in Nat /\ i \in Nat
        /\ sections[i].lo <= sections[i].hi
        /\ DOMAIN sections[i].mem = sections[i].lo .. sections[i].hi - 1
  BY <1>2, PieceFacts
<1>4. \A i \in DOMAIN sections : \A a \in Addr : PassedBy(i, a)' <=> PassedBy(i, a)
  <2> TAKE i \in DOMAIN sections
  <2> TAKE a \in Addr
  <2>1. a \in Nat
    BY DEF Addr
  <2>2. CASE i = cur
    <3>1. a \in DOMAIN sections[i].mem => a < address
      BY <1>1, <1>2, <1>3, <2>1, <2>2
    <3> QED BY <1>1, <1>2, <2>2, <3>1 DEF PassedBy
  <2>3. CASE i = cur + 1
    <3>1. a \in DOMAIN sections[i].mem => ~(a < address')
      BY <1>1, <1>3, <2>1, <2>3
    <3> QED BY <1>1, <1>2, <2>3, <3>1 DEF PassedBy
  <2>4. CASE i # cur /\ i # cur + 1
    BY <1>1, <1>2, <1>3, <2>4 DEF PassedBy
  <2> QED BY <2>2, <2>3, <2>4
<1>5. \A a \in Addr : Passed(a)' <=> Passed(a)
  BY <1>1, <1>4 DEF Passed
<1>6. /\ \A a : Held(a)' = Held(a)
      /\ \A a : Erased(a)' <=> Erased(a)
  BY <1>1 DEF Held, Erased
<1>7. Prepared'
  BY <1>1, <1>5, <1>6 DEF LoopInv, Prepared, Untouched, InPage
<1>8. Wear'
  BY <1>1, <1>6 DEF LoopInv, Wear
<1>9. RestKept'
  BY <1>1, <1>5, <1>6 DEF LoopInv, RestKept
<1>10. BytesKept => BytesKept'
  BY <1>1, <1>4, <1>6 DEF BytesKept
<1>11. AheadOfSector => AheadOfSector'
  <2> SUFFICES ASSUME AheadOfSector PROVE AheadOfSector'
    OBVIOUS
  <2>1. \A j \in DOMAIN sections :
          j > cur /\ sections[j].lo # sections[j].hi => sectorAddr <= sections[j].lo
    BY DEF AheadOfSector
  <2>2. \A j \in DOMAIN sections : j > cur + 1 => j > cur
    BY <1>2, <1>3
  <2>3. cur + 1 > cur
    BY <1>2
  <2>4. ASSUME cur + 1 \in DOMAIN sections, address' < sections[cur + 1].hi
        PROVE  sectorAddr <= address'
    <3>1. sections[cur + 1].lo # sections[cur + 1].hi
      BY <1>1, <1>3, <2>4
    <3> QED BY <1>1, <2>1, <2>3, <2>4, <3>1
  <2> QED BY <1>1, <2>1, <2>2, <2>4 DEF AheadOfSector
<1>12. Disjoint(given)' = Disjoint(given)
  BY <1>1 DEF Disjoint
<1> QED BY <1>7, <1>8, <1>9, <1>10, <1>11, <1>12 DEF LoopInv

\* The start of the loop.
LEMMA LoopBegin ==
  ASSUME TypeInv, ProgramInit, Begin, Programs
  PROVE  LoopInv'
<1>1. /\ sectorAddr' = 0 /\ sectorEnd' = 0 /\ eraseEnd' = 0
      /\ flash' = [a \in Addr |-> Old]
      /\ writes' = [a \in Sectors |-> 0]
      /\ erasures' = [a \in Pages |-> 0]
      /\ cur' = 1
      /\ 1 \in DOMAIN sections' => address' = sections'[1].lo
  BY DEF ProgramInit, Begin, devVars, Sectors, Pages, StartOf
<1>2. sections' \in Seq(PieceSet)
  BY ShapeProgram DEF TypeInv, ShapeInv, PiecesOK
<1>3. \A i \in DOMAIN sections' :
        /\ sections'[i].lo \in Nat /\ sections'[i].hi \in Nat /\ i \in Nat /\ i >= 1
        /\ DOMAIN sections'[i].mem = sections'[i].lo .. sections'[i].hi - 1
  BY <1>2, PieceFacts
<1>4. \A i \in DOMAIN sections' : \A a \in Addr : ~PassedBy(i, a)'
  <2> TAKE i \in DOMAIN sections'
  <2> TAKE a \in Addr
  <2>1. a \in Nat
    BY DEF Addr
  <2> QED BY <1>1, <1>3, <2>1 DEF PassedBy
<1>5. \A a \in Addr : ~Passed(a)'
  BY <1>4 DEF Passed
<1>6. \A a \in Addr : EraseAlign(a) \in Pages
  BY SectorSet
<1>7. \A s \in Sectors : EraseAlign(s) \in Pages
  BY SectorSet
<1>8. Prepared'
  BY <1>1, <1>5 DEF Prepared, Untouched
<1>9. Wear'
  BY <1>1 DEF Wear
<1>10. RestKept'
  BY <1>1, <1>5, <1>6 DEF RestKept, Held, Erased
<1>11. BytesKept'
  BY <1>4 DEF BytesKept
<1>12. AheadOfSector'
  BY <1>1, <1>3 DEF AheadOfSector
<1> QED BY <1>8, <1>9, <1>10, <1>11, <1>12 DEF LoopInv

-----------------------------------------------------------------------------
(***************************************************************************)
(* The end of the loop                                                     *)
(***************************************************************************)
ProgramInv ==
  /\ TypeInv /\ ImageInv
  /\ phase \notin {"program", "done", "undefined"} => ProgramInit
  /\ phase = "program" => LoopInv
  /\ phase \in {"done", "undefined"} => WearsOnce
  /\ DeviceHoldsImage
  /\ StaysInBuffer

LEMMA ProgramStart == Init => ProgramInv
<1> SUFFICES ASSUME Init PROVE ProgramInv
  OBVIOUS
<1>1. phase = "loading" /\ ProgramInit
  BY DEF Init, ImageInit
<1> QED BY <1>1, TypeStart, ImageStart DEF ProgramInv, DeviceHoldsImage, StaysInBuffer

\* As long as the loop runs, no page and no sector is worn twice.
LEMMA LoopWears == ASSUME TypeInv, LoopInv PROVE WearsOnce
<1>1. DOMAIN erasures = Pages /\ DOMAIN writes = Sectors
  BY DEF TypeInv, LoopType
<1> QED BY <1>1 DEF LoopInv, Wear, WearsOnce, Erased

LEMMA StartWears == ASSUME ProgramInit PROVE WearsOnce
  BY DEF ProgramInit, WearsOnce

\* At the end of the list every byte of every section is passed.
LEMMA AllPassed ==
  ASSUME TypeInv, phase = "program", cur \notin DOMAIN sections
  PROVE  /\ \A i \in DOMAIN sections : \A a \in DOMAIN sections[i].mem :
              a \in Addr /\ PassedBy(i, a) /\ Passed(a)
         /\ \A a : Passed(a) => \E i \in DOMAIN sections : a \in DOMAIN sections[i].mem /\ PassedBy(i, a)
<1>1. /\ sections \in Seq(PieceSet) /\ FitDevice(sections) /\ Position
      /\ DOMAIN sections = 1 .. Len(sections) /\ Len(sections) \in Nat
  BY DEF TypeInv, ShapeInv, PiecesOK
<1>2. \A i \in DOMAIN sections : i < cur
  BY <1>1 DEF Position
<1>3. ASSUME NEW i \in DOMAIN sections, NEW a \in DOMAIN sections[i].mem
      PROVE  a \in Addr
  <2>1. sections[i].lo \in Nat /\ sections[i].hi \in Nat /\ sections[i].hi <= FLASH_SIZE
        /\ DOMAIN sections[i].mem = sections[i].lo .. sections[i].hi - 1
    BY <1>1, PieceFacts DEF FitDevice
  <2> QED BY <2>1, ProgramAssumption DEF Addr
<1> QED BY <1>2, <1>3 DEF PassedBy, Passed

\* With a byte to program there is a sector in the buffer when the list is used up.
LEMMA SectorAtEnd ==
  ASSUME ProgramInv, phase = "program", cur \notin DOMAIN sections, SomeByte
  PROVE  InPage
<1>1. TypeInv /\ LoopInv /\ Lossless /\ given \in Seq(PieceSet)
  BY DEF ProgramInv, ImageInv, Going, TypeInv, ShapeInv, PiecesOK
<1>2. PICK i \in DOMAIN given : given[i].lo # given[i].hi
  BY DEF SomeByte
<1>3. given[i] \in PieceSet
  BY <1>1
<1>4. given[i].lo \in DOMAIN given[i].mem
  BY <1>2, <1>3, PieceFacts
<1>5. Gives(sections, given[i].lo, given[i].mem[given[i].lo])
  BY <1>1, <1>4 DEF Lossless, Within
<1>6. PICK j \in DOMAIN sections : given[i].lo \in DOMAIN sections[j].mem
  BY <1>5 DEF Gives
<1>7. given[i].lo \in Addr /\ Passed(given[i].lo)
  BY <1>1, <1>6, AllPassed
<1> QED BY <1>1, <1>7 DEF LoopInv, Prepared, Untouched

\* The last sector is written once.
LEMMA FinishWears == ASSUME ProgramInv, Finish PROVE WearsOnce'
<1>1. /\ phase = "program" /\ cur \notin DOMAIN sections
      /\ writes' = [writes EXCEPT ![sectorAddr] = @ + 1]
      /\ erasures' = erasures /\ given' = given
  BY DEF Finish
<1>2. TypeInv /\ LoopInv
  BY <1>1 DEF ProgramInv
<1>3. /\ erasures \in [Pages -> Nat] /\ writes \in [Sectors -> Nat] /\ sectorAddr \in Sectors
  BY <1>2 DEF TypeInv, LoopType
<1>4. \A page \in DOMAIN erasures' : erasures'[page] <= 1
  BY <1>1, <1>2, <1>3 DEF LoopInv, Wear
<1>5. ASSUME SomeByte, NEW sector \in Sectors, writes'[sector] > 0
      PROVE  writes'[sector] = 1 /\ erasures[EraseAlign(sector)] = 1
  <2>1. CASE sector = sectorAddr
    <3>1. writes[sectorAddr] = 0
      <4>1. sectorAddr >= sectorAddr
        BY <1>3, SectorSet DEF Addr
      <4> QED BY <1>2, <1>3, <4>1 DEF LoopInv, Wear
    <3>2. erasures[EraseAlign(sectorAddr)] = 1
      BY <1>1, <1>5, SectorAtEnd DEF InPage, Erased
    <3> QED BY <1>1, <1>3, <2>1, <3>1, <3>2
  <2>2. CASE sector # sectorAddr
    <3>1. writes'[sector] = writes[sector]
      BY <1>1, <1>3, <2>2
    <3> QED BY <1>2, <1>5, <3>1 DEF LoopInv, Wear, Erased
  <2> QED BY <2>1, <2>2
<1>6. SomeByte' <=> SomeByte
  BY <1>1 DEF SomeByte
<1>7. DOMAIN writes' = Sectors
  BY <1>1, <1>3
<1> QED BY <1>1, <1>4, <1>5, <1>6, <1>7 DEF WearsOnce

\* What the device holds when the last sector is written.
LEMMA FinishHolds == ASSUME ProgramInv, Finish PROVE DeviceHoldsImage'
<1>1. /\ phase = "program" /\ cur \notin DOMAIN sections
      /\ flash' = WrittenAt(flash, sectorAddr, buffer)
      /\ given' = given
  BY DEF Finish
<1>2. /\ TypeInv /\ LoopInv /\ Lossless
      /\ given \in Seq(PieceSet) /\ sections \in Seq(PieceSet) /\ FitDevice(given)
  BY <1>1 DEF ProgramInv, ImageInv, Going, TypeInv, ShapeInv, PiecesOK
<1> SUFFICES ASSUME SomeByte, Disjoint(given), NEW a \in Addr
             PROVE  /\ Covers(given, a) => Gives(given, a, flash'[a])
                    /\ ~Covers(given, a) => flash'[a] = IF Touched(a) THEN Blank ELSE Old
  BY <1>1 DEF DeviceHoldsImage, SomeByte, Disjoint, Covers, Gives, Touched, Overlap
<1>3. BytesKept /\ RestKept
  BY <1>2 DEF LoopInv
<1>4. flash'[a] = Held(a)
  <2>1. sectorEnd = sectorAddr + WRITE_SIZE
    BY <1>1, SectorAtEnd DEF InPage
  <2>2. sectorEnd # 0
    BY <1>2, <2>1, SectorSet, ProgramAssumption DEF TypeInv, LoopType, Addr
  <2> QED BY <1>1, <2>2 DEF WrittenAt, Held
<1>5. ASSUME Covers(given, a) PROVE Gives(given, a, flash'[a])
  <2>1. PICK v \in Byte : Gives(given, a, v)
    BY <1>5 DEF Covers
  <2>2. Gives(sections, a, v)
    BY <1>2, <2>1, GivesWithin DEF Lossless
  <2>3. PICK i \in DOMAIN sections : a \in DOMAIN sections[i].mem /\ sections[i].mem[a] = v
    BY <2>2 DEF Gives
  <2>4. Held(a) = v
    BY <1>1, <1>2, <1>3, <2>3, AllPassed DEF BytesKept
  <2> QED BY <1>4, <2>1, <2>4
<1>6. ASSUME ~Covers(given, a) PROVE flash'[a] = IF Touched(a) THEN Blank ELSE Old
  <2>1. ~Passed(a)
    <3> SUFFICES ASSUME Passed(a) PROVE FALSE
      OBVIOUS
    <3>1. PICK i \in DOMAIN sections : a \in DOMAIN sections[i].mem
      BY <1>1, <1>2, AllPassed
    <3>2. Gives(given, a, sections[i].mem[a])
      BY <1>2, <3>1 DEF Lossless, Within
    <3>3. sections[i] \in PieceSet
      BY <1>2
    <3>4. sections[i].mem[a] \in Byte
      BY <3>1, <3>3, PieceFacts
    <3> QED BY <1>6, <3>2, <3>4 DEF Covers
  <2>2. Held(a) = IF Erased(a) THEN Blank ELSE Old
    BY <1>3, <2>1 DEF RestKept
  <2>3. Touched(a) => Erased(a)
    <3> SUFFICES ASSUME NEW i \in DOMAIN given, NEW x \in DOMAIN given[i].mem,
                        EraseAlign(x) = EraseAlign(a)
                 PROVE  Erased(a)
      BY DEF Touched
    <3>1. Gives(sections, x, given[i].mem[x])
      BY <1>2 DEF Lossless, Within
    <3>2. PICK j \in DOMAIN sections : x \in DOMAIN sections[j].mem
      BY <3>1 DEF Gives
    <3>3. x \in Addr /\ Passed(x)
      BY <1>1, <1>2, <3>2, AllPassed
    <3> QED BY <1>3, <3>3 DEF RestKept, Erased
  <2>4. Erased(a) => Touched(a)
    <3> SUFFICES ASSUME Erased(a) PROVE Touched(a)
      OBVIOUS
    <3>1. EraseAlign(a) \in Pages
      BY SectorSet
    <3>2. PICK i \in DOMAIN sections : \E x \in DOMAIN sections[i].mem : EraseAlign(x) = EraseAlign(a)
      BY <1>3, <3>1 DEF RestKept, Erased
    <3>3. PICK x \in DOMAIN sections[i].mem : EraseAlign(x) = EraseAlign(a)
      BY <3>2
    <3>4. Gives(given, x, sections[i].mem[x])
      BY <1>2, <3>3 DEF Lossless, Within
    <3> QED BY <3>3, <3>4 DEF Gives, Touched
  <2> QED BY <1>4, <2>2, <2>3, <2>4
<1> QED BY <1>5, <1>6

\* The loop does not underflow when nothing overlaps.
LEMMA NoUnderflow ==
  ASSUME ProgramInv, Underflow
  PROVE  ~Disjoint(given)
<1>1. /\ phase = "program" /\ cur \in DOMAIN sections
      /\ address < sections[cur].hi /\ address < sectorAddr
  BY DEF Underflow, InSection
<1>2. TypeInv /\ LoopInv
  BY <1>1 DEF ProgramInv
<1>3. address \in Nat /\ sectorAddr \in Nat
  BY <1>2, ProgramAssumption, SectorSet DEF TypeInv, LoopType, Addr
<1> QED BY <1>1, <1>2, <1>3 DEF LoopInv, AheadOfSector

LEMMA ProgramStep == ASSUME ProgramInv, Programs, TypeInv', ImageInv' PROVE ProgramInv'
<1>1. TypeInv /\ (Going => Lossless)
  BY DEF ProgramInv, ImageInv
<1>2. phase = "program" => LoopInv /\ (Disjoint(given) => Disjoint(sections))
  BY <1>1 DEF ProgramInv, Going, Lossless
<1>3. ASSUME phase' = "program", LoopInv'
      PROVE  ProgramInv'
  BY <1>3 DEF ProgramInv, DeviceHoldsImage, StaysInBuffer
<1>4. CASE Begin
  <2>1. ProgramInit /\ phase' = "program"
    BY <1>4 DEF Begin, ProgramInv
  <2> QED BY <1>1, <1>3, <1>4, <2>1, LoopBegin
<1>5. CASE NextSection
  <2>1. phase = "program" /\ phase' = "program"
    BY <1>5 DEF NextSection, imageVars
  <2> QED BY <1>1, <1>2, <1>3, <1>5, <2>1, LoopNextSection
<1>6. CASE SwitchSector
  <2>1. phase = "program" /\ phase' = "program"
    BY <1>6 DEF SwitchSector, InSection, imageVars
  <2> QED BY <1>1, <1>2, <1>3, <1>6, <2>1, LoopSwitch
<1>7. CASE FillSector
  <2>1. phase = "program" /\ phase' = "program"
    BY <1>7 DEF FillSector, InSection, imageVars
  <2> QED BY <1>1, <1>2, <1>3, <1>7, <2>1, LoopFill
<1>8. CASE Underflow
  <2>1. phase = "program" /\ phase' = "undefined" /\ UNCHANGED <<given, writes, erasures>>
    BY <1>8 DEF Underflow, InSection, devVars
  <2>2. WearsOnce
    BY <1>1, <1>2, <2>1, LoopWears
  <2>3. WearsOnce'
    BY <2>1, <2>2 DEF WearsOnce, SomeByte
  <2>4. ~Disjoint(given)'
    BY <1>8, <2>1, NoUnderflow DEF Disjoint
  <2> QED BY <2>1, <2>3, <2>4 DEF ProgramInv, DeviceHoldsImage, StaysInBuffer
<1>9. CASE Finish
  <2>1. phase' = "done"
    BY <1>9 DEF Finish
  <2> QED BY <1>9, <2>1, FinishWears, FinishHolds DEF ProgramInv, StaysInBuffer
<1> QED BY <1>4, <1>5, <1>6, <1>7, <1>8, <1>9 DEF Programs, Program

LEMMA ProgramNext == ProgramInv /\ [Next]_vars => ProgramInv'
<1> SUFFICES ASSUME ProgramInv, [Next]_vars PROVE ProgramInv'
  OBVIOUS
<1>1. TypeInv' /\ ImageInv'
  BY TypeNext, ImageNext DEF ProgramInv
<1>2. CASE ReadsHex \/ ReadsElf
  <2>1. /\ phase = "loading"
        /\ phase' \in {"loading", "loaded", "refused", "failed", "terminated"}
        /\ UNCHANGED <<cur, address, sectorAddr, sectorEnd, eraseEnd, buffer, flash, writes, erasures>>
    BY <1>2, ReadPhase
  <2>2. ProgramInit'
    BY <2>1 DEF ProgramInv, ProgramInit
  <2> QED BY <1>1, <2>1, <2>2 DEF ProgramInv, DeviceHoldsImage, StaysInBuffer
<1>3. CASE Programs
  BY <1>1, <1>3, ProgramStep
<1>4. CASE UNCHANGED vars
  <2>1. /\ UNCHANGED <<phase, sections, given>>
        /\ UNCHANGED <<cur, address, sectorAddr, sectorEnd, eraseEnd, buffer, flash, writes, erasures>>
    BY <1>4 DEF vars, imageVars, loopVars, devVars
  <2>2. ProgramInit' <=> ProgramInit
    BY <2>1 DEF ProgramInit
  <2>3. LoopInv' <=> LoopInv
    BY <2>1 DEF LoopInv, Prepared, Untouched, InPage, Wear, RestKept, BytesKept, AheadOfSector,
                Disjoint, PassedBy, Passed, Held, Erased
  <2>4. WearsOnce' <=> WearsOnce
    BY <2>1 DEF WearsOnce, SomeByte
  <2>5. (DeviceHoldsImage' <=> DeviceHoldsImage) /\ (StaysInBuffer' <=> StaysInBuffer)
    BY <2>1 DEF DeviceHoldsImage, StaysInBuffer, SomeByte, Disjoint, Covers, Gives, Touched
  <2> QED BY <1>1, <2>1, <2>2, <2>3, <2>4, <2>5 DEF ProgramInv
<1> QED BY <1>2, <1>3, <1>4, NextForm

\* No page is erased twice and no sector written twice, and a sector is written in an erased
\* page only, however the sections of a file share them: the loop of
\* ImageProgrammer::program().
THEOREM FlashWornOnce == Spec => []WearsOnce
<1>1. ProgramInv => WearsOnce
  <2> SUFFICES ASSUME ProgramInv PROVE WearsOnce
    OBVIOUS
  <2>1. CASE phase = "program"
    BY <2>1, LoopWears DEF ProgramInv
  <2>2. CASE phase \notin {"program", "done", "undefined"}
    BY <2>2, StartWears DEF ProgramInv
  <2> QED BY <2>1, <2>2 DEF ProgramInv
<1> QED BY <1>1, ProgramStart, ProgramNext, PTL DEF Spec

\* When program() returns, the device holds the image, blank bytes in the rest of the pages
\* the image touches, and its old contents elsewhere, for every image that does not overlap.
THEOREM ImageProgrammed == Spec => []DeviceHoldsImage
<1>1. ProgramInv => DeviceHoldsImage
  BY DEF ProgramInv
<1> QED BY <1>1, ProgramStart, ProgramNext, PTL DEF Spec

\* copy() in program() does not write in front of its buffer, for every image that does not
\* overlap.
THEOREM NoWriteOutside == Spec => []StaysInBuffer
<1>1. ProgramInv => StaysInBuffer
  BY DEF ProgramInv
<1> QED BY <1>1, ProgramStart, ProgramNext, PTL DEF Spec
=============================================================================
