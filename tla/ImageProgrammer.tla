--------------------------- MODULE ImageProgrammer ---------------------------
(***************************************************************************)
(* ImageProgrammer::program(): the sections are cut into sectors, and each *)
(* page is erased before the first of its sectors is written. The loop is  *)
(* sequential; a step is a part of one iteration.                          *)
(*                                                                         *)
(* ImageProgrammer::erase() and write() only print what they would do. The *)
(* memory they name is a ghost: a device that erases a page and writes a   *)
(* sector the way Target does it.                                          *)
(***************************************************************************)
EXTENDS Image

CONSTANTS
  WRITE_SIZE,   \* bytes in a sector (64 in the program)
  ERASE_SIZE,   \* bytes in a page (1024 in the program)
  FLASH_SIZE,   \* bytes of the device
  Blank,        \* the byte an erase leaves (0xFF)
  Garbage,      \* a byte of the buffer that was never initialised
  Old           \* a byte of the device before programming

ASSUME ProgramAssumption ==
  /\ WRITE_SIZE \in Nat \ {0}
  /\ ERASE_SIZE \in Nat \ {0}
  /\ ERASE_SIZE % WRITE_SIZE = 0
  /\ FLASH_SIZE \in Nat \ {0}
  /\ FLASH_SIZE % ERASE_SIZE = 0
  /\ Blank \in Byte
  /\ {Garbage, Old} \cap Byte = {}

VARIABLES
  cur,          \* position in the list of the section in progress
  address,      \* next address of that section
  sectorAddr,   \* sector_addr
  sectorEnd,    \* sector_end, 0 before the first sector
  eraseEnd,     \* erase_end
  buffer,
  flash,        \* ghost: the memory of the device
  writes,       \* ghost: how often each sector was written
  erasures      \* ghost: how often each page was erased

loopVars == <<cur, address, sectorAddr, sectorEnd, eraseEnd, buffer>>
devVars  == <<flash, writes, erasures>>

Addr == 0 .. FLASH_SIZE - 1

SectorAlign(a) == a - (a % WRITE_SIZE)
EraseAlign(a)  == a - (a % ERASE_SIZE)

ProgramInit ==
  /\ cur = 0
  /\ address = 0
  /\ sectorAddr = 0
  /\ sectorEnd = 0
  /\ eraseEnd = 0
  /\ buffer = [i \in 0 .. WRITE_SIZE - 1 |-> Garbage]
  /\ flash = [a \in Addr |-> Old]
  /\ writes = [a \in {SectorAlign(x) : x \in Addr} |-> 0]
  /\ erasures = [a \in {EraseAlign(x) : x \in Addr} |-> 0]

-----------------------------------------------------------------------------
(***************************************************************************)
(* The device                                                              *)
(***************************************************************************)
WrittenAt(mem, at, data) ==
  [a \in Addr |-> IF a \in at .. at + WRITE_SIZE - 1 THEN data[a - at] ELSE mem[a]]

ErasedAt(mem, at) ==
  [a \in Addr |-> IF a \in at .. at + ERASE_SIZE - 1 THEN Blank ELSE mem[a]]

-----------------------------------------------------------------------------
(***************************************************************************)
(* program()                                                               *)
(***************************************************************************)

\* Mutated form of SortedSections: the list is not sorted.
UnsortedSections == sections

\* list::sort() by address keeps sections with the same address in their order.
Precedes(i, j) ==
  \/ sections[i].lo < sections[j].lo
  \/ sections[i].lo = sections[j].lo /\ i < j

SortedSections ==
  LET places == DOMAIN sections
      order  == CHOOSE f \in [places -> places] :
                  \A i, j \in places : i < j => Precedes(f[i], f[j])
  IN  [i \in places |-> sections[order[i]]]

\* Where the section at place i of list starts.
StartOf(list, i) == IF i \in DOMAIN list THEN list[i].lo ELSE 0

Begin ==
  /\ phase = "loaded"
  /\ phase' = "program"
  /\ sections' = SortedSections
  /\ cur' = 1
  /\ address' = StartOf(sections', 1)
  /\ UNCHANGED <<given, sectorAddr, sectorEnd, eraseEnd, buffer, devVars>>

InSection ==
  /\ phase = "program"
  /\ cur \in DOMAIN sections
  /\ address < sections[cur].hi

NextSection ==
  /\ phase = "program"
  /\ cur \in DOMAIN sections
  /\ address >= sections[cur].hi
  /\ cur' = cur + 1
  /\ address' = StartOf(sections, cur + 1)
  /\ UNCHANGED <<imageVars, sectorAddr, sectorEnd, eraseEnd, buffer, devVars>>

\* Mutated form of NeedsErase: a page that starts where the last one ends is missed.
NeedsEraseLate(sector) == sector > eraseEnd

NeedsErase(sector) == sector >= eraseEnd

Fresh == [i \in 0 .. WRITE_SIZE - 1 |-> Blank]

\* The sector is complete: write it, prepare the next one, erase a page when it is new.
SwitchSector ==
  /\ InSection
  /\ address >= sectorEnd
  /\ LET sector == SectorAlign(address)
         page   == EraseAlign(sector)
         old    == IF sectorEnd # 0 THEN WrittenAt(flash, sectorAddr, buffer) ELSE flash
     IN  /\ sectorAddr' = sector
         /\ sectorEnd' = sector + WRITE_SIZE
         /\ buffer' = Fresh
         /\ writes' = IF sectorEnd # 0 THEN [writes EXCEPT ![sectorAddr] = @ + 1] ELSE writes
         /\ \/ /\ NeedsErase(sector)
               /\ flash' = ErasedAt(old, page)
               /\ erasures' = [erasures EXCEPT ![page] = @ + 1]
               /\ eraseEnd' = page + ERASE_SIZE
            \/ /\ ~NeedsErase(sector)
               /\ flash' = old
               /\ UNCHANGED <<erasures, eraseEnd>>
  /\ UNCHANGED <<imageVars, cur, address>>

\* Mutated form of FillSector: the address is not advanced.
FillSectorAgain ==
  /\ InSection
  /\ sectorAddr <= address
  /\ address < sectorEnd
  /\ UNCHANGED <<imageVars, loopVars, devVars>>

\* Copy the part of the section that lies in the sector.
FillSector ==
  /\ InSection
  /\ sectorAddr <= address
  /\ address < sectorEnd
  /\ LET end == IF sectorEnd < sections[cur].hi THEN sectorEnd ELSE sections[cur].hi
     IN  /\ buffer' = [i \in DOMAIN buffer |->
                         IF sectorAddr + i \in address .. end - 1
                         THEN sections[cur].mem[sectorAddr + i] ELSE buffer[i]]
         /\ address' = end
  /\ UNCHANGED <<imageVars, cur, sectorAddr, sectorEnd, eraseEnd, devVars>>

\* address - sector_addr wraps around, and copy() writes in front of the buffer.
Underflow ==
  /\ InSection
  /\ address < sectorAddr
  /\ phase' = "undefined"
  /\ UNCHANGED <<sections, given, loopVars, devVars>>

\* Mutated form of Finish: the last sector stays in the buffer.
FinishWithoutWrite ==
  /\ phase = "program"
  /\ cur \notin DOMAIN sections
  /\ phase' = "done"
  /\ UNCHANGED <<sections, given, loopVars, devVars>>

\* The sections are used up: the last sector is written, if there was one or not.
Finish ==
  /\ phase = "program"
  /\ cur \notin DOMAIN sections
  /\ phase' = "done"
  /\ flash' = WrittenAt(flash, sectorAddr, buffer)
  /\ writes' = [writes EXCEPT ![sectorAddr] = @ + 1]
  /\ UNCHANGED <<sections, given, loopVars, erasures>>

Program ==
  \/ Begin
  \/ NextSection
  \/ SwitchSector
  \/ FillSector
  \/ Underflow
  \/ Finish

-----------------------------------------------------------------------------
BufferByte == Byte \cup {Garbage}

\* Every variable has a value the program can hold in it.
TypeOK ==
  /\ phase \in {"loading", "loaded", "program", "done", "undefined", "refused", "failed",
               "terminated"}
  /\ \A i \in DOMAIN sections : IsPiece(sections[i]) /\ sections[i].hi <= FLASH_SIZE
  /\ \A i \in DOMAIN given : IsPiece(given[i]) /\ given[i].hi <= FLASH_SIZE
  /\ cur \in Nat
  /\ address \in 0 .. FLASH_SIZE
  /\ sectorAddr \in DOMAIN writes
  /\ sectorEnd \in 0 .. FLASH_SIZE
  /\ eraseEnd \in 0 .. FLASH_SIZE
  /\ buffer \in [0 .. WRITE_SIZE - 1 -> BufferByte]
  /\ flash \in [Addr -> BufferByte \cup {Old}]
  /\ writes \in [{SectorAlign(x) : x \in Addr} -> Nat]
  /\ erasures \in [{EraseAlign(x) : x \in Addr} -> Nat]

SomeByte == \E i \in DOMAIN given : given[i].lo # given[i].hi

\* The flash is worn once: no page is erased twice and no sector written twice, and a
\* sector is only written in a page that was erased, also when sections share sectors
\* and pages, or overlap.
WearsOnce ==
  /\ \A page \in DOMAIN erasures : erasures[page] <= 1
  /\ \A sector \in DOMAIN writes :
       writes[sector] > 0 /\ SomeByte =>
         writes[sector] = 1 /\ erasures[EraseAlign(sector)] = 1

Touched(a) ==
  \E i \in DOMAIN given : \E x \in DOMAIN given[i].mem : EraseAlign(x) = EraseAlign(a)

\* When program() returns, the device holds the image, blank bytes in the rest of the
\* pages the image touches, and what it held before in all other pages.
DeviceHoldsImage ==
  phase = "done" /\ SomeByte /\ Disjoint(given) =>
    \A a \in Addr :
      IF Covers(given, a) THEN Gives(given, a, flash[a])
      ELSE flash[a] = IF Touched(a) THEN Blank ELSE Old

\* program() does not write outside its buffer when the pieces of the file are disjoint.
StaysInBuffer == Disjoint(given) => phase # "undefined"

\* "Write prepared data": what is written was prepared for its sector before.
WritesPreparedData == \A a \in Addr : flash[a] # Garbage

\* program() returns once it was called.
Terminates == phase = "program" ~> phase \in {"done", "undefined"}
=============================================================================
