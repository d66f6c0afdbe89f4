------------------------------ MODULE MCFirmware ------------------------------
(***************************************************************************)
(* Values of the constants of Firmware for TLC. A sector is two bytes, a   *)
(* page two sectors, the device three pages. Each byte of a file tells the *)
(* position it comes from, so that a byte in the wrong place shows.        *)
(***************************************************************************)
EXTENDS Firmware

MCByte == (0 .. 12) \cup {Zero, Blank}

\* Records that are empty, smaller than a sector, as large as one, or reach into the next.
RecordAt(offset, size) == [offset |-> offset, bytes |-> [i \in 1 .. size |-> offset + i]]

MCRecords == {RecordAt(0, 0)} \cup {RecordAt(o, size) : o \in 0 .. 3, size \in {1, 2, 5}}
WideRecords == {RecordAt(0, 0)} \cup {RecordAt(o, size) : o \in 0 .. 7, size \in {1, 2, 5}}

FileSize == 12
MCContent == [i \in 0 .. FileSize - 1 |-> i + 1]

Good == [size |-> FileSize, ident |-> TRUE, version |-> "EV_CURRENT", ehsize |-> EhdrSize,
         phoff |-> 2, phentsize |-> PhdrSize, phnum |-> 3,
         shoff |-> 2, shentsize |-> ShdrSize, shnum |-> 1, shstrndx |-> 0]

\* Each check of the header once, and tables whose entries lie behind the end of the file.
MCHeaders ==
  {Good, [Good EXCEPT !.phnum = 0, !.shnum = 3], [Good EXCEPT !.size = EhdrSize - 1],
   [Good EXCEPT !.ident = FALSE], [Good EXCEPT !.version = "EV_NONE"],
   [Good EXCEPT !.ehsize = EhdrSize - 1], [Good EXCEPT !.phoff = FileSize],
   [Good EXCEPT !.phentsize = PhdrSize - 1], [Good EXCEPT !.phnum = FileSize],
   [Good EXCEPT !.shoff = FileSize], [Good EXCEPT !.shentsize = ShdrSize - 1],
   [Good EXCEPT !.shnum = FileSize], [Good EXCEPT !.shstrndx = 1],
   [Good EXCEPT !.phentsize = FileSize], [Good EXCEPT !.shentsize = FileSize, !.shnum = 2]}

Segment(off, paddr, filesz, memsz) ==
  [type |-> "PT_LOAD", off |-> off, paddr |-> paddr, filesz |-> filesz, memsz |-> memsz]

\* Segments that are in the file as a whole or in part, none at all, not to be loaded, not
\* inside the file, at its start and too long for it, or with a sum that wraps around.
MCPrograms ==
  {Segment(2, lo, filesz, 3) : lo \in 0 .. 9, filesz \in {1, 3}}
    \cup {Segment(5, 2, 0, 3), [Segment(5, 2, 3, 3) EXCEPT !.type = "PT_NOTE"],
          Segment(3, 2, 3, 1), Segment(FileSize - 1, 2, 3, 3), Segment(0, 2, 2, 2),
          Segment(0, 0, FileSize + 1, FileSize + 1),
          Segment(OffMod - 1, 2, 3, 3)}

SectionAt(off, vaddr, size) ==
  [type |-> "SHT_PROGBITS", alloc |-> TRUE, off |-> off, vaddr |-> vaddr, size |-> size]

MCSections ==
  {SectionAt(2, 0, 3), SectionAt(5, 3, 3), SectionAt(2, 7, 4), SectionAt(3, 4, 0),
   [SectionAt(4, 2, 1) EXCEPT !.alloc = FALSE], [SectionAt(4, 2, 1) EXCEPT !.type = "SHT_STRTAB"],
   [SectionAt(FileSize, 2, 3) EXCEPT !.type = "SHT_NOBITS"], SectionAt(FileSize - 1, 2, 3),
   SectionAt(OffMod - 1, 2, 3)}
=============================================================================
