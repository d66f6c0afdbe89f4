------------------------------- MODULE ElfFile -------------------------------
(***************************************************************************)
(* Elf (Elf.cpp): opens an ELF file, reads and checks its header, section  *)
(* headers, names and program headers (the constructor), and then loads an *)
(* image by its program headers (read_image) or by its section headers     *)
(* (read_image2).                                                          *)
(*                                                                         *)
(* The contents of the file are a function of the position; what lies in   *)
(* the tables of headers is chosen when it is read. Exceptions are of two  *)
(* kinds: an Exception is caught and reported, a String (a read beyond the *)
(* end of the file) terminates the program.                                *)
(***************************************************************************)
EXTENDS Image

CONSTANTS
  EhdrSize, PhdrSize, ShdrSize, \* bytes of the headers (52, 32 and 40)
  OffMod,         \* sums of two offsets are cut off here (2^32)
  Content,        \* the byte at each position of the file
  ElfHeaders,     \* headers of the files
  ProgramHeaders, \* entries of the table of program headers
  SectionHeaders, \* entries of the table of section headers
  Uses            \* the tables the caller loads from: "programs", "sections"

\* Elf32_Ehdr, with the size of the file and whether its identification is supported.
ElfHeader ==
  [size : Nat, ident : BOOLEAN, version : {"EV_CURRENT", "EV_NONE"}, ehsize : Nat,
   phoff : Nat, phentsize : Nat, phnum : Nat,
   shoff : Nat, shentsize : Nat, shnum : Nat, shstrndx : Nat]

\* Elf32_Phdr
ProgramHeader ==
  [type : {"PT_LOAD", "PT_NOTE"}, off : Nat, paddr : Nat, filesz : Nat, memsz : Nat]

\* Elf32_Shdr; alloc is the flag SHF_ALLOC.
SectionHeader ==
  [type : {"SHT_PROGBITS", "SHT_STRTAB", "SHT_NOBITS"}, alloc : BOOLEAN, off : Nat,
   vaddr : Nat, size : Nat]

ASSUME ElfAssumption ==
  /\ EhdrSize \in Nat /\ PhdrSize \in Nat /\ ShdrSize \in Nat
  /\ OffMod \in Nat \ {0}
  /\ ElfHeaders \subseteq ElfHeader
  /\ ProgramHeaders \subseteq ProgramHeader
  /\ SectionHeaders \subseteq SectionHeader
  /\ \A h \in ElfHeaders : \A i \in 0 .. h.size - 1 : Content[i] \in Byte
  /\ Uses \subseteq {"programs", "sections"}

VARIABLES
  stage,        \* what is read next: "header", "sections", "programs", "image"
  use,          \* the table the image will be loaded from
  header,       \* file_header
  sectionTab,   \* sections; dropped when it is read for the last time
  programTab,   \* programs; the same
  entry         \* position in that table of the entry to load next

elfVars == <<stage, use, header, sectionTab, programTab, entry>>

ElfInit ==
  /\ stage = "header"
  /\ use \in Uses
  /\ header = <<>>
  /\ sectionTab = <<>>
  /\ programTab = <<>>
  /\ entry = 1

-----------------------------------------------------------------------------
(***************************************************************************)
(* Elf::Elf()                                                              *)
(***************************************************************************)

\* The file holds count bytes from position off on.
Holds(off, count) == count = 0 \/ off + count <= header.size

\* The sizes of the tables are of type size_t, of 64 bits: their sums are not cut off.
HeaderOK(h) ==
  /\ h.ident
  /\ h.version = "EV_CURRENT"
  /\ h.ehsize >= EhdrSize
  /\ h.phoff < h.size
  /\ h.phentsize >= PhdrSize
  /\ h.phoff + h.phnum * PhdrSize <= h.size
  /\ h.shoff < h.size
  /\ h.shentsize >= ShdrSize
  /\ h.shoff + h.shnum * ShdrSize <= h.size
  /\ h.shstrndx < h.shnum

\* Mutated form of ProgramOK: the content only has to begin inside the file.
ProgramBegins(e) ==
  /\ e.filesz <= e.memsz
  /\ e.off # 0 => e.off % OffMod <= header.size

\* The sums are cut off at 32 bits; a segment at the start of the file is not checked.
ProgramOK(e) ==
  /\ e.filesz <= e.memsz
  /\ e.off # 0 => (e.off + e.filesz) % OffMod <= header.size

SectionOK(e) == e.type # "SHT_NOBITS" => (e.off + e.size) % OffMod <= header.size

\* An exception while the file is read.
Abandon(how) ==
  /\ phase' = how
  /\ UNCHANGED <<sections, given>>

AtStage(s) == phase = "loading" /\ stage = s

ReadHeader ==
  /\ AtStage("header")
  /\ \E h \in ElfHeaders :
       /\ header' = h
       /\ \/ h.size < EhdrSize /\ Abandon("terminated") /\ UNCHANGED stage
          \/ h.size >= EhdrSize /\ ~HeaderOK(h) /\ Abandon("failed") /\ UNCHANGED stage
          \/ h.size >= EhdrSize /\ HeaderOK(h) /\ stage' = "sections" /\ UNCHANGED imageVars
  /\ UNCHANGED <<use, sectionTab, programTab, entry>>

\* The entries are header.shentsize bytes apart, the check of the header counts on less.
SectionPos == header.shoff + Len(sectionTab) * header.shentsize
ProgramPos == header.phoff + Len(programTab) * header.phentsize

ReadSection ==
  /\ AtStage("sections")
  /\ Len(sectionTab) < header.shnum
  /\ \/ /\ ~Holds(SectionPos, ShdrSize)
        /\ Abandon("terminated")
        /\ UNCHANGED sectionTab
     \/ /\ Holds(SectionPos, ShdrSize)
        /\ \E e \in SectionHeaders :
             \/ SectionOK(e) /\ sectionTab' = Append(sectionTab, e) /\ UNCHANGED imageVars
             \/ ~SectionOK(e) /\ Abandon("failed") /\ UNCHANGED sectionTab
  /\ UNCHANGED <<stage, use, header, programTab, entry>>

\* read_section(strings, file_header.shstrndx), whatever type of section it is.
ReadNames ==
  /\ AtStage("sections")
  /\ Len(sectionTab) = header.shnum
  /\ LET e == sectionTab[header.shstrndx + 1]
     IN  \/ ~Holds(e.off, e.size) /\ Abandon("terminated") /\ UNCHANGED stage
         \/ Holds(e.off, e.size) /\ stage' = "programs" /\ UNCHANGED imageVars
  /\ sectionTab' = IF use = "sections" THEN sectionTab ELSE <<>>
  /\ UNCHANGED <<use, header, programTab, entry>>

ReadProgram ==
  /\ AtStage("programs")
  /\ Len(programTab) < header.phnum
  /\ \/ /\ ~Holds(ProgramPos, PhdrSize)
        /\ Abandon("terminated")
        /\ UNCHANGED programTab
     \/ /\ Holds(ProgramPos, PhdrSize)
        /\ \E e \in ProgramHeaders :
             \/ ProgramOK(e) /\ programTab' = Append(programTab, e) /\ UNCHANGED imageVars
             \/ ~ProgramOK(e) /\ Abandon("failed") /\ UNCHANGED programTab
  /\ UNCHANGED <<stage, use, header, sectionTab, entry>>

Opened ==
  /\ AtStage("programs")
  /\ Len(programTab) = header.phnum
  /\ stage' = "image"
  /\ programTab' = IF use = "programs" THEN programTab ELSE <<>>
  /\ UNCHANGED <<imageVars, use, header, sectionTab, entry>>

-----------------------------------------------------------------------------
(***************************************************************************)
(* read_image() and read_image2()                                          *)
(***************************************************************************)

\* Mutated form of Loadable: segments of every type are loaded.
LoadableAny(e) == e.filesz > 0

Loadable(e) == e.type = "PT_LOAD" /\ e.filesz > 0

Table == IF use = "programs" THEN programTab ELSE sectionTab

NextEntry == entry' = entry + 1 /\ UNCHANGED <<stage, use, header, sectionTab, programTab>>

AtEntry(table) == AtStage("image") /\ use = table /\ entry \in DOMAIN Table

\* The memory of size bytes at lo is filled with count bytes of the file.
Fill(lo, size, off, count) ==
  \/ Holds(off, count) /\ Load(Filled(lo, size, Content, off, count))
  \/ /\ ~Holds(off, count)
     /\ LET there == IF off < header.size THEN header.size - off ELSE 0
        IN  LoadFails(Filled(lo, size, Content, off, there))

LoadProgram ==
  /\ AtEntry("programs")
  /\ LET e == programTab[entry]
     IN  \/ ~Loadable(e) /\ UNCHANGED imageVars
         \/ Loadable(e) /\ Fill(e.paddr, e.memsz, e.off, e.filesz)
  /\ NextEntry

\* assert(hdr.flags & SHF_ALLOC) ends a debug build; a release build loads the section.
LoadSection ==
  /\ AtEntry("sections")
  /\ LET e == sectionTab[entry]
     IN  \/ e.type # "SHT_PROGBITS" /\ UNCHANGED imageVars
         \/ e.type = "SHT_PROGBITS" /\ ~e.alloc /\ Abandon("terminated")
         \/ e.type = "SHT_PROGBITS" /\ Fill(e.vaddr, e.size, e.off, e.size)
  /\ NextEntry

ImageRead ==
  /\ AtStage("image")
  /\ entry \notin DOMAIN Table
  /\ phase' = "loaded"
  /\ UNCHANGED <<sections, given, elfVars>>

ReadElf ==
  \/ ReadHeader
  \/ ReadSection
  \/ ReadNames
  \/ ReadProgram
  \/ Opened
  \/ LoadProgram
  \/ LoadSection
  \/ ImageRead

-----------------------------------------------------------------------------
\* The addresses an entry has contents for. A segment with nothing in the file is memory
\* for variables and has none.
Extent(e) ==
  CASE use = "programs" /\ e.type = "PT_LOAD" /\ e.filesz # 0 -> e.paddr .. e.paddr + e.memsz - 1
    [] use = "sections" /\ e.type = "SHT_PROGBITS" -> e.vaddr .. e.vaddr + e.size - 1
    [] OTHER -> {}

\* The byte an entry has for address a: from the file, or zero behind what is in the file.
ByteAt(e, a) ==
  CASE use = "programs" /\ a >= e.paddr + e.filesz -> Zero
    [] use = "programs" /\ a < e.paddr + e.filesz -> Content[e.off + a - e.paddr]
    [] OTHER -> Content[e.off + a - e.vaddr]

\* An ELF file that is programmed has no part of its contents missing: what its headers
\* promise is in the image, byte by byte, and nothing else is.
ElfPlaced ==
  (phase \in {"loaded", "program", "done"} /\ stage = "image") =>
    /\ \A i \in DOMAIN Table : \A a \in Extent(Table[i]) : Gives(given, a, ByteAt(Table[i], a))
    /\ \A i \in DOMAIN given : \A a \in DOMAIN given[i].mem :
         \E j \in DOMAIN Table :
           a \in Extent(Table[j]) /\ given[i].mem[a] = ByteAt(Table[j], a)

\* The checks of the constructor are enough for what is read later: loading stops half way
\* only at an entry they leave out, a segment at the start of the file, one with a sum that
\* does not fit 32 bits, or one that should not be there.
ChecksSuffice ==
  (phase = "terminated" /\ stage = "image") =>
    LET e == Table[entry - 1]
    IN  /\ entry - 1 \in DOMAIN Table
        /\ IF use = "programs" THEN e.off = 0 \/ e.off + e.filesz >= OffMod
           ELSE e.off + e.size >= OffMod \/ ~e.alloc
=============================================================================
