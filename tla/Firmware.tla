------------------------------- MODULE Firmware -------------------------------
(***************************************************************************)
(* From a firmware file to the flash (Main.cpp:110-165): a Hex or an ELF   *)
(* file is read into an image, and the image is programmed. An exception   *)
(* ends the program, also when the image is half full. Main programs one   *)
(* of its images, that of read_image(), and only reads the other two; here *)
(* each may be programmed, as an ImageProgrammer allows.                   *)
(***************************************************************************)
EXTENDS HexFile, ElfFile, ImageProgrammer

CONSTANT Kinds      \* kinds of files: "hex", "elf"

ASSUME KindAssumption == Kinds \subseteq {"hex", "elf"}

\* The files are for this device: none reaches beyond its memory.
ASSUME FilesFit ==
  /\ \A base \in Bases : \A d \in DataRecords :
       base + d.offset + Len(d.bytes) <= FLASH_SIZE
  /\ \A e \in ProgramHeaders : e.paddr + e.memsz <= FLASH_SIZE
  /\ \A e \in SectionHeaders : e.vaddr + e.size <= FLASH_SIZE

VARIABLE kind

vars == <<imageVars, hexVars, elfVars, loopVars, devVars, kind>>

Init ==
  /\ ImageInit
  /\ HexInit
  /\ ElfInit
  /\ ProgramInit
  /\ kind \in Kinds

\* program() has returned, an exception has ended the program, or anything may happen.
Stopped ==
  /\ phase \in {"done", "undefined", "refused", "failed", "terminated"}
  /\ UNCHANGED vars

Next ==
  \/ kind = "hex" /\ ReadHex /\ UNCHANGED <<elfVars, loopVars, devVars, kind>>
  \/ kind = "elf" /\ ReadElf /\ UNCHANGED <<hexVars, loopVars, devVars, kind>>
  \/ Program /\ UNCHANGED <<hexVars, elfVars, kind>>
  \/ Stopped

Spec     == Init /\ [][Next]_vars
FairSpec == Spec /\ WF_vars(Program /\ UNCHANGED <<hexVars, elfVars, kind>>)
=============================================================================
