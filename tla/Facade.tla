-------------------------------- MODULE Facade --------------------------------
(***************************************************************************)
(* Class Programmer (Programmer.cpp:16-130): the front of a programmer.    *)
(* It compares the arguments of a call with what the device and the        *)
(* programmer can do, and hands the call to its strategy, here a           *)
(* NetworkProgrammer. An exception of the strategy passes through: only    *)
(* its message is extended.                                                *)
(***************************************************************************)
EXTENDS NetworkProgrammer

CONSTANT Facades    \* the programmers that are held, and called, by a Programmer

ASSUME FacadeAssumption == Facades \subseteq Programmers

\* NetworkProgrammer::_prog_desc. Both limits are the payload of the receive buffer, which
\* the target does not know: its own one is MAX_PAYLOAD.
MAX_READ  == RxPayload
MAX_WRITE == RxPayload

-----------------------------------------------------------------------------
\* Mutated form of CanRead: the size is left to the target to judge.
CanReadAny(l) == TRUE

CanRead(l) == l <= MAX_READ

CanWrite(a, d) ==
  /\ a % WRITE_SIZE = 0
  /\ Len(d) % WRITE_SIZE = 0
  /\ Len(d) <= MAX_WRITE

\* Mutated form of CanErase: the alignment of a write is good enough.
CanEraseSector(a) == a % WRITE_SIZE = 0

CanErase(a) == a % ERASE_SIZE = 0

CanEraseWrite(a, d) ==
  /\ a % ERASE_SIZE = 0
  /\ Len(d) % WRITE_SIZE = 0
  /\ Len(d) <= MAX_WRITE
  /\ Len(d) <= ERASE_SIZE

-----------------------------------------------------------------------------
\* The arguments are passed on, or an exception is thrown before anything is done.
FacadeRead(p, a, l) ==
  \/ CanRead(l) /\ Read(p, a, l)
  \/ ~CanRead(l) /\ Refuse(p, "refused")

FacadeWrite(p, a, d) ==
  \/ CanWrite(a, d) /\ Write(p, a, d)
  \/ ~CanWrite(a, d) /\ Refuse(p, "refused")

FacadeErase(p, a) ==
  \/ CanErase(a) /\ Erase(p, a)
  \/ ~CanErase(a) /\ Refuse(p, "refused")

\* The strategy is asked to write, not to erase and write.
FacadeEraseWrite(p, a, d) ==
  \/ CanEraseWrite(a, d) /\ Write(p, a, d)
  \/ ~CanEraseWrite(a, d) /\ Refuse(p, "refused")

\* IProgrammerStrategy::chip_erase(), which NetworkProgrammer does not override.
FacadeChipErase(p) == Refuse(p, "unsupported")

\* reset() and checksum() have no checks of their own.
FacadeReset(p)          == Reset(p)
FacadeChecksum(p, a, l) == Checksum(p, a, l)
=============================================================================
