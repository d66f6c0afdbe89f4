------------------------------ MODULE Protocol ------------------------------
(***************************************************************************)
(* The bootloader protocol of protocol.hpp: operation codes, status codes  *)
(* and the frames that travel between a programmer and a target.           *)
(*                                                                         *)
(* The memory is counted in words of two bytes: that is the unit by which  *)
(* the two sides disagree on where the data of a Write starts (module      *)
(* Target), and nothing in the protocol depends on a smaller one.          *)
(***************************************************************************)
EXTENDS Integers, Sequences

CONSTANTS
  SeqMod,       \* number of values of the sequence number (256: an uint8_t)
  LenMod,       \* number of values of a length (2^16 bytes: an uint16_t)
  AddrMod,      \* number of values of an address (2^32 bytes: an uint32_t)
  WRITE_SIZE,   \* words in a sector  (64 bytes in the program)
  ERASE_SIZE,   \* words in an erase page (1024 bytes in the program)
  FLASH_SIZE,   \* words of flash memory in a target
  MAX_PAYLOAD,  \* words after the header in the buffer of a target
  Word,         \* the contents a word of memory may have
  Blank,        \* the word an erase leaves (0xFFFF)
  DeviceIds,    \* the device ids a target may report
  NoBody        \* a request that is a header and nothing else

ASSUME ProtocolAssumption ==
  /\ SeqMod \in Nat \ {0}
  /\ LenMod \in Nat \ {0}
  /\ AddrMod \in Nat \ {0}
  /\ WRITE_SIZE \in Nat \ {0}
  /\ ERASE_SIZE \in Nat \ {0}
  /\ FLASH_SIZE \in Nat
  /\ MAX_PAYLOAD \in Nat
  /\ ERASE_SIZE % WRITE_SIZE = 0
  /\ FLASH_SIZE % ERASE_SIZE = 0
  /\ Blank \in Word

(***************************************************************************)
(* Operation codes. OP_ERASE_WRITE and OP_CHIP_ERASE have no caller in     *)
(* NetworkProgrammer and no case in Target, so no frame carries them.      *)
(***************************************************************************)
RegisterOps == {"OP_DISCOVER", "OP_NET_CONFIG"}
MemoryOps   == {"OP_READ", "OP_WRITE", "OP_ERASE"}
Operation   == RegisterOps \cup MemoryOps
                 \cup {"OP_RESET", "OP_CHECKSUM", "OP_ERASE_WRITE", "OP_CHIP_ERASE"}

\* The operations for which the programmer puts up with STATUS_INPROGRESS.
SlowOps == MemoryOps \cup {"OP_ERASE_WRITE", "OP_CHIP_ERASE", "OP_CHECKSUM"}

ErrorStatus == {"STATUS_INV_SRC", "STATUS_INV_OP", "STATUS_INV_PARAM"}
Status      == ErrorStatus \cup {"STATUS_OK", "STATUS_INPROGRESS"}

\* Mutated forms of NextSeq: seq++ is left out, or is not cut off at a byte.
NextSeqSame(s)   == s
NextSeqNoWrap(s) == s + 1

\* seq++ on the uint8_t of the request header.
NextSeq(s) == IF s + 1 = SeqMod THEN 0 ELSE s + 1

SeqNo  == 0 .. SeqMod - 1
Length == 0 .. LenMod - 1
Header == [op : Operation, addr : Nat, len : Length]

\* Protocol::Write: the address of the write is sent a second time, in the payload.
Block  == [0 .. WRITE_SIZE - 1 -> Word]
Body   == [address : Nat, data : Block] \cup {NoBody}

Memory == [0 .. FLASH_SIZE - 1 -> Word]
=============================================================================
