------------------------------- MODULE HexFile -------------------------------
(***************************************************************************)
(* Hex (Hex.cpp): reads an Intel Hex file line by line and hands the data  *)
(* of its records to an image. The address in a record has 16 bits; an     *)
(* address record says what the following records add to it.               *)
(*                                                                         *)
(* A line is chosen when it is read. The characters of a record and its    *)
(* checksum are left out: parse_line() takes the record, or throws. A line *)
(* without a record and a start address leave no trace (_start_address is  *)
(* never read) and have no action.                                         *)
(***************************************************************************)
EXTENDS Image

CONSTANTS
  DataRecords,  \* [offset, bytes]: address and contents of the data records of a file
  SegmentBases, \* paragraphs an Extended Segment Address record may name
  LinearBases,  \* windows an Extended Linear Address record may name
  Paragraph,    \* bytes of a paragraph (16)
  Window,       \* bytes of a window (65536)
  MaxLines      \* bound of the model: lines of a file

ASSUME HexAssumption ==
  /\ \A d \in DataRecords : d.offset \in Nat /\ d.bytes \in Seq(Byte)
  /\ SegmentBases \subseteq Nat
  /\ LinearBases \subseteq Nat
  /\ Paragraph \in Nat
  /\ Window \in Nat
  /\ MaxLines \in Nat

\* What an address record can add to the address of a data record.
Bases ==
  {0} \cup {v * Paragraph : v \in SegmentBases} \cup {v * Window : v \in LinearBases}

VARIABLES
  segment,      \* _segment_address
  lines         \* ghost: the records read so far

hexVars == <<segment, lines>>

HexInit ==
  /\ segment = 0
  /\ lines = <<>>

RecordPiece(base, d) ==
  Piece(base + d.offset, base + d.offset + Len(d.bytes),
        [a \in base + d.offset .. base + d.offset + Len(d.bytes) - 1 |->
           d.bytes[a - base - d.offset + 1]])

ReadLine(record) ==
  /\ phase = "loading"
  /\ Len(lines) < MaxLines
  /\ lines' = Append(lines, record)

DataRecord(d) ==
  /\ ReadLine([type |-> "RT_DATA", data |-> d])
  /\ Process(RecordPiece(segment, d))
  /\ UNCHANGED segment

\* Mutated form of ExtSegAddr: the two kinds of base are added up.
ExtSegAddrAdds(v) ==
  /\ ReadLine([type |-> "RT_EXT_SEG_ADDR", value |-> v])
  /\ segment' = segment + v * Paragraph
  /\ UNCHANGED imageVars

ExtSegAddr(v) ==
  /\ ReadLine([type |-> "RT_EXT_SEG_ADDR", value |-> v])
  /\ segment' = v * Paragraph
  /\ UNCHANGED imageVars

ExtAddr(v) ==
  /\ ReadLine([type |-> "RT_EXT_ADDR", value |-> v])
  /\ segment' = v * Window
  /\ UNCHANGED imageVars

\* What follows the end record is not read.
EndOfFile ==
  /\ ReadLine([type |-> "RT_EOF"])
  /\ phase' = "loaded"
  /\ UNCHANGED <<sections, given, segment>>

\* parse_line() or process_line() throws: a record of an unknown type, of the wrong size,
\* with a wrong checksum or with a character that is no digit.
BadRecord ==
  /\ ReadLine([type |-> "bad"])
  /\ phase' = "failed"
  /\ UNCHANGED <<sections, given, segment>>

\* The file is over: "Unexcepted end of file."
EndsEarly ==
  /\ phase = "loading"
  /\ phase' = "failed"
  /\ UNCHANGED <<sections, given, hexVars>>

ReadHex ==
  \/ \E d \in DataRecords : DataRecord(d)
  \/ \E v \in SegmentBases : ExtSegAddr(v)
  \/ \E v \in LinearBases : ExtAddr(v)
  \/ EndOfFile
  \/ BadRecord
  \/ EndsEarly

-----------------------------------------------------------------------------
\* The base of line k: what the last address record before it says, if there is one.
BaseOf(k) ==
  LET before == {j \in 1 .. k - 1 : lines[j].type \in {"RT_EXT_SEG_ADDR", "RT_EXT_ADDR"}}
      last   == CHOOSE j \in before : \A i \in before : i <= j
  IN  CASE before = {} -> 0
        [] before # {} /\ lines[last].type = "RT_EXT_SEG_ADDR" -> lines[last].value * Paragraph
        [] OTHER -> lines[last].value * Window

\* A Hex file that is programmed has been read to its end record, and each byte of its
\* records is where the address record before it puts it, whatever records came between.
HexPlaced ==
  (phase \in {"loaded", "program", "done"} /\ lines # <<>>) =>
    /\ lines[Len(lines)].type = "RT_EOF"
    /\ \A k \in DOMAIN lines :
         lines[k].type = "RT_DATA" =>
           LET d  == lines[k].data
               at == BaseOf(k) + d.offset
           IN  \A x \in DOMAIN d.bytes : Gives(given, at + x - 1, d.bytes[x])

\* A Hex file is refused for an overlap only when two of its records overlap.
RefusedForOverlap == phase = "refused" => ~Disjoint(given)

\* "Overlapping memory blocks.": a Hex file whose blocks overlap is never programmed.
OverlapRefused ==
  (phase \in {"program", "done", "undefined"} /\ lines # <<>>) => Disjoint(given)
=============================================================================
