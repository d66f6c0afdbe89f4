-------------------------------- MODULE Image --------------------------------
(***************************************************************************)
(* Image (Image.cpp): the sections a firmware file is collected in before  *)
(* it is programmed.                                                       *)
(*                                                                         *)
(* A piece of memory, be it a MemoryBlock or a Section, is a record of its *)
(* first address, its end address and its bytes, a function on the         *)
(* addresses between them. A Hex file hands its records over one by one,   *)
(* in any order (Process); an ELF file asks for the memory of a segment    *)
(* and reads the file into it (Load). An exception on the way leaves the   *)
(* image as it is and ends the program.                                    *)
(***************************************************************************)
EXTENDS Integers, Sequences

CONSTANTS
  Byte,         \* the contents a byte of the image may have
  Zero          \* the byte a vector<byte> is filled with

ASSUME ImageAssumption == Zero \in Byte

VARIABLES
  phase,        \* "loading", "loaded", "program", "done"; "undefined";
                \* "refused" for an overlap, "failed" by another exception,
                \* "terminated" by one that nobody catches
  sections,     \* _sections
  given         \* ghost: the pieces the file has handed over

imageVars == <<phase, sections, given>>

IsPiece(s) ==
  /\ s.lo \in Nat /\ s.hi \in Nat
  /\ s.lo <= s.hi
  /\ s.mem \in [s.lo .. s.hi - 1 -> Byte]

Piece(lo, hi, mem) == [lo |-> lo, hi |-> hi, mem |-> mem]

ImageInit ==
  /\ phase = "loading"
  /\ sections = <<>>
  /\ given = <<>>

-----------------------------------------------------------------------------
\* Section::joinable(): the block touches or overlaps the section.
Joinable(s, b) == b.hi >= s.lo /\ b.lo <= s.hi

\* The section process() tries: the first one in the list that is joinable.
FirstJoinable(i, b) ==
  /\ i \in DOMAIN sections
  /\ Joinable(sections[i], b)
  /\ \A j \in 1 .. i - 1 : ~Joinable(sections[j], b)

\* Mutated form of Fits: a block behind the section is not taken.
FitsInFront(s, b) == b.hi = s.lo

\* Section::add() takes a block that ends where the section starts, or the reverse.
Fits(s, b) == b.hi = s.lo \/ b.lo = s.hi

\* Mutated form of Joined: a block in front of the section leaves its address alone.
JoinedInPlace(s, b) ==
  IF b.hi = s.lo
  THEN Piece(s.lo, s.hi + b.hi - b.lo,
             [a \in s.lo .. s.hi + b.hi - b.lo - 1 |->
                LET c == a - (b.hi - b.lo) IN IF c < s.lo THEN b.mem[c] ELSE s.mem[c]])
  ELSE Piece(s.lo, b.hi, [a \in s.lo .. b.hi - 1 |-> IF a < b.lo THEN s.mem[a] ELSE b.mem[a]])

\* Section::add(): the block is put in front of the data, or behind it.
Joined(s, b) ==
  IF b.hi = s.lo
  THEN Piece(b.lo, s.hi, [a \in b.lo .. s.hi - 1 |-> IF a < b.hi THEN b.mem[a] ELSE s.mem[a]])
  ELSE Piece(s.lo, b.hi, [a \in s.lo .. b.hi - 1 |-> IF a < b.lo THEN s.mem[a] ELSE b.mem[a]])

Take(p) ==
  /\ phase = "loading"
  /\ given' = Append(given, p)

SkipEmpty(b) ==
  /\ Take(b)
  /\ b.lo = b.hi
  /\ UNCHANGED <<phase, sections>>

Extend(b) ==
  /\ Take(b)
  /\ b.lo # b.hi
  /\ \E i \in DOMAIN sections :
       /\ FirstJoinable(i, b)
       /\ Fits(sections[i], b)
       /\ sections' = [sections EXCEPT ![i] = Joined(@, b)]
  /\ UNCHANGED phase

\* "Overlapping memory blocks."
RefuseOverlap(b) ==
  /\ Take(b)
  /\ b.lo # b.hi
  /\ \E i \in DOMAIN sections : FirstJoinable(i, b) /\ ~Fits(sections[i], b)
  /\ phase' = "refused"
  /\ UNCHANGED sections

Place(b) ==
  /\ Take(b)
  /\ b.lo # b.hi
  /\ \A i \in DOMAIN sections : ~Joinable(sections[i], b)
  /\ sections' = Append(sections, Piece(b.lo, b.hi, b.mem))
  /\ UNCHANGED phase

\* Image::process(address, data)
Process(b) == SkipEmpty(b) \/ Extend(b) \/ RefuseOverlap(b) \/ Place(b)

-----------------------------------------------------------------------------
\* A section of its own: size bytes from address lo on, the first of them, count, those
\* that follow position off of the file content, the others zero.
Filled(lo, size, content, off, count) ==
  Piece(lo, lo + size,
        [a \in lo .. lo + size - 1 |-> IF a < lo + count THEN content[off + a - lo] ELSE Zero])

\* Image::process(address, size), and the read of the file into the new section.
Load(piece) ==
  /\ Take(piece)
  /\ sections' = Append(sections, piece)
  /\ UNCHANGED phase

\* The file ends early, with part of the section read: "File read error.", a String,
\* which is no std::exception.
LoadFails(piece) ==
  /\ phase = "loading"
  /\ sections' = Append(sections, piece)
  /\ phase' = "terminated"
  /\ UNCHANGED given

-----------------------------------------------------------------------------
Overlap(s, b) == s.lo < b.hi /\ b.lo < s.hi

Disjoint(pieces) ==
  \A i, j \in DOMAIN pieces : i # j => ~Overlap(pieces[i], pieces[j])

\* The pieces give address a the byte v.
Gives(pieces, a, v) ==
  \E i \in DOMAIN pieces : a \in DOMAIN pieces[i].mem /\ pieces[i].mem[a] = v

Covers(pieces, a) == \E v \in Byte : Gives(pieces, a, v)

Going == phase \notin {"refused", "failed", "terminated"}

\* Pieces that do not overlap are never refused, whatever order they come in, and no byte
\* of them is lost, moved or invented: process() joins a block with one section only, and
\* in front of it or behind it.
LosslessLoading ==
  Disjoint(given) /\ Going =>
    /\ Disjoint(sections)
    /\ \A i \in DOMAIN given : \A a \in DOMAIN given[i].mem :
         Gives(sections, a, given[i].mem[a])
    /\ \A i \in DOMAIN sections : \A a \in DOMAIN sections[i].mem :
         Gives(given, a, sections[i].mem[a])
=============================================================================
