----------------------------- MODULE ImageProofs -----------------------------
(***************************************************************************)
(* Lemmas about the sections of an image, about the order they are sorted  *)
(* in, and about the addresses sectors and pages start at.                 *)
(***************************************************************************)
EXTENDS ImageProgrammer, FiniteSetTheorems, TLAPS

(***************************************************************************)
(* Pieces                                                                  *)
(***************************************************************************)
PieceSet ==
  {p \in [lo : Nat, hi : Nat, mem : UNION {[D -> Byte] : D \in SUBSET Nat}] : IsPiece(p)}

\* The parts of a piece.
LEMMA PieceFacts ==
  ASSUME NEW p \in PieceSet
  PROVE  /\ IsPiece(p)
         /\ p.lo \in Nat /\ p.hi \in Nat /\ p.lo <= p.hi
         /\ p.mem \in [p.lo .. p.hi - 1 -> Byte]
         /\ DOMAIN p.mem = p.lo .. p.hi - 1
         /\ \A a \in DOMAIN p.mem : a \in Nat /\ p.mem[a] \in Byte
  BY DEF PieceSet, IsPiece

\* p is the piece from lo up to hi with the bytes of mem.
IsThePiece(p, lo, hi, mem) == p \in PieceSet /\ p.lo = lo /\ p.hi = hi /\ p.mem = mem

\* Bytes on an interval make a piece.
LEMMA PieceType ==
  ASSUME NEW lo \in Nat, NEW hi \in Nat, lo <= hi, NEW mem \in [lo .. hi - 1 -> Byte]
  PROVE  IsThePiece(Piece(lo, hi, mem), lo, hi, mem)
<1>0. lo .. hi - 1 \in SUBSET Nat
  OBVIOUS
<1>1. mem \in UNION {[D -> Byte] : D \in SUBSET Nat}
  BY <1>0, Zenon
<1>2. Piece(lo, hi, mem) \in [lo : Nat, hi : Nat, mem : UNION {[D -> Byte] : D \in SUBSET Nat}]
  BY <1>1 DEF Piece
<1>3. Piece(lo, hi, mem).lo = lo /\ Piece(lo, hi, mem).hi = hi /\ Piece(lo, hi, mem).mem = mem
  BY DEF Piece
<1>4. IsPiece(Piece(lo, hi, mem))
  BY <1>3 DEF IsPiece
<1> QED BY <1>2, <1>3, <1>4 DEF PieceSet, IsThePiece

\* A piece made of the parts of a piece.
LEMMA PieceAgain ==
  ASSUME NEW b \in PieceSet
  PROVE  LET p == Piece(b.lo, b.hi, b.mem)
         IN  p \in PieceSet /\ p.lo = b.lo /\ p.hi = b.hi /\ p.mem = b.mem
<1> DEFINE p == Piece(b.lo, b.hi, b.mem)
<1>1. p.lo = b.lo /\ p.hi = b.hi /\ p.mem = b.mem
  BY DEF Piece
<1>2. p \in [lo : Nat, hi : Nat, mem : UNION {[D -> Byte] : D \in SUBSET Nat}]
  BY DEF Piece, PieceSet
<1>3. IsPiece(p)
  BY <1>1, PieceFacts DEF IsPiece
<1> QED BY <1>1, <1>2, <1>3 DEF PieceSet

\* A block that fits a section makes one piece with it, of all the bytes of both.
LEMMA JoinedBytes ==
  ASSUME NEW s \in PieceSet, NEW b \in PieceSet, Fits(s, b)
  PROVE  /\ Joined(s, b) \in PieceSet
         /\ DOMAIN Joined(s, b).mem = DOMAIN s.mem \cup DOMAIN b.mem
         /\ \A a \in DOMAIN s.mem : Joined(s, b).mem[a] = s.mem[a]
         /\ \A a \in DOMAIN b.mem : Joined(s, b).mem[a] = b.mem[a]
         /\ Joined(s, b).lo \in {s.lo, b.lo} /\ Joined(s, b).hi \in {s.hi, b.hi}
         /\ Joined(s, b).lo <= s.lo /\ Joined(s, b).hi >= s.hi
<1>0. /\ s.lo \in Nat /\ s.hi \in Nat /\ s.lo <= s.hi /\ s.mem \in [s.lo .. s.hi - 1 -> Byte]
      /\ b.lo \in Nat /\ b.hi \in Nat /\ b.lo <= b.hi /\ b.mem \in [b.lo .. b.hi - 1 -> Byte]
  BY PieceFacts
<1>1. CASE b.hi = s.lo
  <2> DEFINE mem == [a \in b.lo .. s.hi - 1 |-> IF a < b.hi THEN b.mem[a] ELSE s.mem[a]]
  <2>1. Joined(s, b) = Piece(b.lo, s.hi, mem)
    BY <1>1 DEF Joined
  <2>2. mem \in [b.lo .. s.hi - 1 -> Byte]
    BY <1>0, <1>1
  <2>3. /\ DOMAIN mem = b.lo .. s.hi - 1
        /\ \A a \in s.lo .. s.hi - 1 : mem[a] = s.mem[a]
        /\ \A a \in b.lo .. b.hi - 1 : mem[a] = b.mem[a]
    BY <1>0, <1>1
  <2> HIDE DEF mem
  <2>4. b.lo <= s.hi
    BY <1>0, <1>1
  <2>5. Joined(s, b) \in PieceSet /\ Joined(s, b).mem = mem
        /\ Joined(s, b).lo = b.lo /\ Joined(s, b).hi = s.hi
    <3>1. b.lo \in Nat /\ s.hi \in Nat
      BY <1>0
    <3>2. IsThePiece(Piece(b.lo, s.hi, mem), b.lo, s.hi, mem)
      BY <2>2, <2>4, <3>1, PieceType
    <3> QED BY <2>1, <3>2 DEF IsThePiece
  <2>6. DOMAIN s.mem = s.lo .. s.hi - 1 /\ DOMAIN b.mem = b.lo .. b.hi - 1
    BY <1>0
  <2>7. b.lo .. s.hi - 1 = (s.lo .. s.hi - 1) \cup (b.lo .. b.hi - 1)
    BY <1>0, <1>1
  <2> QED BY <1>0, <1>1, <2>3, <2>5, <2>6, <2>7
<1>2. CASE b.hi # s.lo
  <2> DEFINE mem == [a \in s.lo .. b.hi - 1 |-> IF a < b.lo THEN s.mem[a] ELSE b.mem[a]]
  <2>0. b.lo = s.hi
    BY <1>2 DEF Fits
  <2>1. Joined(s, b) = Piece(s.lo, b.hi, mem)
    BY <1>2 DEF Joined
  <2>2. mem \in [s.lo .. b.hi - 1 -> Byte]
    BY <1>0, <2>0
  <2>3. /\ DOMAIN mem = s.lo .. b.hi - 1
        /\ \A a \in s.lo .. s.hi - 1 : mem[a] = s.mem[a]
        /\ \A a \in b.lo .. b.hi - 1 : mem[a] = b.mem[a]
    BY <1>0, <2>0
  <2> HIDE DEF mem
  <2>4. s.lo <= b.hi
    BY <1>0, <2>0
  <2>5. Joined(s, b) \in PieceSet /\ Joined(s, b).mem = mem
        /\ Joined(s, b).lo = s.lo /\ Joined(s, b).hi = b.hi
    <3>1. s.lo \in Nat /\ b.hi \in Nat
      BY <1>0
    <3>2. IsThePiece(Piece(s.lo, b.hi, mem), s.lo, b.hi, mem)
      BY <2>2, <2>4, <3>1, PieceType
    <3> QED BY <2>1, <3>2 DEF IsThePiece
  <2>6. DOMAIN s.mem = s.lo .. s.hi - 1 /\ DOMAIN b.mem = b.lo .. b.hi - 1
    BY <1>0
  <2>7. s.lo .. b.hi - 1 = (s.lo .. s.hi - 1) \cup (b.lo .. b.hi - 1)
    BY <1>0, <2>0
  <2> QED BY <1>0, <2>0, <2>3, <2>5, <2>6, <2>7
<1> QED BY <1>1, <1>2

\* Pieces that have bytes overlap exactly when they have an address in common.
LEMMA OverlapMeansShared ==
  ASSUME NEW s \in PieceSet, NEW b \in PieceSet
  PROVE  /\ \A a : a \in DOMAIN s.mem /\ a \in DOMAIN b.mem => Overlap(s, b)
         /\ Overlap(s, b) /\ s.lo # s.hi /\ b.lo # b.hi =>
              \E a : a \in DOMAIN s.mem /\ a \in DOMAIN b.mem
<1>1. /\ s.lo \in Nat /\ s.hi \in Nat /\ s.lo <= s.hi /\ DOMAIN s.mem = s.lo .. s.hi - 1
      /\ b.lo \in Nat /\ b.hi \in Nat /\ b.lo <= b.hi /\ DOMAIN b.mem = b.lo .. b.hi - 1
  BY PieceFacts
<1>2. ASSUME Overlap(s, b), s.lo # s.hi, b.lo # b.hi
      PROVE  \E a : a \in DOMAIN s.mem /\ a \in DOMAIN b.mem
  <2>1. CASE s.lo <= b.lo
    <3>1. b.lo \in DOMAIN s.mem /\ b.lo \in DOMAIN b.mem
      BY <1>1, <1>2, <2>1 DEF Overlap
    <3> QED BY <3>1
  <2>2. CASE b.lo <= s.lo
    <3>1. s.lo \in DOMAIN s.mem /\ s.lo \in DOMAIN b.mem
      BY <1>1, <1>2, <2>2 DEF Overlap
    <3> QED BY <3>1
  <2> QED BY <1>1, <2>1, <2>2
<1>3. ASSUME NEW a, a \in DOMAIN s.mem, a \in DOMAIN b.mem
      PROVE  Overlap(s, b)
  BY <1>1, <1>3 DEF Overlap
<1> QED BY <1>2, <1>3

-----------------------------------------------------------------------------
(***************************************************************************)
(* Lists of pieces                                                         *)
(***************************************************************************)

\* Every byte of the pieces P is a byte of the pieces Q, at the same address.
Within(P, Q) ==
  \A i \in DOMAIN P : \A a \in DOMAIN P[i].mem : Gives(Q, a, P[i].mem[a])

\* A piece at the end of the list gives its bytes, and takes none of the others away.
LEMMA AppendPiece ==
  ASSUME NEW P \in Seq(PieceSet), NEW p \in PieceSet
  PROVE  /\ Append(P, p) \in Seq(PieceSet)
         /\ DOMAIN P = 1 .. Len(P) /\ Len(P) \in Nat
         /\ DOMAIN Append(P, p) = 1 .. Len(P) + 1
         /\ Append(P, p)[Len(P) + 1] = p
         /\ \A i \in 1 .. Len(P) : Append(P, p)[i] = P[i]
         /\ \A a, v : Gives(P, a, v) => Gives(Append(P, p), a, v)
         /\ \A a \in DOMAIN p.mem : Gives(Append(P, p), a, p.mem[a])
<1>1. /\ Append(P, p) \in Seq(PieceSet)
      /\ DOMAIN P = 1 .. Len(P) /\ Len(P) \in Nat
      /\ DOMAIN Append(P, p) = 1 .. Len(P) + 1
      /\ Append(P, p)[Len(P) + 1] = p
      /\ \A i \in 1 .. Len(P) : Append(P, p)[i] = P[i]
  OBVIOUS
<1>2. Len(P) + 1 \in DOMAIN Append(P, p) /\ \A i \in DOMAIN P : i \in DOMAIN Append(P, p)
  BY <1>1
<1>3. \A a, v : Gives(P, a, v) => Gives(Append(P, p), a, v)
  BY <1>1, <1>2, Zenon DEF Gives
<1>4. \A a \in DOMAIN p.mem : Gives(Append(P, p), a, p.mem[a])
  BY <1>1, <1>2, Zenon DEF Gives
<1> QED BY <1>1, <1>3, <1>4

\* A list grown by a piece is within what gives the list and the piece.
LEMMA WithinAppend ==
  ASSUME NEW P \in Seq(PieceSet), NEW p \in PieceSet, NEW Q,
         Within(P, Q), \A a \in DOMAIN p.mem : Gives(Q, a, p.mem[a])
  PROVE  Within(Append(P, p), Q)
<1> SUFFICES ASSUME NEW i \in DOMAIN Append(P, p), NEW a \in DOMAIN Append(P, p)[i].mem
             PROVE  Gives(Q, a, Append(P, p)[i].mem[a])
  BY DEF Within
<1>1. CASE i = Len(P) + 1
  BY <1>1, AppendPiece
<1>2. CASE i \in 1 .. Len(P)
  BY <1>2, AppendPiece DEF Within
<1> QED BY <1>1, <1>2, AppendPiece

\* The pieces a list ends with overlap none of the earlier ones, if the list is disjoint.
LEMMA DisjointPrefix ==
  ASSUME NEW P \in Seq(PieceSet), NEW p \in PieceSet, Disjoint(Append(P, p))
  PROVE  /\ Disjoint(P)
         /\ \A i \in DOMAIN P : ~Overlap(P[i], p) /\ ~Overlap(p, P[i])
<1>1. \A i \in 1 .. Len(P) : i # Len(P) + 1 /\ i \in DOMAIN Append(P, p)
  BY AppendPiece
<1>2. Len(P) + 1 \in DOMAIN Append(P, p)
  BY AppendPiece
<1> QED BY <1>1, <1>2, AppendPiece DEF Disjoint

\* A piece that overlaps none of a disjoint list leaves it disjoint.
LEMMA DisjointAppend ==
  ASSUME NEW P \in Seq(PieceSet), NEW p \in PieceSet, Disjoint(P),
         \A i \in DOMAIN P : ~Overlap(P[i], p)
  PROVE  Disjoint(Append(P, p))
<1> SUFFICES ASSUME NEW i \in DOMAIN Append(P, p), NEW j \in DOMAIN Append(P, p), i # j
             PROVE  ~Overlap(Append(P, p)[i], Append(P, p)[j])
  BY DEF Disjoint
<1>1. CASE i \in 1 .. Len(P) /\ j \in 1 .. Len(P)
  BY <1>1, AppendPiece DEF Disjoint
<1>2. CASE i \in 1 .. Len(P) /\ j = Len(P) + 1
  BY <1>2, AppendPiece
<1>3. CASE i = Len(P) + 1 /\ j \in 1 .. Len(P)
  <2>1. ~Overlap(P[j], p)
    BY <1>3, AppendPiece
  <2> QED BY <1>3, <2>1, AppendPiece DEF Overlap
<1> QED BY <1>1, <1>2, <1>3, AppendPiece

\* What is given by pieces within others is given by those.
LEMMA GivesWithin ==
  ASSUME NEW P, NEW Q, Within(P, Q), NEW a, NEW v, Gives(P, a, v)
  PROVE  Gives(Q, a, v)
  BY DEF Within, Gives

-----------------------------------------------------------------------------
(***************************************************************************)
(* Loading                                                                 *)
(***************************************************************************)

\* The sections hold the bytes of the pieces, and are disjoint if those are.
Lossless ==
  /\ Within(given, sections)
  /\ Within(sections, given)
  /\ Disjoint(given) => Disjoint(sections)

NoneEmpty == \A i \in DOMAIN sections : sections[i].lo # sections[i].hi

\* A block that overlaps no earlier piece shares no address with a section.
LEMMA BlockApart ==
  ASSUME sections \in Seq(PieceSet), given \in Seq(PieceSet), NEW b \in PieceSet,
         Within(sections, given), Disjoint(Append(given, b)),
         NEW i \in DOMAIN sections, NEW a \in DOMAIN sections[i].mem
  PROVE  a \notin DOMAIN b.mem
<1>1. PICK j \in DOMAIN given : a \in DOMAIN given[j].mem
  BY DEF Within, Gives
<1>2. ~Overlap(given[j], b)
  BY DisjointPrefix
<1>3. given[j] \in PieceSet
  OBVIOUS
<1> QED BY <1>1, <1>2, <1>3, OverlapMeansShared

\* Joining a block with a section it fits keeps every byte in its place.
LEMMA ExtendLossless ==
  ASSUME sections \in Seq(PieceSet), given \in Seq(PieceSet), NEW b \in PieceSet,
         Lossless, NoneEmpty, Extend(b)
  PROVE  sections' \in Seq(PieceSet) /\ Lossless' /\ NoneEmpty'
<1>1. PICK i \in DOMAIN sections :
        Fits(sections[i], b) /\ sections' = [sections EXCEPT ![i] = Joined(sections[i], b)]
  BY DEF Extend
<1> DEFINE J == Joined(sections[i], b)
<1>2. given' = Append(given, b) /\ b.lo # b.hi
  BY DEF Extend, Take
<1>3. \A k \in DOMAIN sections : sections[k] \in PieceSet
  OBVIOUS
<1>4. /\ J \in PieceSet
      /\ DOMAIN J.mem = DOMAIN sections[i].mem \cup DOMAIN b.mem
      /\ \A a \in DOMAIN sections[i].mem : J.mem[a] = sections[i].mem[a]
      /\ \A a \in DOMAIN b.mem : J.mem[a] = b.mem[a]
      /\ J.lo <= sections[i].lo /\ J.hi >= sections[i].hi
  BY <1>1, <1>3, JoinedBytes
<1> HIDE DEF J
<1>5. /\ sections' \in Seq(PieceSet)
      /\ DOMAIN sections' = DOMAIN sections
      /\ sections'[i] = J
      /\ \A k \in DOMAIN sections : k # i => sections'[k] = sections[k]
  BY <1>1, <1>4 DEF J
<1>6. NoneEmpty'
  <2>1. J.lo # J.hi
    <3>1. /\ sections[i].lo \in Nat /\ sections[i].hi \in Nat /\ sections[i].lo <= sections[i].hi
          /\ J.lo \in Nat /\ J.hi \in Nat
      BY <1>3, <1>4, PieceFacts
    <3>2. sections[i].lo # sections[i].hi
      BY DEF NoneEmpty
    <3> QED BY <1>4, <3>1, <3>2
  <2> QED BY <1>5, <2>1 DEF NoneEmpty
<1>7. Within(given', sections')
  <2>1. Within(sections, sections')
    BY <1>4, <1>5 DEF Within, Gives
  <2>2. Within(given, sections')
    BY <2>1, GivesWithin DEF Lossless, Within
  <2>3. \A a \in DOMAIN b.mem : Gives(sections', a, b.mem[a])
    BY <1>4, <1>5 DEF Gives
  <2> QED BY <1>2, <2>2, <2>3, WithinAppend
<1>8. Within(sections', given')
  <2> SUFFICES ASSUME NEW k \in DOMAIN sections, NEW a \in DOMAIN sections'[k].mem
               PROVE  Gives(given', a, sections'[k].mem[a])
    BY <1>5 DEF Within
  <2>1. CASE k # i \/ a \in DOMAIN sections[i].mem
    <3>1. a \in DOMAIN sections[k].mem /\ sections'[k].mem[a] = sections[k].mem[a]
      BY <1>4, <1>5, <2>1
    <3>2. Gives(given, a, sections[k].mem[a])
      BY <3>1 DEF Lossless, Within
    <3> QED BY <1>2, <3>1, <3>2, AppendPiece
  <2>2. CASE k = i /\ a \in DOMAIN b.mem
    BY <1>2, <1>4, <1>5, <2>2, AppendPiece
  <2> QED BY <1>4, <1>5, <2>1, <2>2
<1>9. ASSUME Disjoint(given')
      PROVE  Disjoint(sections')
  <2>1. Disjoint(sections)
    BY <1>2, <1>9, DisjointPrefix DEF Lossless
  <2>2. ASSUME NEW k \in DOMAIN sections, k # i
        PROVE  ~Overlap(sections[k], J)
    <3>1. SUFFICES ASSUME NEW a, a \in DOMAIN sections[k].mem, a \in DOMAIN J.mem
                   PROVE  FALSE
      <4>1. sections[k].lo # sections[k].hi /\ J.lo # J.hi
        BY <1>5, <1>6 DEF NoneEmpty
      <4> QED BY <1>3, <1>4, <4>1, OverlapMeansShared
    <3>2. ~Overlap(sections[k], sections[i])
      BY <2>1, <2>2 DEF Disjoint
    <3>3. a \notin DOMAIN sections[i].mem
      BY <1>3, <3>1, <3>2, OverlapMeansShared
    <3>4. a \notin DOMAIN b.mem
      BY <1>2, <1>9, <3>1, BlockApart DEF Lossless
    <3> QED BY <1>4, <3>1, <3>3, <3>4
  <2>3. \A k \in DOMAIN sections : k # i => ~Overlap(J, sections[k])
    BY <2>2 DEF Overlap
  <2> QED BY <1>5, <2>1, <2>2, <2>3 DEF Disjoint
<1> QED BY <1>5, <1>6, <1>7, <1>8, <1>9 DEF Lossless

\* A piece that becomes a section of its own is there with all its bytes.
LEMMA AddedLossless ==
  ASSUME sections \in Seq(PieceSet), given \in Seq(PieceSet), NEW b \in PieceSet, Lossless,
         given' = Append(given, b), sections' = Append(sections, b),
         Disjoint(given') => Disjoint(sections')
  PROVE  given' \in Seq(PieceSet) /\ sections' \in Seq(PieceSet) /\ Lossless'
<1>1. given' \in Seq(PieceSet) /\ sections' \in Seq(PieceSet)
  BY AppendPiece
<1>2. Within(given', sections')
  <2>1. Within(given, sections')
    BY AppendPiece DEF Lossless, Within
  <2> QED BY <2>1, WithinAppend, AppendPiece
<1>3. Within(sections', given')
  <2>1. Within(sections, given')
    BY AppendPiece DEF Lossless, Within
  <2> QED BY <2>1, WithinAppend, AppendPiece
<1> QED BY <1>1, <1>2, <1>3 DEF Lossless

\* A block that touches no section is apart from all of them.
LEMMA PlaceLossless ==
  ASSUME sections \in Seq(PieceSet), given \in Seq(PieceSet), NEW b \in PieceSet,
         Lossless, NoneEmpty, Place(b)
  PROVE  sections' \in Seq(PieceSet) /\ Lossless' /\ NoneEmpty'
<1>1. /\ given' = Append(given, b) /\ b.lo # b.hi
      /\ sections' = Append(sections, Piece(b.lo, b.hi, b.mem))
      /\ \A i \in DOMAIN sections : ~Joinable(sections[i], b)
  BY DEF Place, Take
<1> DEFINE p == Piece(b.lo, b.hi, b.mem)
<1>2. p \in PieceSet /\ p.lo = b.lo /\ p.hi = b.hi /\ p.mem = b.mem
  BY PieceAgain
<1> HIDE DEF p
<1>3. sections' = Append(sections, p) /\ sections' \in Seq(PieceSet)
  BY <1>1, <1>2, AppendPiece DEF p
<1>4. Within(given', sections')
  <2>1. Within(given, sections')
    BY <1>2, <1>3, AppendPiece DEF Lossless, Within
  <2>2. \A a \in DOMAIN b.mem : Gives(sections', a, b.mem[a])
    BY <1>2, <1>3, AppendPiece
  <2> QED BY <1>1, <2>1, <2>2, WithinAppend
<1>5. Within(sections', given')
  <2>1. Within(sections, given')
    BY <1>1, AppendPiece DEF Lossless, Within
  <2>2. \A a \in DOMAIN p.mem : Gives(given', a, p.mem[a])
    BY <1>1, <1>2, AppendPiece
  <2> QED BY <1>2, <1>3, <2>1, <2>2, WithinAppend
<1>6. ASSUME Disjoint(given')
      PROVE  Disjoint(sections')
  <2>1. Disjoint(sections)
    BY <1>1, <1>6, DisjointPrefix DEF Lossless
  <2>2. ASSUME NEW i \in DOMAIN sections
        PROVE  ~Overlap(sections[i], p)
    <3>1. sections[i] \in PieceSet
      OBVIOUS
    <3>2. /\ sections[i].lo \in Nat /\ sections[i].hi \in Nat
          /\ b.lo \in Nat /\ b.hi \in Nat
      BY <3>1, PieceFacts
    <3>3. b.hi < sections[i].lo \/ b.lo > sections[i].hi
      BY <1>1, <3>2 DEF Joinable
    <3> QED BY <1>2, <3>2, <3>3 DEF Overlap
  <2> QED BY <1>2, <1>3, <2>1, <2>2, DisjointAppend
<1>7. NoneEmpty'
  <2>1. p.lo # p.hi
    BY <1>1, <1>2
  <2> QED BY <1>2, <1>3, <2>1, AppendPiece DEF NoneEmpty
<1> QED BY <1>3, <1>4, <1>5, <1>6, <1>7 DEF Lossless

\* A block without bytes leaves no trace.
LEMMA SkipLossless ==
  ASSUME sections \in Seq(PieceSet), given \in Seq(PieceSet), NEW b \in PieceSet,
         Lossless, SkipEmpty(b)
  PROVE  Lossless'
<1>1. given' = Append(given, b) /\ b.lo = b.hi /\ sections' = sections
  BY DEF SkipEmpty, Take, imageVars
<1>2. \A a : a \notin DOMAIN b.mem
  BY <1>1, PieceFacts
<1>3. Within(given', sections')
  BY <1>1, <1>2, WithinAppend DEF Lossless
<1>4. Within(sections', given')
  BY <1>1, AppendPiece DEF Lossless, Within
<1>5. Disjoint(given') => Disjoint(sections')
  BY <1>1, DisjointPrefix DEF Lossless
<1> QED BY <1>3, <1>4, <1>5 DEF Lossless

\* A block is refused only if it overlaps an earlier piece.
LEMMA RefusedOverlaps ==
  ASSUME sections \in Seq(PieceSet), given \in Seq(PieceSet), NEW b \in PieceSet,
         Lossless, NoneEmpty, RefuseOverlap(b)
  PROVE  ~Disjoint(given')
<1> SUFFICES ASSUME Disjoint(given') PROVE FALSE
  OBVIOUS
<1>1. PICK i \in DOMAIN sections : Joinable(sections[i], b) /\ ~Fits(sections[i], b)
  BY DEF RefuseOverlap, FirstJoinable
<1>2. given' = Append(given, b) /\ b.lo # b.hi
  BY DEF RefuseOverlap, Take
<1>3. sections[i] \in PieceSet
  OBVIOUS
<1>4. Overlap(sections[i], b)
  <2>1. /\ sections[i].lo \in Nat /\ sections[i].hi \in Nat
        /\ b.lo \in Nat /\ b.hi \in Nat
    BY <1>3, PieceFacts
  <2> QED BY <1>1, <2>1 DEF Joinable, Fits, Overlap
<1>5. PICK a : a \in DOMAIN sections[i].mem /\ a \in DOMAIN b.mem
  BY <1>2, <1>3, <1>4, OverlapMeansShared DEF NoneEmpty
<1> QED BY <1>2, <1>5, BlockApart DEF Lossless

\* A record of a Hex file: its bytes are in the image, or it overlaps an earlier one.
LEMMA ProcessLossless ==
  ASSUME sections \in Seq(PieceSet), given \in Seq(PieceSet), NEW b \in PieceSet,
         Lossless, NoneEmpty, Process(b)
  PROVE  /\ sections' \in Seq(PieceSet) /\ given' = Append(given, b)
         /\ \/ phase' = phase /\ Lossless' /\ NoneEmpty'
            \/ phase' = "refused" /\ ~Disjoint(given')
<1>1. CASE SkipEmpty(b)
  BY <1>1, SkipLossless DEF SkipEmpty, Take, NoneEmpty
<1>2. CASE Extend(b)
  BY <1>2, ExtendLossless DEF Extend, Take
<1>3. CASE RefuseOverlap(b)
  BY <1>3, RefusedOverlaps DEF RefuseOverlap, Take
<1>4. CASE Place(b)
  BY <1>4, PlaceLossless DEF Place, Take
<1> QED BY <1>1, <1>2, <1>3, <1>4 DEF Process

-----------------------------------------------------------------------------
(***************************************************************************)
(* Sorting                                                                 *)
(***************************************************************************)
Places == DOMAIN sections

\* The sections that come before the one at place i.
Ahead(i) == {j \in Places : Precedes(j, i)}

\* The order of the sections is total and strict.
LEMMA PrecedesOrder ==
  ASSUME sections \in Seq(PieceSet)
  PROVE  /\ \A i \in Places : ~Precedes(i, i)
         /\ \A i, j \in Places : i # j => Precedes(i, j) \/ Precedes(j, i)
         /\ \A i, j, k \in Places : Precedes(i, j) /\ Precedes(j, k) => Precedes(i, k)
<1>1. \A i \in Places : i \in Nat /\ sections[i].lo \in Nat
  <2> TAKE i \in Places
  <2>1. i \in Nat /\ sections[i] \in PieceSet
    BY DEF Places
  <2> QED BY <2>1, PieceFacts
<1> QED BY <1>1 DEF Precedes

\* The place of a section in the sorted list is one more than the sections before it.
LEMMA RankOrders ==
  ASSUME sections \in Seq(PieceSet)
  PROVE  /\ Places = 1 .. Len(sections) /\ Len(sections) \in Nat
         /\ \A i \in Places : Cardinality(Ahead(i)) \in 0 .. Len(sections) - 1
         /\ \A i, j \in Places :
              Precedes(i, j) => Cardinality(Ahead(i)) < Cardinality(Ahead(j))
<1>1. Places = 1 .. Len(sections) /\ Len(sections) \in Nat
  BY DEF Places
<1>2. IsFiniteSet(Places) /\ Cardinality(Places) = Len(sections)
  BY <1>1, FS_Interval, SMTT(30)
<1>3. ASSUME NEW i \in Places
      PROVE  /\ IsFiniteSet(Ahead(i))
             /\ Cardinality(Ahead(i)) \in 0 .. Len(sections) - 1
  <2>1. Ahead(i) \subseteq Places
    BY DEF Ahead
  <2>2. i \notin Ahead(i)
    BY PrecedesOrder DEF Ahead
  <2>3. IsFiniteSet(Ahead(i)) /\ Cardinality(Ahead(i)) <= Len(sections)
        /\ (Cardinality(Places) = Cardinality(Ahead(i)) => Places = Ahead(i))
    BY <1>2, <2>1, FS_Subset
  <2>4. Cardinality(Ahead(i)) # Len(sections)
    BY <1>2, <2>2, <2>3
  <2>5. Cardinality(Ahead(i)) \in Nat
    BY <2>3, FS_CardinalityType
  <2> QED BY <1>1, <2>3, <2>4, <2>5
<1>4. ASSUME NEW i \in Places, NEW j \in Places, Precedes(i, j)
      PROVE  Cardinality(Ahead(i)) < Cardinality(Ahead(j))
  <2>1. Ahead(i) \subseteq Ahead(j)
    BY <1>4, PrecedesOrder DEF Ahead
  <2>2. i \in Ahead(j) /\ i \notin Ahead(i)
    BY <1>4, PrecedesOrder DEF Ahead
  <2>3. Ahead(i) \in SUBSET Ahead(j) /\ Ahead(i) # Ahead(j)
    BY <2>1, <2>2
  <2>4. Cardinality(Ahead(i)) <= Cardinality(Ahead(j))
        /\ Cardinality(Ahead(i)) # Cardinality(Ahead(j))
    BY <1>3, <2>3, FS_Subset
  <2>5. Cardinality(Ahead(i)) \in Nat /\ Cardinality(Ahead(j)) \in Nat
    BY <1>3, FS_CardinalityType
  <2> QED BY <2>4, <2>5
<1> QED BY <1>1, <1>3, <1>4

\* There is an order to sort the sections in.
LEMMA OrderExists ==
  ASSUME sections \in Seq(PieceSet)
  PROVE  \E f \in [Places -> Places] : \A i, j \in Places : i < j => Precedes(f[i], f[j])
<1> DEFINE rank == [i \in Places |-> Cardinality(Ahead(i)) + 1]
<1>1. rank \in [Places -> Places] /\ \A i, j \in Places : Precedes(i, j) => rank[i] < rank[j]
  BY RankOrders
<1> HIDE DEF rank
<1>2. \A i \in Places : rank[i] \in Nat /\ i \in Nat
  BY <1>1, RankOrders
<1>3. \A i, j \in Places : rank[i] = rank[j] => i = j
  BY <1>1, <1>2, PrecedesOrder
<1>4. rank \in Injection(Places, Places)
  <2>1. rank \in [Places -> Places]
    BY <1>1
  <2> QED BY <1>3, <2>1 DEF Injection, IsInjective
<1>5. IsFiniteSet(Places)
  BY RankOrders, FS_Interval
<1>6. \A t \in Places : \E s \in Places : rank[s] = t
  <2>1. rank \in Surjection(Places, Places)
    BY <1>4, <1>5, FS_Injection
  <2> QED BY <2>1 DEF Surjection
<1> DEFINE f == [t \in Places |-> CHOOSE s \in Places : rank[s] = t]
<1>7. f \in [Places -> Places] /\ \A t \in Places : rank[f[t]] = t
  BY <1>6
<1> HIDE DEF f
<1>8. \A i, j \in Places : i < j => Precedes(f[i], f[j])
  <2> TAKE i, j \in Places
  <2> HAVE i < j
  <2>1. f[i] \in Places /\ f[j] \in Places /\ rank[f[i]] = i /\ rank[f[j]] = j
    BY <1>7
  <2>2. f[i] # f[j] /\ ~Precedes(f[j], f[i])
    BY <1>1, <1>2, <2>1
  <2> QED BY <2>1, <2>2, PrecedesOrder
<1> QED BY <1>7, <1>8

\* list::sort() permutes the sections and leaves them in the order of their addresses.
LEMMA SortedPermutation ==
  ASSUME sections \in Seq(PieceSet)
  PROVE  \E f \in [Places -> Places] :
           /\ SortedSections = [i \in Places |-> sections[f[i]]]
           /\ \A i, j \in Places : i < j => Precedes(f[i], f[j])
           /\ \A i, j \in Places : f[i] = f[j] => i = j
           /\ \A t \in Places : \E i \in Places : f[i] = t
<1> DEFINE Sorts(f) == \A i, j \in Places : i < j => Precedes(f[i], f[j])
<1> DEFINE order == CHOOSE f \in [Places -> Places] : Sorts(f)
<1>1. order \in [Places -> Places] /\ Sorts(order)
  BY OrderExists
<1>2. SortedSections = [i \in Places |-> sections[order[i]]]
  BY DEF SortedSections, Places
<1> HIDE DEF order
<1>3. \A i, j \in Places : order[i] = order[j] => i = j
  <2> TAKE i, j \in Places
  <2> HAVE order[i] = order[j]
  <2>1. i \in Nat /\ j \in Nat /\ order[i] \in Places
    BY <1>1, RankOrders
  <2>2. ~Precedes(order[i], order[i])
    BY <2>1, PrecedesOrder
  <2> QED BY <1>1, <2>1, <2>2
<1>4. order \in Injection(Places, Places)
  <2>1. order \in [Places -> Places]
    BY <1>1
  <2> QED BY <1>3, <2>1 DEF Injection, IsInjective
<1>5. \A t \in Places : \E i \in Places : order[i] = t
  <2>1. IsFiniteSet(Places)
    BY RankOrders, FS_Interval
  <2>2. order \in Surjection(Places, Places)
    BY <1>4, <2>1, FS_Injection
  <2> QED BY <2>2 DEF Surjection
<1> QED BY <1>1, <1>2, <1>3, <1>5

-----------------------------------------------------------------------------
(***************************************************************************)
(* Sectors and pages                                                       *)
(***************************************************************************)
Multiple(m, w) == \E k \in Nat : m = k * w

\* Aligning an address down gives the multiple at or below it.
LEMMA DownFacts ==
  ASSUME NEW w \in Nat \ {0}, NEW a \in Nat
  PROVE  /\ a - (a % w) \in Nat
         /\ a - (a % w) <= a /\ a < a - (a % w) + w
         /\ Multiple(a - (a % w), w)
<1>1. a % w \in 0 .. w - 1 /\ a = w * (a \div w) + (a % w)
  OBVIOUS
<1>2. a \div w \in Nat
  OBVIOUS
<1>3. a - (a % w) = (a \div w) * w
  BY <1>1, <1>2
<1>4. (a \div w) * w \in Nat
  BY <1>2
<1>5. Multiple(a - (a % w), w)
  BY <1>2, <1>3 DEF Multiple
<1>6. a - (a % w) \in Nat
  BY <1>3, <1>4
<1>7. a - (a % w) <= a /\ a < a - (a % w) + w
  BY <1>1, <1>6
<1> QED BY <1>5, <1>6, <1>7

\* A multiple is a number, and two of them are at least their unit apart.
LEMMA MultipleStep ==
  ASSUME NEW w \in Nat \ {0}, NEW m, NEW n, Multiple(m, w), Multiple(n, w)
  PROVE  /\ m \in Nat /\ n \in Nat
         /\ m < n => m + w <= n
<1>1. PICK k \in Nat : m = k * w
  BY DEF Multiple
<1>2. PICK j \in Nat : n = j * w
  BY DEF Multiple
<1>3. ASSUME k * w < j * w
      PROVE  k * w + w <= j * w
  <2>1. k < j
    BY <1>3
  <2>2. j >= k + 1
    BY <2>1
  <2>3. j * w >= (k + 1) * w
    BY <2>2
  <2> QED BY <2>3
<1>4. k * w \in Nat /\ j * w \in Nat
  OBVIOUS
<1> QED BY <1>1, <1>2, <1>3, <1>4

\* Multiples of a multiple, and their sums.
LEMMA MultipleTransitive ==
  ASSUME NEW w \in Nat \ {0}, NEW e \in Nat \ {0}, NEW m, Multiple(e, w), Multiple(m, e)
  PROVE  Multiple(m, w)
<1>1. PICK k \in Nat : e = k * w
  BY DEF Multiple
<1>2. PICK j \in Nat : m = j * e
  BY DEF Multiple
<1>3. m = (j * k) * w /\ j * k \in Nat
  BY <1>1, <1>2
<1> QED BY <1>3 DEF Multiple

LEMMA MultiplePlus ==
  ASSUME NEW w \in Nat \ {0}, NEW m, NEW n, Multiple(m, w), Multiple(n, w)
  PROVE  Multiple(m + n, w)
<1>1. PICK k \in Nat : m = k * w
  BY DEF Multiple
<1>2. PICK j \in Nat : n = j * w
  BY DEF Multiple
<1>3. m + n = (k + j) * w /\ k + j \in Nat
  BY <1>1, <1>2
<1> QED BY <1>3 DEF Multiple

LEMMA MultipleIfNoRest ==
  ASSUME NEW w \in Nat \ {0}, NEW m \in Nat, m % w = 0
  PROVE  Multiple(m, w)
<1>1. m - (m % w) = m
  OBVIOUS
<1> QED BY <1>1, DownFacts

LEMMA MultipleSelf ==
  ASSUME NEW w \in Nat \ {0}
  PROVE  Multiple(w, w) /\ Multiple(0, w)
<1>1. w = 1 * w /\ 0 = 0 * w
  OBVIOUS
<1> QED BY <1>1 DEF Multiple

\* The sector of an address, and its page, which is made of whole sectors of the device.
LEMMA SectorFacts ==
  ASSUME NEW a \in Nat
  PROVE  /\ SectorAlign(a) \in Nat
         /\ SectorAlign(a) <= a /\ a < SectorAlign(a) + WRITE_SIZE
         /\ Multiple(SectorAlign(a), WRITE_SIZE)
         /\ Multiple(SectorAlign(a) + WRITE_SIZE, WRITE_SIZE)
  BY ProgramAssumption, DownFacts, MultiplePlus, MultipleSelf DEF SectorAlign

LEMMA PageFacts ==
  ASSUME NEW a \in Nat
  PROVE  /\ EraseAlign(a) \in Nat
         /\ EraseAlign(a) <= a /\ a < EraseAlign(a) + ERASE_SIZE
         /\ Multiple(EraseAlign(a), ERASE_SIZE)
         /\ Multiple(EraseAlign(a) + ERASE_SIZE, ERASE_SIZE)
  BY ProgramAssumption, DownFacts, MultiplePlus, MultipleSelf DEF EraseAlign

LEMMA PageOfSectors ==
  ASSUME NEW m, Multiple(m, ERASE_SIZE)
  PROVE  Multiple(m, WRITE_SIZE)
  BY ProgramAssumption, MultipleIfNoRest, MultipleTransitive

LEMMA DeviceOfPages == Multiple(FLASH_SIZE, ERASE_SIZE) /\ Multiple(FLASH_SIZE, WRITE_SIZE)
  BY ProgramAssumption, MultipleIfNoRest, PageOfSectors

\* The sector and the page an address lies in are its own.
LEMMA SectorOf ==
  ASSUME NEW a \in Nat, NEW s, Multiple(s, WRITE_SIZE), s <= a, a < s + WRITE_SIZE
  PROVE  SectorAlign(a) = s
<1>1. s \in Nat /\ SectorAlign(a) \in Nat
      /\ (s < SectorAlign(a) => s + WRITE_SIZE <= SectorAlign(a))
      /\ (SectorAlign(a) < s => SectorAlign(a) + WRITE_SIZE <= s)
  BY ProgramAssumption, SectorFacts, MultipleStep
<1> QED BY <1>1, SectorFacts, ProgramAssumption

LEMMA PageOf ==
  ASSUME NEW a \in Nat, NEW s, Multiple(s, ERASE_SIZE), s <= a, a < s + ERASE_SIZE
  PROVE  EraseAlign(a) = s
<1>1. s \in Nat /\ EraseAlign(a) \in Nat
      /\ (s < EraseAlign(a) => s + ERASE_SIZE <= EraseAlign(a))
      /\ (EraseAlign(a) < s => EraseAlign(a) + ERASE_SIZE <= s)
  BY ProgramAssumption, PageFacts, MultipleStep
<1> QED BY <1>1, PageFacts, ProgramAssumption, SMTT(30)

\* A sector lies in one page, and that in the device.
LEMMA SectorInPage ==
  ASSUME NEW a \in Nat
  PROVE  /\ EraseAlign(SectorAlign(a)) = EraseAlign(a)
         /\ EraseAlign(a) <= SectorAlign(a)
         /\ SectorAlign(a) + WRITE_SIZE <= EraseAlign(a) + ERASE_SIZE
<1> DEFINE s == SectorAlign(a)
<1> DEFINE p == EraseAlign(a)
<1>1. /\ s \in Nat /\ s <= a /\ a < s + WRITE_SIZE
      /\ Multiple(s, WRITE_SIZE) /\ Multiple(s + WRITE_SIZE, WRITE_SIZE)
  BY SectorFacts
<1>2. /\ p \in Nat /\ p <= a /\ a < p + ERASE_SIZE
      /\ Multiple(p, ERASE_SIZE) /\ Multiple(p, WRITE_SIZE)
      /\ Multiple(p + ERASE_SIZE, WRITE_SIZE)
  BY PageFacts, PageOfSectors
<1> HIDE DEF s, p
<1>3. s < p => s + WRITE_SIZE <= p
  BY <1>1, <1>2, MultipleStep, ProgramAssumption
<1>4. p + ERASE_SIZE < s + WRITE_SIZE => p + ERASE_SIZE + WRITE_SIZE <= s + WRITE_SIZE
  BY <1>1, <1>2, MultipleStep, ProgramAssumption
<1>5. p <= s /\ s + WRITE_SIZE <= p + ERASE_SIZE
  BY <1>1, <1>2, <1>3, <1>4, ProgramAssumption
<1>6. EraseAlign(s) = p
  BY <1>1, <1>2, <1>5, PageOf, ProgramAssumption
<1> QED BY <1>5, <1>6 DEF s, p

LEMMA PageInDevice ==
  ASSUME NEW a \in Addr
  PROVE  EraseAlign(a) + ERASE_SIZE <= FLASH_SIZE
<1>1. a \in Nat /\ a < FLASH_SIZE
  BY ProgramAssumption DEF Addr
<1>2. EraseAlign(a) < FLASH_SIZE
  BY <1>1, PageFacts, ProgramAssumption
<1> QED BY <1>1, <1>2, PageFacts, DeviceOfPages, MultipleStep, ProgramAssumption
=============================================================================
