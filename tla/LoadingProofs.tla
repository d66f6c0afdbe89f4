---------------------------- MODULE LoadingProofs ----------------------------
(***************************************************************************)
(* What holds while a Hex or an ELF file is read into an image, and what   *)
(* of it still holds when the image is programmed, for every file.         *)
(***************************************************************************)
EXTENDS Firmware, ImageProofs, WellFoundedInduction

(***************************************************************************)
(* The shape of the state                                                  *)
(***************************************************************************)
Phases ==
  {"loading", "loaded", "program", "done", "undefined", "refused", "failed", "terminated"}

\* The records of a Hex file.
Line ==
  [type : {"RT_DATA"}, data : DataRecords]
    \cup [type : {"RT_EXT_SEG_ADDR"}, value : SegmentBases]
    \cup [type : {"RT_EXT_ADDR"}, value : LinearBases]
    \cup [type : {"RT_EOF", "bad"}]

FitDevice(pieces) == \A i \in DOMAIN pieces : pieces[i].hi <= FLASH_SIZE

\* The lists of pieces, and which of the two files there is.
PiecesOK ==
  /\ phase \in Phases
  /\ sections \in Seq(PieceSet) /\ FitDevice(sections)
  /\ given \in Seq(PieceSet) /\ FitDevice(given)
  /\ kind \in {"hex", "elf"}

HexOK ==
  /\ segment \in Bases
  /\ lines \in Seq(Line)
  /\ kind = "elf" => lines = <<>>

\* The entries of the tables have passed the checks of the constructor.
ElfOK ==
  /\ use \in {"programs", "sections"}
  /\ stage \in {"header", "sections", "programs", "image"}
  /\ stage # "header" => header \in ElfHeaders
  /\ sectionTab \in Seq(SectionHeaders)
  /\ \A i \in DOMAIN sectionTab : SectionOK(sectionTab[i])
  /\ programTab \in Seq(ProgramHeaders)
  /\ \A i \in DOMAIN programTab : ProgramOK(programTab[i])
  /\ stage = "header" => sectionTab = <<>> /\ programTab = <<>>
  /\ stage # "image" => entry = 1
  /\ entry \in 1 .. Len(Table) + 1
  /\ kind = "hex" => stage = "header"

ShapeInv == PiecesOK /\ HexOK /\ ElfOK

ReadsHex == kind = "hex" /\ ReadHex /\ UNCHANGED <<elfVars, loopVars, devVars, kind>>
ReadsElf == kind = "elf" /\ ReadElf /\ UNCHANGED <<hexVars, loopVars, devVars, kind>>
Programs == Program /\ UNCHANGED <<hexVars, elfVars, kind>>

\* A step reads a Hex file or an ELF file, programs, or changes nothing.
LEMMA NextForm ==
  ASSUME [Next]_vars
  PROVE  ReadsHex \/ ReadsElf \/ Programs \/ UNCHANGED vars
  BY DEF Next, Stopped, ReadsHex, ReadsElf, Programs

\* The base of an address is a number.
LEMMA BasesType == \A base \in Bases : base \in Nat
<1> TAKE base \in Bases
<1>1. ASSUME NEW v \in Nat, NEW w \in Nat PROVE v * w \in Nat
  OBVIOUS
<1>2. CASE base = 0
  BY <1>2
<1>3. ASSUME NEW v \in SegmentBases, base = v * Paragraph PROVE base \in Nat
  BY <1>1, <1>3, HexAssumption
<1>4. ASSUME NEW v \in LinearBases, base = v * Window PROVE base \in Nat
  BY <1>1, <1>4, HexAssumption
<1> QED BY <1>2, <1>3, <1>4 DEF Bases

\* The bytes of a record and their addresses.
LEMMA RecordPlaces ==
  ASSUME NEW b \in Nat, NEW o \in Nat, NEW n \in Nat
  PROVE  /\ \A a \in b + o .. b + o + n - 1 : a - b - o + 1 \in 1 .. n
         /\ \A x \in 1 .. n : /\ b + o + x - 1 \in b + o .. b + o + n - 1
                             /\ b + o + x - 1 - b - o + 1 = x
  OBVIOUS

\* The piece of a data record.
LEMMA RecordPieceType ==
  ASSUME NEW base \in Bases, NEW d \in DataRecords
  PROVE  /\ RecordPiece(base, d) \in PieceSet
         /\ RecordPiece(base, d).hi <= FLASH_SIZE
         /\ RecordPiece(base, d).lo = base + d.offset
         /\ base \in Nat /\ d.offset \in Nat /\ d.bytes \in Seq(Byte)
         /\ DOMAIN RecordPiece(base, d).mem =
              base + d.offset .. base + d.offset + Len(d.bytes) - 1
         /\ \A x \in DOMAIN d.bytes :
              /\ base + d.offset + x - 1 \in DOMAIN RecordPiece(base, d).mem
              /\ RecordPiece(base, d).mem[base + d.offset + x - 1] = d.bytes[x]
<1> DEFINE lo == base + d.offset
<1> DEFINE hi == lo + Len(d.bytes)
<1> DEFINE mem == [a \in lo .. hi - 1 |-> d.bytes[a - base - d.offset + 1]]
<1>1. base \in Nat
  BY BasesType
<1>2. d.offset \in Nat /\ d.bytes \in Seq(Byte) /\ Len(d.bytes) \in Nat
      /\ DOMAIN d.bytes = 1 .. Len(d.bytes)
  BY HexAssumption
<1>3. lo \in Nat /\ hi \in Nat /\ lo <= hi /\ hi <= FLASH_SIZE
  BY <1>1, <1>2, FilesFit
<1>4. mem \in [lo .. hi - 1 -> Byte]
  <2> SUFFICES ASSUME NEW a \in lo .. hi - 1 PROVE d.bytes[a - base - d.offset + 1] \in Byte
    OBVIOUS
  <2>1. a - base - d.offset + 1 \in 1 .. Len(d.bytes)
    BY <1>1, <1>2, RecordPlaces, SMTT(30)
  <2>2. \A n \in 1 .. Len(d.bytes) : d.bytes[n] \in Byte
    BY <1>2
  <2> QED BY <2>1, <2>2
<1>5. RecordPiece(base, d) = Piece(lo, hi, mem)
  <2>1. base + d.offset .. base + d.offset + Len(d.bytes) - 1 = lo .. hi - 1
    BY <1>1, <1>2, SMTT(30)
  <2> QED BY <2>1 DEF RecordPiece
<1>6. \A x \in DOMAIN d.bytes : lo + x - 1 \in lo .. hi - 1 /\ mem[lo + x - 1] = d.bytes[x]
  <2> TAKE x \in DOMAIN d.bytes
  <2> DEFINE a == lo + x - 1
  <2>1. x \in Int
    BY <1>2
  <2>2. a \in lo .. hi - 1 /\ a - base - d.offset + 1 = x
    BY <1>1, <1>2, <2>1, SMTT(30)
  <2> HIDE DEF a
  <2>3. mem[a] = d.bytes[a - base - d.offset + 1]
    BY <2>2
  <2>4. mem[a] = d.bytes[x]
    BY <2>2, <2>3
  <2> QED BY <2>2, <2>4 DEF a
<1>7. DOMAIN mem = lo .. hi - 1
  OBVIOUS
<1> HIDE DEF lo, hi, mem
<1>8. IsThePiece(Piece(lo, hi, mem), lo, hi, mem)
  BY <1>3, <1>4, PieceType
<1> DEFINE p == RecordPiece(base, d)
<1>9. p \in PieceSet /\ p.lo = lo /\ p.hi = hi /\ p.mem = mem
  BY <1>5, <1>8 DEF IsThePiece
<1> HIDE DEF p
<1>10. /\ p.hi <= FLASH_SIZE
       /\ DOMAIN p.mem = lo .. hi - 1
       /\ \A x \in DOMAIN d.bytes : lo + x - 1 \in DOMAIN p.mem /\ p.mem[lo + x - 1] = d.bytes[x]
  BY <1>3, <1>6, <1>7, <1>9
<1>11. base + d.offset .. base + d.offset + Len(d.bytes) - 1 = lo .. hi - 1
  BY <1>1, <1>2, SMTT(30) DEF lo, hi
<1>12. \A x \in DOMAIN d.bytes : base + d.offset + x - 1 = lo + x - 1
  BY <1>1, <1>2 DEF lo
<1>13. lo = base + d.offset
  BY DEF lo
<1> QED BY <1>1, <1>2, <1>9, <1>10, <1>11, <1>12, <1>13 DEF p

\* The memory of size bytes at lo, the first count of them from the file.
HasFilled(p, lo, size, off, count) ==
  /\ DOMAIN p.mem = lo .. lo + size - 1
  /\ \A a \in DOMAIN p.mem :
       p.mem[a] = IF a < lo + count THEN Content[off + a - lo] ELSE Zero

\* The piece a segment or section of an ELF file becomes, read as far as the file goes.
LEMMA FilledType ==
  ASSUME header \in ElfHeaders,
         NEW lo \in Nat, NEW size \in Nat, NEW off \in Nat, NEW count \in Nat,
         count = 0 \/ off + count <= header.size
  PROVE  LET p == Filled(lo, size, Content, off, count)
         IN  /\ p \in PieceSet
             /\ p.hi = lo + size
             /\ HasFilled(p, lo, size, off, count)
<1> DEFINE hi == lo + size
<1> DEFINE mem == [a \in lo .. hi - 1 |-> IF a < lo + count THEN Content[off + a - lo] ELSE Zero]
<1>1. header.size \in Nat /\ \A i \in 0 .. header.size - 1 : Content[i] \in Byte
  BY ElfAssumption DEF ElfHeader
<1>2. mem \in [lo .. hi - 1 -> Byte]
  <2> SUFFICES ASSUME NEW a \in lo .. hi - 1, a < lo + count
               PROVE  Content[off + a - lo] \in Byte
    BY ImageAssumption
  <2>1. off + a - lo \in 0 .. header.size - 1
    BY <1>1
  <2> QED BY <1>1, <2>1
<1>3. DOMAIN mem = lo .. hi - 1
      /\ \A a \in lo .. hi - 1 : mem[a] = IF a < lo + count THEN Content[off + a - lo] ELSE Zero
  OBVIOUS
<1>4. Filled(lo, size, Content, off, count) = Piece(lo, hi, mem)
  BY DEF Filled
<1>5. hi \in Nat /\ lo <= hi
  OBVIOUS
<1> HIDE DEF hi, mem
<1>6. IsThePiece(Piece(lo, hi, mem), lo, hi, mem)
  BY <1>2, <1>5, PieceType
<1> QED BY <1>3, <1>4, <1>6 DEF hi, HasFilled, IsThePiece

\* A record joined with the sections stays on the device.
LEMMA ProcessFits ==
  ASSUME sections \in Seq(PieceSet), given \in Seq(PieceSet), NEW b \in PieceSet,
         FitDevice(sections), FitDevice(given), b.hi <= FLASH_SIZE, Process(b)
  PROVE  /\ sections' \in Seq(PieceSet) /\ FitDevice(sections')
         /\ given' \in Seq(PieceSet) /\ FitDevice(given')
         /\ phase' \in {"loading", "refused"}
<1>1. given' = Append(given, b) /\ phase = "loading"
  BY DEF Process, SkipEmpty, Extend, RefuseOverlap, Place, Take
<1>2. given' \in Seq(PieceSet) /\ FitDevice(given')
  BY <1>1, AppendPiece DEF FitDevice
<1>3. CASE sections' = sections /\ phase' \in {"loading", "refused"}
  BY <1>2, <1>3
<1>4. CASE Extend(b)
  <2>1. PICK i \in DOMAIN sections :
          Fits(sections[i], b) /\ sections' = [sections EXCEPT ![i] = Joined(sections[i], b)]
    BY <1>4 DEF Extend
  <2>2. sections[i] \in PieceSet
    OBVIOUS
  <2>3. Joined(sections[i], b) \in PieceSet /\ Joined(sections[i], b).hi <= FLASH_SIZE
    BY <2>1, <2>2, JoinedBytes DEF FitDevice
  <2>4. sections' \in Seq(PieceSet) /\ DOMAIN sections' = DOMAIN sections
        /\ \A k \in DOMAIN sections :
             sections'[k] = IF k = i THEN Joined(sections[i], b) ELSE sections[k]
    BY <2>1, <2>3
  <2>5. FitDevice(sections')
    BY <2>3, <2>4 DEF FitDevice
  <2> QED BY <1>1, <1>2, <1>4, <2>4, <2>5 DEF Extend
<1>5. CASE Place(b)
  <2> DEFINE p == Piece(b.lo, b.hi, b.mem)
  <2>1. p \in PieceSet /\ p.hi <= FLASH_SIZE
    BY PieceAgain
  <2>2. sections' = Append(sections, p)
    BY <1>5 DEF Place
  <2> HIDE DEF p
  <2>3. sections' \in Seq(PieceSet) /\ FitDevice(sections')
    BY <2>1, <2>2, AppendPiece DEF FitDevice
  <2> QED BY <1>1, <1>2, <1>5, <2>3 DEF Place
<1> QED BY <1>1, <1>3, <1>4, <1>5 DEF Process, SkipEmpty, RefuseOverlap

\* Whether a phase has come to its end leaves the pieces alone.
LEMMA PiecesKept ==
  ASSUME PiecesOK, phase' \in Phases, UNCHANGED <<sections, given, kind>>
  PROVE  PiecesOK'
  BY DEF PiecesOK

\* Reading a Hex file.
LEMMA ShapeHex == ASSUME ShapeInv, ReadsHex PROVE ShapeInv'
<1>1. /\ kind = "hex" /\ kind' = kind
      /\ UNCHANGED <<stage, use, header, sectionTab, programTab, entry>>
  BY DEF ReadsHex, elfVars
<1>2. ElfOK'
  <2>1. Table' = Table /\ (\A e : SectionOK(e)' <=> SectionOK(e))
        /\ (\A e : ProgramOK(e)' <=> ProgramOK(e))
    BY <1>1 DEF Table, SectionOK, ProgramOK
  <2> QED BY <1>1, <2>1 DEF ShapeInv, ElfOK
<1>3. ASSUME NEW d \in DataRecords, DataRecord(d)
      PROVE  PiecesOK' /\ HexOK'
  <2>1. RecordPiece(segment, d) \in PieceSet /\ RecordPiece(segment, d).hi <= FLASH_SIZE
    BY RecordPieceType DEF ShapeInv, HexOK
  <2>2. Process(RecordPiece(segment, d))
    BY <1>3 DEF DataRecord
  <2>3. PiecesOK'
    BY <1>1, <2>1, <2>2, ProcessFits DEF ShapeInv, PiecesOK, Phases
  <2>4. [type |-> "RT_DATA", data |-> d] \in Line
    BY DEF Line
  <2>5. lines' \in Seq(Line) /\ segment' = segment
    BY <1>3, <2>4 DEF DataRecord, ReadLine, ShapeInv, HexOK
  <2> QED BY <1>1, <2>3, <2>5 DEF ShapeInv, HexOK
<1>4. ASSUME NEW v \in SegmentBases, ExtSegAddr(v)
      PROVE  PiecesOK' /\ HexOK'
  <2>1. [type |-> "RT_EXT_SEG_ADDR", value |-> v] \in Line
    BY DEF Line
  <2>2. lines' \in Seq(Line) /\ segment' \in Bases /\ UNCHANGED <<phase, sections, given>>
    BY <1>4, <2>1 DEF ExtSegAddr, ReadLine, Bases, ShapeInv, HexOK, imageVars
  <2> QED BY <1>1, <2>2 DEF ShapeInv, HexOK, PiecesOK
<1>5. ASSUME NEW v \in LinearBases, ExtAddr(v)
      PROVE  PiecesOK' /\ HexOK'
  <2>1. [type |-> "RT_EXT_ADDR", value |-> v] \in Line
    BY DEF Line
  <2>2. lines' \in Seq(Line) /\ segment' \in Bases /\ UNCHANGED <<phase, sections, given>>
    BY <1>5, <2>1 DEF ExtAddr, ReadLine, Bases, ShapeInv, HexOK, imageVars
  <2> QED BY <1>1, <2>2 DEF ShapeInv, HexOK, PiecesOK
<1>6. CASE EndOfFile \/ BadRecord
  <2>1. [type |-> "RT_EOF"] \in Line /\ [type |-> "bad"] \in Line
    BY DEF Line
  <2>2. lines' \in Seq(Line) /\ segment' = segment /\ phase' \in {"loaded", "failed"}
        /\ UNCHANGED <<sections, given>>
    BY <1>6, <2>1 DEF EndOfFile, BadRecord, ReadLine, ShapeInv, HexOK
  <2>3. PiecesOK'
    BY <1>1, <2>2, PiecesKept DEF ShapeInv, Phases
  <2> QED BY <1>1, <1>2, <2>2, <2>3 DEF ShapeInv, HexOK
<1>7. CASE EndsEarly
  <2>1. phase' = "failed" /\ UNCHANGED <<sections, given, segment, lines>>
    BY <1>7 DEF EndsEarly, hexVars
  <2>2. PiecesOK'
    BY <1>1, <2>1, PiecesKept DEF ShapeInv, Phases
  <2> QED BY <1>1, <1>2, <2>1, <2>2 DEF ShapeInv, HexOK
<1>8. ReadHex
  BY DEF ReadsHex
<1> QED BY <1>2, <1>3, <1>4, <1>5, <1>6, <1>7, <1>8 DEF ReadHex, ShapeInv

\* How much of a segment the file has, when it ends early.
LEMMA ThereType ==
  ASSUME header \in ElfHeaders, NEW off \in Nat, NEW count \in Nat
  PROVE  LET there == IF off < header.size THEN header.size - off ELSE 0
         IN  there \in Nat /\ (there = 0 \/ off + there <= header.size)
<1>1. header.size \in Nat
  BY ElfAssumption DEF ElfHeader
<1> QED BY <1>1

\* Filling the memory of a segment adds one piece, given or not.
LEMMA FillForm ==
  ASSUME header \in ElfHeaders,
         NEW lo \in Nat, NEW size \in Nat, NEW off \in Nat, NEW count \in Nat,
         Fill(lo, size, off, count)
  PROVE  /\ phase = "loading"
         /\ \E p \in PieceSet :
              /\ p.hi = lo + size
              /\ sections' = Append(sections, p)
              /\ \/ /\ given' = Append(given, p) /\ phase' = phase
                    /\ HasFilled(p, lo, size, off, count)
                 \/ given' = given /\ phase' = "terminated" /\ ~Holds(off, count)
<1>1. CASE Holds(off, count) /\ Load(Filled(lo, size, Content, off, count))
  <2> DEFINE p == Filled(lo, size, Content, off, count)
  <2>1. p \in PieceSet /\ p.hi = lo + size /\ HasFilled(p, lo, size, off, count)
    BY <1>1, FilledType DEF Holds
  <2> HIDE DEF p
  <2>2. /\ phase = "loading" /\ given' = Append(given, p) /\ phase' = phase
        /\ sections' = Append(sections, p)
    BY <1>1 DEF Load, Take, p
  <2> QED BY <2>1, <2>2
<1>2. CASE ~Holds(off, count) /\ ~(Holds(off, count) /\ Load(Filled(lo, size, Content, off, count)))
  <2> DEFINE there == IF off < header.size THEN header.size - off ELSE 0
  <2> DEFINE p == Filled(lo, size, Content, off, there)
  <2>1. there \in Nat /\ (there = 0 \/ off + there <= header.size)
    BY ThereType
  <2>2. LoadFails(p)
    BY <1>2 DEF Fill
  <2> HIDE DEF there
  <2>3. p \in PieceSet /\ p.hi = lo + size
    BY <2>1, FilledType
  <2> HIDE DEF p
  <2>4. /\ phase = "loading" /\ given' = given /\ phase' = "terminated"
        /\ sections' = Append(sections, p)
    BY <2>2 DEF LoadFails
  <2> QED BY <1>2, <2>3, <2>4
<1> QED BY <1>1, <1>2 DEF Fill

\* Loading an entry of an ELF file keeps the pieces on the device.
LEMMA FillShape ==
  ASSUME PiecesOK, header \in ElfHeaders, kind' = kind,
         NEW lo \in Nat, NEW size \in Nat, NEW off \in Nat, NEW count \in Nat,
         lo + size <= FLASH_SIZE, Fill(lo, size, off, count)
  PROVE  PiecesOK'
<1>1. PICK p \in PieceSet :
        /\ p.hi = lo + size
        /\ sections' = Append(sections, p)
        /\ \/ given' = Append(given, p) /\ phase' = phase
           \/ given' = given /\ phase' = "terminated"
  BY FillForm
<1>2. sections \in Seq(PieceSet) /\ FitDevice(sections)
      /\ given \in Seq(PieceSet) /\ FitDevice(given)
  BY DEF PiecesOK
<1>3. sections' \in Seq(PieceSet) /\ FitDevice(sections')
  BY <1>1, <1>2, AppendPiece DEF FitDevice
<1>4. given' \in Seq(PieceSet) /\ FitDevice(given')
  <2>1. CASE given' = given
    BY <1>2, <2>1
  <2>2. CASE given' = Append(given, p)
    BY <1>1, <1>2, <2>2, AppendPiece DEF FitDevice
  <2> QED BY <1>1, <2>1, <2>2
<1>5. phase' \in Phases
  BY <1>1 DEF PiecesOK, Phases
<1> QED BY <1>3, <1>4, <1>5 DEF PiecesOK

\* Reading an ELF file.
LEMMA ShapeElf == ASSUME ShapeInv, ReadsElf PROVE ShapeInv'
<1>1. /\ kind = "elf" /\ kind' = kind /\ segment' = segment /\ lines' = lines
  BY DEF ReadsElf, hexVars
<1>2. HexOK'
  BY <1>1 DEF ShapeInv, HexOK
<1>3. PiecesOK /\ ElfOK /\ ReadElf
  BY DEF ReadsElf, ShapeInv
<1>4. ASSUME NEW how \in {"failed", "terminated"}, Abandon(how)
      PROVE  PiecesOK'
  BY <1>1, <1>3, <1>4, PiecesKept DEF Abandon, Phases
<1>5. ASSUME UNCHANGED imageVars
      PROVE  PiecesOK'
  BY <1>1, <1>3, <1>5 DEF imageVars, PiecesOK
<1>6. CASE ReadHeader
  <2>1. /\ stage = "header" /\ header' \in ElfHeaders /\ stage' \in {"header", "sections"}
        /\ UNCHANGED <<use, sectionTab, programTab, entry>>
        /\ Abandon("terminated") \/ Abandon("failed") \/ UNCHANGED imageVars
    BY <1>6, Zenon DEF ReadHeader, AtStage
  <2>2. PiecesOK'
    BY <1>4, <1>5, <2>1
  <2>3. Table' = Table /\ sectionTab = <<>> /\ programTab = <<>>
    BY <1>3, <2>1 DEF Table, ElfOK
  <2>4. ElfOK'
    BY <1>1, <1>3, <2>1, <2>3 DEF ElfOK
  <2> QED BY <1>2, <2>2, <2>4 DEF ShapeInv
<1>7. CASE ReadSection
  <2>1. /\ stage = "sections" /\ UNCHANGED <<stage, use, header, programTab, entry>>
        /\ \/ sectionTab' = sectionTab
           \/ \E e \in SectionHeaders : SectionOK(e) /\ sectionTab' = Append(sectionTab, e)
        /\ Abandon("terminated") \/ Abandon("failed") \/ UNCHANGED imageVars
    BY <1>7, Zenon DEF ReadSection, AtStage
  <2>2. PiecesOK'
    BY <1>4, <1>5, <2>1
  <2>3. sectionTab' \in Seq(SectionHeaders) /\ \A i \in DOMAIN sectionTab' : SectionOK(sectionTab'[i])
    <3>1. sectionTab \in Seq(SectionHeaders) /\ \A i \in DOMAIN sectionTab : SectionOK(sectionTab[i])
      BY <1>3 DEF ElfOK
    <3>2. CASE sectionTab' = sectionTab
      BY <3>1, <3>2
    <3>3. ASSUME NEW e \in SectionHeaders, SectionOK(e), sectionTab' = Append(sectionTab, e)
          PROVE  sectionTab' \in Seq(SectionHeaders)
                 /\ \A i \in DOMAIN sectionTab' : SectionOK(sectionTab'[i])
      <4>1. /\ sectionTab' \in Seq(SectionHeaders) /\ Len(sectionTab) \in Nat
            /\ DOMAIN sectionTab' = 1 .. Len(sectionTab) + 1
            /\ DOMAIN sectionTab = 1 .. Len(sectionTab)
            /\ \A i \in DOMAIN sectionTab' : sectionTab'[i] = IF i = Len(sectionTab) + 1 THEN e ELSE sectionTab[i]
        BY <3>1, <3>3
      <4> QED BY <3>1, <3>3, <4>1
    <3> QED BY <2>1, <3>2, <3>3
  <2>4. programTab \in Seq(ProgramHeaders) /\ Len(Table') \in Nat /\ entry = 1
    BY <1>3, <2>1, <2>3 DEF ElfOK, Table
  <2>5. (\A e : SectionOK(e)' <=> SectionOK(e)) /\ (\A e : ProgramOK(e)' <=> ProgramOK(e))
    BY <2>1 DEF SectionOK, ProgramOK
  <2>6. ElfOK'
    BY <1>1, <1>3, <2>1, <2>3, <2>4, <2>5 DEF ElfOK
  <2> QED BY <1>2, <2>2, <2>6 DEF ShapeInv
<1>8. CASE ReadProgram
  <2>1. /\ stage = "programs" /\ UNCHANGED <<stage, use, header, sectionTab, entry>>
        /\ \/ programTab' = programTab
           \/ \E e \in ProgramHeaders : ProgramOK(e) /\ programTab' = Append(programTab, e)
        /\ Abandon("terminated") \/ Abandon("failed") \/ UNCHANGED imageVars
    BY <1>8, Zenon DEF ReadProgram, AtStage
  <2>2. PiecesOK'
    BY <1>4, <1>5, <2>1
  <2>3. programTab' \in Seq(ProgramHeaders) /\ \A i \in DOMAIN programTab' : ProgramOK(programTab'[i])
    <3>1. programTab \in Seq(ProgramHeaders) /\ \A i \in DOMAIN programTab : ProgramOK(programTab[i])
      BY <1>3 DEF ElfOK
    <3>2. CASE programTab' = programTab
      BY <3>1, <3>2
    <3>3. CASE \E e \in ProgramHeaders : ProgramOK(e) /\ programTab' = Append(programTab, e)
      <4> PICK e \in ProgramHeaders : ProgramOK(e) /\ programTab' = Append(programTab, e)
        BY <3>3
      <4> HIDE DEF ProgramOK
      <4>1. /\ programTab' \in Seq(ProgramHeaders) /\ Len(programTab) \in Nat
            /\ DOMAIN programTab' = 1 .. Len(programTab) + 1
            /\ DOMAIN programTab = 1 .. Len(programTab)
            /\ \A i \in DOMAIN programTab' : programTab'[i] = IF i = Len(programTab) + 1 THEN e ELSE programTab[i]
        BY <3>1
      <4> QED BY <3>1, <4>1
    <3> QED BY <2>1, <3>2, <3>3
  <2>4. sectionTab \in Seq(SectionHeaders) /\ Len(Table') \in Nat /\ entry = 1
    BY <1>3, <2>1, <2>3 DEF ElfOK, Table
  <2>5. (\A e : SectionOK(e)' <=> SectionOK(e)) /\ (\A e : ProgramOK(e)' <=> ProgramOK(e))
    BY <2>1 DEF SectionOK, ProgramOK
  <2>6. ElfOK'
    BY <1>1, <1>3, <2>1, <2>3, <2>4, <2>5 DEF ElfOK
  <2> QED BY <1>2, <2>2, <2>6 DEF ShapeInv
<1>9. CASE ReadNames \/ Opened
  <2>1. /\ stage \in {"sections", "programs"} /\ UNCHANGED <<use, header, entry>>
        /\ stage' \in {stage, "programs", "image"}
        /\ sectionTab' \in {sectionTab, <<>>} /\ programTab' \in {programTab, <<>>}
    BY <1>9 DEF ReadNames, Opened, AtStage
  <2>2. Abandon("terminated") \/ UNCHANGED imageVars
    BY <1>9 DEF ReadNames, Opened
  <2>3. PiecesOK'
    BY <1>4, <1>5, <2>2
  <2>4. /\ sectionTab' \in Seq(SectionHeaders) /\ programTab' \in Seq(ProgramHeaders)
        /\ \A i \in DOMAIN sectionTab' : SectionOK(sectionTab'[i])
        /\ \A i \in DOMAIN programTab' : ProgramOK(programTab'[i])
    <3>1. /\ sectionTab \in Seq(SectionHeaders) /\ programTab \in Seq(ProgramHeaders)
          /\ \A i \in DOMAIN sectionTab : SectionOK(sectionTab[i])
          /\ \A i \in DOMAIN programTab : ProgramOK(programTab[i])
      BY <1>3 DEF ElfOK
    <3>2. <<>> \in Seq(SectionHeaders) /\ <<>> \in Seq(ProgramHeaders) /\ DOMAIN <<>> = {}
      OBVIOUS
    <3>3. sectionTab' \in Seq(SectionHeaders) /\ \A i \in DOMAIN sectionTab' : SectionOK(sectionTab'[i])
      BY <2>1, <3>1, <3>2
    <3>4. programTab' \in Seq(ProgramHeaders) /\ \A i \in DOMAIN programTab' : ProgramOK(programTab'[i])
      BY <2>1, <3>1, <3>2
    <3> QED BY <3>3, <3>4
  <2>5. Len(Table') \in Nat /\ entry = 1
    BY <1>3, <2>1, <2>4 DEF ElfOK, Table
  <2>6. (\A e : SectionOK(e)' <=> SectionOK(e)) /\ (\A e : ProgramOK(e)' <=> ProgramOK(e))
    BY <2>1 DEF SectionOK, ProgramOK
  <2>7. ElfOK'
    BY <1>1, <1>3, <2>1, <2>4, <2>5, <2>6 DEF ElfOK
  <2> QED BY <1>2, <2>3, <2>7 DEF ShapeInv
<1>10. CASE LoadProgram \/ LoadSection \/ ImageRead
  <2>1. /\ stage = "image" /\ UNCHANGED <<stage, use, header, sectionTab, programTab>>
        /\ \/ entry' = entry
           \/ entry' = entry + 1 /\ entry \in DOMAIN Table
    <3>1. CASE LoadProgram \/ LoadSection
      BY <3>1 DEF LoadProgram, LoadSection, AtEntry, AtStage, NextEntry
    <3>2. CASE ImageRead
      <4>1. stage = "image" /\ UNCHANGED elfVars
        BY <3>2 DEF ImageRead, AtStage
      <4> QED BY <4>1 DEF elfVars
    <3> QED BY <1>10, <3>1, <3>2
  <2>2. Table' = Table /\ (\A e : SectionOK(e)' <=> SectionOK(e))
        /\ (\A e : ProgramOK(e)' <=> ProgramOK(e))
    BY <2>1 DEF Table, SectionOK, ProgramOK
  <2>3. Len(Table) \in Nat /\ DOMAIN Table = 1 .. Len(Table) /\ header \in ElfHeaders
    BY <1>3, <2>1 DEF ElfOK, Table
  <2>4. entry' \in 1 .. Len(Table) + 1
    BY <1>3, <2>1, <2>3 DEF ElfOK
  <2>5. ElfOK'
    BY <1>1, <1>3, <2>1, <2>2, <2>4 DEF ElfOK
  <2>6. PiecesOK'
    <3>1. CASE LoadProgram
      <4> DEFINE e == programTab[entry]
      <4>1. entry \in DOMAIN programTab /\ (UNCHANGED imageVars \/ Fill(e.paddr, e.memsz, e.off, e.filesz))
        BY <3>1 DEF LoadProgram, AtEntry, Table
      <4>2. e \in ProgramHeaders
        BY <1>3, <4>1 DEF ElfOK
      <4> HIDE DEF e
      <4>3. /\ e.paddr \in Nat /\ e.memsz \in Nat /\ e.off \in Nat /\ e.filesz \in Nat
            /\ e.paddr + e.memsz <= FLASH_SIZE
        BY <4>2, ElfAssumption, FilesFit DEF ProgramHeader
      <4> QED BY <1>1, <1>3, <1>5, <2>3, <4>1, <4>3, FillShape
    <3>2. CASE LoadSection
      <4> DEFINE e == sectionTab[entry]
      <4>1. /\ entry \in DOMAIN sectionTab
            /\ \/ UNCHANGED imageVars
               \/ Abandon("terminated")
               \/ Fill(e.vaddr, e.size, e.off, e.size)
        BY <1>3, <3>2 DEF LoadSection, AtEntry, Table, ElfOK
      <4>2. e \in SectionHeaders
        BY <1>3, <4>1 DEF ElfOK
      <4> HIDE DEF e
      <4>3. /\ e.vaddr \in Nat /\ e.size \in Nat /\ e.off \in Nat
            /\ e.vaddr + e.size <= FLASH_SIZE
        BY <4>2, ElfAssumption, FilesFit DEF SectionHeader
      <4> QED BY <1>1, <1>3, <1>4, <1>5, <2>3, <4>1, <4>3, FillShape
    <3>3. CASE ImageRead
      BY <1>1, <1>3, <3>3, PiecesKept DEF ImageRead, Phases
    <3> QED BY <1>10, <3>1, <3>2, <3>3
  <2> QED BY <1>2, <2>5, <2>6 DEF ShapeInv
<1> QED BY <1>3, <1>6, <1>7, <1>8, <1>9, <1>10 DEF ReadElf

\* Sorting keeps the sections, and their bytes.
LEMMA SortKeeps ==
  ASSUME sections \in Seq(PieceSet)
  PROVE  /\ SortedSections \in Seq(PieceSet)
         /\ DOMAIN SortedSections = DOMAIN sections
         /\ \A i \in DOMAIN sections : \E k \in DOMAIN sections : SortedSections[i] = sections[k]
         /\ \A k \in DOMAIN sections : \E i \in DOMAIN sections : SortedSections[i] = sections[k]
         /\ \A i, j \in DOMAIN sections : i < j => SortedSections[i].lo <= SortedSections[j].lo
         /\ Disjoint(sections) => Disjoint(SortedSections)
<1>1. PICK f \in [Places -> Places] :
        /\ SortedSections = [i \in Places |-> sections[f[i]]]
        /\ \A i, j \in Places : i < j => Precedes(f[i], f[j])
        /\ \A i, j \in Places : f[i] = f[j] => i = j
        /\ \A t \in Places : \E i \in Places : f[i] = t
  BY SortedPermutation
<1>2. Places = 1 .. Len(sections) /\ Len(sections) \in Nat /\ Places = DOMAIN sections
  BY DEF Places
<1>3. \A i \in Places : f[i] \in Places /\ sections[f[i]] \in PieceSet
                         /\ SortedSections[i] = sections[f[i]]
  BY <1>1, <1>2
<1>4. SortedSections \in [1 .. Len(sections) -> PieceSet]
  BY <1>1, <1>2, <1>3
<1>5. SortedSections \in Seq(PieceSet)
  BY <1>2, <1>4
<1>6. DOMAIN SortedSections = DOMAIN sections
  BY <1>2, <1>4
<1>7. \A i, j \in Places : i < j => SortedSections[i].lo <= SortedSections[j].lo
  <2> TAKE i, j \in Places
  <2> HAVE i < j
  <2>1. SortedSections[i].lo \in Nat /\ SortedSections[j].lo \in Nat
    BY <1>3, PieceFacts
  <2>2. Precedes(f[i], f[j]) /\ SortedSections[i] = sections[f[i]] /\ SortedSections[j] = sections[f[j]]
    BY <1>1, <1>3
  <2> QED BY <2>1, <2>2 DEF Precedes
<1>8. Disjoint(sections) => Disjoint(SortedSections)
  <2> SUFFICES ASSUME Disjoint(sections), NEW i \in Places, NEW j \in Places, i # j
               PROVE  ~Overlap(SortedSections[i], SortedSections[j])
    BY <1>2, <1>6 DEF Disjoint
  <2>1. f[i] \in DOMAIN sections /\ f[j] \in DOMAIN sections /\ f[i] # f[j]
    BY <1>1, <1>2, <1>3
  <2>2. ~Overlap(sections[f[i]], sections[f[j]])
    BY <2>1 DEF Disjoint
  <2> QED BY <1>3, <2>2
<1>9. \A k \in Places : \E i \in Places : SortedSections[i] = sections[k]
  BY <1>1, <1>3
<1> QED BY <1>2, <1>3, <1>5, <1>6, <1>7, <1>8, <1>9

\* After Begin the loop leaves the image alone, but for its phase.
LEMMA ProgramForm ==
  ASSUME Programs
  PROVE  /\ given' = given
         /\ UNCHANGED <<segment, lines, stage, use, header, sectionTab, programTab, entry, kind>>
         /\ \/ phase = "loaded" /\ phase' = "program" /\ sections' = SortedSections
            \/ /\ phase = "program" /\ phase' \in {"program", "done", "undefined"}
               /\ sections' = sections
<1>1. UNCHANGED <<segment, lines, stage, use, header, sectionTab, programTab, entry, kind>>
  BY DEF Programs, hexVars, elfVars
<1>2. CASE Begin
  BY <1>1, <1>2 DEF Begin
<1>3. CASE NextSection
  BY <1>1, <1>3 DEF NextSection, imageVars
<1>4. CASE SwitchSector
  BY <1>1, <1>4 DEF SwitchSector, InSection, imageVars
<1>5. CASE FillSector
  BY <1>1, <1>5 DEF FillSector, InSection, imageVars
<1>6. CASE Underflow
  BY <1>1, <1>6 DEF Underflow, InSection
<1>7. CASE Finish
  BY <1>1, <1>7 DEF Finish
<1> QED BY <1>2, <1>3, <1>4, <1>5, <1>6, <1>7 DEF Programs, Program

\* Programming.
LEMMA ShapeProgram == ASSUME ShapeInv, Programs PROVE ShapeInv'
<1>1. UNCHANGED <<given, segment, lines, stage, use, header, sectionTab, programTab, entry, kind>>
  BY ProgramForm
<1>2. HexOK'
  BY <1>1 DEF ShapeInv, HexOK
<1>3. ElfOK'
  <2>1. Table' = Table /\ (\A e : SectionOK(e)' <=> SectionOK(e))
        /\ (\A e : ProgramOK(e)' <=> ProgramOK(e))
    BY <1>1 DEF Table, SectionOK, ProgramOK
  <2> QED BY <1>1, <2>1 DEF ShapeInv, ElfOK
<1>4. sections' \in Seq(PieceSet) /\ FitDevice(sections')
  <2>1. sections \in Seq(PieceSet) /\ FitDevice(sections)
    BY DEF ShapeInv, PiecesOK
  <2>2. CASE sections' = sections
    BY <2>1, <2>2
  <2>3. CASE sections' = SortedSections
    BY <2>1, <2>3, SortKeeps DEF FitDevice
  <2> QED BY <2>2, <2>3, ProgramForm
<1>5. phase' \in Phases
  BY ProgramForm DEF Phases
<1> QED BY <1>1, <1>2, <1>3, <1>4, <1>5 DEF ShapeInv, PiecesOK

LEMMA ShapeInit == Init => ShapeInv
<1> SUFFICES ASSUME Init PROVE ShapeInv
  OBVIOUS
<1>1. PiecesOK
  BY KindAssumption DEF Init, ImageInit, PiecesOK, Phases, FitDevice
<1>2. HexOK
  BY DEF Init, HexInit, HexOK, Bases
<1>3. ElfOK
  BY ElfAssumption DEF Init, ElfInit, ElfOK, Table
<1> QED BY <1>1, <1>2, <1>3 DEF ShapeInv

LEMMA ShapeStutters == ASSUME ShapeInv, UNCHANGED vars PROVE ShapeInv'
<1>1. UNCHANGED <<phase, sections, given, segment, lines, stage, use, header, sectionTab,
                  programTab, entry, kind>>
  BY DEF vars, imageVars, hexVars, elfVars
<1>2. Table' = Table /\ (\A e : SectionOK(e)' <=> SectionOK(e))
      /\ (\A e : ProgramOK(e)' <=> ProgramOK(e))
  BY <1>1 DEF Table, SectionOK, ProgramOK
<1> QED BY <1>1, <1>2 DEF ShapeInv, PiecesOK, HexOK, ElfOK

LEMMA ShapeNext == ShapeInv /\ [Next]_vars => ShapeInv'
  BY NextForm, ShapeHex, ShapeElf, ShapeProgram, ShapeStutters

-----------------------------------------------------------------------------
(***************************************************************************)
(* No byte is lost, moved or invented                                      *)
(***************************************************************************)
ImageInv ==
  /\ ShapeInv
  /\ Going => Lossless
  /\ kind = "hex" /\ Going => NoneEmpty
  /\ kind = "elf" /\ phase \in {"loading", "loaded"} => sections = given
  /\ RefusedForOverlap

LEMMA ImageStart == Init => ImageInv
<1> SUFFICES ASSUME Init PROVE ImageInv
  OBVIOUS
<1>1. sections = <<>> /\ given = <<>> /\ phase = "loading"
  BY DEF Init, ImageInit
<1>2. Lossless /\ NoneEmpty
  BY <1>1 DEF Lossless, NoneEmpty, Within, Disjoint
<1> QED BY <1>1, <1>2, ShapeInit DEF ImageInv, RefusedForOverlap

\* A phase may follow another while the sections and the pieces stay as they are.
Follows(old, new) ==
  \/ new = old
  \/ old = "loading" /\ new \in {"loaded", "failed", "terminated"}
  \/ old = "program" /\ new \in {"done", "undefined"}

LEMMA ImageKept ==
  ASSUME ImageInv, sections' = sections, given' = given, kind' = kind, Follows(phase, phase')
  PROVE  /\ Going' => Lossless'
         /\ kind' = "hex" /\ Going' => NoneEmpty'
         /\ kind' = "elf" /\ phase' \in {"loading", "loaded"} => sections' = given'
         /\ RefusedForOverlap'
<1>1. /\ Going' => Going
      /\ phase' \in {"loading", "loaded"} => phase \in {"loading", "loaded"}
      /\ phase' = "refused" => phase = "refused"
  BY DEF Going, Follows
<1>2. (Lossless' <=> Lossless) /\ (NoneEmpty' <=> NoneEmpty)
  BY DEF Lossless, NoneEmpty
<1>3. RefusedForOverlap'
  BY <1>1 DEF ImageInv, RefusedForOverlap
<1> QED BY <1>1, <1>2, <1>3 DEF ImageInv

LEMMA ImageHex ==
  ASSUME ImageInv, ReadsHex
  PROVE  /\ Going' => Lossless' /\ NoneEmpty'
         /\ RefusedForOverlap'
<1>1. kind = "hex" /\ kind' = "hex" /\ ReadHex
  BY DEF ReadsHex
<1>2. ASSUME NEW d \in DataRecords, DataRecord(d)
      PROVE  (Going' => Lossless' /\ NoneEmpty') /\ RefusedForOverlap'
  <2> DEFINE b == RecordPiece(segment, d)
  <2>1. b \in PieceSet
    BY RecordPieceType DEF ImageInv, ShapeInv, HexOK
  <2> HIDE DEF b
  <2>2. Process(b) /\ phase = "loading"
    BY <1>2 DEF DataRecord, ReadLine, b
  <2>3. sections \in Seq(PieceSet) /\ given \in Seq(PieceSet) /\ Lossless /\ NoneEmpty
    BY <1>1, <2>2 DEF ImageInv, ShapeInv, PiecesOK, Going
  <2>4. \/ phase' = "loading" /\ Lossless' /\ NoneEmpty'
        \/ phase' = "refused" /\ ~Disjoint(given')
    BY <2>1, <2>2, <2>3, ProcessLossless
  <2> QED BY <2>4 DEF Going, RefusedForOverlap
<1>3. CASE UNCHANGED imageVars
  <2>1. sections' = sections /\ given' = given /\ Follows(phase, phase')
    BY <1>3 DEF imageVars, Follows
  <2> QED BY <1>1, <2>1, ImageKept
<1>4. ASSUME EndOfFile \/ BadRecord \/ EndsEarly
      PROVE  (Going' => Lossless' /\ NoneEmpty') /\ RefusedForOverlap'
  <2>1. sections' = sections /\ given' = given /\ Follows(phase, phase')
    BY <1>4 DEF EndOfFile, BadRecord, EndsEarly, ReadLine, Follows
  <2> QED BY <1>1, <2>1, ImageKept
<1> QED BY <1>1, <1>2, <1>3, <1>4 DEF ReadHex, ExtSegAddr, ExtAddr

LEMMA ImageElf ==
  ASSUME ImageInv, ReadsElf
  PROVE  /\ Going' => Lossless'
         /\ phase' \in {"loading", "loaded"} => sections' = given'
         /\ RefusedForOverlap'
<1>1. kind = "elf" /\ kind' = "elf" /\ ReadElf /\ ElfOK
  BY DEF ReadsElf, ImageInv, ShapeInv
<1>2. ASSUME NEW how \in {"failed", "terminated"}, Abandon(how), phase = "loading"
      PROVE  /\ Going' => Lossless'
             /\ phase' \in {"loading", "loaded"} => sections' = given'
             /\ RefusedForOverlap'
  <2>1. sections' = sections /\ given' = given /\ Follows(phase, phase')
    BY <1>2 DEF Abandon, Follows
  <2> QED BY <1>1, <2>1, ImageKept
<1>3. CASE UNCHANGED imageVars
  <2>1. sections' = sections /\ given' = given /\ Follows(phase, phase')
    BY <1>3 DEF imageVars, Follows
  <2> QED BY <1>1, <2>1, ImageKept
<1>4. ASSUME NEW lo \in Nat, NEW size \in Nat, NEW off \in Nat, NEW count \in Nat,
             header \in ElfHeaders, Fill(lo, size, off, count)
      PROVE  /\ Going' => Lossless'
             /\ phase' \in {"loading", "loaded"} => sections' = given'
             /\ RefusedForOverlap'
  <2>1. PICK p \in PieceSet :
          /\ sections' = Append(sections, p)
          /\ \/ given' = Append(given, p) /\ phase' = phase
             \/ phase' = "terminated"
    BY <1>4, FillForm
  <2>2. phase = "loading"
    BY <1>4, FillForm
  <2>3. sections \in Seq(PieceSet) /\ given \in Seq(PieceSet) /\ Lossless /\ sections = given
    BY <1>1, <2>2 DEF ImageInv, ShapeInv, PiecesOK, Going
  <2>4. CASE phase' = "terminated"
    BY <2>4 DEF Going, RefusedForOverlap
  <2>5. CASE given' = Append(given, p) /\ phase' = phase
    <3>1. sections' = given'
      BY <2>1, <2>3, <2>5
    <3>2. Lossless'
      BY <2>1, <2>3, <2>5, <3>1, AddedLossless
    <3> QED BY <2>2, <2>5, <3>1, <3>2 DEF RefusedForOverlap
  <2> QED BY <2>1, <2>4, <2>5
<1>5. CASE ReadHeader \/ ReadSection \/ ReadNames \/ ReadProgram \/ Opened
  <2>1. /\ phase = "loading"
        /\ Abandon("terminated") \/ Abandon("failed") \/ UNCHANGED imageVars
    BY <1>5, Zenon DEF ReadHeader, ReadSection, ReadNames, ReadProgram, Opened, AtStage
  <2> QED BY <1>2, <1>3, <2>1
<1>6. CASE LoadProgram
  <2> DEFINE e == programTab[entry]
  <2>1. /\ entry \in DOMAIN programTab /\ phase = "loading" /\ stage = "image"
        /\ UNCHANGED imageVars \/ Fill(e.paddr, e.memsz, e.off, e.filesz)
    BY <1>6 DEF LoadProgram, AtEntry, AtStage, Table
  <2>2. e \in ProgramHeaders /\ header \in ElfHeaders
    BY <1>1, <2>1 DEF ElfOK
  <2> HIDE DEF e
  <2>3. e.paddr \in Nat /\ e.memsz \in Nat /\ e.off \in Nat /\ e.filesz \in Nat
    BY <2>2, ElfAssumption DEF ProgramHeader
  <2> QED BY <1>3, <1>4, <2>1, <2>2, <2>3
<1>7. CASE LoadSection
  <2> DEFINE e == sectionTab[entry]
  <2>1. /\ entry \in DOMAIN sectionTab /\ phase = "loading" /\ stage = "image"
        /\ \/ UNCHANGED imageVars
           \/ Abandon("terminated")
           \/ Fill(e.vaddr, e.size, e.off, e.size)
    BY <1>7 DEF LoadSection, AtEntry, AtStage, Table
  <2>2. e \in SectionHeaders /\ header \in ElfHeaders
    BY <1>1, <2>1 DEF ElfOK
  <2> HIDE DEF e
  <2>3. e.vaddr \in Nat /\ e.size \in Nat /\ e.off \in Nat
    BY <2>2, ElfAssumption DEF SectionHeader
  <2> QED BY <1>2, <1>3, <1>4, <2>1, <2>2, <2>3
<1>8. CASE ImageRead
  <2>1. sections' = sections /\ given' = given /\ Follows(phase, phase')
    BY <1>8 DEF ImageRead, AtStage, Follows
  <2> QED BY <1>1, <2>1, ImageKept
<1> QED BY <1>1, <1>5, <1>6, <1>7, <1>8 DEF ReadElf

LEMMA ImageProgram ==
  ASSUME ImageInv, Programs
  PROVE  /\ Going' => Lossless'
         /\ kind' = "hex" /\ Going' => NoneEmpty'
         /\ phase' \notin {"loading", "loaded"}
         /\ RefusedForOverlap'
<1>1. UNCHANGED <<given, kind>> /\ phase' \in {"program", "done", "undefined"}
  BY ProgramForm
<1>2. CASE phase = "loaded" /\ phase' = "program" /\ sections' = SortedSections
  <2>1. sections \in Seq(PieceSet) /\ given \in Seq(PieceSet) /\ Lossless
    BY <1>2 DEF ImageInv, ShapeInv, PiecesOK, Going
  <2>2. /\ DOMAIN sections' = DOMAIN sections
        /\ \A i \in DOMAIN sections : \E k \in DOMAIN sections : sections'[i] = sections[k]
        /\ \A k \in DOMAIN sections : \E i \in DOMAIN sections : sections'[i] = sections[k]
        /\ Disjoint(sections) => Disjoint(sections')
    BY <1>2, <2>1, SortKeeps
  <2>3. Within(given, sections')
    <3>1. Within(sections, sections')
      BY <2>2 DEF Within, Gives
    <3> QED BY <2>1, <3>1, GivesWithin DEF Lossless, Within
  <2>4. Within(sections', given)
    BY <2>1, <2>2 DEF Lossless, Within
  <2>5. Lossless'
    BY <1>1, <2>1, <2>2, <2>3, <2>4 DEF Lossless
  <2>6. kind = "hex" => NoneEmpty'
    <3>1. kind = "hex" => NoneEmpty
      BY <1>2 DEF ImageInv, Going
    <3>2. ASSUME NoneEmpty, NEW i \in DOMAIN sections
          PROVE  sections'[i].lo # sections'[i].hi
      <4>1. PICK k \in DOMAIN sections : sections'[i] = sections[k]
        BY <2>2
      <4> QED BY <3>2, <4>1 DEF NoneEmpty
    <3> QED BY <2>2, <3>1, <3>2 DEF NoneEmpty
  <2> QED BY <1>1, <1>2, <2>5, <2>6 DEF RefusedForOverlap
<1>3. CASE phase = "program" /\ phase' \in {"program", "done", "undefined"} /\ sections' = sections
  <2>1. Follows(phase, phase')
    BY <1>3 DEF Follows
  <2> QED BY <1>1, <1>3, <2>1, ImageKept
<1> QED BY <1>2, <1>3, ProgramForm

LEMMA ImageNext == ImageInv /\ [Next]_vars => ImageInv'
<1> SUFFICES ASSUME ImageInv, [Next]_vars PROVE ImageInv'
  OBVIOUS
<1>1. ShapeInv'
  BY ShapeNext DEF ImageInv
<1>2. CASE ReadsHex
  BY <1>1, <1>2, ImageHex DEF ImageInv, ReadsHex
<1>3. CASE ReadsElf
  BY <1>1, <1>3, ImageElf DEF ImageInv, ReadsElf
<1>4. CASE Programs
  BY <1>1, <1>4, ImageProgram DEF ImageInv
<1>5. CASE UNCHANGED vars
  <2>1. sections' = sections /\ given' = given /\ kind' = kind /\ Follows(phase, phase')
    BY <1>5 DEF vars, imageVars, Follows
  <2> QED BY <1>1, <2>1, ImageKept DEF ImageInv
<1> QED BY <1>2, <1>3, <1>4, <1>5, NextForm

LEMMA ImageAlways == Spec => []ImageInv
  BY ImageStart, ImageNext, PTL DEF Spec

\* Pieces that do not overlap all get into the image, whatever order they come in, with
\* every byte at its address and no others: Image::process(), Section::add() and the sort
\* of program(), for any number of records or segments.
THEOREM LoadingKeepsBytes == Spec => []LosslessLoading
<1>1. ImageInv => LosslessLoading
  BY DEF ImageInv, Lossless, Within, LosslessLoading
<1> QED BY <1>1, ImageAlways, PTL

\* "Overlapping memory blocks." is said only of a file in which two records overlap.
THEOREM RefusalJustified == Spec => []RefusedForOverlap
<1>1. ImageInv => RefusedForOverlap
  BY DEF ImageInv
<1> QED BY <1>1, ImageAlways, PTL

-----------------------------------------------------------------------------
(***************************************************************************)
(* A Hex file: the address of a record                                     *)
(***************************************************************************)

\* A set of places in a list has a last one.
LEMMA LastExists ==
  ASSUME NEW n \in Nat, NEW S \in SUBSET (1 .. n), S # {}
  PROVE  \E m \in S : \A i \in S : i <= m
<1> DEFINE Bounds == {u \in Nat : \A i \in S : i <= u}
<1>1. n \in Bounds /\ Bounds \subseteq Nat
  OBVIOUS
<1>2. IsWellFoundedOn(OpToRel(<, Nat), Nat)
  BY NatLessThanWellFounded
<1>3. PICK u \in Bounds : \A y \in Bounds : ~(<<y, u>> \in OpToRel(<, Nat))
  BY <1>1, <1>2, WFMin
<1>4. \A y \in Bounds : ~(y < u)
  BY <1>1, <1>3 DEF OpToRel
<1>5. u \in S
  <2> SUFFICES ASSUME u \notin S PROVE FALSE
    OBVIOUS
  <2>1. u \in Nat /\ \A i \in S : i \in Nat /\ i >= 1 /\ i <= u /\ i # u
    <3>1. u \in Nat /\ \A i \in S : i <= u
      OBVIOUS
    <3>2. \A i \in S : i \in 1 .. n
      OBVIOUS
    <3> QED BY <3>1, <3>2
  <2> HIDE DEF Bounds
  <2>2. u - 1 \in Nat /\ \A i \in S : i <= u - 1
    <3>1. PICK i \in S : TRUE
      OBVIOUS
    <3> QED BY <2>1, <3>1
  <2> USE DEF Bounds
  <2>3. u - 1 \in Bounds /\ u - 1 < u
    BY <1>1, <2>2
  <2> QED BY <1>4, <2>3
<1> QED BY <1>3, <1>5

\* The address records among the first k - 1 lines of a file, and the base they leave.
AddressLines(file, k) ==
  {j \in 1 .. k - 1 : file[j].type \in {"RT_EXT_SEG_ADDR", "RT_EXT_ADDR"}}

BaseIn(file, k) ==
  LET last == CHOOSE j \in AddressLines(file, k) : \A i \in AddressLines(file, k) : i <= j
  IN  CASE AddressLines(file, k) = {} -> 0
        [] AddressLines(file, k) # {} /\ file[last].type = "RT_EXT_SEG_ADDR" ->
             file[last].value * Paragraph
        [] OTHER -> file[last].value * Window

LEMMA BaseForm == \A k : BaseOf(k) = BaseIn(lines, k) /\ BaseOf(k)' = BaseIn(lines', k)
  BY DEF BaseOf, BaseIn, AddressLines

\* A line changes the base for the lines behind it, and only if it is an address record.
LEMMA BaseAppend ==
  ASSUME NEW file \in Seq(Line), NEW r \in Line
  PROVE  LET n == Len(file)
             longer == Append(file, r)
         IN  /\ \A k \in 1 .. n + 1 : BaseIn(longer, k) = BaseIn(file, k)
             /\ r.type \notin {"RT_EXT_SEG_ADDR", "RT_EXT_ADDR"} =>
                  BaseIn(longer, n + 2) = BaseIn(file, n + 1)
             /\ r.type = "RT_EXT_SEG_ADDR" => BaseIn(longer, n + 2) = r.value * Paragraph
             /\ r.type = "RT_EXT_ADDR" => BaseIn(longer, n + 2) = r.value * Window
<1> DEFINE n == Len(file)
<1> DEFINE longer == Append(file, r)
<1> DEFINE Last(S) == CHOOSE j \in S : \A i \in S : i <= j
<1>1. n \in Nat /\ longer[n + 1] = r /\ \A i \in 1 .. n : longer[i] = file[i]
  OBVIOUS
<1> HIDE DEF longer, n
<1>2. ASSUME NEW k \in 1 .. n + 1
      PROVE  /\ AddressLines(longer, k) = AddressLines(file, k)
             /\ AddressLines(file, k) # {} => Last(AddressLines(file, k)) \in 1 .. n
  <2>1. AddressLines(longer, k) = AddressLines(file, k)
    BY <1>1 DEF AddressLines
  <2>2. AddressLines(file, k) \in SUBSET (1 .. n)
    BY <1>1 DEF AddressLines
  <2>3. AddressLines(file, k) # {} => Last(AddressLines(file, k)) \in AddressLines(file, k)
    BY <1>1, <2>2, LastExists
  <2> QED BY <2>1, <2>2, <2>3
<1>3. \A k \in 1 .. n + 1 : BaseIn(longer, k) = BaseIn(file, k)
  <2> TAKE k \in 1 .. n + 1
  <2>1. CASE AddressLines(file, k) = {}
    BY <1>2, <2>1 DEF BaseIn
  <2>2. CASE AddressLines(file, k) # {}
    <3>1. longer[Last(AddressLines(file, k))] = file[Last(AddressLines(file, k))]
      BY <1>1, <1>2, <2>2
    <3> QED BY <1>2, <2>2, <3>1 DEF BaseIn
  <2> QED BY <2>1, <2>2
<1>4. ASSUME r.type \notin {"RT_EXT_SEG_ADDR", "RT_EXT_ADDR"}
      PROVE  BaseIn(longer, n + 2) = BaseIn(file, n + 1)
  <2>1. AddressLines(longer, n + 2) = AddressLines(longer, n + 1)
    BY <1>1, <1>4 DEF AddressLines
  <2>2. BaseIn(longer, n + 2) = BaseIn(longer, n + 1)
    BY <2>1 DEF BaseIn
  <2> QED BY <1>1, <1>3, <2>2
<1>5. ASSUME r.type \in {"RT_EXT_SEG_ADDR", "RT_EXT_ADDR"}
      PROVE  /\ AddressLines(longer, n + 2) # {}
             /\ Last(AddressLines(longer, n + 2)) = n + 1
  <2>1. n + 1 \in AddressLines(longer, n + 2)
    BY <1>1, <1>5 DEF AddressLines
  <2>2. \A i \in AddressLines(longer, n + 2) : i \in Nat /\ i <= n + 1
    BY <1>1 DEF AddressLines
  <2> QED BY <1>1, <2>1, <2>2
<1>6. r.type = "RT_EXT_SEG_ADDR" => BaseIn(longer, n + 2) = r.value * Paragraph
  BY <1>1, <1>5 DEF BaseIn
<1>7. r.type = "RT_EXT_ADDR" => BaseIn(longer, n + 2) = r.value * Window
  BY <1>1, <1>5 DEF BaseIn
<1> QED BY <1>3, <1>4, <1>6, <1>7 DEF longer, n

\* The bytes of the records are given, each at the address its base puts it.
RecordsGiven(file, pieces) ==
  \A k \in DOMAIN file :
    file[k].type = "RT_DATA" =>
      \A x \in DOMAIN file[k].data.bytes :
        Gives(pieces, BaseIn(file, k) + file[k].data.offset + x - 1, file[k].data.bytes[x])

HexInv ==
  /\ ShapeInv
  /\ kind = "hex" /\ phase = "loading" => segment = BaseIn(lines, Len(lines) + 1)
  /\ kind = "hex" /\ phase \in {"loaded", "program", "done", "undefined"} =>
       lines # <<>> /\ lines[Len(lines)].type = "RT_EOF"
  /\ RecordsGiven(lines, given)

LEMMA HexStart == Init => HexInv
<1> SUFFICES ASSUME Init PROVE HexInv
  OBVIOUS
<1>1. lines = <<>> /\ segment = 0 /\ phase = "loading"
  BY DEF Init, HexInit, ImageInit
<1>2. AddressLines(lines, Len(lines) + 1) = {}
  BY <1>1 DEF AddressLines
<1>3. BaseIn(lines, Len(lines) + 1) = 0
  BY <1>2 DEF BaseIn
<1> QED BY <1>1, <1>3, ShapeInit DEF HexInv, RecordsGiven

\* One more line, with the pieces that are there or one more.
LEMMA RecordsAppend ==
  ASSUME NEW file \in Seq(Line), NEW r \in Line, NEW P, NEW Q,
         RecordsGiven(file, P), \A a, v : Gives(P, a, v) => Gives(Q, a, v),
         r.type = "RT_DATA" =>
           \A x \in DOMAIN r.data.bytes :
             Gives(Q, BaseIn(file, Len(file) + 1) + r.data.offset + x - 1, r.data.bytes[x])
  PROVE  RecordsGiven(Append(file, r), Q)
<1> DEFINE longer == Append(file, r)
<1>1. /\ Len(file) \in Nat /\ DOMAIN file = 1 .. Len(file)
      /\ DOMAIN longer = 1 .. Len(file) + 1
      /\ longer[Len(file) + 1] = r /\ \A k \in 1 .. Len(file) : longer[k] = file[k]
  OBVIOUS
<1>2. \A k \in 1 .. Len(file) + 1 : BaseIn(longer, k) = BaseIn(file, k)
  BY BaseAppend
<1> HIDE DEF longer
<1> SUFFICES ASSUME NEW k \in DOMAIN longer, longer[k].type = "RT_DATA",
                    NEW x \in DOMAIN longer[k].data.bytes
             PROVE  Gives(Q, BaseIn(longer, k) + longer[k].data.offset + x - 1,
                          longer[k].data.bytes[x])
  BY DEF RecordsGiven, longer
<1>3. CASE k = Len(file) + 1
  <2>1. BaseIn(longer, k) = BaseIn(file, Len(file) + 1) /\ longer[k] = r
    BY <1>1, <1>2, <1>3
  <2>2. r.type = "RT_DATA" /\ x \in DOMAIN r.data.bytes
    BY <2>1
  <2> QED BY <2>1, <2>2
<1>4. CASE k \in 1 .. Len(file)
  <2>1. BaseIn(longer, k) = BaseIn(file, k) /\ longer[k] = file[k] /\ k \in DOMAIN file
    BY <1>1, <1>2, <1>4
  <2>2. file[k].type = "RT_DATA" /\ x \in DOMAIN file[k].data.bytes
    BY <2>1
  <2>3. Gives(P, BaseIn(file, k) + file[k].data.offset + x - 1, file[k].data.bytes[x])
    BY <2>1, <2>2 DEF RecordsGiven
  <2> QED BY <2>1, <2>3
<1> QED BY <1>1, <1>3, <1>4

LEMMA HexReads ==
  ASSUME HexInv, ReadsHex
  PROVE  HexInv'
<1>1. ShapeInv'
  BY ShapeHex DEF HexInv
<1>2. kind = "hex" /\ kind' = "hex" /\ ReadHex
  BY DEF ReadsHex
<1>3. /\ lines \in Seq(Line) /\ segment \in Bases
      /\ given \in Seq(PieceSet) /\ sections \in Seq(PieceSet)
  BY DEF HexInv, ShapeInv, HexOK, PiecesOK
<1>4. ASSUME NEW r \in Line, lines' = Append(lines, r)
      PROVE  /\ Len(lines') = Len(lines) + 1 /\ lines' # <<>> /\ lines'[Len(lines')] = r
             /\ Len(lines) \in Nat
  BY <1>3, <1>4
<1>5. ASSUME NEW d \in DataRecords, DataRecord(d)
      PROVE  HexInv'
  <2> DEFINE r == [type |-> "RT_DATA", data |-> d]
  <2> DEFINE b == RecordPiece(segment, d)
  <2>1. r \in Line /\ r.type = "RT_DATA" /\ r.data = d
    BY DEF Line
  <2>2. /\ phase = "loading" /\ lines' = Append(lines, r) /\ segment' = segment /\ Process(b)
    BY <1>5 DEF DataRecord, ReadLine
  <2>3. given' = Append(given, b) /\ phase' \in {"loading", "refused"}
    BY <2>2 DEF Process, SkipEmpty, Extend, RefuseOverlap, Place, Take
  <2>4. /\ b \in PieceSet
        /\ \A x \in DOMAIN d.bytes :
             /\ segment + d.offset + x - 1 \in DOMAIN b.mem
             /\ b.mem[segment + d.offset + x - 1] = d.bytes[x]
    BY <1>3, RecordPieceType
  <2> HIDE DEF b, r
  <2>5. segment = BaseIn(lines, Len(lines) + 1)
    BY <1>2, <2>2 DEF HexInv
  <2>6. /\ \A a, v : Gives(given, a, v) => Gives(given', a, v)
        /\ \A a \in DOMAIN b.mem : Gives(given', a, b.mem[a])
    BY <1>3, <2>3, <2>4, AppendPiece
  <2>7. \A x \in DOMAIN d.bytes : Gives(given', segment + d.offset + x - 1, d.bytes[x])
    BY <2>4, <2>6
  <2>8. RecordsGiven(lines', given')
    BY <1>3, <2>1, <2>2, <2>5, <2>6, <2>7, RecordsAppend DEF HexInv
  <2>9. segment' = BaseIn(lines', Len(lines') + 1)
    <3>1. BaseIn(Append(lines, r), Len(lines) + 2) = BaseIn(lines, Len(lines) + 1)
      BY <1>3, <2>1, BaseAppend
    <3>2. Len(lines') + 1 = Len(lines) + 2
      BY <1>4, <2>1, <2>2
    <3> QED BY <2>2, <2>5, <3>1, <3>2
  <2> QED BY <1>1, <2>3, <2>8, <2>9 DEF HexInv
<1>6. ASSUME NEW r \in Line, r.type # "RT_DATA", lines' = Append(lines, r), given' = given
      PROVE  RecordsGiven(lines', given')
  BY <1>3, <1>6, RecordsAppend DEF HexInv
<1>7. ASSUME NEW v \in SegmentBases, ExtSegAddr(v)
      PROVE  HexInv'
  <2> DEFINE r == [type |-> "RT_EXT_SEG_ADDR", value |-> v]
  <2>1. r \in Line /\ r.type = "RT_EXT_SEG_ADDR" /\ r.value = v
    BY DEF Line
  <2>2. /\ phase = "loading" /\ phase' = phase /\ lines' = Append(lines, r)
        /\ segment' = v * Paragraph /\ given' = given
    BY <1>7 DEF ExtSegAddr, ReadLine, imageVars
  <2> HIDE DEF r
  <2>3. segment' = BaseIn(lines', Len(lines') + 1)
    BY <1>3, <1>4, <2>1, <2>2, BaseAppend
  <2> QED BY <1>1, <1>6, <2>1, <2>2, <2>3 DEF HexInv
<1>8. ASSUME NEW v \in LinearBases, ExtAddr(v)
      PROVE  HexInv'
  <2> DEFINE r == [type |-> "RT_EXT_ADDR", value |-> v]
  <2>1. r \in Line /\ r.type = "RT_EXT_ADDR" /\ r.value = v
    BY DEF Line
  <2>2. /\ phase = "loading" /\ phase' = phase /\ lines' = Append(lines, r)
        /\ segment' = v * Window /\ given' = given
    BY <1>8 DEF ExtAddr, ReadLine, imageVars
  <2> HIDE DEF r
  <2>3. segment' = BaseIn(lines', Len(lines') + 1)
    BY <1>3, <1>4, <2>1, <2>2, BaseAppend
  <2> QED BY <1>1, <1>6, <2>1, <2>2, <2>3 DEF HexInv
<1>9. CASE EndOfFile
  <2> DEFINE r == [type |-> "RT_EOF"]
  <2>1. r \in Line /\ r.type = "RT_EOF"
    BY DEF Line
  <2>2. phase' = "loaded" /\ lines' = Append(lines, r) /\ given' = given
    BY <1>9 DEF EndOfFile, ReadLine
  <2> HIDE DEF r
  <2> QED BY <1>1, <1>4, <1>6, <2>1, <2>2 DEF HexInv
<1>10. CASE BadRecord
  <2> DEFINE r == [type |-> "bad"]
  <2>1. r \in Line /\ r.type = "bad"
    BY DEF Line
  <2>2. phase' = "failed" /\ lines' = Append(lines, r) /\ given' = given
    BY <1>10 DEF BadRecord, ReadLine
  <2> HIDE DEF r
  <2> QED BY <1>1, <1>6, <2>1, <2>2 DEF HexInv
<1>11. CASE EndsEarly
  <2>1. phase' = "failed" /\ lines' = lines /\ given' = given
    BY <1>11 DEF EndsEarly, hexVars
  <2> QED BY <1>1, <2>1 DEF HexInv
<1> QED BY <1>2, <1>5, <1>7, <1>8, <1>9, <1>10, <1>11 DEF ReadHex

LEMMA HexNext == HexInv /\ [Next]_vars => HexInv'
<1> SUFFICES ASSUME HexInv, [Next]_vars PROVE HexInv'
  OBVIOUS
<1>1. ShapeInv'
  BY ShapeNext DEF HexInv
<1>2. CASE ReadsElf
  <2>1. kind = "elf" /\ kind' = "elf" /\ lines' = lines
    BY <1>2 DEF ReadsElf, hexVars
  <2>2. lines' = <<>>
    BY <2>1 DEF HexInv, ShapeInv, HexOK
  <2> QED BY <1>1, <2>1, <2>2 DEF HexInv, RecordsGiven
<1>3. CASE Programs
  <2>1. UNCHANGED <<given, lines, kind>> /\ phase \in {"loaded", "program"}
        /\ phase' \in {"program", "done", "undefined"}
    BY <1>3, ProgramForm
  <2> QED BY <1>1, <2>1 DEF HexInv
<1>4. CASE UNCHANGED vars
  <2>1. UNCHANGED <<phase, given, segment, lines, kind>>
    BY <1>4 DEF vars, imageVars, hexVars
  <2> QED BY <1>1, <2>1 DEF HexInv
<1> QED BY <1>2, <1>3, <1>4, HexReads, NextForm

\* A Hex file that is programmed was read to its end record, and each byte of its data
\* records lies where the address record before it says: Hex::process_line() with
\* _segment_address, for files of any length.
THEOREM RecordsPlaced == Spec => []HexPlaced
<1>1. HexInv => HexPlaced
  <2> SUFFICES ASSUME HexInv, phase \in {"loaded", "program", "done"}, lines # <<>>
               PROVE  /\ lines[Len(lines)].type = "RT_EOF"
                      /\ \A k \in DOMAIN lines :
                           lines[k].type = "RT_DATA" =>
                             \A x \in DOMAIN lines[k].data.bytes :
                               Gives(given, BaseOf(k) + lines[k].data.offset + x - 1,
                                     lines[k].data.bytes[x])
    BY DEF HexPlaced
  <2>1. kind = "hex"
    BY DEF HexInv, ShapeInv, HexOK, PiecesOK
  <2> QED BY <2>1, BaseForm DEF HexInv, RecordsGiven
<1> QED BY <1>1, HexStart, HexNext, PTL DEF Spec

-----------------------------------------------------------------------------
(***************************************************************************)
(* An ELF file: its segments and sections                                  *)
(***************************************************************************)

\* The image holds the contents of the first n entries of the table, and nothing else.
PlacedUpTo(n) ==
  /\ \A j \in 1 .. n : \A a \in Extent(Table[j]) : Gives(given, a, ByteAt(Table[j], a))
  /\ \A i \in DOMAIN given : \A a \in DOMAIN given[i].mem :
       \E j \in 1 .. n : a \in Extent(Table[j]) /\ given[i].mem[a] = ByteAt(Table[j], a)

ElfInv ==
  /\ ShapeInv
  /\ stage # "image" /\ kind = "elf" => given = <<>>
  /\ stage = "image" /\ phase # "terminated" => PlacedUpTo(entry - 1)
  /\ kind = "elf" /\ phase \in {"loaded", "program", "done", "undefined"} =>
       stage = "image" /\ entry = Len(Table) + 1
  /\ ChecksSuffice

LEMMA ElfStart == Init => ElfInv
  BY ShapeInit DEF Init, ImageInit, ElfInit, ElfInv, ChecksSuffice

\* The next entry adds the piece of its contents, or has none.
LEMMA PlacedNext ==
  ASSUME PlacedUpTo(entry - 1), entry \in Nat \ {0}, given \in Seq(PieceSet),
         UNCHANGED <<use, sectionTab, programTab>>, entry' = entry + 1,
         \/ given' = given /\ Extent(Table[entry]) = {}
         \/ \E p \in PieceSet :
              /\ given' = Append(given, p)
              /\ DOMAIN p.mem = Extent(Table[entry])
              /\ \A a \in DOMAIN p.mem : p.mem[a] = ByteAt(Table[entry], a)
  PROVE  PlacedUpTo(entry - 1)'
<1>1. /\ Table' = Table
      /\ \A e : Extent(e)' = Extent(e)
      /\ \A e, a : ByteAt(e, a)' = ByteAt(e, a)
  BY DEF Table, Extent, ByteAt
<1>2. /\ (entry - 1)' = entry
      /\ entry \in 1 .. entry /\ 1 .. entry - 1 \subseteq 1 .. entry
      /\ \A j \in 1 .. entry : j = entry \/ j \in 1 .. entry - 1
  OBVIOUS
<1>3. SUFFICES
        /\ \A j \in 1 .. entry : \A a \in Extent(Table[j]) : Gives(given', a, ByteAt(Table[j], a))
        /\ \A i \in DOMAIN given' : \A a \in DOMAIN given'[i].mem :
             \E j \in 1 .. entry :
               a \in Extent(Table[j]) /\ given'[i].mem[a] = ByteAt(Table[j], a)
  BY <1>1, <1>2 DEF PlacedUpTo
<1>4. CASE given' = given /\ Extent(Table[entry]) = {}
  <2>1. ASSUME NEW j \in 1 .. entry, NEW a \in Extent(Table[j])
        PROVE  Gives(given', a, ByteAt(Table[j], a))
    <3>1. j \in 1 .. entry - 1
      BY <1>2, <1>4, <2>1
    <3>2. Gives(given, a, ByteAt(Table[j], a))
      BY <2>1, <3>1 DEF PlacedUpTo
    <3> QED BY <1>4, <3>2
  <2>2. ASSUME NEW i \in DOMAIN given, NEW a \in DOMAIN given[i].mem
        PROVE  \E j \in 1 .. entry : a \in Extent(Table[j]) /\ given[i].mem[a] = ByteAt(Table[j], a)
    BY <1>2, <2>2 DEF PlacedUpTo
  <2> QED BY <1>4, <2>1, <2>2
<1>5. ASSUME NEW p \in PieceSet, given' = Append(given, p),
             DOMAIN p.mem = Extent(Table[entry]),
             \A a \in DOMAIN p.mem : p.mem[a] = ByteAt(Table[entry], a)
      PROVE  /\ \A j \in 1 .. entry : \A a \in Extent(Table[j]) :
                  Gives(given', a, ByteAt(Table[j], a))
             /\ \A i \in DOMAIN given' : \A a \in DOMAIN given'[i].mem :
                  \E j \in 1 .. entry :
                    a \in Extent(Table[j]) /\ given'[i].mem[a] = ByteAt(Table[j], a)
  <2>1. ASSUME NEW j \in 1 .. entry, NEW a \in Extent(Table[j])
        PROVE  Gives(given', a, ByteAt(Table[j], a))
    <3>1. CASE j = entry
      BY <1>5, <3>1, AppendPiece
    <3>2. CASE j \in 1 .. entry - 1
      <4>1. Gives(given, a, ByteAt(Table[j], a))
        BY <2>1, <3>2 DEF PlacedUpTo
      <4> QED BY <1>5, <4>1, AppendPiece
    <3> QED BY <1>2, <3>1, <3>2
  <2>2. ASSUME NEW i \in DOMAIN given', NEW a \in DOMAIN given'[i].mem
        PROVE  \E j \in 1 .. entry : a \in Extent(Table[j]) /\ given'[i].mem[a] = ByteAt(Table[j], a)
    <3>1. CASE i = Len(given) + 1
      <4>1. given'[i] = p
        BY <1>5, <3>1, AppendPiece
      <4> QED BY <1>2, <1>5, <2>2, <4>1
    <3>2. CASE i \in DOMAIN given
      <4>1. given'[i] = given[i]
        BY <1>5, <3>2, AppendPiece
      <4> QED BY <1>2, <2>2, <3>2, <4>1 DEF PlacedUpTo
    <3> QED BY <1>5, <3>1, <3>2, AppendPiece
  <2> QED BY <2>1, <2>2
<1> QED BY <1>4, <1>5

\* What the check of a program header leaves out, when the file has less than it promises.
LEMMA ProgramLeftOut ==
  ASSUME header \in ElfHeaders, NEW e \in ProgramHeaders, ProgramOK(e), ~Holds(e.off, e.filesz)
  PROVE  e.off = 0 \/ e.off + e.filesz >= OffMod
<1>1. /\ e.off \in Nat /\ e.filesz \in Nat /\ header.size \in Nat /\ OffMod \in Nat \ {0}
      /\ e.off + e.filesz \in Nat
  BY ElfAssumption DEF ProgramHeader, ElfHeader
<1>2. ASSUME NEW n \in Nat, n < OffMod PROVE n % OffMod = n
  BY <1>1, <1>2
<1>3. ~(e.off + e.filesz <= header.size)
  BY DEF Holds
<1>4. e.off # 0 => (e.off + e.filesz) % OffMod <= header.size
  BY DEF ProgramOK
<1> QED BY <1>1, <1>2, <1>3, <1>4

\* The same of a section header.
LEMMA SectionLeftOut ==
  ASSUME header \in ElfHeaders, NEW e \in SectionHeaders, SectionOK(e),
         e.type = "SHT_PROGBITS", ~Holds(e.off, e.size)
  PROVE  e.off + e.size >= OffMod
<1>1. /\ e.off \in Nat /\ e.size \in Nat /\ header.size \in Nat /\ OffMod \in Nat \ {0}
      /\ e.off + e.size \in Nat
  BY ElfAssumption DEF SectionHeader, ElfHeader
<1>2. ASSUME NEW n \in Nat, n < OffMod PROVE n % OffMod = n
  BY <1>1, <1>2
<1>3. ~(e.off + e.size <= header.size) /\ (e.off + e.size) % OffMod <= header.size
  BY DEF Holds, SectionOK
<1> QED BY <1>1, <1>2, <1>3

\* Loading an entry of either table: its contents are there, or the entry is one the checks
\* leave out.
LEMMA LoadPlaced ==
  ASSUME ShapeInv, stage = "image", entry \in DOMAIN Table, LoadProgram \/ LoadSection
  PROVE  \/ given' = given /\ phase' = phase /\ Extent(Table[entry]) = {}
         \/ \E p \in PieceSet :
              /\ given' = Append(given, p) /\ phase' = phase
              /\ DOMAIN p.mem = Extent(Table[entry])
              /\ \A a \in DOMAIN p.mem : p.mem[a] = ByteAt(Table[entry], a)
         \/ /\ phase' = "terminated"
            /\ IF use = "programs"
               THEN Table[entry].off = 0 \/ Table[entry].off + Table[entry].filesz >= OffMod
               ELSE Table[entry].off + Table[entry].size >= OffMod \/ ~Table[entry].alloc
<1> DEFINE e == Table[entry]
<1>0. header \in ElfHeaders
  BY DEF ShapeInv, ElfOK
<1>1. CASE LoadProgram
  <2>1. /\ use = "programs" /\ e = programTab[entry]
        /\ \/ ~Loadable(e) /\ UNCHANGED imageVars
           \/ Loadable(e) /\ Fill(e.paddr, e.memsz, e.off, e.filesz)
    BY <1>1 DEF LoadProgram, AtEntry, Table
  <2>2. e \in ProgramHeaders /\ ProgramOK(e)
    BY <2>1 DEF ShapeInv, ElfOK, Table
  <2> HIDE DEF e
  <2>3. e.paddr \in Nat /\ e.memsz \in Nat /\ e.off \in Nat /\ e.filesz \in Nat
    BY <2>2, ElfAssumption DEF ProgramHeader
  <2>4. CASE ~Loadable(e) /\ UNCHANGED imageVars
    <3>1. Extent(e) = {}
      BY <2>1, <2>3, <2>4 DEF Loadable, Extent
    <3> QED BY <2>4, <3>1 DEF imageVars, e
  <2>5. CASE Loadable(e) /\ Fill(e.paddr, e.memsz, e.off, e.filesz)
    <3> DEFINE Adds(p) ==
            /\ given' = Append(given, p) /\ phase' = phase
            /\ HasFilled(p, e.paddr, e.memsz, e.off, e.filesz)
    <3>1. \/ phase' = "terminated" /\ ~Holds(e.off, e.filesz)
          \/ \E p \in PieceSet : Adds(p)
      <4>1. Fill(e.paddr, e.memsz, e.off, e.filesz)
        BY <2>5
      <4> QED BY <1>0, <2>3, <4>1, FillForm
    <3>2. CASE phase' = "terminated" /\ ~Holds(e.off, e.filesz)
      <4>1. e.off = 0 \/ e.off + e.filesz >= OffMod
        BY <1>0, <2>2, <3>2, ProgramLeftOut
      <4> QED BY <2>1, <3>2, <4>1 DEF e
    <3>3. ASSUME NEW p \in PieceSet, Adds(p)
          PROVE  /\ given' = Append(given, p) /\ phase' = phase
                 /\ DOMAIN p.mem = Extent(e)
                 /\ \A a \in DOMAIN p.mem : p.mem[a] = ByteAt(e, a)
      <4>1. /\ DOMAIN p.mem = e.paddr .. e.paddr + e.memsz - 1
            /\ \A a \in DOMAIN p.mem :
                 p.mem[a] = IF a < e.paddr + e.filesz THEN Content[e.off + a - e.paddr] ELSE Zero
        BY <3>3 DEF HasFilled
      <4>2. DOMAIN p.mem = Extent(e)
        BY <2>1, <2>3, <2>5, <4>1 DEF Extent, Loadable
      <4>3. \A a \in DOMAIN p.mem : p.mem[a] = ByteAt(e, a)
        <5> TAKE a \in DOMAIN p.mem
        <5>1. a \in Nat
          BY PieceFacts
        <5>2. a < e.paddr + e.filesz \/ a >= e.paddr + e.filesz
          BY <2>3, <5>1
        <5> QED BY <2>1, <2>3, <4>1, <5>1, <5>2 DEF ByteAt
      <4> QED BY <3>3, <4>2, <4>3
    <3> HIDE DEF Adds
    <3> QED BY <3>1, <3>2, <3>3 DEF e
  <2> QED BY <2>1, <2>4, <2>5
<1>2. CASE LoadSection
  <2>1. /\ use = "sections" /\ e = sectionTab[entry]
        /\ \/ e.type # "SHT_PROGBITS" /\ UNCHANGED imageVars
           \/ ~e.alloc /\ Abandon("terminated")
           \/ e.type = "SHT_PROGBITS" /\ Fill(e.vaddr, e.size, e.off, e.size)
    BY <1>2 DEF LoadSection, AtEntry, Table
  <2>2. e \in SectionHeaders /\ SectionOK(e)
    BY <2>1 DEF ShapeInv, ElfOK, Table
  <2> HIDE DEF e
  <2>3. e.vaddr \in Nat /\ e.size \in Nat /\ e.off \in Nat
    BY <2>2, ElfAssumption DEF SectionHeader
  <2>4. CASE e.type # "SHT_PROGBITS" /\ UNCHANGED imageVars
    <3>1. Extent(e) = {}
      BY <2>1, <2>4 DEF Extent
    <3> QED BY <2>4, <3>1 DEF imageVars, e
  <2>5. CASE ~e.alloc /\ Abandon("terminated")
    BY <2>1, <2>5 DEF Abandon, e
  <2>6. CASE e.type = "SHT_PROGBITS" /\ Fill(e.vaddr, e.size, e.off, e.size)
    <3> DEFINE Adds(p) ==
            /\ given' = Append(given, p) /\ phase' = phase
            /\ HasFilled(p, e.vaddr, e.size, e.off, e.size)
    <3>1. \/ phase' = "terminated" /\ ~Holds(e.off, e.size)
          \/ \E p \in PieceSet : Adds(p)
      <4>1. Fill(e.vaddr, e.size, e.off, e.size)
        BY <2>6
      <4> QED BY <1>0, <2>3, <4>1, FillForm
    <3>2. CASE phase' = "terminated" /\ ~Holds(e.off, e.size)
      <4>1. e.off + e.size >= OffMod
        BY <1>0, <2>2, <2>6, <3>2, SectionLeftOut
      <4> QED BY <2>1, <3>2, <4>1 DEF e
    <3>3. ASSUME NEW p \in PieceSet, Adds(p)
          PROVE  /\ given' = Append(given, p) /\ phase' = phase
                 /\ DOMAIN p.mem = Extent(e)
                 /\ \A a \in DOMAIN p.mem : p.mem[a] = ByteAt(e, a)
      <4>1. /\ DOMAIN p.mem = e.vaddr .. e.vaddr + e.size - 1
            /\ \A a \in DOMAIN p.mem :
                 p.mem[a] = IF a < e.vaddr + e.size THEN Content[e.off + a - e.vaddr] ELSE Zero
        BY <3>3 DEF HasFilled
      <4>2. DOMAIN p.mem = Extent(e)
        BY <2>1, <2>6, <4>1 DEF Extent
      <4>3. \A a \in DOMAIN p.mem : p.mem[a] = ByteAt(e, a)
        <5> TAKE a \in DOMAIN p.mem
        <5>1. a < e.vaddr + e.size
          BY <2>3, <4>1
        <5> QED BY <2>1, <4>1, <5>1 DEF ByteAt
      <4> QED BY <3>3, <4>2, <4>3
    <3> HIDE DEF Adds
    <3> QED BY <3>1, <3>2, <3>3 DEF e
  <2> QED BY <2>1, <2>4, <2>5, <2>6
<1> QED BY <1>1, <1>2

\* What the image holds stays the contents of the table while neither changes.
LEMMA PlacedStays ==
  ASSUME PlacedUpTo(entry - 1), UNCHANGED <<given, use, sectionTab, programTab, entry>>
  PROVE  PlacedUpTo(entry - 1)'
<1>1. /\ Table' = Table
      /\ \A e : Extent(e)' = Extent(e)
      /\ \A e, a : ByteAt(e, a)' = ByteAt(e, a)
  BY DEF Table, Extent, ByteAt
<1> QED BY <1>1 DEF PlacedUpTo, Gives

\* Loading the next entry keeps the image true to the table, or stops as the checks allow.
LEMMA ElfLoads ==
  ASSUME ElfInv, kind = "elf", kind' = kind, LoadProgram \/ LoadSection, ShapeInv'
  PROVE  ElfInv'
<1>1. /\ phase = "loading" /\ stage = "image" /\ entry \in DOMAIN Table /\ entry' = entry + 1
      /\ UNCHANGED <<stage, use, header, sectionTab, programTab>>
  BY DEF LoadProgram, LoadSection, AtEntry, AtStage, NextEntry
<1>2. /\ entry \in Nat \ {0} /\ given \in Seq(PieceSet)
      /\ DOMAIN Table = 1 .. Len(Table) /\ PlacedUpTo(entry - 1)
  BY <1>1 DEF ElfInv, ShapeInv, ElfOK, PiecesOK, Table
<1>3. \/ given' = given /\ phase' = phase /\ Extent(Table[entry]) = {}
      \/ \E p \in PieceSet :
           /\ given' = Append(given, p) /\ phase' = phase
           /\ DOMAIN p.mem = Extent(Table[entry])
           /\ \A a \in DOMAIN p.mem : p.mem[a] = ByteAt(Table[entry], a)
      \/ /\ phase' = "terminated"
         /\ IF use = "programs"
            THEN Table[entry].off = 0 \/ Table[entry].off + Table[entry].filesz >= OffMod
            ELSE Table[entry].off + Table[entry].size >= OffMod \/ ~Table[entry].alloc
  BY <1>1, LoadPlaced DEF ElfInv
<1>4. Table' = Table
  BY <1>1 DEF Table
<1>5. CASE phase' = phase /\ PlacedUpTo(entry - 1)'
  BY <1>1, <1>5 DEF ElfInv, ChecksSuffice
<1>6. CASE /\ phase' = "terminated"
           /\ IF use = "programs"
              THEN Table[entry].off = 0 \/ Table[entry].off + Table[entry].filesz >= OffMod
              ELSE Table[entry].off + Table[entry].size >= OffMod \/ ~Table[entry].alloc
  <2>1. entry' - 1 = entry
    BY <1>1, <1>2
  <2>2. ChecksSuffice'
    BY <1>1, <1>4, <1>6, <2>1 DEF ChecksSuffice
  <2> QED BY <1>1, <1>6, <2>2 DEF ElfInv
<1>7. ASSUME given' = given, Extent(Table[entry]) = {}
      PROVE  PlacedUpTo(entry - 1)'
  BY <1>1, <1>2, <1>7, PlacedNext
<1>8. ASSUME NEW p \in PieceSet, given' = Append(given, p),
             DOMAIN p.mem = Extent(Table[entry]),
             \A a \in DOMAIN p.mem : p.mem[a] = ByteAt(Table[entry], a)
      PROVE  PlacedUpTo(entry - 1)'
  <2>1. \E q \in PieceSet :
          /\ given' = Append(given, q)
          /\ DOMAIN q.mem = Extent(Table[entry])
          /\ \A a \in DOMAIN q.mem : q.mem[a] = ByteAt(Table[entry], a)
    BY <1>8
  <2> QED BY <1>1, <1>2, <2>1, PlacedNext
<1> QED BY <1>3, <1>5, <1>6, <1>7, <1>8

\* Reading an ELF file.
LEMMA ElfReads == ASSUME ElfInv, ReadsElf PROVE ElfInv'
<1>1. kind = "elf" /\ kind' = kind /\ ReadElf /\ ShapeInv
  BY DEF ReadsElf, ElfInv
<1>2. ShapeInv'
  BY <1>1, ShapeElf
<1>3. CASE ReadHeader \/ ReadSection \/ ReadNames \/ ReadProgram
  <2>1. /\ stage # "image" /\ stage' # "image" /\ given' = given
        /\ phase' \in {"loading", "failed", "terminated"}
    <3>1. CASE ReadHeader
      BY <3>1 DEF ReadHeader, AtStage, Abandon, imageVars
    <3>2. CASE ReadSection
      BY <3>2 DEF ReadSection, AtStage, Abandon, imageVars
    <3>3. CASE ReadNames
      BY <3>3 DEF ReadNames, AtStage, Abandon, imageVars
    <3>4. CASE ReadProgram
      BY <3>4 DEF ReadProgram, AtStage, Abandon, imageVars
    <3> QED BY <1>3, <3>1, <3>2, <3>3, <3>4
  <2> QED BY <1>1, <1>2, <2>1 DEF ElfInv, ChecksSuffice
<1>4. CASE Opened
  <2>1. /\ stage # "image" /\ phase = "loading" /\ phase' = phase /\ given' = given
        /\ entry' = entry /\ stage' = "image"
    BY <1>4 DEF Opened, AtStage, imageVars
  <2>2. entry' = 1 /\ given' = <<>>
    BY <1>1, <2>1 DEF ElfInv, ShapeInv, ElfOK
  <2>3. 1 .. entry' - 1 = {} /\ DOMAIN given' = {}
    BY <2>2
  <2>4. PlacedUpTo(entry - 1)'
    BY <2>3 DEF PlacedUpTo
  <2> QED BY <1>2, <2>1, <2>4 DEF ElfInv, ChecksSuffice
<1>5. CASE LoadProgram \/ LoadSection
  BY <1>1, <1>2, <1>5, ElfLoads
<1>6. CASE ImageRead
  <2>1. /\ phase = "loading" /\ stage = "image" /\ entry \notin DOMAIN Table
        /\ phase' = "loaded" /\ given' = given
        /\ UNCHANGED <<stage, use, header, sectionTab, programTab, entry>>
    BY <1>6 DEF ImageRead, AtStage, elfVars
  <2>2. entry = Len(Table) + 1
    BY <1>1, <2>1 DEF ShapeInv, ElfOK, Table
  <2>3. PlacedUpTo(entry - 1)'
    <3>1. PlacedUpTo(entry - 1)
      BY <2>1 DEF ElfInv
    <3> QED BY <2>1, <3>1, PlacedStays
  <2>4. Table' = Table
    BY <2>1 DEF Table
  <2> QED BY <1>2, <2>1, <2>2, <2>3, <2>4 DEF ElfInv, ChecksSuffice
<1> QED BY <1>1, <1>3, <1>4, <1>5, <1>6 DEF ReadElf

LEMMA ElfNext == ElfInv /\ [Next]_vars => ElfInv'
<1> SUFFICES ASSUME ElfInv, [Next]_vars PROVE ElfInv'
  OBVIOUS
<1>1. ShapeInv'
  BY ShapeNext DEF ElfInv
<1>2. CASE ReadsHex
  <2>1. kind' = "hex" /\ stage' = stage /\ stage = "header"
    BY <1>2 DEF ReadsHex, elfVars, ElfInv, ShapeInv, ElfOK
  <2> QED BY <1>1, <2>1 DEF ElfInv, ChecksSuffice
<1>3. ASSUME UNCHANGED <<given, stage, use, header, sectionTab, programTab, entry, kind>>,
             \/ /\ phase \in {"loaded", "program"}
                /\ phase' \in {"program", "done", "undefined"}
             \/ phase' = phase
      PROVE  ElfInv'
  <2>1. Table' = Table
    BY <1>3 DEF Table
  <2>2. stage = "image" /\ phase # "terminated" => PlacedUpTo(entry - 1)'
    BY <1>3, PlacedStays DEF ElfInv
  <2>3. ChecksSuffice'
    BY <1>3, <2>1 DEF ElfInv, ChecksSuffice
  <2> QED BY <1>1, <1>3, <2>1, <2>2, <2>3 DEF ElfInv
<1>4. CASE Programs
  <2>1. UNCHANGED header
    BY <1>4 DEF Programs, elfVars
  <2> QED BY <1>3, <1>4, <2>1, ProgramForm
<1>5. CASE UNCHANGED vars
  BY <1>3, <1>5 DEF vars, imageVars, elfVars
<1> QED BY <1>2, <1>4, <1>5, ElfReads, NextForm

\* What the headers of an ELF file promise is in the image when it is programmed, byte by
\* byte, and nothing else is: Elf::read_image() and Elf::read_image2(), for every table.
THEOREM ElfFilesPlaced == Spec => []ElfPlaced
<1>1. ElfInv => ElfPlaced
  <2> SUFFICES ASSUME ElfInv, phase \in {"loaded", "program", "done"}, stage = "image"
               PROVE  /\ \A i \in DOMAIN Table : \A a \in Extent(Table[i]) :
                           Gives(given, a, ByteAt(Table[i], a))
                      /\ \A i \in DOMAIN given : \A a \in DOMAIN given[i].mem :
                           \E j \in DOMAIN Table :
                             a \in Extent(Table[j]) /\ given[i].mem[a] = ByteAt(Table[j], a)
    BY DEF ElfPlaced
  <2>1. kind = "elf" /\ entry = Len(Table) + 1 /\ PlacedUpTo(entry - 1)
    BY DEF ElfInv, ShapeInv, ElfOK, PiecesOK
  <2>2. Len(Table) \in Nat /\ DOMAIN Table = 1 .. Len(Table)
    BY DEF ElfInv, ShapeInv, ElfOK, Table
  <2>3. 1 .. entry - 1 = DOMAIN Table
    BY <2>1, <2>2
  <2> QED BY <2>1, <2>3 DEF PlacedUpTo
<1> QED BY <1>1, ElfStart, ElfNext, PTL DEF Spec

\* An ELF file whose loading stops half way has an entry the checks of Elf::Elf() leave out.
THEOREM ChecksAreEnough == Spec => []ChecksSuffice
<1>1. ElfInv => ChecksSuffice
  BY DEF ElfInv
<1> QED BY <1>1, ElfStart, ElfNext, PTL DEF Spec
=============================================================================
