--------------------------- MODULE NetTesterProofs ---------------------------
(***************************************************************************)
(* Proofs about TargetNetworkTester.                                       *)
(*                                                                         *)
(* The frames of the queue were sent one after the other, the last of them *)
(* last, so that their numbers and their sequence numbers follow from the  *)
(* counter of sent frames and from _seq; and they are fewer than sequence  *)
(* numbers, so that no two of them have the same. A response whose frame   *)
(* is in the queue is therefore taken for the answer to that frame and no  *)
(* other. On a path that keeps the order, the frame of the next response   *)
(* is in the queue, for what has left it is older.                         *)
(***************************************************************************)
EXTENDS NetTester, TLAPS

\* The sequence number k frames before s, k < SeqMod.
Back(s, k) == IF Low(s) >= k THEN Low(s) - k ELSE Low(s) - k + SeqMod

\* The last of tx frames, sent when _seq became s.
LastSent(q, tx, s) ==
  /\ Len(q) <= tx
  /\ \A i \in 1 .. Len(q) :
       q[i].n = tx - Len(q) + i /\ Low(q[i].seq) = Back(s, Len(q) - i)

\* A frame on its way is a copy of the one in the queue.
RequestsMatch(ms, tx, q) ==
  \A m \in ms :
    m.n <= tx /\ \A i \in 1 .. Len(q) : m.n = q[i].n => m.seq = q[i].seq

ResponsesMatch(rs, tx, q) ==
  \A r \in rs :
    r.n <= tx /\ \A i \in 1 .. Len(q) : r.n = q[i].n => r.cur_seq = q[i].seq

Held(q, tx, s, ms, rs) ==
  /\ LastSent(q, tx, s)
  /\ RequestsMatch(ms, tx, q)
  /\ ResponsesMatch(rs, tx, q)

QueueInv == Held(queue, stats.tx, seq, requests, responses)

LengthInv == QueueBounded /\ stats.timeout <= MaxTimeouts

\* What has left the queue on a path that keeps the order is as old as the last response.
NewestInv == phase # "undefined" /\ seen.ordered => seen.newest = stats.tx - Len(queue)

StartInv ==
  phase = "start" =>
    queue = <<>> /\ seq = 0 /\ stats = NoStats /\ requests = {} /\ responses = {}

CountInv ==
  phase # "undefined" =>
    stats.tx = Len(queue) + seen.taken + stats.lost_rx + stats.lost_tx

IInv ==
  /\ TypeOK
  /\ LengthInv
  /\ QueueInv
  /\ NewestInv
  /\ StartInv
  /\ CountInv
  /\ FallsOnlyWhenMisordered
  /\ ReportsDamage

-----------------------------------------------------------------------------
(***************************************************************************)
(* Sequence numbers                                                        *)
(***************************************************************************)
SeqValue == 0 .. 2 * SeqMod - 1

\* A sequence number without its top bit is below SeqMod.
LEMMA LowType == ASSUME NEW s \in SeqValue PROVE Low(s) \in 0 .. SeqMod - 1
  BY TesterAssumption DEF SeqValue, Low

\* Sending a frame does not set the top bit.
LEMMA SeqAfterType ==
  ASSUME NEW s \in SeqValue, NEW i \in 0 .. SeqMod
  PROVE  SeqAfter(s, i) \in 0 .. SeqMod - 1 /\ Low(SeqAfter(s, i)) = SeqAfter(s, i)
  BY TesterAssumption DEF SeqValue, Low, SeqAfter

\* After k frames, the frame that was i back is i + k back.
LEMMA BackAfter ==
  ASSUME NEW s \in SeqValue, NEW k \in 0 .. SeqMod, NEW i \in 0 .. SeqMod, i + k < SeqMod
  PROVE  Back(SeqAfter(s, k), i + k) = Back(s, i)
  BY TesterAssumption DEF SeqValue, Low, SeqAfter, Back

\* The frame i after s is k - i back when k have been sent.
LEMMA BackSent ==
  ASSUME NEW s \in SeqValue, NEW k \in 0 .. SeqMod, NEW i \in 1 .. k
  PROVE  Back(SeqAfter(s, k), k - i) = SeqAfter(s, i)
  BY TesterAssumption DEF SeqValue, Low, SeqAfter, Back

\* Fewer than SeqMod frames have different sequence numbers.
LEMMA BackDistinct ==
  ASSUME NEW s \in SeqValue, NEW i \in 0 .. SeqMod - 1, NEW j \in 0 .. SeqMod - 1,
         Back(s, i) = Back(s, j)
  PROVE  i = j
  BY TesterAssumption DEF SeqValue, Low, Back

-----------------------------------------------------------------------------
(***************************************************************************)
(* The queue                                                               *)
(***************************************************************************)

\* Frames k more than tx, behind the sequence number s.
Following(f, k, tx, s) ==
  /\ f \in Seq(Frame)
  /\ Len(f) = k
  /\ \A i \in 1 .. k : f[i].n = tx + i /\ f[i].seq = SeqAfter(s, i)

\* What send() adds follows what was sent.
LEMMA NextFramesFollow ==
  ASSUME NEW k \in 0 .. SeqMod, stats.tx \in Nat, seq \in SeqValue
  PROVE  Following(NextFrames(k), k, stats.tx, seq)
<1>1. \A i \in 1 .. k : FrameOf(stats.tx + i, SeqAfter(seq, i), FALSE) \in Frame
  BY SeqAfterType, TesterAssumption DEF FrameOf, Frame, SeqValue
<1> QED BY <1>1 DEF Following, NextFrames, FrameOf

\* The queue with the frames that follow it is a queue again.
LEMMA LastSentExtended ==
  ASSUME NEW q \in Seq(Frame), NEW f, NEW tx \in Nat, NEW s \in SeqValue, NEW k \in Nat,
         LastSent(q, tx, s), Len(q) + k <= SeqMod, Following(f, k, tx, s)
  PROVE  LastSent(q \o f, tx + k, SeqAfter(s, k))
<1> DEFINE w == q \o f
           l == Len(q)
<1>1. w \in Seq(Frame) /\ Len(w) = l + k /\ l \in Nat /\ k \in 0 .. SeqMod
  BY TesterAssumption DEF Following
<1>2. ASSUME NEW i \in 1 .. l
      PROVE  w[i].n = tx + k - (l + k) + i /\ Low(w[i].seq) = Back(SeqAfter(s, k), l + k - i)
  <2>1. w[i] = q[i]
    BY DEF Following
  <2>2. Back(SeqAfter(s, k), (l - i) + k) = Back(s, l - i)
    BY <1>1, BackAfter, TesterAssumption
  <2> QED BY <1>1, <2>1, <2>2 DEF LastSent
<1>3. ASSUME NEW i \in l + 1 .. l + k
      PROVE  w[i].n = tx + k - (l + k) + i /\ Low(w[i].seq) = Back(SeqAfter(s, k), l + k - i)
  <2>1. w[i] = f[i - l] /\ i - l \in 1 .. k
    BY <1>1 DEF Following
  <2>2. Low(f[i - l].seq) = SeqAfter(s, i - l) /\ f[i - l].n = tx + (i - l)
    <3>1. i - l \in 0 .. SeqMod
      BY <1>1, <2>1, TesterAssumption
    <3> QED BY <2>1, <3>1, SeqAfterType DEF Following
  <2>3. Back(SeqAfter(s, k), k - (i - l)) = SeqAfter(s, i - l)
    BY <1>1, <2>1, BackSent
  <2> QED BY <1>1, <2>1, <2>2, <2>3
<1> QED BY <1>1, <1>2, <1>3 DEF LastSent

\* What is left of the queue behind frame i is a queue.
LEMMA LastSentRest ==
  ASSUME NEW q \in Seq(Frame), NEW tx \in Nat, NEW s \in SeqValue, LastSent(q, tx, s),
         NEW i \in 1 .. Len(q)
  PROVE  /\ SubSeq(q, i + 1, Len(q)) \in Seq(Frame)
         /\ Len(SubSeq(q, i + 1, Len(q))) = Len(q) - i
         /\ \A j \in 1 .. Len(q) - i : SubSeq(q, i + 1, Len(q))[j] = q[i + j]
         /\ LastSent(SubSeq(q, i + 1, Len(q)), tx, s)
<1> DEFINE w == SubSeq(q, i + 1, Len(q))
<1>1. w \in Seq(Frame) /\ Len(w) = Len(q) - i /\ \A j \in 1 .. Len(q) - i : w[j] = q[i + j]
  OBVIOUS
<1> HIDE DEF w
<1>2. ASSUME NEW j \in 1 .. Len(w)
      PROVE  w[j].n = tx - Len(w) + j /\ Low(w[j].seq) = Back(s, Len(w) - j)
  <2>1. i + j \in 1 .. Len(q) /\ w[j] = q[i + j]
    BY <1>1
  <2>2. q[i + j].n = tx - Len(q) + (i + j) /\ Low(q[i + j].seq) = Back(s, Len(q) - (i + j))
    BY <2>1 DEF LastSent
  <2>3. Len(q) - (i + j) = Len(w) - j /\ tx - Len(q) + (i + j) = tx - Len(w) + j
    BY <1>1
  <2> QED BY <1>1, <2>1, <2>2, <2>3
<1>3. Len(w) <= tx
  BY <1>1 DEF LastSent
<1>4. LastSent(w, tx, s)
  BY <1>2, <1>3 DEF LastSent
<1> QED BY <1>1, <1>4 DEF w

\* No two frames of a queue have the same sequence number.
LEMMA SeqUnique ==
  ASSUME NEW q \in Seq(Frame), NEW tx \in Nat, NEW s \in SeqValue, LastSent(q, tx, s),
         Len(q) <= SeqMod, NEW i \in 1 .. Len(q), NEW j \in 1 .. Len(q), q[i].seq = q[j].seq
  PROVE  i = j
<1>1. Back(s, Len(q) - i) = Back(s, Len(q) - j)
  BY DEF LastSent
<1>2. Len(q) - i \in 0 .. SeqMod - 1 /\ Len(q) - j \in 0 .. SeqMod - 1
  BY TesterAssumption
<1>3. Len(q) - i = Len(q) - j
  BY <1>1, <1>2, BackDistinct
<1> QED BY <1>3

\* The frames of two queues in a row are those of both.
LEMMA FramesJoined ==
  ASSUME NEW q \in Seq(Frame), NEW f \in Seq(Frame)
  PROVE  FramesOf(q \o f) = FramesOf(q) \cup FramesOf(f)
<1>1. ASSUME NEW i \in 1 .. Len(q \o f)
      PROVE  (q \o f)[i] \in FramesOf(q) \cup FramesOf(f)
  <2>1. CASE i <= Len(q)
    BY <2>1 DEF FramesOf
  <2>2. CASE i > Len(q)
    <3>1. (q \o f)[i] = f[i - Len(q)] /\ i - Len(q) \in 1 .. Len(f)
      BY <2>2
    <3> QED BY <3>1 DEF FramesOf
  <2> QED BY <2>1, <2>2
<1>2. ASSUME NEW i \in 1 .. Len(q) PROVE q[i] \in FramesOf(q \o f)
  <2>1. (q \o f)[i] = q[i] /\ i \in 1 .. Len(q \o f)
    OBVIOUS
  <2> QED BY <2>1 DEF FramesOf
<1>3. ASSUME NEW i \in 1 .. Len(f) PROVE f[i] \in FramesOf(q \o f)
  <2>1. (q \o f)[i + Len(q)] = f[i] /\ i + Len(q) \in 1 .. Len(q \o f)
    OBVIOUS
  <2> QED BY <2>1 DEF FramesOf
<1>4. /\ FramesOf(q \o f) = {(q \o f)[i] : i \in 1 .. Len(q \o f)}
      /\ FramesOf(q) = {q[i] : i \in 1 .. Len(q)}
      /\ FramesOf(f) = {f[i] : i \in 1 .. Len(f)}
  BY DEF FramesOf
<1> QED BY <1>1, <1>2, <1>3, <1>4

\* What holds of the queue holds when the first frames are taken out of it.
LEMMA HeldRest ==
  ASSUME NEW q \in Seq(Frame), NEW tx \in Nat, NEW s \in SeqValue, NEW ms, NEW rs,
         Held(q, tx, s, ms, rs), NEW i \in 1 .. Len(q)
  PROVE  Held(SubSeq(q, i + 1, Len(q)), tx, s, ms, rs)
<1> DEFINE w == SubSeq(q, i + 1, Len(q))
<1>1. /\ LastSent(w, tx, s)
      /\ Len(w) = Len(q) - i
      /\ \A j \in 1 .. Len(w) : w[j] = q[i + j] /\ i + j \in 1 .. Len(q)
  BY LastSentRest DEF Held
<1> HIDE DEF w
<1>2. RequestsMatch(ms, tx, w)
  <2>1. ASSUME NEW m \in ms, NEW j \in 1 .. Len(w), m.n = w[j].n PROVE m.seq = w[j].seq
    <3>1. w[j] = q[i + j] /\ i + j \in 1 .. Len(q)
      BY <1>1
    <3> QED BY <2>1, <3>1 DEF RequestsMatch, Held
  <2> QED BY <2>1 DEF RequestsMatch, Held
<1>3. ResponsesMatch(rs, tx, w)
  <2>1. ASSUME NEW r \in rs, NEW j \in 1 .. Len(w), r.n = w[j].n PROVE r.cur_seq = w[j].seq
    <3>1. w[j] = q[i + j] /\ i + j \in 1 .. Len(q)
      BY <1>1
    <3> QED BY <2>1, <3>1 DEF ResponsesMatch, Held
  <2> QED BY <2>1 DEF ResponsesMatch, Held
<1> QED BY <1>1, <1>2, <1>3 DEF Held, w

\* It holds when frames are sent and put behind it.
LEMMA HeldExtended ==
  ASSUME NEW q \in Seq(Frame), NEW f, NEW tx \in Nat, NEW s \in SeqValue, NEW k \in Nat,
         NEW ms \in SUBSET Frame, NEW rs \in SUBSET Response,
         Held(q, tx, s, ms, rs), Len(q) + k <= SeqMod, Following(f, k, tx, s)
  PROVE  Held(q \o f, tx + k, SeqAfter(s, k), ms \cup FramesOf(f), rs)
<1> DEFINE w == q \o f
           l == Len(q)
<1>1. f \in Seq(Frame) /\ w \in Seq(Frame) /\ Len(w) = l + k /\ l \in Nat
  BY DEF Following
<1>2. \A i \in 1 .. l : w[i] = q[i] /\ q[i].n \in Nat /\ q[i].n <= tx
  BY SMTT(30) DEF Held, LastSent, Frame
<1>3. \A i \in l + 1 .. l + k : i - l \in 1 .. k /\ w[i] = f[i - l] /\ f[i - l].n = tx + (i - l)
  BY <1>1 DEF Following
<1>4. LastSent(w, tx + k, SeqAfter(s, k))
  BY LastSentExtended DEF Held
<1> HIDE DEF w
<1>5. \A i \in 1 .. Len(w) : i \in 1 .. l \/ i \in l + 1 .. l + k
  BY <1>1
<1>6. ASSUME NEW m \in ms, NEW i \in 1 .. Len(w), m.n = w[i].n
      PROVE  m.seq = w[i].seq
  <2>1. m.n <= tx /\ m.n \in Nat
    BY DEF Held, RequestsMatch, Frame
  <2>2. i \in 1 .. l
    BY <1>1, <1>3, <1>5, <1>6, <2>1
  <2> QED BY <1>2, <1>6, <2>2 DEF Held, RequestsMatch
<1>7. ASSUME NEW m \in FramesOf(f), NEW i \in 1 .. Len(w), m.n = w[i].n
      PROVE  m.seq = w[i].seq
  <2>1. PICK j \in 1 .. k : m = f[j] /\ m.n = tx + j
    <3>1. DOMAIN f = 1 .. k
      BY DEF Following
    <3> QED BY <3>1 DEF FramesOf, Following
  <2>2. i \in l + 1 .. l + k
    <3>1. ASSUME i \in 1 .. l PROVE FALSE
      <4>1. m.n = q[i].n /\ q[i].n <= tx
        BY <1>2, <1>7, <3>1
      <4> QED BY <2>1, <4>1
    <3> QED BY <1>5, <3>1
  <2>3. i - l = j
    <3>1. m.n = tx + (i - l)
      <4>1. w[i] = f[i - l] /\ f[i - l].n = tx + (i - l)
        BY <1>3, <2>2
      <4> QED BY <1>7, <4>1
    <3>2. i - l \in 1 .. k
      BY <1>3, <2>2
    <3>3. tx + j = tx + (i - l)
      BY <2>1, <3>1
    <3> HIDE DEF l
    <3> QED BY <3>2, <3>3
  <2> QED BY <1>3, <2>1, <2>2, <2>3
<1>8. ASSUME NEW m \in ms \cup FramesOf(f) PROVE m.n <= tx + k
  <2>1. CASE m \in ms
    BY <2>1 DEF Held, RequestsMatch, Frame
  <2>2. CASE m \in FramesOf(f)
    BY <2>2 DEF FramesOf, Following
  <2> QED BY <2>1, <2>2
<1>9. RequestsMatch(ms \cup FramesOf(f), tx + k, w)
  BY <1>6, <1>7, <1>8 DEF RequestsMatch
<1>10. ASSUME NEW r \in rs
       PROVE  /\ r.n <= tx + k
              /\ \A i \in 1 .. Len(w) : r.n = w[i].n => r.cur_seq = w[i].seq
  <2>1. r.n <= tx /\ r.n \in Nat
    BY DEF Held, ResponsesMatch, Response
  <2>2. ASSUME NEW i \in 1 .. Len(w), r.n = w[i].n PROVE r.cur_seq = w[i].seq
    <3>1. i \in 1 .. l
      BY <1>1, <1>3, <1>5, <2>1, <2>2
    <3> QED BY <1>2, <2>2, <3>1 DEF Held, ResponsesMatch
  <2> QED BY <2>1, <2>2
<1>11. ResponsesMatch(rs, tx + k, w)
  BY <1>10 DEF ResponsesMatch
<1> QED BY <1>4, <1>9, <1>11 DEF Held, w

-----------------------------------------------------------------------------
(***************************************************************************)
(* Types                                                                   *)
(***************************************************************************)

\* send() adds fewer frames than there are sequence numbers.
LEMMA MissingType ==
  ASSUME NEW l \in Nat
  PROVE  /\ Missing(l) \in 0 .. QUEUE_FILL_LEVEL
         /\ Missing(l) \in 0 .. SeqMod
         /\ l + Missing(l) = IF l < QUEUE_FILL_LEVEL THEN QUEUE_FILL_LEVEL ELSE l
  BY TesterAssumption DEF Missing

\* The frames sent at the start.
FirstFrame == FrameOf(1, SeqMod + SeqAfter(seq, 1), TRUE)

MoreFrames ==
  [i \in 1 .. Missing(1) |-> FrameOf(1 + i, SeqAfter(FirstFrame.seq, i), FALSE)]

LEMMA StartFrames ==
  ASSUME seq \in SeqValue
  PROVE  /\ FirstFrame \in Frame /\ FirstFrame.n = 1
         /\ FirstFrame.seq = SeqMod + SeqAfter(seq, 1)
         /\ Following(MoreFrames, Missing(1), 1, FirstFrame.seq)
<1>1. FirstFrame \in Frame /\ FirstFrame.seq \in SeqValue
  <2>1. SeqAfter(seq, 1) \in 0 .. SeqMod - 1
    BY SeqAfterType, TesterAssumption
  <2> QED BY <2>1, TesterAssumption DEF FirstFrame, FrameOf, Frame, SeqValue
<1> DEFINE s == FirstFrame.seq
<1>2. s \in SeqValue
  BY <1>1
<1> HIDE DEF s
<1> DEFINE k == Missing(1)
<1>3. k \in 0 .. SeqMod
  BY MissingType
<1> HIDE DEF k
<1>4. Following([i \in 1 .. k |-> FrameOf(1 + i, SeqAfter(s, i), FALSE)], k, 1, s)
  <2>1. ASSUME NEW i \in 1 .. k PROVE FrameOf(1 + i, SeqAfter(s, i), FALSE) \in Frame
    <3>1. i \in 0 .. SeqMod
      BY <1>3, TesterAssumption
    <3>2. SeqAfter(s, i) \in 0 .. SeqMod - 1
      BY <1>2, <3>1, SeqAfterType
    <3>3. SeqAfter(s, i) \in 0 .. 2 * SeqMod - 1 /\ 1 + i \in Nat \ {0}
      BY <3>1, <3>2, TesterAssumption
    <3> QED BY <3>3 DEF FrameOf, Frame
  <2> DEFINE f == [i \in 1 .. k |-> FrameOf(1 + i, SeqAfter(s, i), FALSE)]
  <2>2. f \in Seq(Frame) /\ Len(f) = k
    <3>1. k \in Nat
      BY <1>3
    <3>2. f \in [1 .. k -> Frame]
      BY <2>1
    <3> HIDE DEF f
    <3> QED BY <3>1, <3>2
  <2>3. \A i \in 1 .. k : f[i].n = 1 + i /\ f[i].seq = SeqAfter(s, i)
    BY DEF FrameOf
  <2> QED BY <2>2, <2>3 DEF Following
<1>5. Following(MoreFrames, Missing(1), 1, FirstFrame.seq)
  BY <1>4 DEF MoreFrames, s, k
<1>6. FirstFrame.n = 1 /\ FirstFrame.seq = SeqMod + SeqAfter(seq, 1)
  BY DEF FirstFrame, FrameOf
<1> QED BY <1>1, <1>5, <1>6

\* Start in terms of these frames.
LEMMA StartForm ==
  ASSUME Start
  PROVE  /\ queue' = <<FirstFrame>> \o MoreFrames
         /\ seq' = SeqAfter(FirstFrame.seq, Missing(1))
         /\ stats' = [stats EXCEPT !.tx = @ + 1 + Missing(1)]
         /\ requests' = requests \cup FramesOf(queue')
  BY DEF Start, FirstFrame, MoreFrames, FrameOf

\* The frames of a queue are frames.
LEMMA FramesType == ASSUME NEW q \in Seq(Frame) PROVE FramesOf(q) \subseteq Frame
  BY DEF FramesOf

\* The frames timeout() and received() send are frames, and the last has number seq'.
LEMMA SentType ==
  ASSUME TypeOK, NEW k \in 0 .. SeqMod
  PROVE  /\ Following(NextFrames(k), k, stats.tx, seq)
         /\ NextFrames(k) \in Seq(Frame) /\ Len(NextFrames(k)) = k
         /\ SeqAfter(seq, k) \in SeqValue
         /\ FramesOf(NextFrames(k)) \subseteq Frame
<1>1. stats.tx \in Nat /\ seq \in SeqValue
  BY DEF TypeOK, Stats, SeqValue
<1>2. Following(NextFrames(k), k, stats.tx, seq)
  BY <1>1, NextFramesFollow
<1>3. SeqAfter(seq, k) \in SeqValue
  BY <1>1, SeqAfterType, TesterAssumption DEF SeqValue
<1> QED BY <1>2, <1>3, FramesType DEF Following

-----------------------------------------------------------------------------
USE DEF Damage

\* Every variable keeps its type: sequence numbers stay in 32 bits.
LEMMA TypeInit == Init => TypeOK
  BY TesterAssumption DEF Init, TypeOK, NoStats, Stats, Frame, Response

\* A start sends frames.
LEMMA TypeStart == ASSUME TypeOK, Start PROVE TypeOK'
<1>1. seq \in SeqValue /\ stats.tx \in Nat
  BY DEF TypeOK, Stats, SeqValue
<1>2. /\ FirstFrame.seq \in SeqValue /\ FirstFrame \in Frame
      /\ MoreFrames \in Seq(Frame) /\ Missing(1) \in 0 .. SeqMod
  BY <1>1, StartFrames, MissingType DEF Following, Frame, SeqValue
<1>3. queue' \in Seq(Frame)
  <2>1. <<FirstFrame>> \in Seq(Frame)
    BY <1>2
  <2>2. <<FirstFrame>> \o MoreFrames \in Seq(Frame)
    BY <1>2, <2>1
  <2> QED BY <2>2, StartForm
<1>4. seq' \in SeqValue
  BY <1>2, StartForm, SeqAfterType, TesterAssumption, SMTT(30) DEF SeqValue
<1>5. stats' \in Stats
  <2>1. stats.tx + 1 + Missing(1) \in Nat
    BY <1>1, <1>2, TesterAssumption
  <2>2. stats \in Stats /\ stats' = [stats EXCEPT !.tx = stats.tx + 1 + Missing(1)]
    BY StartForm DEF TypeOK, Stats
  <2> QED BY <2>1, <2>2 DEF Stats
<1>6. requests' \subseteq Frame
  BY <1>3, StartForm, FramesType DEF TypeOK
<1>7. /\ phase' = "testing"
      /\ UNCHANGED <<lastBoot, report, responses, device, seen>>
  BY DEF Start
<1> QED BY <1>3, <1>4, <1>5, <1>6, <1>7 DEF TypeOK, SeqValue

\* A deadline sends frames.
LEMMA TypeTimeout == ASSUME TypeOK, Timeout PROVE TypeOK'
<1> DEFINE k == 1 + Missing(Len(queue) + 1)
<1>1. k \in 0 .. SeqMod
  BY MissingType, TesterAssumption DEF TypeOK, Missing
<1>2. /\ queue' = queue \o NextFrames(k)
      /\ seq' = SeqAfter(seq, k)
      /\ stats' = [stats EXCEPT !.timeout = @ + 1, !.tx = @ + k]
      /\ requests' = requests \cup FramesOf(NextFrames(k))
      /\ UNCHANGED <<phase, lastBoot, report, responses, device, seen>>
  BY DEF Timeout
<1> HIDE DEF k
<1>3. queue' \in Seq(Frame) /\ seq' \in SeqValue /\ requests' \subseteq Frame
  BY <1>1, <1>2, SentType DEF TypeOK
<1>4. stats' \in Stats
  <2>1. k \in Nat
    BY <1>1, TesterAssumption
  <2>2. stats' = [tx |-> stats.tx + k, rx |-> stats.rx, timeout |-> stats.timeout + 1,
                  lost_rx |-> stats.lost_rx, lost_tx |-> stats.lost_tx,
                  payload_size |-> stats.payload_size,
                  payload_invalid |-> stats.payload_invalid,
                  seq_mismatch |-> stats.seq_mismatch]
    BY <1>2 DEF TypeOK, Stats
  <2>3. /\ stats.tx \in Nat /\ stats.rx \in Nat /\ stats.timeout \in Nat
        /\ stats.lost_rx \in Nat /\ stats.lost_tx \in Nat /\ stats.payload_size \in Nat
        /\ stats.payload_invalid \in Nat /\ stats.seq_mismatch \in Nat
    BY DEF TypeOK, Stats
  <2>4. stats.tx + k \in Nat /\ stats.timeout + 1 \in Nat
    BY <2>1, <2>3
  <2> QED BY <2>2, <2>3, <2>4 DEF Stats
<1> QED BY <1>2, <1>3, <1>4 DEF TypeOK, SeqValue

\* What the observer notes has its type.
LEMMA ObserveType ==
  ASSUME TypeOK, NEW r \in responses, seen' = Observe(r)
  PROVE  seen' \in [heard : Nat, newest : Nat, ordered : BOOLEAN, answers : Nat, taken : Nat,
                    changed : Nat, resized : Nat, boots : Nat, bootsTaken : Nat,
                    rebooted : BOOLEAN]
<1>1. r.n \in Nat /\ r.boots \in Nat
  BY DEF TypeOK, Response
<1>2. /\ seen.newest \in Nat /\ seen.ordered \in BOOLEAN
      /\ seen.taken \in Nat /\ seen.changed \in Nat /\ seen.resized \in Nat
      /\ seen.heard \in Nat /\ seen.answers \in Nat /\ seen.boots \in Nat
  BY DEF TypeOK
<1>3. /\ (seen.ordered /\ r.n > seen.newest) \in BOOLEAN
      /\ (r.boots > seen.bootsTaken) \in BOOLEAN
  OBVIOUS
<1>4. seen' = [heard |-> seen.heard, newest |-> r.n,
               ordered |-> seen.ordered /\ r.n > seen.newest, answers |-> seen.answers,
               taken |-> seen.taken + 1,
               changed |-> IF r.damage = "changed" THEN seen.changed + 1 ELSE seen.changed,
               resized |-> IF r.damage = "resized" THEN seen.resized + 1 ELSE seen.resized,
               boots |-> seen.boots, bootsTaken |-> r.boots,
               rebooted |-> r.boots > seen.bootsTaken]
  BY DEF Observe, TypeOK
<1> QED BY <1>1, <1>2, <1>3, <1>4

\* What is taken from the queue and sent for it when r is the answer to frame i.
Taking(r, i, k, finding) ==
  /\ Answered(i, r)
  /\ k = Missing(Len(queue) - i)
  /\ queue' = SubSeq(queue, i + 1, Len(queue)) \o NextFrames(k)
  /\ seq' = SeqAfter(seq, k)
  /\ requests' = requests \cup FramesOf(NextFrames(k))
  /\ finding \in Findings(queue[i], r)
  /\ stats' = [Skipped(r, i - 1) EXCEPT
                 !.rx = @ + 1,
                 !.tx = @ + k,
                 !.seq_mismatch = IF i > 1 THEN @ + 1 ELSE @,
                 !.payload_invalid = IF finding = "changed" THEN @ + 1 ELSE @,
                 !.payload_size = IF finding = "resized" THEN @ + 1 ELSE @]
  /\ lastBoot' = IF queue[i].clear THEN 0 ELSE r.boot_counter

\* Receive in terms of it.
LEMMA ReceiveForm ==
  ASSUME TypeOK, NEW r \in responses, Receive(r)
  PROVE  \E i \in 1 .. Len(queue), k \in 0 .. SeqMod, finding \in Damage :
            Taking(r, i, k, finding)
<1>1. queue \in Seq(Frame)
  BY DEF TypeOK
<1>2. PICK i \in DOMAIN queue :
        /\ Answered(i, r)
        /\ LET rest == SubSeq(queue, i + 1, Len(queue))
               k    == Missing(Len(rest))
           IN  /\ queue' = rest \o NextFrames(k)
               /\ seq' = SeqAfter(seq, k)
               /\ requests' = requests \cup FramesOf(NextFrames(k))
               /\ \E finding \in Findings(queue[i], r) :
                    stats' = [Skipped(r, i - 1) EXCEPT
                                !.rx = @ + 1,
                                !.tx = @ + k,
                                !.seq_mismatch = IF i > 1 THEN @ + 1 ELSE @,
                                !.payload_invalid = IF finding = "changed" THEN @ + 1 ELSE @,
                                !.payload_size = IF finding = "resized" THEN @ + 1 ELSE @]
        /\ lastBoot' = IF queue[i].clear THEN 0 ELSE r.boot_counter
  BY DEF Receive
<1>3. i \in 1 .. Len(queue) /\ Len(SubSeq(queue, i + 1, Len(queue))) = Len(queue) - i
  BY <1>1
<1> DEFINE k == Missing(Len(queue) - i)
<1>4. k \in 0 .. SeqMod
  BY <1>3, MissingType
<1>5. k = Missing(Len(SubSeq(queue, i + 1, Len(queue))))
  BY <1>3
<1> HIDE DEF k
<1>6. PICK finding \in Findings(queue[i], r) :
        stats' = [Skipped(r, i - 1) EXCEPT
                    !.rx = @ + 1,
                    !.tx = @ + k,
                    !.seq_mismatch = IF i > 1 THEN @ + 1 ELSE @,
                    !.payload_invalid = IF finding = "changed" THEN @ + 1 ELSE @,
                    !.payload_size = IF finding = "resized" THEN @ + 1 ELSE @]
  BY <1>2, <1>5
<1>7. finding \in Damage
  BY DEF Findings, TypeOK, Response
<1>8. Taking(r, i, k, finding)
  BY <1>2, <1>5, <1>6 DEF Taking, k
<1> QED BY <1>3, <1>4, <1>7, <1>8

\* The statistics after r was taken for the answer to frame i.
LEMMA TakingStats ==
  ASSUME TypeOK, NEW r \in responses, NEW i \in 1 .. Len(queue), NEW k \in 0 .. SeqMod,
         NEW finding \in Damage, Taking(r, i, k, finding)
  PROVE  /\ stats' \in Stats
         /\ stats'.tx = stats.tx + k
         /\ stats'.timeout = stats.timeout
         /\ stats'.lost_rx + stats'.lost_tx = stats.lost_rx + stats.lost_tx + (i - 1)
         /\ stats'.payload_invalid =
              IF finding = "changed" THEN stats.payload_invalid + 1 ELSE stats.payload_invalid
         /\ stats'.payload_size =
              IF finding = "resized" THEN stats.payload_size + 1 ELSE stats.payload_size
<1> DEFINE st == Skipped(r, i - 1)
<1>1. k \in Nat /\ i - 1 \in Nat
  BY TesterAssumption DEF TypeOK
<1>2. /\ stats.tx \in Nat /\ stats.rx \in Nat /\ stats.timeout \in Nat
      /\ stats.lost_rx \in Nat /\ stats.lost_tx \in Nat /\ stats.payload_size \in Nat
      /\ stats.payload_invalid \in Nat /\ stats.seq_mismatch \in Nat
  BY DEF TypeOK, Stats
<1>3. /\ st.tx = stats.tx /\ st.timeout = stats.timeout /\ st.rx = stats.rx
      /\ st.lost_rx \in Nat /\ st.lost_tx \in Nat
      /\ st.lost_rx + st.lost_tx = stats.lost_rx + stats.lost_tx + (i - 1)
      /\ st.payload_invalid = stats.payload_invalid
      /\ st.payload_size = stats.payload_size
      /\ st.seq_mismatch = stats.seq_mismatch
      /\ st \in Stats
  <2>1. CASE r.last_seq + 1 = r.cur_seq
    <3>1. st = [tx |-> stats.tx, rx |-> stats.rx, timeout |-> stats.timeout,
                lost_rx |-> stats.lost_rx, lost_tx |-> stats.lost_tx + (i - 1),
                payload_size |-> stats.payload_size, payload_invalid |-> stats.payload_invalid,
                seq_mismatch |-> stats.seq_mismatch]
      BY <2>1 DEF Skipped, TypeOK, Stats
    <3>2. stats.lost_tx + (i - 1) \in Nat
      BY <1>1, <1>2
    <3>3. st \in Stats
      BY <1>2, <3>1, <3>2 DEF Stats
    <3>4. /\ st.tx = stats.tx /\ st.timeout = stats.timeout /\ st.rx = stats.rx
          /\ st.lost_rx = stats.lost_rx /\ st.lost_tx = stats.lost_tx + (i - 1)
          /\ st.payload_invalid = stats.payload_invalid
          /\ st.payload_size = stats.payload_size
          /\ st.seq_mismatch = stats.seq_mismatch
      BY <3>1
    <3> HIDE DEF st
    <3> QED BY <1>1, <1>2, <3>2, <3>3, <3>4
  <2>2. CASE r.last_seq + 1 # r.cur_seq
    <3>1. st = [tx |-> stats.tx, rx |-> stats.rx, timeout |-> stats.timeout,
                lost_rx |-> stats.lost_rx + (i - 1), lost_tx |-> stats.lost_tx,
                payload_size |-> stats.payload_size, payload_invalid |-> stats.payload_invalid,
                seq_mismatch |-> stats.seq_mismatch]
      BY <2>2 DEF Skipped, TypeOK, Stats
    <3>2. stats.lost_rx + (i - 1) \in Nat
      BY <1>1, <1>2
    <3>3. st \in Stats
      BY <1>2, <3>1, <3>2 DEF Stats
    <3>4. /\ st.tx = stats.tx /\ st.timeout = stats.timeout /\ st.rx = stats.rx
          /\ st.lost_rx = stats.lost_rx + (i - 1) /\ st.lost_tx = stats.lost_tx
          /\ st.payload_invalid = stats.payload_invalid
          /\ st.payload_size = stats.payload_size
          /\ st.seq_mismatch = stats.seq_mismatch
      BY <3>1
    <3> HIDE DEF st
    <3> QED BY <1>1, <1>2, <3>2, <3>3, <3>4
  <2> QED BY <2>1, <2>2
<1> HIDE DEF st
<1>4. stats' = [st EXCEPT
                  !.rx = @ + 1,
                  !.tx = @ + k,
                  !.seq_mismatch = IF i > 1 THEN @ + 1 ELSE @,
                  !.payload_invalid = IF finding = "changed" THEN @ + 1 ELSE @,
                  !.payload_size = IF finding = "resized" THEN @ + 1 ELSE @]
  BY DEF Taking, st
<1>5. stats' =
        [tx |-> st.tx + k, rx |-> st.rx + 1, timeout |-> st.timeout,
         lost_rx |-> st.lost_rx, lost_tx |-> st.lost_tx,
         payload_size |-> IF finding = "resized" THEN st.payload_size + 1 ELSE st.payload_size,
         payload_invalid |->
           IF finding = "changed" THEN st.payload_invalid + 1 ELSE st.payload_invalid,
         seq_mismatch |-> IF i > 1 THEN st.seq_mismatch + 1 ELSE st.seq_mismatch]
  BY <1>3, <1>4 DEF Stats
<1>6. stats' \in Stats
  <2>1. /\ st.tx + k \in Nat /\ st.rx + 1 \in Nat /\ st.timeout \in Nat
        /\ st.payload_size \in Nat /\ st.payload_invalid \in Nat /\ st.seq_mismatch \in Nat
    <3>1. /\ st.tx \in Nat /\ st.rx \in Nat /\ st.timeout \in Nat /\ st.payload_size \in Nat
          /\ st.payload_invalid \in Nat /\ st.seq_mismatch \in Nat
      BY <1>3 DEF Stats
    <3> QED BY <1>1, <3>1
  <2>2. /\ (IF finding = "resized" THEN st.payload_size + 1 ELSE st.payload_size) \in Nat
        /\ (IF finding = "changed" THEN st.payload_invalid + 1 ELSE st.payload_invalid) \in Nat
        /\ (IF i > 1 THEN st.seq_mismatch + 1 ELSE st.seq_mismatch) \in Nat
    BY <2>1
  <2> QED BY <1>3, <1>5, <2>1, <2>2 DEF Stats
<1> QED BY <1>3, <1>5, <1>6

\* A response is taken.
LEMMA TypeReceive == ASSUME TypeOK, NEW r \in responses, Receive(r) PROVE TypeOK'
<1>1. PICK i \in 1 .. Len(queue), k \in 0 .. SeqMod, finding \in Damage :
        Taking(r, i, k, finding)
  BY ReceiveForm
<1>2. queue \in Seq(Frame) /\ stats.tx \in Nat /\ seq \in SeqValue
  BY DEF TypeOK, Stats, SeqValue
<1>3. SubSeq(queue, i + 1, Len(queue)) \in Seq(Frame)
  BY <1>2
<1>4. queue' \in Seq(Frame) /\ seq' \in SeqValue /\ requests' \subseteq Frame
  <2>1. /\ queue' = SubSeq(queue, i + 1, Len(queue)) \o NextFrames(k)
        /\ seq' = SeqAfter(seq, k)
        /\ requests' = requests \cup FramesOf(NextFrames(k))
    BY <1>1 DEF Taking
  <2>2. NextFrames(k) \in Seq(Frame) /\ SeqAfter(seq, k) \in SeqValue
        /\ FramesOf(NextFrames(k)) \subseteq Frame
    BY SentType
  <2>3. SubSeq(queue, i + 1, Len(queue)) \o NextFrames(k) \in Seq(Frame)
    BY <1>3, <2>2
  <2> QED BY <2>1, <2>2, <2>3 DEF TypeOK
<1>5. stats' \in Stats
  BY <1>1, TakingStats
<1>6. lastBoot' \in Nat
  BY <1>1 DEF Taking, TypeOK, Response
<1>7. report' \in {"none", "decremented", "reboot"}
  BY DEF Receive, Reboots
<1>8. UNCHANGED <<phase, responses, device>> /\ seen' = Observe(r)
  BY DEF Receive
<1>9. seen' \in [heard : Nat, newest : Nat, ordered : BOOLEAN, answers : Nat, taken : Nat,
                 changed : Nat, resized : Nat, boots : Nat, bootsTaken : Nat,
                 rebooted : BOOLEAN]
  BY <1>8, ObserveType
<1> QED BY <1>4, <1>5, <1>6, <1>7, <1>8, <1>9 DEF TypeOK, SeqValue

\* The device answers a frame.
LEMMA TypeAnswer == ASSUME TypeOK, NEW m \in requests, Answer(m) PROVE TypeOK'
<1>1. m \in Frame
  BY DEF TypeOK
<1>2. PICK damage \in Damage,
           count \in {device.boot_counter, IF m.clear THEN 0 ELSE device.boot_counter} :
        responses' = responses \cup
          {[n |-> m.n, cur_seq |-> m.seq, last_seq |-> device.last_seq,
            boot_counter |-> count, boots |-> seen.boots, damage |-> damage]}
  BY DEF Answer
<1>3. count \in Nat /\ device.last_seq \in 0 .. 2 * SeqMod - 1 /\ seen.boots \in Nat
  BY DEF TypeOK
<1>4. responses' \subseteq Response
  BY <1>1, <1>2, <1>3, SMTT(30) DEF TypeOK, Response, Frame
<1>5. device' \in [last_seq : 0 .. 2 * SeqMod - 1, boot_counter : Nat]
  BY <1>1 DEF Answer, TypeOK, Frame
<1>6. seen' \in [heard : Nat, newest : Nat, ordered : BOOLEAN, answers : Nat, taken : Nat,
                 changed : Nat, resized : Nat, boots : Nat, bootsTaken : Nat,
                 rebooted : BOOLEAN]
  <2>1. /\ m.n \in Nat /\ seen.answers + 1 \in Nat
        /\ (seen.ordered /\ m.n > seen.heard) \in BOOLEAN
    BY <1>1, SMTT(30) DEF Frame, TypeOK
  <2>2. seen' = [heard |-> m.n, newest |-> seen.newest,
                 ordered |-> seen.ordered /\ m.n > seen.heard,
                 answers |-> seen.answers + 1, taken |-> seen.taken,
                 changed |-> seen.changed, resized |-> seen.resized,
                 boots |-> seen.boots, bootsTaken |-> seen.bootsTaken,
                 rebooted |-> seen.rebooted]
    BY DEF Answer, TypeOK
  <2> QED BY <2>1, <2>2 DEF TypeOK
<1>7. UNCHANGED <<testerVars, requests>>
  BY DEF Answer
<1> QED BY <1>4, <1>5, <1>6, <1>7 DEF TypeOK, testerVars

\* Every step keeps the types.
LEMMA TypeStep == ASSUME TypeOK, [Next]_vars PROVE TypeOK'
<1>1. CASE Start
  BY <1>1, TypeStart
<1>2. CASE Timeout
  BY <1>2, TypeTimeout
<1>3. ASSUME NEW r \in responses, Receive(r) PROVE TypeOK'
  BY <1>3, TypeReceive
<1>4. ASSUME NEW r \in responses, ReceiveForeign(r) PROVE TypeOK'
  <2>1. seen' = Observe(r)
    BY <1>4 DEF ReceiveForeign
  <2>2. seen' \in [heard : Nat, newest : Nat, ordered : BOOLEAN, answers : Nat, taken : Nat,
                   changed : Nat, resized : Nat, boots : Nat, bootsTaken : Nat,
                   rebooted : BOOLEAN]
    BY <2>1, ObserveType
  <2> QED BY <1>4, <2>2 DEF ReceiveForeign, TypeOK
<1>5. CASE ReceiveShort
  <2>1. stats.rx + 1 \in Nat
    <3>1. stats \in Stats
      BY DEF TypeOK
    <3>2. stats.rx \in Nat
      BY <3>1 DEF Stats
    <3> QED BY <3>2
  <2>2. stats \in Stats /\ stats' = [stats EXCEPT !.rx = stats.rx + 1]
    BY <1>5 DEF ReceiveShort, TypeOK
  <2>3. stats' \in Stats
    BY <2>1, <2>2 DEF Stats
  <2> QED BY <1>5, <2>3 DEF ReceiveShort, TypeOK
<1>6. CASE SocketFails
  BY <1>6 DEF SocketFails, TypeOK
<1>7. ASSUME NEW m \in requests, Answer(m) PROVE TypeOK'
  BY <1>7, TypeAnswer
<1>8. CASE Reboot
  <2>1. device' \in [last_seq : 0 .. 2 * SeqMod - 1, boot_counter : Nat]
    <3>1. device \in [last_seq : 0 .. 2 * SeqMod - 1, boot_counter : Nat]
      BY DEF TypeOK
    <3>2. device' = [last_seq |-> 0, boot_counter |-> device.boot_counter + 1]
      BY <1>8 DEF Reboot
    <3>3. device.boot_counter + 1 \in Nat /\ 0 \in 0 .. 2 * SeqMod - 1
      BY <3>1, TesterAssumption
    <3> QED BY <3>2, <3>3
  <2>2. seen' \in [heard : Nat, newest : Nat, ordered : BOOLEAN, answers : Nat, taken : Nat,
                   changed : Nat, resized : Nat, boots : Nat, bootsTaken : Nat,
                   rebooted : BOOLEAN]
    <3>1. seen.boots + 1 \in Nat
      BY DEF TypeOK
    <3> QED BY <1>8, <3>1 DEF Reboot, TypeOK
  <2> QED BY <1>8, <2>1, <2>2 DEF Reboot, TypeOK, testerVars
<1>9. CASE UNCHANGED vars
  BY <1>9 DEF vars, testerVars, TypeOK
<1> QED BY <1>1, <1>2, <1>3, <1>4, <1>5, <1>6, <1>7, <1>8, <1>9 DEF Next, Stopped

\* Every variable keeps its type for all bounds and any number of sequence numbers: _seq and
\* the numbers of the frames never leave 32 bits, and the statistics never go below zero.
THEOREM TypeCorrect == Spec => []TypeOK
<1>1. TypeOK /\ [Next]_vars => TypeOK'
  BY TypeStep
<1> QED BY <1>1, TypeInit, PTL DEF Spec

-----------------------------------------------------------------------------
(***************************************************************************)
(* The length of the queue, and what is in it                              *)
(***************************************************************************)

\* The fields of the statistics are natural numbers.
LEMMA StatsNat ==
  ASSUME TypeOK
  PROVE  /\ queue \in Seq(Frame) /\ Len(queue) \in Nat
         /\ seq \in SeqValue
         /\ stats.tx \in Nat /\ stats.timeout \in Nat
         /\ stats.lost_rx \in Nat /\ stats.lost_tx \in Nat
         /\ stats.payload_invalid \in Nat /\ stats.payload_size \in Nat
         /\ requests \in SUBSET Frame /\ responses \in SUBSET Response
<1>1. stats \in Stats /\ queue \in Seq(Frame)
  BY DEF TypeOK
<1>2. /\ stats.tx \in Nat /\ stats.timeout \in Nat
      /\ stats.lost_rx \in Nat /\ stats.lost_tx \in Nat
      /\ stats.payload_invalid \in Nat /\ stats.payload_size \in Nat
  BY <1>1 DEF Stats
<1>3. Len(queue) \in Nat
  BY <1>1
<1>4. seq \in SeqValue /\ requests \in SUBSET Frame /\ responses \in SUBSET Response
  BY DEF TypeOK, SeqValue
<1> QED BY <1>1, <1>2, <1>3, <1>4

\* What a start changes, in numbers.
LEMMA StartNumbers ==
  ASSUME TypeOK, Start
  PROVE  /\ Len(queue') = 1 + Missing(1)
         /\ 1 + Missing(1) <= QUEUE_FILL_LEVEL
         /\ Missing(1) \in Nat
         /\ stats'.tx = stats.tx + 1 + Missing(1)
         /\ UNCHANGED <<stats.timeout, stats.lost_rx, stats.lost_tx,
                        stats.payload_invalid, stats.payload_size, seen>>
<1>1. seq \in SeqValue
  BY StatsNat
<1>2. /\ FirstFrame \in Frame
      /\ MoreFrames \in Seq(Frame) /\ Len(MoreFrames) = Missing(1)
  BY <1>1, StartFrames DEF Following
<1>3. Len(queue') = 1 + Missing(1)
  <2>1. <<FirstFrame>> \in Seq(Frame) /\ Len(<<FirstFrame>>) = 1
    BY <1>2
  <2>2. Len(<<FirstFrame>> \o MoreFrames) = 1 + Missing(1)
    BY <1>2, <2>1
  <2> QED BY <2>2, StartForm
<1>4. Missing(1) \in Nat /\ 1 + Missing(1) <= QUEUE_FILL_LEVEL
  BY TesterAssumption DEF Missing
<1>5. /\ stats'.tx = stats.tx + 1 + Missing(1)
      /\ UNCHANGED <<stats.timeout, stats.lost_rx, stats.lost_tx,
                     stats.payload_invalid, stats.payload_size>>
  <2>1. stats \in Stats /\ stats' = [stats EXCEPT !.tx = @ + 1 + Missing(1)]
    BY StartForm DEF TypeOK
  <2> QED BY <2>1 DEF Stats
<1>6. UNCHANGED seen
  BY DEF Start
<1> QED BY <1>3, <1>4, <1>5, <1>6

\* What a deadline changes, in numbers.
LEMMA TimeoutNumbers ==
  ASSUME TypeOK, Timeout
  PROVE  \E k \in 1 .. SeqMod :
           /\ queue' = queue \o NextFrames(k)
           /\ seq' = SeqAfter(seq, k)
           /\ requests' = requests \cup FramesOf(NextFrames(k))
           /\ Len(queue') = Len(queue) + k
           /\ k = 1 \/ Len(queue) + k <= QUEUE_FILL_LEVEL
           /\ stats'.tx = stats.tx + k
           /\ stats'.timeout = stats.timeout + 1
           /\ stats'.timeout <= MaxTimeouts
           /\ UNCHANGED <<stats.lost_rx, stats.lost_tx, stats.payload_invalid,
                          stats.payload_size, phase, responses, seen>>
<1> DEFINE k == 1 + Missing(Len(queue) + 1)
<1>1. k \in 1 .. SeqMod /\ (k = 1 \/ Len(queue) + k <= QUEUE_FILL_LEVEL)
  BY StatsNat, TesterAssumption DEF Missing
<1>2. /\ queue' = queue \o NextFrames(k)
      /\ seq' = SeqAfter(seq, k)
      /\ requests' = requests \cup FramesOf(NextFrames(k))
      /\ stats' = [stats EXCEPT !.timeout = @ + 1, !.tx = @ + k]
      /\ stats.timeout < MaxTimeouts
      /\ UNCHANGED <<phase, responses, seen>>
  BY DEF Timeout
<1> HIDE DEF k
<1>3. NextFrames(k) \in Seq(Frame) /\ Len(NextFrames(k)) = k
  <2>1. k \in 0 .. SeqMod
    BY <1>1
  <2> QED BY <2>1, SentType
<1>4. Len(queue') = Len(queue) + k
  BY <1>2, <1>3, StatsNat
<1>5. /\ stats'.tx = stats.tx + k
      /\ stats'.timeout = stats.timeout + 1
      /\ UNCHANGED <<stats.lost_rx, stats.lost_tx, stats.payload_invalid, stats.payload_size>>
  BY <1>2 DEF TypeOK, Stats
<1>6. stats'.timeout <= MaxTimeouts
  BY <1>2, <1>5, StatsNat, TesterAssumption
<1> QED BY <1>1, <1>2, <1>4, <1>5, <1>6

\* What a response changes, in numbers.
LEMMA ReceiveNumbers ==
  ASSUME TypeOK, NEW r \in responses, NEW i \in 1 .. Len(queue), NEW k \in 0 .. SeqMod,
         NEW finding \in Damage, Taking(r, i, k, finding)
  PROVE  /\ Len(queue') = Len(queue) - i + k
         /\ k = 0 \/ Len(queue') <= QUEUE_FILL_LEVEL
         /\ k \in Nat
<1>1. queue \in Seq(Frame)
  BY StatsNat
<1>2. /\ SubSeq(queue, i + 1, Len(queue)) \in Seq(Frame)
      /\ Len(SubSeq(queue, i + 1, Len(queue))) = Len(queue) - i
  BY <1>1
<1>3. NextFrames(k) \in Seq(Frame) /\ Len(NextFrames(k)) = k
  BY SentType
<1>4. k = Missing(Len(queue) - i)
  BY DEF Taking
<1>5. k = 0 \/ Len(queue) - i + k <= QUEUE_FILL_LEVEL
  BY <1>1, <1>4, TesterAssumption DEF Missing
<1>6. Len(queue') = Len(queue) - i + k
  BY <1>2, <1>3 DEF Taking
<1> QED BY <1>5, <1>6, TesterAssumption

\* The other steps leave the queue, and what the tester has sent, alone.
LEMMA OtherSteps ==
  ASSUME TypeOK, [Next]_vars, ~Start, ~Timeout, \A r \in responses : ~Receive(r)
  PROVE  /\ UNCHANGED <<queue, seq, requests, stats.tx, stats.timeout, stats.lost_rx,
                        stats.lost_tx, stats.payload_invalid, stats.payload_size>>
         /\ phase' = "start" => phase = "start"
<1>1. CASE ReceiveShort
  BY <1>1 DEF ReceiveShort, Receivable, TypeOK, Stats
<1>2. ASSUME NEW r \in responses, ReceiveForeign(r) PROVE UNCHANGED <<queue, seq, requests, stats>> /\ phase' # "start"
  BY <1>2 DEF ReceiveForeign
<1>3. CASE SocketFails
  BY <1>3 DEF SocketFails
<1>4. ASSUME NEW m \in requests, Answer(m) PROVE UNCHANGED <<queue, seq, requests, stats, phase>>
  BY <1>4 DEF Answer, testerVars
<1>5. CASE Reboot
  BY <1>5 DEF Reboot, testerVars
<1>6. CASE UNCHANGED vars
  BY <1>6 DEF vars, testerVars
<1> QED BY <1>1, <1>2, <1>3, <1>4, <1>5, <1>6 DEF Next, Stopped

-----------------------------------------------------------------------------
\* The queue grows by a frame for a deadline, and by nothing else.
LEMMA LengthStep == ASSUME TypeOK, LengthInv, [Next]_vars PROVE LengthInv'
<1> USE DEF LengthInv, QueueBounded
<1>1. CASE Start
  BY <1>1, StartNumbers, StatsNat, TesterAssumption
<1>2. CASE Timeout
  <2>1. PICK k \in 1 .. SeqMod :
          /\ Len(queue') = Len(queue) + k
          /\ k = 1 \/ Len(queue) + k <= QUEUE_FILL_LEVEL
          /\ stats'.timeout = stats.timeout + 1
          /\ stats'.timeout <= MaxTimeouts
    BY <1>2, TimeoutNumbers
  <2> QED BY <2>1, StatsNat, TesterAssumption
<1>3. ASSUME NEW r \in responses, Receive(r) PROVE LengthInv'
  <2>1. PICK i \in 1 .. Len(queue), k \in 0 .. SeqMod, finding \in Damage :
          Taking(r, i, k, finding)
    BY <1>3, ReceiveForm
  <2>2. stats'.timeout = stats.timeout
    BY <2>1, TakingStats
  <2>3. /\ Len(queue') = Len(queue) - i + k
        /\ k = 0 \/ Len(queue') <= QUEUE_FILL_LEVEL
    BY <2>1, ReceiveNumbers
  <2> QED BY <2>2, <2>3, StatsNat, TesterAssumption
<1>4. CASE ~Start /\ ~Timeout /\ \A r \in responses : ~Receive(r)
  BY <1>4, OtherSteps
<1> QED BY <1>1, <1>2, <1>3, <1>4

\* The queue is never longer than there are sequence numbers.
LEMMA LengthFits == ASSUME TypeOK, LengthInv PROVE Len(queue) <= SeqMod
  BY StatsNat, TesterAssumption DEF LengthInv, QueueBounded

\* Before the start nothing was sent.
LEMMA StartStep == ASSUME TypeOK, StartInv, [Next]_vars PROVE StartInv'
<1>1. ASSUME phase' = "start" PROVE UNCHANGED <<phase, queue, seq, stats, requests, responses>>
  <2>1. CASE Start
    BY <1>1, <2>1 DEF Start
  <2>2. CASE Timeout
    BY <1>1, <2>2 DEF Timeout
  <2>3. ASSUME NEW r \in responses, Receive(r) \/ ReceiveForeign(r) PROVE FALSE
    BY <1>1, <2>3 DEF Receive, ReceiveForeign, Receivable
  <2>4. CASE ReceiveShort
    BY <1>1, <2>4 DEF ReceiveShort, Receivable
  <2>5. CASE SocketFails
    BY <1>1, <2>5 DEF SocketFails
  <2>6. ASSUME NEW m \in requests, Answer(m) PROVE FALSE
    BY <1>1, <2>6 DEF Answer, testerVars
  <2>7. CASE Reboot
    BY <1>1, <2>7 DEF Reboot, testerVars
  <2>8. CASE UNCHANGED vars
    BY <2>8 DEF vars, testerVars
  <2> QED BY <2>1, <2>2, <2>3, <2>4, <2>5, <2>6, <2>7, <2>8 DEF Next, Stopped
<1> QED BY <1>1 DEF StartInv

\* A response says of its frame what the frame says of itself.
LEMMA ResponsesAnswered ==
  ASSUME TypeOK, QueueInv, NEW m \in requests, Answer(m)
  PROVE  ResponsesMatch(responses', stats.tx, queue)
<1>1. ASSUME NEW r \in responses'
      PROVE  \/ r \in responses
             \/ r.n = m.n /\ r.cur_seq = m.seq
  BY DEF Answer
<1>2. /\ RequestsMatch(requests, stats.tx, queue)
      /\ ResponsesMatch(responses, stats.tx, queue)
  BY DEF QueueInv, Held
<1>3. ASSUME NEW r \in responses'
      PROVE  /\ r.n <= stats.tx
             /\ \A i \in 1 .. Len(queue) : r.n = queue[i].n => r.cur_seq = queue[i].seq
  <2>1. CASE r \in responses
    BY <1>2, <2>1 DEF ResponsesMatch
  <2>2. CASE r.n = m.n /\ r.cur_seq = m.seq
    BY <1>2, <2>2 DEF RequestsMatch
  <2> QED BY <1>1, <2>1, <2>2
<1> QED BY <1>3 DEF ResponsesMatch

\* What is known of the queue holds after every step.
LEMMA QueueStep ==
  ASSUME TypeOK, LengthInv, LengthInv', StartInv, QueueInv, [Next]_vars
  PROVE  QueueInv'
<1>1. /\ stats.tx \in Nat /\ seq \in SeqValue /\ queue \in Seq(Frame)
      /\ requests \in SUBSET Frame /\ responses \in SUBSET Response
  BY StatsNat
<1>2. TypeOK'
  BY TypeStep
<1>3. Len(queue') <= SeqMod
  <2>1. /\ Len(queue') <= QUEUE_FILL_LEVEL + stats'.timeout
        /\ stats'.timeout <= MaxTimeouts
    BY DEF LengthInv, QueueBounded
  <2>2. Len(queue') \in Nat /\ stats'.timeout \in Nat
    <3>1. stats' \in Stats /\ queue' \in Seq(Frame)
      BY <1>2 DEF TypeOK
    <3>2. stats'.timeout \in Nat
      BY <3>1 DEF Stats
    <3> QED BY <3>1, <3>2
  <2> QED BY <2>1, <2>2, TesterAssumption
<1>4. CASE Start
  <2> DEFINE s == FirstFrame.seq
             q == <<FirstFrame>>
  <2>1. stats.tx = 0 /\ requests = {} /\ responses = {}
    BY <1>4 DEF Start, StartInv, NoStats
  <2>2. /\ FirstFrame \in Frame /\ FirstFrame.n = 1 /\ s \in SeqValue
        /\ Following(MoreFrames, Missing(1), 1, s)
        /\ MoreFrames \in Seq(Frame) /\ Missing(1) \in Nat
    BY <1>1, StartFrames, MissingType, TesterAssumption DEF Frame, SeqValue, Following
  <2>3. q \in Seq(Frame) /\ Len(q) = 1 /\ q[1] = FirstFrame
    BY <2>2
  <2>4. FramesOf(q) = {FirstFrame}
    <3>1. DOMAIN q = {1}
      BY <2>3
    <3> QED BY <2>3, <3>1 DEF FramesOf
  <2>5. Held(q, 1, s, {FirstFrame}, {})
    <3>1. Low(s) = Back(s, 0)
      BY <2>2, TesterAssumption DEF Back, Low, SeqValue
    <3>2. LastSent(q, 1, s)
      BY <2>2, <2>3, <3>1 DEF LastSent
    <3> HIDE DEF q
    <3> QED BY <2>2, <2>3, <3>2 DEF Held, RequestsMatch, ResponsesMatch
  <2>6. /\ queue' = q \o MoreFrames
        /\ seq' = SeqAfter(s, Missing(1))
        /\ stats'.tx = 1 + Missing(1)
        /\ Len(queue') = 1 + Missing(1)
        /\ responses' = {}
    <3>1. stats'.tx = stats.tx + 1 + Missing(1) /\ Len(queue') = 1 + Missing(1)
      BY <1>4, StartNumbers
    <3>2. responses' = responses
      BY <1>4 DEF Start
    <3> QED BY <1>4, <2>1, <2>2, <3>1, <3>2, StartForm
  <2>7. requests' = {FirstFrame} \cup FramesOf(MoreFrames)
    BY <1>4, <2>1, <2>2, <2>3, <2>4, FramesJoined, StartForm
  <2> HIDE DEF q, s
  <2>8. Held(q \o MoreFrames, 1 + Missing(1), SeqAfter(s, Missing(1)),
             {FirstFrame} \cup FramesOf(MoreFrames), {})
    BY <1>3, <2>2, <2>3, <2>5, <2>6, HeldExtended
  <2> QED BY <2>6, <2>7, <2>8 DEF QueueInv
<1>5. CASE Timeout
  <2>1. PICK k \in 1 .. SeqMod :
          /\ queue' = queue \o NextFrames(k)
          /\ seq' = SeqAfter(seq, k)
          /\ requests' = requests \cup FramesOf(NextFrames(k))
          /\ Len(queue') = Len(queue) + k
          /\ stats'.tx = stats.tx + k
          /\ responses' = responses
    BY <1>5, TimeoutNumbers
  <2>2. k \in Nat /\ k \in 0 .. SeqMod
    BY TesterAssumption
  <2>3. Following(NextFrames(k), k, stats.tx, seq)
    BY <2>2, SentType
  <2>4. Held(queue \o NextFrames(k), stats.tx + k, SeqAfter(seq, k),
             requests \cup FramesOf(NextFrames(k)), responses)
    BY <1>1, <1>3, <2>1, <2>2, <2>3, HeldExtended DEF QueueInv
  <2> QED BY <2>1, <2>4 DEF QueueInv
<1>6. ASSUME NEW r \in responses, Receive(r) PROVE QueueInv'
  <2>1. PICK i \in 1 .. Len(queue), k \in 0 .. SeqMod, finding \in Damage :
          Taking(r, i, k, finding)
    BY <1>6, ReceiveForm
  <2> DEFINE rest == SubSeq(queue, i + 1, Len(queue))
  <2>2. rest \in Seq(Frame) /\ Len(rest) = Len(queue) - i
    BY <1>1
  <2>3. Held(rest, stats.tx, seq, requests, responses)
    BY <1>1, HeldRest DEF QueueInv
  <2>4. /\ queue' = rest \o NextFrames(k)
        /\ seq' = SeqAfter(seq, k)
        /\ requests' = requests \cup FramesOf(NextFrames(k))
        /\ stats'.tx = stats.tx + k
        /\ responses' = responses
    <3>1. stats'.tx = stats.tx + k
      BY <2>1, TakingStats
    <3>2. responses' = responses
      BY <1>6 DEF Receive
    <3> QED BY <2>1, <3>1, <3>2 DEF Taking
  <2>5. k \in Nat /\ Len(queue') = Len(rest) + k
    BY <2>1, <2>2, ReceiveNumbers
  <2>6. Following(NextFrames(k), k, stats.tx, seq)
    BY SentType
  <2> HIDE DEF rest
  <2>7. Held(rest \o NextFrames(k), stats.tx + k, SeqAfter(seq, k),
             requests \cup FramesOf(NextFrames(k)), responses)
    BY <1>1, <1>3, <2>2, <2>3, <2>5, <2>6, HeldExtended
  <2> QED BY <2>4, <2>7 DEF QueueInv
<1>7. CASE ~Start /\ ~Timeout /\ \A r \in responses : ~Receive(r)
  <2>1. UNCHANGED <<queue, seq, requests, stats.tx>>
    BY <1>7, OtherSteps
  <2>2. ResponsesMatch(responses', stats.tx, queue)
    <3>1. ASSUME NEW m \in requests, Answer(m) PROVE ResponsesMatch(responses', stats.tx, queue)
      BY <3>1, ResponsesAnswered
    <3>2. CASE responses' = responses
      BY <3>2 DEF QueueInv, Held
    <3>3. CASE \A m \in requests : ~Answer(m)
      <4>1. responses' = responses
        BY <1>7, <3>3 DEF Next, ReceiveForeign, ReceiveShort, SocketFails, Reboot, Stopped, vars
      <4> QED BY <3>2, <4>1
    <3> QED BY <3>1, <3>3
  <2> QED BY <2>1, <2>2 DEF QueueInv, Held
<1> QED BY <1>4, <1>5, <1>6, <1>7

-----------------------------------------------------------------------------
(***************************************************************************)
(* The count of the frames                                                 *)
(***************************************************************************)

\* Taking a response is noted.
LEMMA ObserveFields ==
  ASSUME TypeOK, NEW r \in responses, seen' = Observe(r)
  PROVE  /\ seen'.taken = seen.taken + 1
         /\ seen'.newest = r.n
         /\ seen'.ordered => seen.ordered /\ r.n > seen.newest
         /\ seen'.changed = IF r.damage = "changed" THEN seen.changed + 1 ELSE seen.changed
         /\ seen'.resized = IF r.damage = "resized" THEN seen.resized + 1 ELSE seen.resized
  BY DEF Observe, TypeOK

\* The steps that take no response leave what was noted of them alone, and the order of
\* the answers can only get worse.
LEMMA SeenKept ==
  ASSUME TypeOK, [Next]_vars, \A r \in responses : ~Receive(r) /\ ~ReceiveForeign(r)
  PROVE  /\ UNCHANGED <<seen.taken, seen.newest, seen.changed, seen.resized>>
         /\ seen'.ordered => seen.ordered
<1>1. CASE UNCHANGED seen
  BY <1>1
<1>2. ASSUME NEW m \in requests, Answer(m)
      PROVE  /\ UNCHANGED <<seen.taken, seen.newest, seen.changed, seen.resized>>
             /\ seen'.ordered => seen.ordered
  BY <1>2 DEF Answer, TypeOK
<1>3. CASE Reboot
  BY <1>3 DEF Reboot, TypeOK
<1>4. CASE Start \/ Timeout \/ ReceiveShort \/ SocketFails \/ UNCHANGED vars
  BY <1>1, <1>4 DEF Start, Timeout, ReceiveShort, SocketFails, vars
<1> QED BY <1>2, <1>3, <1>4 DEF Next, Stopped

\* After the test is over for a foreign response, it is over.
LEMMA UndefinedStays ==
  ASSUME TypeOK, [Next]_vars, phase = "undefined" PROVE UNCHANGED vars
<1>1. phase # "start" /\ phase # "testing"
  OBVIOUS
<1> QED BY <1>1 DEF Next, Start, Timeout, Receive, ReceiveForeign, Receivable, ReceiveShort,
                    SocketFails, Answer, Reboot, Stopped

\* A frame leaves the queue when it is answered or given up, and is counted for it.
LEMMA CountStep == ASSUME TypeOK, StartInv, CountInv, [Next]_vars PROVE CountInv'
<1>1. /\ Len(queue) \in Nat /\ stats.tx \in Nat /\ seen.taken \in Nat
      /\ stats.lost_rx \in Nat /\ stats.lost_tx \in Nat
  BY StatsNat DEF TypeOK
<1>2. CASE phase = "undefined"
  BY <1>2, UndefinedStays DEF vars, CountInv, testerVars
<1>3. CASE Start
  <2>1. stats.tx = Len(queue) + seen.taken + stats.lost_rx + stats.lost_tx
    BY <1>3 DEF CountInv, Start
  <2>2. /\ Len(queue') = 1 + Missing(1) /\ stats'.tx = stats.tx + 1 + Missing(1)
        /\ Missing(1) \in Nat
        /\ stats'.lost_rx = stats.lost_rx /\ stats'.lost_tx = stats.lost_tx
        /\ seen'.taken = seen.taken
    BY <1>3, StartNumbers
  <2>3. Len(queue) = 0
    BY <1>3 DEF Start, StartInv
  <2>4. stats'.tx = Len(queue') + seen'.taken + stats'.lost_rx + stats'.lost_tx
    <3>1. stats.tx + 1 + Missing(1) = (1 + Missing(1)) + seen.taken + stats.lost_rx + stats.lost_tx
      <4> DEFINE tx == stats.tx
                 t == seen.taken
                 x == stats.lost_rx
                 y == stats.lost_tx
                 m == Missing(1)
      <4>1. tx = 0 + t + x + y
        BY <2>1, <2>3
      <4>2. tx \in Nat /\ t \in Nat /\ x \in Nat /\ y \in Nat /\ m \in Nat
        BY <1>1, <2>2
      <4> HIDE DEF tx, t, x, y, m
      <4>3. tx + 1 + m = (1 + m) + t + x + y
        BY <4>1, <4>2
      <4> QED BY <4>3 DEF tx, t, x, y, m
    <3> QED BY <2>2, <3>1
  <2> QED BY <2>4 DEF CountInv
<1>4. CASE Timeout
  <2>1. stats.tx = Len(queue) + seen.taken + stats.lost_rx + stats.lost_tx
    BY <1>4 DEF CountInv, Timeout
  <2>2. PICK k \in 1 .. SeqMod :
          /\ Len(queue') = Len(queue) + k /\ stats'.tx = stats.tx + k
          /\ stats'.lost_rx = stats.lost_rx /\ stats'.lost_tx = stats.lost_tx
          /\ seen'.taken = seen.taken
    BY <1>4, TimeoutNumbers
  <2>3. k \in Nat
    BY TesterAssumption
  <2>4. stats'.tx = Len(queue') + seen'.taken + stats'.lost_rx + stats'.lost_tx
    BY <1>1, <2>1, <2>2, <2>3
  <2> QED BY <2>4 DEF CountInv
<1>5. ASSUME NEW r \in responses, Receive(r) PROVE CountInv'
  <2>1. stats.tx = Len(queue) + seen.taken + stats.lost_rx + stats.lost_tx
    BY <1>5 DEF CountInv, Receive, Receivable
  <2>2. PICK i \in 1 .. Len(queue), k \in 0 .. SeqMod, finding \in Damage :
          Taking(r, i, k, finding)
    BY <1>5, ReceiveForm
  <2>3. /\ stats' \in Stats
        /\ stats'.tx = stats.tx + k
        /\ stats'.lost_rx + stats'.lost_tx = stats.lost_rx + stats.lost_tx + (i - 1)
    BY <2>2, TakingStats
  <2>4. stats'.lost_rx \in Nat /\ stats'.lost_tx \in Nat
    BY <2>3 DEF Stats
  <2>5. k \in Nat /\ Len(queue') = Len(queue) - i + k
    BY <2>2, ReceiveNumbers
  <2>6. seen'.taken = seen.taken + 1
    BY <1>5, ObserveFields DEF Receive
  <2>7. stats'.tx = Len(queue') + seen'.taken + stats'.lost_rx + stats'.lost_tx
    <3>1. i \in Nat
      BY <1>1
    <3>2. stats.tx + k =
            (Len(queue) - i + k) + (seen.taken + 1) + stats'.lost_rx + stats'.lost_tx
      <4> DEFINE tx == stats.tx
                 l == Len(queue)
                 t == seen.taken
                 x == stats.lost_rx
                 y == stats.lost_tx
                 x2 == stats'.lost_rx
                 y2 == stats'.lost_tx
      <4>1. tx = l + t + x + y
        BY <2>1
      <4>2. x2 + y2 = x + y + (i - 1)
        BY <2>3
      <4>3. /\ tx \in Nat /\ l \in Nat /\ t \in Nat /\ x \in Nat /\ y \in Nat
            /\ x2 \in Nat /\ y2 \in Nat /\ k \in Nat
        BY <1>1, <2>4, <2>5
      <4> HIDE DEF tx, l, t, x, y, x2, y2
      <4>4. tx + k = (l - i + k) + (t + 1) + x2 + y2
        BY <3>1, <4>1, <4>2, <4>3
      <4> QED BY <4>4 DEF tx, l, t, x, y, x2, y2
    <3>3. stats'.tx = stats.tx + k
      BY <2>3
    <3>4. Len(queue') = Len(queue) - i + k
      BY <2>5
    <3> QED BY <2>6, <3>2, <3>3, <3>4, Zenon
  <2> QED BY <2>7 DEF CountInv
<1>6. ASSUME NEW r \in responses, ReceiveForeign(r) PROVE CountInv'
  BY <1>6 DEF ReceiveForeign, CountInv
<1>7. CASE /\ ~Start /\ ~Timeout /\ phase # "undefined"
           /\ \A r \in responses : ~Receive(r) /\ ~ReceiveForeign(r)
  BY <1>7, OtherSteps, SeenKept DEF CountInv
<1> QED BY <1>2, <1>3, <1>4, <1>5, <1>6, <1>7

-----------------------------------------------------------------------------
(***************************************************************************)
(* A path that keeps the order                                             *)
(***************************************************************************)
OrderInv == NewestInv /\ FallsOnlyWhenMisordered /\ ReportsDamage

\* A response that is newer than the last one finds its frame in the queue, and no other
\* frame with its sequence number.
LEMMA NewerFound ==
  ASSUME TypeOK, LengthInv, QueueInv, NEW r \in responses,
         seen.newest = stats.tx - Len(queue), r.n > seen.newest
  PROVE  \E j \in 1 .. Len(queue) :
           /\ queue[j].n = r.n
           /\ r.n = stats.tx - Len(queue) + j
           /\ Answered(j, r)
           /\ \A i \in 1 .. Len(queue) : Answered(i, r) => i = j
<1>1. /\ stats.tx \in Nat /\ seq \in SeqValue /\ queue \in Seq(Frame) /\ Len(queue) \in Nat
      /\ r.n \in Nat
  BY StatsNat DEF Response
<1>2. LastSent(queue, stats.tx, seq) /\ ResponsesMatch(responses, stats.tx, queue)
  BY DEF QueueInv, Held
<1> DEFINE j == r.n - (stats.tx - Len(queue))
<1>3. j \in 1 .. Len(queue) /\ r.n = stats.tx - Len(queue) + j
  BY <1>1, <1>2 DEF LastSent, ResponsesMatch
<1> HIDE DEF j
<1>4. queue[j].n = r.n
  BY <1>2, <1>3 DEF LastSent
<1>5. r.cur_seq = queue[j].seq
  BY <1>2, <1>3, <1>4 DEF ResponsesMatch
<1>6. ASSUME NEW i \in 1 .. Len(queue), queue[i].seq = r.cur_seq PROVE i = j
  BY <1>1, <1>2, <1>3, <1>5, <1>6, LengthFits, SeqUnique
<1>7. DOMAIN queue = 1 .. Len(queue)
  BY <1>1
<1>8. Answered(j, r)
  <2>1. ASSUME NEW i \in 1 .. j - 1 PROVE queue[i].seq # r.cur_seq
    <3>1. i \in 1 .. Len(queue) /\ i # j
      BY <1>1, <1>3
    <3> QED BY <1>6, <3>1
  <2> QED BY <1>3, <1>5, <1>7, <2>1 DEF Answered
<1>9. \A i \in 1 .. Len(queue) : Answered(i, r) => i = j
  BY <1>6 DEF Answered
<1> QED BY <1>3, <1>4, <1>8, <1>9

\* The order of the responses decides what the tester makes of them.
LEMMA OrderStep ==
  ASSUME TypeOK, LengthInv, StartInv, QueueInv, OrderInv, [Next]_vars
  PROVE  OrderInv'
<1>1. /\ Len(queue) \in Nat /\ stats.tx \in Nat /\ seen.newest \in Nat
      /\ stats.payload_invalid \in Nat /\ stats.payload_size \in Nat
      /\ seen.changed \in Nat /\ seen.resized \in Nat
  BY StatsNat DEF TypeOK
<1> USE DEF OrderInv, NewestInv, FallsOnlyWhenMisordered, ReportsDamage
<1>2. CASE phase = "undefined"
  BY <1>2, UndefinedStays DEF vars, testerVars
<1>3. CASE Start
  <2>1. /\ phase = "start" /\ phase' = "testing"
        /\ stats.tx = 0 /\ Len(queue) = 0
    BY <1>3 DEF Start, StartInv, NoStats
  <2>2. /\ Len(queue') = 1 + Missing(1) /\ stats'.tx = stats.tx + 1 + Missing(1)
        /\ Missing(1) \in Nat
        /\ stats'.payload_invalid = stats.payload_invalid
        /\ stats'.payload_size = stats.payload_size
        /\ seen' = seen
    BY <1>3, StartNumbers
  <2>3. stats'.tx - Len(queue') = stats.tx - Len(queue)
    BY <2>1, <2>2
  <2> QED BY <2>1, <2>2, <2>3
<1>4. CASE Timeout
  <2>1. PICK k \in 1 .. SeqMod :
          /\ Len(queue') = Len(queue) + k /\ stats'.tx = stats.tx + k
          /\ stats'.payload_invalid = stats.payload_invalid
          /\ stats'.payload_size = stats.payload_size
          /\ phase' = phase /\ seen' = seen
    BY <1>4, TimeoutNumbers
  <2>2. k \in Nat
    BY TesterAssumption
  <2>3. stats'.tx - Len(queue') = stats.tx - Len(queue)
    BY <1>1, <2>1, <2>2
  <2> QED BY <2>1, <2>3
<1>5. ASSUME NEW r \in responses, Receive(r) PROVE OrderInv'
  <2>1. phase = "testing" /\ phase' = "testing" /\ seen' = Observe(r)
    BY <1>5 DEF Receive, Receivable
  <2>2. /\ seen'.newest = r.n
        /\ seen'.ordered => seen.ordered /\ r.n > seen.newest
        /\ seen'.changed = IF r.damage = "changed" THEN seen.changed + 1 ELSE seen.changed
        /\ seen'.resized = IF r.damage = "resized" THEN seen.resized + 1 ELSE seen.resized
    BY <2>1, ObserveFields
  <2>3. CASE ~seen'.ordered
    BY <2>1, <2>3
  <2>4. CASE seen'.ordered
    <3>1. /\ seen.ordered /\ r.n > seen.newest /\ seen.newest = stats.tx - Len(queue)
          /\ stats.payload_invalid = seen.changed /\ stats.payload_size = seen.resized
      BY <2>1, <2>2, <2>4
    <3>2. PICK j \in 1 .. Len(queue) :
            /\ queue[j].n = r.n
            /\ r.n = stats.tx - Len(queue) + j
            /\ \A i \in 1 .. Len(queue) : Answered(i, r) => i = j
      BY <3>1, NewerFound
    <3>3. PICK i \in 1 .. Len(queue), k \in 0 .. SeqMod, finding \in Damage :
            Taking(r, i, k, finding)
      BY <1>5, ReceiveForm
    <3>4. i = j /\ finding = r.damage
      BY <3>2, <3>3 DEF Taking, Findings
    <3>5. /\ stats'.tx = stats.tx + k
          /\ stats'.payload_invalid =
               IF finding = "changed" THEN stats.payload_invalid + 1 ELSE stats.payload_invalid
          /\ stats'.payload_size =
               IF finding = "resized" THEN stats.payload_size + 1 ELSE stats.payload_size
      BY <3>3, TakingStats
    <3>6. k \in Nat /\ Len(queue') = Len(queue) - i + k
      BY <3>3, ReceiveNumbers
    <3>7. seen'.newest = stats'.tx - Len(queue')
      BY <1>1, <2>2, <3>2, <3>4, <3>5, <3>6
    <3>8. stats'.payload_invalid = seen'.changed /\ stats'.payload_size = seen'.resized
      BY <2>2, <3>1, <3>4, <3>5
    <3> QED BY <2>1, <3>7, <3>8
  <2> QED BY <2>3, <2>4
<1>6. ASSUME NEW r \in responses, ReceiveForeign(r) PROVE OrderInv'
  <2>1. /\ phase = "testing" /\ phase' = "undefined" /\ seen' = Observe(r)
        /\ \A i \in DOMAIN queue : ~Answered(i, r)
    BY <1>6 DEF ReceiveForeign, Receivable
  <2>2. seen'.ordered => seen.ordered /\ r.n > seen.newest
    BY <2>1, ObserveFields
  <2>3. ASSUME seen'.ordered PROVE FALSE
    <3>1. r.n > seen.newest /\ seen.newest = stats.tx - Len(queue)
      BY <2>1, <2>2, <2>3
    <3>2. PICK j \in 1 .. Len(queue) : Answered(j, r)
      BY <3>1, NewerFound
    <3>3. j \in DOMAIN queue
      BY <3>2 DEF Answered
    <3> QED BY <2>1, <3>2, <3>3
  <2> QED BY <2>1, <2>3
<1>7. CASE /\ ~Start /\ ~Timeout /\ phase # "undefined"
           /\ \A r \in responses : ~Receive(r) /\ ~ReceiveForeign(r)
  <2>1. UNCHANGED <<queue, stats.tx, stats.payload_invalid, stats.payload_size>>
    BY <1>7, OtherSteps
  <2>2. /\ UNCHANGED <<seen.newest, seen.changed, seen.resized>>
        /\ seen'.ordered => seen.ordered
    BY <1>7, SeenKept
  <2>3. phase' # "undefined"
    BY <1>7 DEF Next, ReceiveShort, SocketFails, Answer, Reboot, Stopped, vars, testerVars
  <2> QED BY <1>7, <2>1, <2>2, <2>3
<1> QED BY <1>2, <1>3, <1>4, <1>5, <1>6, <1>7

-----------------------------------------------------------------------------
(***************************************************************************)
(* The reboots of the device                                               *)
(*                                                                         *)
(* Once the device has cleared its counters for the first frame, its boot  *)
(* counter and the number of its reboots grow together. So does what the   *)
(* responses tell of the counter, and what the tester keeps of the last    *)
(* one: their differences are those of the reboots.                        *)
(***************************************************************************)

\* The first frame and no other asks the device to clear its counters.
ClearIsFirst(ms) == \A m \in ms : m.clear <=> m.n = 1

\* The tester has sent a frame before it waits for an answer.
FirstSent == phase = "testing" => stats.tx >= 1

\* What the tester takes the boot counter to be after r.
Told(r) == IF r.n = 1 THEN 0 ELSE r.boot_counter

\* Response r was given as many reboots ago as it tells.
ToldRight(r) ==
  /\ r.n <= seen.heard
  /\ r.boots <= seen.boots
  /\ Told(r) + seen.boots = device.boot_counter + r.boots

\* A newer response was given after as many reboots, or more.
BootsOrdered == \A r1, r2 \in responses : r1.n <= r2.n => r1.boots <= r2.boots

\* So was the last response taken, whose counter the tester keeps.
LastTold ==
  /\ lastBoot + seen.boots = device.boot_counter + seen.bootsTaken
  /\ \E r \in responses : r.n = seen.newest /\ r.boots = seen.bootsTaken

OrderedBoots ==
  /\ \A r \in responses : ToldRight(r)
  /\ BootsOrdered
  /\ seen.taken > 0 => LastTold

BootInv ==
  /\ ClearIsFirst(requests)
  /\ ClearIsFirst(FramesOf(queue))
  /\ FirstSent
  /\ seen.ordered => OrderedBoots
  /\ ReportsReboots

\* The frames sent after the first ask for nothing.
LEMMA NextFramesClear ==
  ASSUME TypeOK, NEW k \in 0 .. SeqMod, stats.tx >= 1
  PROVE  ClearIsFirst(FramesOf(NextFrames(k)))
<1>1. stats.tx \in Nat
  BY StatsNat
<1>2. DOMAIN NextFrames(k) = 1 .. k
  BY DEF NextFrames
<1>3. ASSUME NEW i \in 1 .. k PROVE ~NextFrames(k)[i].clear /\ NextFrames(k)[i].n # 1
  <2>1. NextFrames(k)[i].clear = FALSE /\ NextFrames(k)[i].n = stats.tx + i
    BY DEF NextFrames, FrameOf
  <2> QED BY <1>1, <2>1
<1> QED BY <1>2, <1>3 DEF ClearIsFirst, FramesOf

\* Of the frames of a start, the first asks to clear the counters.
LEMMA StartClear ==
  ASSUME TypeOK, Start
  PROVE  ClearIsFirst(FramesOf(queue'))
<1>1. seq \in SeqValue
  BY StatsNat
<1>2. /\ FirstFrame \in Frame /\ FirstFrame.n = 1
      /\ MoreFrames \in Seq(Frame)
  BY <1>1, StartFrames DEF Following
<1>3. FirstFrame.clear = TRUE
  BY DEF FirstFrame, FrameOf
<1>4. ClearIsFirst(FramesOf(<<FirstFrame>>))
  <2>1. \A i \in DOMAIN <<FirstFrame>> : <<FirstFrame>>[i] = FirstFrame
    OBVIOUS
  <2> QED BY <1>2, <1>3, <2>1 DEF ClearIsFirst, FramesOf
<1>5. ClearIsFirst(FramesOf(MoreFrames))
  <2>1. Missing(1) \in Nat
    BY TesterAssumption DEF Missing
  <2>2. DOMAIN MoreFrames = 1 .. Missing(1)
    BY DEF MoreFrames
  <2>3. ASSUME NEW i \in 1 .. Missing(1) PROVE ~MoreFrames[i].clear /\ MoreFrames[i].n # 1
    <3>1. MoreFrames[i].clear = FALSE /\ MoreFrames[i].n = 1 + i
      BY DEF MoreFrames, FrameOf
    <3> QED BY <2>1, <3>1
  <2> QED BY <2>2, <2>3 DEF ClearIsFirst, FramesOf
<1>6. FramesOf(queue') = FramesOf(<<FirstFrame>>) \cup FramesOf(MoreFrames)
  <2>1. <<FirstFrame>> \in Seq(Frame)
    BY <1>2
  <2> QED BY <1>2, <2>1, FramesJoined, StartForm
<1> QED BY <1>4, <1>5, <1>6 DEF ClearIsFirst

\* No step makes a frame but the first ask for it.
LEMMA ClearStep ==
  ASSUME TypeOK, StartInv, [Next]_vars,
         ClearIsFirst(requests), ClearIsFirst(FramesOf(queue)), FirstSent
  PROVE  ClearIsFirst(requests') /\ ClearIsFirst(FramesOf(queue')) /\ FirstSent'
<1>1. queue \in Seq(Frame) /\ stats.tx \in Nat
  BY StatsNat
<1>2. CASE Start
  <2>1. ClearIsFirst(FramesOf(queue')) /\ requests' = requests \cup FramesOf(queue')
    BY <1>2, StartClear, StartForm
  <2>2. stats'.tx >= 1
    <3>1. stats'.tx = stats.tx + 1 + Missing(1) /\ Missing(1) \in Nat
      BY <1>2, StartNumbers
    <3> QED BY <1>1, <3>1
  <2> QED BY <2>1, <2>2 DEF ClearIsFirst, FirstSent
<1>3. CASE Timeout
  <2>1. PICK k \in 1 .. SeqMod :
          /\ queue' = queue \o NextFrames(k)
          /\ requests' = requests \cup FramesOf(NextFrames(k))
          /\ stats'.tx = stats.tx + k
    BY <1>3, TimeoutNumbers
  <2>2. stats.tx >= 1
    BY <1>3 DEF Timeout, FirstSent
  <2>3. k \in 0 .. SeqMod
    BY TesterAssumption
  <2>4. ClearIsFirst(FramesOf(NextFrames(k))) /\ NextFrames(k) \in Seq(Frame)
    BY <2>2, <2>3, NextFramesClear, SentType
  <2>5. FramesOf(queue') = FramesOf(queue) \cup FramesOf(NextFrames(k))
    BY <1>1, <2>1, <2>4, FramesJoined
  <2>6. stats'.tx >= 1
    BY <1>1, <2>1, <2>2, TesterAssumption
  <2> QED BY <2>1, <2>4, <2>5, <2>6 DEF ClearIsFirst, FirstSent
<1>4. ASSUME NEW r \in responses, Receive(r)
      PROVE  ClearIsFirst(requests') /\ ClearIsFirst(FramesOf(queue')) /\ FirstSent'
  <2>1. PICK i \in 1 .. Len(queue), k \in 0 .. SeqMod, finding \in Damage :
          Taking(r, i, k, finding)
    BY <1>4, ReceiveForm
  <2>2. stats.tx >= 1
    BY <1>4 DEF Receive, Receivable, FirstSent
  <2>3. ClearIsFirst(FramesOf(NextFrames(k))) /\ NextFrames(k) \in Seq(Frame)
    BY <2>2, NextFramesClear, SentType
  <2> DEFINE rest == SubSeq(queue, i + 1, Len(queue))
  <2>4. rest \in Seq(Frame) /\ Len(rest) = Len(queue) - i
        /\ \A j \in 1 .. Len(queue) - i : rest[j] = queue[i + j]
    BY <1>1
  <2>5. queue' = rest \o NextFrames(k) /\ requests' = requests \cup FramesOf(NextFrames(k))
    BY <2>1 DEF Taking
  <2> HIDE DEF rest
  <2>6. FramesOf(rest) \subseteq FramesOf(queue)
    <3>1. ASSUME NEW j \in 1 .. Len(rest) PROVE rest[j] \in FramesOf(queue)
      <4>1. rest[j] = queue[i + j] /\ i + j \in DOMAIN queue
        BY <1>1, <2>4
      <4> QED BY <4>1 DEF FramesOf
    <3>2. DOMAIN rest = 1 .. Len(rest)
      BY <2>4
    <3> QED BY <3>1, <3>2 DEF FramesOf
  <2>7. FramesOf(queue') = FramesOf(rest) \cup FramesOf(NextFrames(k))
    BY <2>3, <2>4, <2>5, FramesJoined
  <2>8. stats'.tx >= 1
    <3>1. stats'.tx = stats.tx + k /\ k \in Nat
      BY <2>1, TakingStats, ReceiveNumbers
    <3> QED BY <1>1, <2>2, <3>1
  <2> QED BY <2>3, <2>5, <2>6, <2>7, <2>8 DEF ClearIsFirst, FirstSent
<1>5. CASE ~Start /\ ~Timeout /\ \A r \in responses : ~Receive(r)
  <2>1. UNCHANGED <<queue, requests, stats.tx>>
    BY <1>5, OtherSteps
  <2>2. phase' = "testing" => phase = "testing"
    BY <1>5 DEF Next, ReceiveForeign, ReceiveShort, SocketFails, Answer, Reboot, Stopped,
                vars, testerVars
  <2> QED BY <2>1, <2>2 DEF FirstSent
<1> QED BY <1>2, <1>3, <1>4, <1>5

\* What a step that neither answers nor takes a response leaves of it.
LEMMA BootsKept ==
  ASSUME seen.ordered => OrderedBoots, ReportsReboots, seen'.ordered => seen.ordered,
         UNCHANGED <<lastBoot, report, responses, device>>,
         UNCHANGED <<seen.heard, seen.newest, seen.taken, seen.boots, seen.bootsTaken,
                     seen.rebooted>>
  PROVE  (seen'.ordered => OrderedBoots') /\ ReportsReboots'
<1>1. ASSUME seen.ordered, OrderedBoots PROVE OrderedBoots'
  <2>1. ASSUME NEW r \in responses PROVE ToldRight(r)'
    BY <1>1, <2>1 DEF OrderedBoots, ToldRight, Told
  <2>2. BootsOrdered'
    BY <1>1 DEF OrderedBoots, BootsOrdered
  <2>3. ASSUME seen.taken > 0 PROVE LastTold'
    BY <1>1, <2>3 DEF OrderedBoots, LastTold
  <2> QED BY <2>1, <2>2, <2>3 DEF OrderedBoots
<1>2. ReportsReboots'
  BY DEF ReportsReboots
<1> QED BY <1>1, <1>2

\* The device answers a newer frame: it tells of all its reboots.
LEMMA BootsAnswer ==
  ASSUME TypeOK, NEW m \in requests, Answer(m), ClearIsFirst(requests),
         seen.ordered => OrderedBoots, ReportsReboots
  PROVE  (seen'.ordered => OrderedBoots') /\ ReportsReboots'
<1>1. m \in Frame /\ m.n \in Nat /\ m.n >= 1 /\ (m.clear <=> m.n = 1)
  BY DEF TypeOK, Frame, ClearIsFirst
<1>2. /\ seen'.ordered => seen.ordered /\ m.n > seen.heard
      /\ seen'.heard = m.n
      /\ UNCHANGED <<seen.newest, seen.taken, seen.boots, seen.bootsTaken, seen.rebooted>>
      /\ UNCHANGED <<lastBoot, report>>
      /\ device'.boot_counter = IF m.clear THEN 0 ELSE device.boot_counter
  BY DEF Answer, TypeOK, testerVars
<1>3. /\ seen.heard \in Nat /\ seen.boots \in Nat /\ device.boot_counter \in Nat
      /\ seen.bootsTaken \in Nat /\ lastBoot \in Nat
  BY DEF TypeOK
<1>4. PICK new \in [n : {m.n}, boots : {seen.boots}, boot_counter : {device.boot_counter,
                     IF m.clear THEN 0 ELSE device.boot_counter},
                    cur_seq : {m.seq}, last_seq : {device.last_seq}, damage : Damage] :
        responses' = responses \cup {new}
  <2>1. PICK damage \in Damage,
             count \in {device.boot_counter, IF m.clear THEN 0 ELSE device.boot_counter} :
          responses' = responses \cup
            {[n |-> m.n, cur_seq |-> m.seq, last_seq |-> device.last_seq,
              boot_counter |-> count, boots |-> seen.boots, damage |-> damage]}
    BY DEF Answer
  <2> QED BY <2>1
<1>5. /\ new.n = m.n /\ new.boots = seen.boots
      /\ new.boot_counter \in {device.boot_counter, IF m.clear THEN 0 ELSE device.boot_counter}
  BY <1>4
<1>6. Told(new) = device'.boot_counter
  BY <1>1, <1>2, <1>5 DEF Told
<1>7. ASSUME seen'.ordered PROVE OrderedBoots'
  <2>1. seen.ordered /\ m.n > seen.heard /\ OrderedBoots
    BY <1>2, <1>7
  <2>2. \A r \in responses :
          /\ r.n \in Nat \ {0} /\ r.boots \in Nat
          /\ r.n <= seen.heard /\ r.boots <= seen.boots
          /\ Told(r) + seen.boots = device.boot_counter + r.boots
    BY <2>1 DEF OrderedBoots, ToldRight, TypeOK, Response
  <2>3. ASSUME NEW r \in responses PROVE device'.boot_counter = device.boot_counter
    <3>1. r.n <= seen.heard /\ r.n >= 1 /\ r.n \in Nat
      BY <2>2
    <3>2. m.n # 1
      BY <1>1, <1>3, <2>1, <3>1
    <3> QED BY <1>1, <1>2, <3>2
  <2>4. ASSUME NEW r \in responses' PROVE ToldRight(r)'
    <3>1. CASE r \in responses
      <4>1. r.n <= m.n
        <5>1. r.n <= seen.heard /\ r.n \in Nat
          BY <2>2, <3>1
        <5> QED BY <1>1, <1>3, <2>1, <5>1
      <4>2. device'.boot_counter = device.boot_counter
        BY <2>3, <3>1
      <4>3. r.boots <= seen.boots /\ Told(r) + seen.boots = device.boot_counter + r.boots
        BY <2>2, <3>1
      <4> QED BY <1>2, <4>1, <4>2, <4>3 DEF ToldRight, Told
    <3>2. CASE r = new
      <4>1. /\ r.n <= seen'.heard /\ r.boots <= seen'.boots
            /\ Told(r) + seen'.boots = device'.boot_counter + r.boots
        BY <1>1, <1>2, <1>3, <1>5, <1>6, <3>2
      <4> QED BY <4>1 DEF ToldRight, Told
    <3> QED BY <1>4, <3>1, <3>2
  <2>5. BootsOrdered'
    <3>1. ASSUME NEW r1 \in responses', NEW r2 \in responses', r1.n <= r2.n
          PROVE  r1.boots <= r2.boots
      <4>1. CASE r1 \in responses /\ r2 \in responses
        BY <2>1, <3>1, <4>1 DEF OrderedBoots, BootsOrdered
      <4>2. CASE r2 = new
        <5>1. r1.boots <= seen.boots
          BY <1>3, <1>4, <1>5, <2>2
        <5> QED BY <1>5, <4>2, <5>1
      <4>3. CASE r1 = new /\ r2 \in responses
        <5>1. r2.n <= seen.heard /\ r2.n \in Nat /\ m.n <= r2.n
          BY <1>5, <2>2, <3>1, <4>3
        <5> QED BY <1>1, <1>3, <2>1, <5>1
      <4> QED BY <1>4, <4>1, <4>2, <4>3
    <3> QED BY <3>1 DEF BootsOrdered
  <2>6. ASSUME seen'.taken > 0 PROVE LastTold'
    <3>1. LastTold
      BY <1>2, <2>1, <2>6 DEF OrderedBoots
    <3>2. PICK r \in responses : r.n = seen.newest /\ r.boots = seen.bootsTaken
      BY <3>1 DEF LastTold
    <3>3. r \in responses' /\ device'.boot_counter = device.boot_counter
      BY <1>4, <2>3
    <3>4. lastBoot + seen.boots = device.boot_counter + seen.bootsTaken
      BY <3>1 DEF LastTold
    <3>5. /\ r.n = seen'.newest /\ r.boots = seen'.bootsTaken
          /\ lastBoot' + seen'.boots = device'.boot_counter + seen'.bootsTaken
      BY <1>2, <3>2, <3>3, <3>4
    <3> QED BY <3>3, <3>5 DEF LastTold
  <2> QED BY <2>4, <2>5, <2>6 DEF OrderedBoots
<1>8. ReportsReboots'
  BY <1>2 DEF ReportsReboots
<1> QED BY <1>7, <1>8

\* A reboot counts for every response given before it.
LEMMA BootsReboot ==
  ASSUME TypeOK, Reboot, seen.ordered => OrderedBoots, ReportsReboots
  PROVE  (seen'.ordered => OrderedBoots') /\ ReportsReboots'
<1>1. /\ seen'.boots = seen.boots + 1 /\ device'.boot_counter = device.boot_counter + 1
      /\ UNCHANGED <<seen.ordered, seen.heard, seen.newest, seen.taken, seen.bootsTaken,
                     seen.rebooted>>
      /\ UNCHANGED <<lastBoot, report, responses>>
  BY DEF Reboot, TypeOK, testerVars
<1>2. /\ seen.boots \in Nat /\ device.boot_counter \in Nat
      /\ seen.bootsTaken \in Nat /\ lastBoot \in Nat
  BY DEF TypeOK
<1>3. ASSUME seen.ordered, OrderedBoots PROVE OrderedBoots'
  <2>1. ASSUME NEW r \in responses PROVE ToldRight(r)'
    <3>1. ToldRight(r) /\ r.boots \in Nat /\ r.boot_counter \in Nat /\ Told(r) \in Nat
      BY <1>3 DEF OrderedBoots, TypeOK, Response, Told
    <3>2. /\ r.n <= seen'.heard /\ r.boots <= seen'.boots
          /\ Told(r) + seen'.boots = device'.boot_counter + r.boots
      BY <1>1, <1>2, <3>1 DEF ToldRight
    <3> QED BY <3>2 DEF ToldRight, Told
  <2>2. BootsOrdered'
    BY <1>1, <1>3 DEF OrderedBoots, BootsOrdered
  <2>3. ASSUME seen'.taken > 0 PROVE LastTold'
    <3>1. LastTold
      BY <1>1, <1>3, <2>3 DEF OrderedBoots
    <3>2. PICK r \in responses : r.n = seen.newest /\ r.boots = seen.bootsTaken
      BY <3>1 DEF LastTold
    <3>3. lastBoot' + seen'.boots = device'.boot_counter + seen'.bootsTaken
      BY <1>1, <1>2, <3>1 DEF LastTold
    <3> QED BY <1>1, <3>2, <3>3 DEF LastTold
  <2> QED BY <1>1, <2>1, <2>2, <2>3 DEF OrderedBoots
<1>4. ReportsReboots'
  BY <1>1 DEF ReportsReboots
<1> QED BY <1>1, <1>3, <1>4

\* The tester takes a newer response: it knows the counter of the last one, and a counter
\* that is larger tells of a reboot.
LEMMA BootsReceive ==
  ASSUME TypeOK, LengthInv, QueueInv, OrderInv, NEW r \in responses, Receive(r),
         ClearIsFirst(FramesOf(queue)), seen.ordered => OrderedBoots
  PROVE  (seen'.ordered => OrderedBoots') /\ ReportsReboots'
<1> SUFFICES ASSUME seen'.ordered PROVE OrderedBoots' /\ ReportsReboots'
  BY DEF ReportsReboots
<1>1. /\ seen' = Observe(r) /\ phase # "undefined" /\ report' = Reboots(r)
      /\ UNCHANGED <<responses, device>>
  BY DEF Receive, Receivable
<1>2. /\ seen'.newest = r.n /\ seen'.taken = seen.taken + 1
      /\ seen.ordered /\ r.n > seen.newest
      /\ seen'.bootsTaken = r.boots /\ seen'.rebooted = (r.boots > seen.bootsTaken)
      /\ UNCHANGED <<seen.heard, seen.boots>>
  BY <1>1 DEF Observe, TypeOK
<1>3. /\ seen.boots \in Nat /\ device.boot_counter \in Nat /\ seen.taken \in Nat
      /\ seen.bootsTaken \in Nat /\ lastBoot \in Nat /\ seen.newest \in Nat
      /\ r.n \in Nat /\ r.boots \in Nat /\ r.boot_counter \in Nat
  BY DEF TypeOK, Response
<1>4. OrderedBoots /\ ToldRight(r)
  BY <1>2 DEF OrderedBoots
<1>5. lastBoot' = Told(r)
  <2>1. seen.newest = stats.tx - Len(queue)
    BY <1>1, <1>2 DEF OrderInv, NewestInv
  <2>2. PICK j \in 1 .. Len(queue) :
          /\ queue[j].n = r.n
          /\ \A i \in 1 .. Len(queue) : Answered(i, r) => i = j
    BY <1>2, <2>1, NewerFound
  <2>3. PICK i \in 1 .. Len(queue), k \in 0 .. SeqMod, finding \in Damage :
          Taking(r, i, k, finding)
    BY ReceiveForm
  <2>4. i = j /\ lastBoot' = IF queue[i].clear THEN 0 ELSE r.boot_counter
    BY <2>2, <2>3 DEF Taking
  <2>5. queue[i].clear <=> queue[i].n = 1
    BY StatsNat DEF ClearIsFirst, FramesOf
  <2> QED BY <2>2, <2>4, <2>5 DEF Told
<1>6. OrderedBoots'
  <2>1. ASSUME NEW p \in responses PROVE ToldRight(p)'
    BY <1>1, <1>2, <1>4 DEF OrderedBoots, ToldRight, Told
  <2>2. BootsOrdered'
    BY <1>1, <1>4 DEF OrderedBoots, BootsOrdered
  <2>3. LastTold'
    <3>1. lastBoot' + seen'.boots = device'.boot_counter + seen'.bootsTaken
      BY <1>1, <1>2, <1>4, <1>5 DEF ToldRight
    <3> QED BY <1>1, <1>2, <3>1 DEF LastTold
  <2> QED BY <1>1, <2>1, <2>2, <2>3 DEF OrderedBoots
<1>7. ReportsReboots'
  <2> SUFFICES ASSUME seen'.taken > 1
               PROVE  report' = IF seen'.rebooted THEN "reboot" ELSE "none"
    BY DEF ReportsReboots
  <2>1. LastTold
    BY <1>2, <1>3, <1>4 DEF OrderedBoots
  <2>2. PICK p \in responses : p.n = seen.newest /\ p.boots = seen.bootsTaken
    BY <2>1 DEF LastTold
  <2>3. seen.newest >= 1
    <3>1. p.n \in Nat \ {0}
      BY DEF TypeOK, Response
    <3> QED BY <2>2, <3>1
  <2>4. Told(r) = r.boot_counter
    BY <1>2, <1>3, <2>3 DEF Told
  <2>5. seen.bootsTaken <= r.boots
    BY <1>2, <1>3, <1>4, <2>2 DEF OrderedBoots, BootsOrdered
  <2>6. /\ lastBoot + seen.boots = device.boot_counter + seen.bootsTaken
        /\ r.boot_counter + seen.boots = device.boot_counter + r.boots
    BY <1>4, <2>1, <2>4 DEF LastTold, ToldRight
  <2>7. r.boot_counter >= lastBoot /\ (r.boot_counter > lastBoot <=> r.boots > seen.bootsTaken)
    BY <1>3, <2>5, <2>6
  <2>8. Reboots(r) = IF r.boots > seen.bootsTaken THEN "reboot" ELSE "none"
    <3>1. ~(r.boot_counter < lastBoot)
      BY <1>3, <2>7
    <3> QED BY <2>7, <3>1 DEF Reboots
  <2> QED BY <1>1, <1>2, <2>8
<1> QED BY <1>6, <1>7

\* What is known of the boot counters holds after every step.
LEMMA BootStep == ASSUME IInv, IInv', BootInv, [Next]_vars PROVE BootInv'
<1>1. TypeOK /\ LengthInv /\ QueueInv /\ StartInv /\ OrderInv
  BY DEF IInv, OrderInv
<1>2. /\ ClearIsFirst(requests) /\ ClearIsFirst(FramesOf(queue)) /\ FirstSent
      /\ (seen.ordered => OrderedBoots) /\ ReportsReboots
  BY DEF BootInv
<1>3. ClearIsFirst(requests') /\ ClearIsFirst(FramesOf(queue')) /\ FirstSent'
  BY <1>1, <1>2, ClearStep
<1>4. (seen'.ordered => OrderedBoots') /\ ReportsReboots'
  <2>1. ASSUME UNCHANGED <<lastBoot, report, responses, device, seen>>
        PROVE  (seen'.ordered => OrderedBoots') /\ ReportsReboots'
    BY <1>2, <2>1, BootsKept
  <2>2. CASE Start \/ Timeout \/ ReceiveShort \/ SocketFails \/ UNCHANGED vars
    <3>1. UNCHANGED <<lastBoot, report, responses, device, seen>>
      BY <2>2 DEF Start, Timeout, ReceiveShort, SocketFails, vars, testerVars
    <3> QED BY <2>1, <3>1
  <2>3. ASSUME NEW r \in responses, Receive(r)
        PROVE  (seen'.ordered => OrderedBoots') /\ ReportsReboots'
    BY <1>1, <1>2, <2>3, BootsReceive
  <2>4. ASSUME NEW r \in responses, ReceiveForeign(r)
        PROVE  (seen'.ordered => OrderedBoots') /\ ReportsReboots'
    <3>1. ~seen'.ordered
      <4>1. phase' = "undefined" /\ FallsOnlyWhenMisordered'
        BY <2>4 DEF ReceiveForeign, IInv
      <4> QED BY <4>1 DEF FallsOnlyWhenMisordered
    <3> QED BY <3>1 DEF ReportsReboots
  <2>5. ASSUME NEW m \in requests, Answer(m)
        PROVE  (seen'.ordered => OrderedBoots') /\ ReportsReboots'
    BY <1>1, <1>2, <2>5, BootsAnswer
  <2>6. CASE Reboot
    BY <1>1, <1>2, <2>6, BootsReboot
  <2> QED BY <2>2, <2>3, <2>4, <2>5, <2>6 DEF Next, Stopped
<1> QED BY <1>3, <1>4 DEF BootInv

-----------------------------------------------------------------------------
(***************************************************************************)
(* Theorems                                                                *)
(***************************************************************************)

\* At the start nothing was sent, answered or counted.
LEMMA InvInit == Init => IInv
<1> SUFFICES ASSUME Init PROVE IInv
  OBVIOUS
<1>1. TypeOK
  BY TypeInit
<1>2. /\ queue = <<>> /\ Len(queue) = 0 /\ seq = 0 /\ stats = NoStats /\ phase = "start"
      /\ stats.tx = 0 /\ stats.timeout = 0 /\ stats.lost_rx = 0 /\ stats.lost_tx = 0
      /\ stats.payload_invalid = 0 /\ stats.payload_size = 0
      /\ requests = {} /\ responses = {}
  BY DEF Init, NoStats
<1>3. seen.taken = 0 /\ seen.newest = 0 /\ seen.changed = 0 /\ seen.resized = 0
  BY DEF Init
<1>4. LengthInv
  BY <1>2, TesterAssumption DEF LengthInv, QueueBounded
<1>5. QueueInv
  BY <1>2 DEF QueueInv, Held, LastSent, RequestsMatch, ResponsesMatch
<1>6. StartInv
  BY <1>2 DEF StartInv
<1>7. CountInv
  BY <1>2, <1>3 DEF CountInv
<1>8. OrderInv
  <2>1. stats.tx - Len(queue) = 0
    <3>1. stats.tx = 0 /\ Len(queue) = 0
      BY <1>2
    <3> QED BY <3>1
  <2>2. NewestInv
    BY <1>3, <2>1 DEF NewestInv
  <2>3. FallsOnlyWhenMisordered
    BY <1>2 DEF FallsOnlyWhenMisordered
  <2>4. ReportsDamage
    BY <1>2, <1>3 DEF ReportsDamage
  <2> QED BY <2>2, <2>3, <2>4 DEF OrderInv
<1> QED BY <1>1, <1>4, <1>5, <1>6, <1>7, <1>8 DEF IInv, OrderInv

\* The invariant is inductive.
LEMMA InvStep == IInv /\ [Next]_vars => IInv'
<1> SUFFICES ASSUME IInv, [Next]_vars PROVE IInv'
  OBVIOUS
<1>1. TypeOK /\ LengthInv /\ QueueInv /\ StartInv /\ CountInv /\ OrderInv
  BY DEF IInv, OrderInv
<1>2. TypeOK' /\ LengthInv' /\ StartInv'
  BY <1>1, TypeStep, LengthStep, StartStep
<1>3. QueueInv'
  BY <1>1, <1>2, QueueStep
<1>4. CountInv'
  BY <1>1, CountStep
<1>5. OrderInv'
  BY <1>1, OrderStep
<1> QED BY <1>2, <1>3, <1>4, <1>5 DEF IInv, OrderInv

\* It holds in every state.
LEMMA Invariant == Spec => []IInv
  BY InvInit, InvStep, PTL DEF Spec

\* However many frames are lost and deadlines pass, the queue is as long as the tester keeps
\* it, and longer by a frame for each deadline.
THEOREM QueueSafe == Spec => []QueueBounded
<1>1. IInv => QueueBounded
  BY DEF IInv, LengthInv
<1> QED BY <1>1, Invariant, PTL

\* As long as the test goes on, a frame is in the queue, was answered or was given up, and
\* is counted once.
THEOREM CountSafe == Spec => []EveryFrameCounted
<1>1. IInv => EveryFrameCounted
  BY DEF IInv, CountInv, EveryFrameCounted
<1> QED BY <1>1, Invariant, PTL

\* received() does not read an empty queue unless the path repeats or reorders: the
\* argument is that the numbers are never reused among the frames of the queue.
THEOREM SearchSafe == Spec => []FallsOnlyWhenMisordered
<1>1. IInv => FallsOnlyWhenMisordered
  BY DEF IInv
<1> QED BY <1>1, Invariant, PTL

\* On a path that keeps the order the tester blames the device for the payloads it got
\* wrong, and for no others.
THEOREM DamageReported == Spec => []ReportsDamage
<1>1. IInv => ReportsDamage
  BY DEF IInv
<1> QED BY <1>1, Invariant, PTL

\* Before the start no reboot was told of.
LEMMA BootInit == Init => BootInv
<1> SUFFICES ASSUME Init PROVE BootInv
  OBVIOUS
<1>1. /\ requests = {} /\ responses = {} /\ queue = <<>> /\ phase = "start"
      /\ seen.taken = 0
  BY DEF Init
<1>2. FramesOf(queue) = {}
  BY <1>1 DEF FramesOf
<1>3. OrderedBoots
  BY <1>1 DEF OrderedBoots, BootsOrdered
<1> QED BY <1>1, <1>2, <1>3 DEF BootInv, ClearIsFirst, FirstSent, ReportsReboots

\* On a path that keeps the order the tester tells of the reboots of the device, and of no
\* others, whichever frames and responses are lost, the first ones included: the last boot
\* counter it keeps is behind by the reboots since the last response.
THEOREM RebootsReported == Spec => []ReportsReboots
<1>1. IInv /\ BootInv /\ [Next]_vars => (IInv /\ BootInv)'
  BY InvStep, BootStep
<1>2. Init => IInv /\ BootInv
  BY InvInit, BootInit
<1>3. BootInv => ReportsReboots
  BY DEF BootInv
<1> QED BY <1>1, <1>2, <1>3, PTL DEF Spec
=============================================================================
