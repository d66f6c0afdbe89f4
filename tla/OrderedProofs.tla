---------------------------- MODULE OrderedProofs ----------------------------
(***************************************************************************)
(* What the single sequence number a target remembers is good for: on a    *)
(* path that keeps the order of requests, and with targets that are not    *)
(* restarted, it discards what was carried out before and nothing else.    *)
(***************************************************************************)
EXTENDS SessionProofs

(***************************************************************************)
(* The inductive invariants                                                *)
(***************************************************************************)

\* A transmission is one request, whoever still has or had a copy of it.
OneRequest ==
  /\ \A m \in requests : m.n <= sent[m.src]
  /\ \A t \in Targets : \A m, x \in requests \cup handled[t] :
       m.src = x.src /\ m.n = x.n => m = x

\* What a target has handled it has heard, and what it has heard was sent.
HeardOK ==
  \A t \in Targets :
    /\ \A p \in Programmers : heard[t][p] <= sent[p]
    /\ \A m \in handled[t] : m.n <= heard[t][m.src]

\* When the newest request a target has heard from its programmer is one it has handled,
\* it still remembers the sequence number of that request.
LastIsNewest ==
  \A t \in Targets : \A m \in handled[t] :
    m.src = registered[t] /\ m.n = heard[t][m.src] => lastSeq[t] = m.seq

OnceInv == TypeInv /\ OneRequest /\ HeardOK /\ LastIsNewest

\* Transmission n of p, with sequence number s, is not older than what t has heard of p, and
\* as many numbers ahead of it as transmissions.
InStepWith(t, p, n, s) ==
  n >= heard[t][p] /\ n - heard[t][p] < SeqMod => lastSeq[t] = Back(s, n - heard[t][p])

\* The number a target remembers belongs to the newest request it has heard from the
\* programmer it serves.
InStep ==
  \A t \in Targets, p \in Programmers :
    Enrolled(t, p) =>
      /\ InStepWith(t, p, sent[p], seq[p])
      /\ \A m \in requests : m.src = p => InStepWith(t, p, m.n, m.seq)

\* A reply to the newest transmission has what the flash holds.
ReadReplies ==
  \A r \in replies :
    (r.op = "OP_READ" /\ r.status = "STATUS_OK" /\ r.n = sent[r.dst]
       /\ registered[r.src] = r.dst)
      => r.payload = Words(flash[r.src], hdr[r.dst].addr, hdr[r.dst].len)

-----------------------------------------------------------------------------
(***************************************************************************)
(* The form of the steps                                                   *)
(***************************************************************************)

\* A transmission of p, with a header that is in its buffer from then on.
Transmits(p) ==
  \E h \in Header, b \in Body, dst \in Destination, allowed \in BOOLEAN :
    Transmit(p, h, b, dst, allowed) /\ hdr' = [hdr EXCEPT ![p] = h]

\* A programmer transmits, or leaves the path and the header alone.
LEMMA ProgrammerForm ==
  ASSUME TypeInv, NEW p \in Programmers, Programmer(p)
  PROVE  /\ UNCHANGED heard
         /\ Transmits(p) \/ UNCHANGED <<requests, replies, sent, seq, hdr>>
<1>0. /\ hdr \in [Programmers -> Header]
      /\ body[p] \in Body /\ txAddr[p] \in Destination /\ bcast[p] \in BOOLEAN
  BY DEF TypeInv, TypeOK
<1>1. CASE StartCall(p)
  <2>1. CASE Begins(p)
    <3> PICK h \in Header, b \in Body, dst \in Destination, allowed \in BOOLEAN :
               Communicate(p, h, b, dst, allowed)
      BY <2>1 DEF Begins
    <3>1. /\ Transmit(p, h, b, dst, allowed)
          /\ hdr' = [hdr EXCEPT ![p] = h]
          /\ UNCHANGED heard
      BY DEF Communicate
    <3> QED BY <3>1 DEF Transmits
  <2>2. CASE Refused(p)
    BY <2>2 DEF Refused, Refuse, pathVars, bufVars
  <2> QED BY <1>1, <2>1, <2>2, StartCallForm
<1>2. CASE Timeout(p)
  <2>1. UNCHANGED <<heard, hdr>> /\ hdr' = [hdr EXCEPT ![p] = hdr[p]]
    BY <1>0, <1>2 DEF Timeout, bufVars
  <2>2. CASE Transmit(p, hdr[p], body[p], txAddr[p], bcast[p])
    BY <1>0, <2>1, <2>2 DEF Transmits
  <2>3. CASE UNCHANGED <<seq, sent, requests, replies>>
    BY <2>1, <2>3
  <2> QED BY <1>2, <2>2, <2>3 DEF Timeout
<1>3. CASE RefuseFrame(p)
  BY <1>3 DEF RefuseFrame, pathVars, bufVars
<1>4. CASE \E r \in replies : TakeReply(p, r)
  BY <1>4 DEF TakeReply, Reject, DiscoverDone, DataDone, CommandDone, pathVars, bufVars
<1> QED BY <1>1, <1>2, <1>3, <1>4 DEF Programmer

\* t drops m as a repetition, refuses its sender, or serves it from then on.
Drops(t, m) ==
  /\ m.seq = lastSeq[t]
  /\ UNCHANGED <<lastSeq, registered, flash, handled, replies>>

RefusesSender(t, m) ==
  /\ m.src # registered[t]
  /\ UNCHANGED <<lastSeq, registered, flash, handled>>

Serves(t, m) ==
  /\ lastSeq' = [lastSeq EXCEPT ![t] = m.seq]
  /\ registered' = [registered EXCEPT ![t] = m.src]
  /\ UNCHANGED handled \/ Perform(t, m)
  /\ m.op \notin RegisterOps => registered[t] = m.src

LEMMA HearForm ==
  ASSUME Ordered, TypeInv, NEW t \in Targets, NEW m \in requests, Receive(t, m)
  PROVE  /\ m.n >= heard[t][m.src]
         /\ heard' = [heard EXCEPT ![t][m.src] = m.n]
         /\ Drops(t, m) \/ RefusesSender(t, m) \/ Serves(t, m)
<1>0. registered \in [Targets -> Programmers \cup {Nobody}]
  BY DEF TypeInv, TypeOK
<1>1. ASSUME Accept(t, m), m.op \notin RegisterOps, UNCHANGED registered,
             UNCHANGED handled \/ Perform(t, m)
      PROVE  Serves(t, m)
  BY <1>0, <1>1 DEF Accept, Stranger, Serves
<1>2. CASE DropDuplicate(t, m)
  BY <1>2 DEF DropDuplicate, Duplicate, Drops, Arrives, Hear, targetVars
<1>3. CASE RefuseStranger(t, m)
  BY <1>3 DEF RefuseStranger, Stranger, RefusesSender, Arrives, Hear, targetVars
<1>4. ASSUME Accept(t, m)
      PROVE  m.n >= heard[t][m.src] /\ heard' = [heard EXCEPT ![t][m.src] = m.n]
  BY <1>4 DEF Accept, Arrives, Hear
<1>5. CASE Register(t, m)
  BY <1>4, <1>5 DEF Register, Accept, Serves
<1>6. CASE ErasePage(t, m) \/ WriteSector(t, m) \/ ReadBlock(t, m)
  BY <1>1, <1>4, <1>6 DEF ErasePage, WriteSector, ReadBlock, Report, RegisterOps
<1>7. CASE RefuseParam(t, m) \/ Unsupported(t, m)
  BY <1>1, <1>4, <1>7 DEF RefuseParam, Unsupported, InvalidParam, RegisterOps
<1> QED BY <1>2, <1>3, <1>5, <1>6, <1>7 DEF Receive

-----------------------------------------------------------------------------
(***************************************************************************)
(* Nothing is carried out twice                                            *)
(***************************************************************************)

\* The parts of OnceInv.
OnceParts == OneRequest /\ HeardOK /\ LastIsNewest

LEMMA ProgrammerOnce ==
  ASSUME OnceInv, NEW p \in Programmers, Programmer(p), UNCHANGED targetVars
  PROVE  OnceParts'
<1>0. /\ TypeInv
      /\ sent \in [Programmers -> Nat]
      /\ heard \in [Targets -> [Programmers -> Nat]]
      /\ handled \in [Targets -> SUBSET Request]
      /\ requests \subseteq Request
  BY DEF OnceInv, TypeInv, TypeOK
<1>1. UNCHANGED <<heard, handled, lastSeq, registered>>
  BY <1>0, ProgrammerForm DEF targetVars
<1>2. LastIsNewest'
  BY <1>1 DEF OnceInv, LastIsNewest
<1>3. CASE UNCHANGED <<requests, sent>>
  BY <1>1, <1>2, <1>3 DEF OnceInv, OnceParts, OneRequest, HeardOK
<1>4. CASE Transmits(p)
  <2> PICK h \in Header, b \in Body, dst \in Destination, allowed \in BOOLEAN :
             Transmit(p, h, b, dst, allowed)
    BY <1>4 DEF Transmits
  <2>1. /\ sent' = [sent EXCEPT ![p] = @ + 1]
        /\ requests' \subseteq requests \cup {Frame(p, h, b, dst)}
    BY DEF Transmit, RequestsAfter
  <2>2. \A q \in Programmers : /\ sent'[q] \in Nat /\ sent[q] <= sent'[q]
                               /\ q = p => sent'[q] = sent[q] + 1
    BY <1>0, <2>1
  <2>3. HeardOK'
    <3>1. \A t \in Targets, q \in Programmers : heard[t][q] <= sent'[q]
      BY <1>0, <2>2 DEF OnceInv, HeardOK
    <3> QED BY <1>1, <3>1 DEF OnceInv, HeardOK
  <2>4. Frame(p, h, b, dst).src = p /\ Frame(p, h, b, dst).n = sent[p] + 1
    BY DEF Frame
  <2>5. \A m \in requests : m.src \in Programmers /\ m.n \in Nat /\ m.n <= sent[m.src]
    BY <1>0 DEF OnceInv, OneRequest, Request
  <2>6. \A t \in Targets : \A m \in handled[t] :
          m.src \in Programmers /\ m.n \in Nat /\ m.n <= sent[m.src]
    <3> SUFFICES ASSUME NEW t \in Targets, NEW m \in handled[t]
                 PROVE  m.src \in Programmers /\ m.n \in Nat /\ m.n <= sent[m.src]
      OBVIOUS
    <3>1. m.src \in Programmers /\ m.n \in Nat
      BY <1>0 DEF Request
    <3>2. heard[t][m.src] <= sent[m.src] /\ m.n <= heard[t][m.src]
      BY <3>1 DEF OnceInv, HeardOK
    <3> QED BY <1>0, <3>1, <3>2
  <2>7. \A m \in requests' : m.n <= sent'[m.src]
    BY <1>0, <2>1, <2>2, <2>4, <2>5
  <2>8. ASSUME NEW t \in Targets, NEW m \in requests' \cup handled[t],
               NEW x \in requests' \cup handled[t], m.src = x.src, m.n = x.n
        PROVE  m = x
    <3> DEFINE f == Frame(p, h, b, dst)
    <3>1. \A y \in requests \cup handled[t] : y.src = f.src => y.n # f.n
      BY <1>0, <2>4, <2>5, <2>6
    <3>2. m \in requests \cup handled[t] \cup {f} /\ x \in requests \cup handled[t] \cup {f}
      BY <2>1
    <3>3. m \in requests \cup handled[t] /\ x \in requests \cup handled[t] => m = x
      BY <2>8 DEF OnceInv, OneRequest
    <3> QED BY <2>8, <3>1, <3>2, <3>3
  <2>9. OneRequest'
    BY <1>1, <2>7, <2>8 DEF OneRequest
  <2> QED BY <1>2, <2>3, <2>9 DEF OnceParts
<1> QED BY <1>0, <1>3, <1>4, ProgrammerForm

LEMMA ReceiveOnce ==
  ASSUME Ordered, OnceInv, UNCHANGED progVars,
         NEW t \in Targets, NEW m \in requests, Receive(t, m)
  PROVE  OnceParts'
<1>0. /\ TypeInv
      /\ sent \in [Programmers -> Nat]
      /\ heard \in [Targets -> [Programmers -> Nat]]
      /\ registered \in [Targets -> Programmers \cup {Nobody}]
      /\ lastSeq \in [Targets -> SeqNo]
      /\ handled \in [Targets -> SUBSET Request]
      /\ m \in Request
  BY DEF OnceInv, TypeInv, TypeOK
<1>1. m.src \in Programmers /\ m.n \in Nat /\ m.n <= sent[m.src]
  BY <1>0 DEF OnceInv, OneRequest, Request
<1>2. UNCHANGED <<requests, sent>>
  BY ReceiveForm
<1>3. /\ m.n >= heard[t][m.src]
      /\ heard' = [heard EXCEPT ![t][m.src] = m.n]
      /\ Drops(t, m) \/ RefusesSender(t, m) \/ Serves(t, m)
  BY <1>0, HearForm
<1>4. /\ heard'[t][m.src] = m.n
      /\ \A u \in Targets, q \in Programmers :
           u # t \/ q # m.src => heard'[u][q] = heard[u][q]
  BY <1>0, <1>1, <1>3
<1>5. /\ \A u \in Targets \ {t} : /\ handled'[u] = handled[u]
                                  /\ lastSeq'[u] = lastSeq[u]
                                  /\ registered'[u] = registered[u]
      /\ handled'[t] \subseteq handled[t] \cup {m}
  BY <1>0, <1>3 DEF Drops, RefusesSender, Serves, Perform
<1>6. \A u \in Targets : \A x \in handled[u] : x.src \in Programmers /\ x.n \in Nat
  BY <1>0 DEF Request
<1>7. OneRequest'
  <2>1. \A u \in Targets : requests \cup handled'[u] \subseteq requests \cup handled[u]
    BY <1>5
  <2> QED BY <1>2, <2>1 DEF OnceInv, OneRequest
<1>8. HeardOK'
  <2>1. \A u \in Targets, q \in Programmers : heard'[u][q] <= sent[q]
    BY <1>1, <1>4 DEF OnceInv, HeardOK
  <2>2. ASSUME NEW u \in Targets, NEW x \in handled'[u]
        PROVE  x.n <= heard'[u][x.src]
    <3>1. CASE x \in handled[u]
      <4>1. x.n <= heard[u][x.src] /\ x.src \in Programmers /\ x.n \in Nat
        BY <1>6, <3>1 DEF OnceInv, HeardOK
      <4>2. CASE u = t /\ x.src = m.src
        BY <1>0, <1>1, <1>3, <1>4, <4>1, <4>2
      <4>3. CASE u # t \/ x.src # m.src
        BY <1>4, <4>1, <4>3
      <4> QED BY <4>2, <4>3
    <3>2. CASE u = t /\ x = m
      BY <1>1, <1>4, <3>2
    <3> QED BY <1>5, <2>2, <3>1, <3>2
  <2> QED BY <1>2, <2>1, <2>2 DEF HeardOK
<1>9. LastIsNewest'
  <2> SUFFICES ASSUME NEW u \in Targets, NEW x \in handled'[u],
                      x.src = registered'[u], x.n = heard'[u][x.src]
               PROVE  lastSeq'[u] = x.seq
    BY DEF LastIsNewest
  <2>1. CASE u # t
    BY <1>4, <1>5, <1>6, <2>1 DEF OnceInv, LastIsNewest
  <2>2. CASE u = t /\ x.src = m.src
    <3>1. x = m
      BY <1>4, <1>5, <2>2 DEF OnceInv, OneRequest
    <3>2. ~RefusesSender(t, m)
      BY <2>2, <3>1 DEF RefusesSender
    <3>3. lastSeq'[t] = m.seq
      BY <1>0, <1>3, <3>2 DEF Drops, Serves
    <3> QED BY <2>2, <3>1, <3>3
  <2>3. CASE u = t /\ x.src # m.src
    <3>1. x \in handled[t] /\ x.n = heard[t][x.src]
      BY <1>4, <1>5, <1>6, <2>3
    <3>2. ~Serves(t, m)
      BY <1>0, <2>3 DEF Serves
    <3>3. UNCHANGED <<lastSeq, registered>>
      BY <1>3, <3>2 DEF Drops, RefusesSender
    <3> QED BY <2>3, <3>1, <3>3 DEF OnceInv, LastIsNewest
  <2> QED BY <2>1, <2>2, <2>3
<1> QED BY <1>7, <1>8, <1>9 DEF OnceParts

LEMMA OnceNext ==
  ASSUME Ordered, MaxRestarts = 0
  PROVE  OnceInv /\ [Next]_vars => OnceInv'
<1> SUFFICES ASSUME OnceInv, [Next]_vars PROVE OnceInv'
  OBVIOUS
<1>1. TypeInv'
  BY TypeNext DEF OnceInv
<1>2. ASSUME NEW t \in Targets, Restart(t) PROVE FALSE
  BY <1>2 DEF Restart, OnceInv, TypeInv, TypeOK
<1>3. CASE Exhausted \/ UNCHANGED vars
  <2>1. UNCHANGED <<requests, sent, heard, handled, lastSeq, registered>>
    BY <1>3 DEF Exhausted, vars, pathVars, targetVars
  <2> QED BY <1>1, <2>1 DEF OnceInv, OneRequest, HeardOK, LastIsNewest
<1>4. ASSUME NEW p \in Programmers, Programmer(p), UNCHANGED targetVars PROVE OnceParts'
  BY <1>4, ProgrammerOnce
<1>5. ASSUME NEW t \in Targets, NEW m \in requests, Receive(t, m), UNCHANGED progVars
      PROVE  OnceParts'
  BY <1>5, ReceiveOnce
<1>6. OnceParts'
  BY <1>2, <1>3, <1>4, <1>5 DEF Next, OnceInv, OnceParts
<1> QED BY <1>1, <1>6 DEF OnceInv, OnceParts

LEMMA OnceInit == Init => OnceInv
<1> SUFFICES ASSUME Init PROVE OnceInv
  OBVIOUS
<1>1. /\ requests = {}
      /\ sent = [p \in Programmers |-> 0]
      /\ heard = [t \in Targets |-> [p \in Programmers |-> 0]]
      /\ handled = [t \in Targets |-> {}]
  BY DEF Init, PathInit, TargetInit
<1> QED BY <1>1, TypeInit DEF OnceInv, OneRequest, HeardOK, LastIsNewest

\* On a path that keeps the order of requests, a target that is not restarted carries no
\* request out twice, whatever the sequence numbers are and however long copies live.
THEOREM CarriedOutOnce ==
  ASSUME Ordered, MaxRestarts = 0
  PROVE  Spec => []NoReexecution
<1>1. OnceInv => NoReexecution
  <2> SUFFICES ASSUME OnceInv, NEW t \in Targets, NEW m \in requests,
                      Arrives(t, m), m \in handled[t], m.op \notin RegisterOps,
                      ~Stranger(t, m)
               PROVE  Duplicate(t, m)
    BY DEF NoReexecution
  <2>1. /\ heard[t] \in [Programmers -> Nat]
        /\ m.src \in Programmers /\ m.n \in Nat
    BY DEF OnceInv, TypeInv, TypeOK, Request
  <2>2. m.n = heard[t][m.src]
    BY <2>1 DEF OnceInv, HeardOK, Arrives
  <2> QED BY <2>2 DEF OnceInv, LastIsNewest, Stranger, Duplicate
<1>2. OnceInv /\ [Next]_vars => OnceInv'
  BY OnceNext
<1> QED BY <1>1, <1>2, OnceInit, PTL DEF Spec

-----------------------------------------------------------------------------
(***************************************************************************)
(* Nothing new is dropped                                                  *)
(***************************************************************************)

\* The parts that FreshNotDropped rests on.
FreshInv == AckInv /\ OnceInv /\ InStep

\* Going back a numbers and then b is going back a + b.
LEMMA BackTwice ==
  ASSUME NEW s \in SeqNo, NEW a \in Nat, NEW b \in Nat, a + b < SeqMod
  PROVE  Back(Back(s, a), b) = Back(s, a + b)
  BY ProtocolAssumption DEF SeqNo, Back

\* A request in flight is as many numbers behind another, and behind the sequence number of
\* its programmer, as it is transmissions behind.
LEMMA RequestsInStep ==
  ASSUME Lifetime <= SeqMod, AckInv, NEW m \in requests
  PROVE  /\ sent[m.src] - m.n \in Nat
         /\ m.seq = Back(seq[m.src], sent[m.src] - m.n)
         /\ \A x \in requests : x.src = m.src /\ x.n >= m.n => m.seq = Back(x.seq, x.n - m.n)
<1>1. /\ m.src \in Programmers /\ m.n \in Nat
      /\ sent[m.src] \in Nat /\ seq[m.src] \in SeqNo
  BY DEF AckInv, BcastInv, TypeInv, TypeOK, Request
<1>2. m.n <= sent[m.src] /\ m.n + Lifetime > sent[m.src]
      /\ m.seq = Back(seq[m.src], sent[m.src] - m.n)
  BY DEF AckInv, RequestsOK, InFlight
<1>3. ASSUME NEW x \in requests, x.src = m.src, x.n >= m.n
      PROVE  m.seq = Back(x.seq, x.n - m.n)
  <2> DEFINE a == sent[m.src] - x.n
             b == x.n - m.n
  <2>1. x.n \in Nat /\ x.n <= sent[m.src] /\ x.seq = Back(seq[m.src], a)
    BY <1>3 DEF AckInv, BcastInv, TypeInv, TypeOK, Request, RequestsOK, InFlight
  <2>2. a \in Nat /\ b \in Nat /\ a + b = sent[m.src] - m.n
    BY <1>1, <1>3, <2>1
  <2>3. a + b < SeqMod
    BY <1>1, <1>2, <2>2, PathAssumption, ProtocolAssumption
  <2>4. Back(Back(seq[m.src], a), b) = Back(seq[m.src], a + b)
    BY <1>1, <2>2, <2>3, BackTwice
  <2> QED BY <1>2, <2>1, <2>2, <2>4
<1> QED BY <1>1, <1>2, <1>3

LEMMA ProgrammerInStep ==
  ASSUME Lifetime <= SeqMod, FreshInv,
         NEW p \in Programmers, Programmer(p), UNCHANGED targetVars
  PROVE  InStep'
<1>0. /\ TypeInv
      /\ sent \in [Programmers -> Nat]
      /\ seq \in [Programmers -> SeqNo]
      /\ heard \in [Targets -> [Programmers -> Nat]]
      /\ requests \subseteq Request
  BY DEF FreshInv, OnceInv, TypeInv, TypeOK
<1>1. UNCHANGED <<heard, lastSeq, registered, handled>>
  BY <1>0, ProgrammerForm DEF targetVars
<1>2. \A t, q : Enrolled(t, q)' <=> Enrolled(t, q)
  BY <1>1 DEF Enrolled
<1>3. \A t, q, n, s : InStepWith(t, q, n, s)' <=> InStepWith(t, q, n, s)
  BY <1>1 DEF InStepWith
<1>4. CASE UNCHANGED <<requests, sent, seq>>
  BY <1>2, <1>3, <1>4 DEF FreshInv, InStep
<1>5. CASE Transmits(p)
  <2> PICK h \in Header, b \in Body, dst \in Destination, allowed \in BOOLEAN :
             Transmit(p, h, b, dst, allowed)
    BY <1>5 DEF Transmits
  <2> DEFINE f == Frame(p, h, b, dst)
  <2>1. /\ sent' = [sent EXCEPT ![p] = @ + 1]
        /\ seq' = [seq EXCEPT ![p] = NextSeq(@)]
        /\ requests' \subseteq requests \cup {f}
    BY DEF Transmit, RequestsAfter
  <2>2. f.src = p /\ f.n = sent'[p] /\ f.seq = seq'[p]
    BY <1>0, <2>1 DEF Frame
  <2> SUFFICES ASSUME NEW t \in Targets, NEW q \in Programmers, Enrolled(t, q)
               PROVE  /\ InStepWith(t, q, sent'[q], seq'[q])
                      /\ \A m \in requests' : m.src = q => InStepWith(t, q, m.n, m.seq)
    BY <1>1, <1>2 DEF InStep, InStepWith
  <2>3. /\ InStepWith(t, q, sent[q], seq[q])
        /\ \A m \in requests : m.src = q => InStepWith(t, q, m.n, m.seq)
    BY DEF FreshInv, InStep
  <2>4. InStepWith(t, q, sent'[q], seq'[q])
    <3>1. CASE q # p
      BY <1>0, <2>1, <2>3, <3>1
    <3>2. CASE q = p
      <4> SUFFICES ASSUME sent[p] + 1 - heard[t][p] < SeqMod
                   PROVE  lastSeq[t] = Back(NextSeq(seq[p]), sent[p] + 1 - heard[t][p])
        BY <1>0, <2>1, <3>2 DEF InStepWith
      <4> DEFINE d == sent[p] - heard[t][p]
      <4>1. heard[t][p] <= sent[p] /\ heard[t][p] \in Nat /\ sent[p] \in Nat
        BY <1>0 DEF FreshInv, OnceInv, HeardOK
      <4>2. d \in Nat /\ d + 1 < SeqMod /\ sent[p] + 1 - heard[t][p] = d + 1
        BY <4>1
      <4>3. lastSeq[t] = Back(seq[p], d)
        BY <2>3, <3>2, <4>1, <4>2, ProtocolAssumption DEF InStepWith
      <4> HIDE DEF d
      <4> QED BY <1>0, <4>2, <4>3, BackNext
    <3> QED BY <3>1, <3>2
  <2> QED BY <2>1, <2>2, <2>3, <2>4
<1> QED BY <1>0, <1>4, <1>5, ProgrammerForm

LEMMA ReceiveInStep ==
  ASSUME Ordered, Lifetime <= SeqMod, FreshInv, UNCHANGED progVars,
         NEW t \in Targets, NEW m \in requests, Receive(t, m)
  PROVE  InStep'
<1>0. /\ TypeInv
      /\ sent \in [Programmers -> Nat]
      /\ heard \in [Targets -> [Programmers -> Nat]]
      /\ registered \in [Targets -> Programmers \cup {Nobody}]
      /\ lastSeq \in [Targets -> SeqNo]
      /\ handled \in [Targets -> SUBSET Request]
      /\ m.src \in Programmers
  BY DEF FreshInv, OnceInv, TypeInv, TypeOK, Request
<1>1. UNCHANGED <<requests, sent, seq>>
  BY ReceiveForm DEF progVars
<1>2. /\ heard' = [heard EXCEPT ![t][m.src] = m.n]
      /\ Drops(t, m) \/ RefusesSender(t, m) \/ Serves(t, m)
  BY <1>0, HearForm
<1> SUFFICES ASSUME NEW u \in Targets, NEW q \in Programmers, Enrolled(u, q)'
             PROVE  /\ InStepWith(u, q, sent[q], seq[q])'
                    /\ \A x \in requests : x.src = q => InStepWith(u, q, x.n, x.seq)'
  BY <1>1 DEF InStep, InStepWith
<1>3. CASE u = t /\ q = m.src
  <2>1. ~RefusesSender(t, m)
    BY <1>3 DEF RefusesSender, Enrolled
  <2>2. lastSeq'[u] = m.seq /\ heard'[u][q] = m.n
    BY <1>0, <1>2, <1>3, <2>1 DEF Drops, Serves
  <2> QED BY <1>1, <1>3, <2>2, RequestsInStep DEF FreshInv, InStepWith
<1>4. CASE u # t \/ q # m.src
  <2>1. CASE u # t
    <3>1. registered'[u] = registered[u] /\ handled'[u] = handled[u] /\ lastSeq'[u] = lastSeq[u]
      BY <1>0, <1>2, <2>1 DEF Drops, RefusesSender, Serves, Perform
    <3>2. Enrolled(u, q) /\ heard'[u][q] = heard[u][q]
      BY <1>0, <1>2, <2>1, <3>1 DEF Enrolled
    <3> QED BY <1>1, <3>1, <3>2 DEF FreshInv, InStep, InStepWith
  <2>2. CASE u = t /\ q # m.src
    <3>1. ~Serves(t, m)
      BY <1>0, <2>2 DEF Serves, Enrolled
    <3>2. UNCHANGED <<registered, handled, lastSeq>>
      BY <1>2, <3>1 DEF Drops, RefusesSender
    <3>3. Enrolled(u, q) /\ heard'[u][q] = heard[u][q]
      BY <1>0, <1>2, <2>2, <3>2 DEF Enrolled
    <3> QED BY <1>1, <3>2, <3>3 DEF FreshInv, InStep, InStepWith
  <2> QED BY <1>4, <2>1, <2>2
<1> QED BY <1>3, <1>4

LEMMA FreshNext ==
  ASSUME Ordered, MaxRestarts = 0, Lifetime <= SeqMod
  PROVE  FreshInv /\ [Next]_vars => FreshInv'
<1> SUFFICES ASSUME FreshInv, [Next]_vars PROVE FreshInv'
  OBVIOUS
<1>1. AckInv' /\ OnceInv'
  BY AckNext, OnceNext DEF FreshInv
<1>2. ASSUME NEW t \in Targets, Restart(t) PROVE FALSE
  BY <1>2 DEF Restart, FreshInv, OnceInv, TypeInv, TypeOK
<1>3. ASSUME Exhausted \/ UNCHANGED vars PROVE InStep'
  <2>1. UNCHANGED <<requests, sent, seq, heard, handled, lastSeq, registered>>
    BY <1>3 DEF Exhausted, vars, pathVars, progVars, targetVars
  <2> QED BY <2>1 DEF FreshInv, InStep, InStepWith, Enrolled
<1>4. ASSUME NEW p \in Programmers, Programmer(p), UNCHANGED targetVars PROVE InStep'
  BY <1>4, ProgrammerInStep
<1>5. ASSUME NEW t \in Targets, NEW m \in requests, Receive(t, m), UNCHANGED progVars
      PROVE  InStep'
  BY <1>5, ReceiveInStep
<1>6. InStep'
  BY <1>2, <1>3, <1>4, <1>5 DEF Next
<1> QED BY <1>1, <1>6 DEF FreshInv

LEMMA FreshInit == Init => FreshInv
<1> SUFFICES ASSUME Init PROVE FreshInv
  OBVIOUS
<1>1. handled = [t \in Targets |-> {}]
  BY DEF Init, TargetInit
<1> QED BY <1>1, AckInit, OnceInit DEF FreshInv, InStep, Enrolled

\* On such a path, and when no datagram outlives a full turn of the sequence number, a
\* target drops nothing of its programmer but copies: two different requests with the same
\* number are never mistaken for each other while they are less than a turn apart.
THEOREM DropsCopiesOnly ==
  ASSUME Ordered, MaxRestarts = 0, Lifetime <= SeqMod
  PROVE  Spec => []FreshNotDropped
<1>1. FreshInv => FreshNotDropped
  <2> SUFFICES ASSUME FreshInv, NEW t \in Targets, NEW m \in requests,
                      Arrives(t, m), Enrolled(t, m.src), Duplicate(t, m),
                      m.n - heard[t][m.src] < SeqMod
               PROVE  m.n = heard[t][m.src]
    BY DEF FreshNotDropped
  <2> DEFINE d == m.n - heard[t][m.src]
  <2>1. heard[t][m.src] \in Nat /\ m.src \in Programmers /\ m.n \in Nat /\ m.seq \in SeqNo
    BY DEF FreshInv, OnceInv, TypeInv, TypeOK, Request
  <2>2. m.n >= heard[t][m.src] /\ m.seq = lastSeq[t]
    BY DEF Arrives, Duplicate
  <2>3. d \in Nat /\ lastSeq[t] = Back(m.seq, d)
    BY <2>1, <2>2 DEF FreshInv, InStep, InStepWith
  <2>4. d = 0
    BY <2>1, <2>2, <2>3, BackUnique
  <2> QED BY <2>1, <2>4
<1>2. FreshInv /\ [Next]_vars => FreshInv'
  BY FreshNext
<1> QED BY <1>1, <1>2, FreshInit, PTL DEF Spec

-----------------------------------------------------------------------------
(***************************************************************************)
(* What was read is what is there                                          *)
(***************************************************************************)
CurrentInv == AckInv /\ OnceInv /\ ReadReplies /\ ReadIsCurrent

\* Once a target has handled the newest transmission of p, and that is a read, its memory
\* stays as it is for as long as it serves p.
LEMMA FlashKept ==
  ASSUME Ordered, AckInv, OnceInv,
         NEW t \in Targets, NEW m \in requests, Receive(t, m),
         NEW p \in Programmers, hdr[p].op = "OP_READ", registered'[t] = p,
         \E x \in handled[t] : x.src = p /\ x.n = sent[p]
  PROVE  registered[t] = p /\ flash'[t] = flash[t]
<1>0. /\ TypeInv
      /\ registered \in [Targets -> Programmers \cup {Nobody}]
      /\ heard \in [Targets -> [Programmers -> Nat]]
      /\ m \in Request
      /\ sent[p] \in Nat
  BY DEF OnceInv, TypeInv, TypeOK
<1>1. m.n >= heard[t][m.src] /\ (Drops(t, m) \/ RefusesSender(t, m) \/ Serves(t, m))
  BY <1>0, HearForm
<1>2. CASE m.src = p
  <2>1. heard[t][p] \in Nat /\ heard[t][p] >= sent[p] /\ m.n \in Nat /\ m.n <= sent[p]
    BY <1>0, <1>2 DEF OnceInv, HeardOK, OneRequest, Request
  <2>2. m.n = sent[p]
    <3>1. m.n >= heard[t][p]
      BY <1>1, <1>2
    <3>2. \A a, b, c \in Nat : b >= a /\ c <= a /\ c >= b => c = a
      OBVIOUS
    <3> HIDE <1>0
    <3>3. sent[p] \in Nat
      BY <1>0
    <3> QED BY ONLY <2>1, <3>1, <3>2, <3>3, ZenonT(30)
  <2>3. m.op = "OP_READ"
    BY <1>2, <2>2 DEF AckInv, RequestsOK, Newest, InBuffer
  <2>4. UNCHANGED <<flash, registered>>
    BY <2>3
    DEF Receive, DropDuplicate, RefuseStranger, Register, ErasePage, WriteSector, ReadBlock,
        RefuseParam, Unsupported, RegisterOps, targetVars
  <2> QED BY <2>4
<1>3. CASE m.src # p
  <2>1. ~Serves(t, m)
    BY <1>0, <1>3 DEF Serves
  <2> QED BY <1>1, <2>1 DEF Drops, RefusesSender
<1> QED BY <1>2, <1>3

\* A step of a target is about its own memory.
LEMMA OthersKept ==
  ASSUME TypeInv, NEW t \in Targets, NEW m \in requests, Receive(t, m),
         NEW u \in Targets, u # t
  PROVE  flash'[u] = flash[u] /\ registered'[u] = registered[u]
<1>1. flash \in [Targets -> Memory] /\ registered \in [Targets -> Programmers \cup {Nobody}]
  BY DEF TypeInv, TypeOK
<1>2. CASE UNCHANGED flash
  <2>1. UNCHANGED registered \/ registered' = [registered EXCEPT ![t] = m.src]
    BY DEF Receive, DropDuplicate, RefuseStranger, Register, ErasePage, WriteSector, ReadBlock,
           RefuseParam, Unsupported, targetVars
  <2> QED BY <1>1, <1>2, <2>1
<1>3. CASE ErasePage(t, m)
  BY <1>1, <1>3 DEF ErasePage
<1>4. CASE WriteSector(t, m)
  BY <1>1, <1>4 DEF WriteSector
<1> QED
  BY <1>2, <1>3, <1>4
  DEF Receive, DropDuplicate, RefuseStranger, Register, ReadBlock, RefuseParam, Unsupported,
      targetVars

\* read() returns only with the payload of a reply.
LEMMA ReadReturns ==
  ASSUME AckInv, NEW p \in Programmers, Programmer(p),
         outcome'[p] = "ok", hdr'[p].op = "OP_READ"
  PROVE  \E r \in replies : DataDone(p, r)
<1>0. TypeInv /\ outcome \in [Programmers -> Outcome]
  BY DEF AckInv, BcastInv, TypeInv, TypeOK
<1>1. CASE StartCall(p)
  <2>1. CASE Begins(p)
    <3> PICK h \in Header, b \in Body, dst \in Destination, allowed \in BOOLEAN :
               Communicate(p, h, b, dst, allowed)
      BY <2>1 DEF Begins
    <3> QED BY <1>0 DEF Communicate
  <2>2. CASE Refused(p)
    BY <1>0, <2>2 DEF Refused, Refuse
  <2> QED BY <1>0, <1>1, <2>1, <2>2, StartCallForm
<1>2. ASSUME NEW what, what # "ok", Throw(p, what) PROVE FALSE
  BY <1>0, <1>2 DEF Throw
<1>3. CASE Timeout(p)
  <2>1. tries[p] > 0 /\ outcome[p] = "pending"
    BY <1>3 DEF Timeout, AckInv, PendingOK
  <2> QED BY <1>2, <1>3, <2>1 DEF Timeout
<1>4. CASE RefuseFrame(p)
  BY <1>2, <1>4 DEF RefuseFrame
<1>5. CASE \E r \in replies : TakeReply(p, r)
  <2> PICK r \in replies : TakeReply(p, r)
    BY <1>5
  <2>1. CASE Reject(p, r)
    <3>1. Complaint(p, r) # "ok"
      BY <2>1 DEF Complaint, ErrorStatus
    <3> QED BY <1>2, <2>1, <3>1 DEF Reject
  <2>2. CASE DiscoverDone(p, r) \/ CommandDone(p, r)
    <3>1. hdr' = hdr /\ hdr[p].op # "OP_READ"
      BY <2>2 DEF DiscoverDone, CommandDone, Done, bufVars, RegisterOps
    <3> QED BY <3>1
  <2> QED BY <2>1, <2>2 DEF TakeReply
<1> QED BY <1>1, <1>3, <1>4, <1>5 DEF Programmer

\* p does not disturb what the others, or a target, know.
LEMMA OtherProgrammersKept ==
  ASSUME TypeInv, NEW p \in Programmers, Programmer(p), NEW q \in Programmers, q # p
  PROVE  /\ sent'[q] = sent[q] /\ hdr'[q] = hdr[q] /\ txAddr'[q] = txAddr[q]
         /\ rx'[q] = rx[q] /\ outcome'[q] = outcome[q]
<1>0. /\ sent \in [Programmers -> Nat]
      /\ hdr \in [Programmers -> Header]
      /\ txAddr \in [Programmers -> Destination]
      /\ rx \in [Programmers -> Seq(Word \cup DeviceIds)]
      /\ outcome \in [Programmers -> Outcome]
  BY DEF TypeInv, TypeOK
<1>1. ASSUME NEW h, NEW b, NEW dst, NEW allowed, Transmit(p, h, b, dst, allowed)
      PROVE  sent'[q] = sent[q]
  BY <1>0, <1>1 DEF Transmit
<1>2. ASSUME NEW what, Throw(p, what) PROVE outcome'[q] = outcome[q]
  BY <1>0, <1>2 DEF Throw
<1>3. CASE StartCall(p)
  <2>1. CASE Begins(p)
    <3> PICK h \in Header, b \in Body, dst \in Destination, allowed \in BOOLEAN :
               Communicate(p, h, b, dst, allowed)
      BY <2>1 DEF Begins
    <3> QED BY <1>0, <1>1 DEF Communicate, devVars
  <2>2. CASE Refused(p)
    BY <1>0, <2>2 DEF Refused, Refuse, pathVars, bufVars, devVars
  <2> QED BY <1>3, <2>1, <2>2, StartCallForm
<1>4. CASE Timeout(p)
  BY <1>0, <1>1, <1>2, <1>4 DEF Timeout, bufVars, devVars
<1>5. CASE RefuseFrame(p)
  BY <1>2, <1>5 DEF RefuseFrame, pathVars, bufVars, devVars
<1>6. CASE \E r \in replies : TakeReply(p, r)
  <2> PICK r \in replies : TakeReply(p, r)
    BY <1>6
  <2>1. CASE Reject(p, r)
    BY <1>2, <2>1 DEF Reject, pathVars, bufVars, devVars
  <2>2. CASE DiscoverDone(p, r) \/ DataDone(p, r) \/ CommandDone(p, r)
    BY <1>0, <2>2 DEF DiscoverDone, DataDone, CommandDone, pathVars, bufVars, devVars
  <2> QED BY <2>1, <2>2 DEF TakeReply
<1> QED BY <1>3, <1>4, <1>5, <1>6 DEF Programmer

\* The parts of CurrentInv that are its own.
CurrentParts == ReadReplies /\ ReadIsCurrent

LEMMA ProgrammerCurrent ==
  ASSUME Lifetime <= SeqMod, CurrentInv,
         NEW p \in Programmers, Programmer(p), UNCHANGED targetVars
  PROVE  CurrentParts'
<1>0. /\ TypeInv /\ AckInv
      /\ sent \in [Programmers -> Nat]
      /\ hdr \in [Programmers -> Header]
      /\ rx \in [Programmers -> Seq(Word \cup DeviceIds)]
      /\ replies \subseteq Reply
  BY DEF CurrentInv, OnceInv, TypeInv, TypeOK
<1>1. UNCHANGED <<flash, registered>>
  BY DEF targetVars
<1>2. ReadReplies'
  <2>1. CASE UNCHANGED <<replies, sent, hdr>>
    BY <1>1, <2>1 DEF CurrentInv, ReadReplies
  <2>2. CASE Transmits(p)
    <3> SUFFICES ASSUME NEW r \in replies', r.op = "OP_READ", r.status = "STATUS_OK",
                        r.n = sent'[r.dst], registered[r.src] = r.dst
                 PROVE  r.payload = Words(flash[r.src], hdr'[r.dst].addr, hdr'[r.dst].len)
      BY <1>1 DEF ReadReplies
    <3>1. sent' = [sent EXCEPT ![p] = @ + 1] /\ r \in replies
      BY <2>2 DEF Transmits, Transmit, RepliesAfter
    <3>2. r.dst \in Programmers /\ r.n <= sent[r.dst]
      BY <1>0, <3>1 DEF Reply, AckInv, RepliesInFlight, InFlight
    <3>3. r.dst # p
      BY <1>0, <3>1, <3>2
    <3> QED BY <1>0, <3>1, <3>2, <3>3, OtherProgrammersKept DEF CurrentInv, ReadReplies
  <2> QED BY <1>0, <2>1, <2>2, ProgrammerForm
<1>3. ReadIsCurrent'
  <2> SUFFICES ASSUME NEW q \in Programmers, NEW t \in Targets,
                      outcome'[q] = "ok", hdr'[q].op = "OP_READ", txAddr'[q] = t,
                      registered[t] = q
               PROVE  rx'[q] = Words(flash[t], hdr'[q].addr, hdr'[q].len)
    BY <1>1 DEF ReadIsCurrent
  <2>1. CASE q # p
    <3>1. /\ hdr'[q] = hdr[q] /\ txAddr'[q] = txAddr[q]
          /\ rx'[q] = rx[q] /\ outcome'[q] = outcome[q]
      BY <1>0, <2>1, OtherProgrammersKept
    <3> QED BY <3>1 DEF CurrentInv, ReadIsCurrent
  <2>2. CASE q = p
    <3> PICK r \in replies : DataDone(p, r)
      BY <1>0, <2>2, ReadReturns
    <3>1. Done(p, r) /\ UNCHANGED <<hdr, txAddr>>
      BY DEF DataDone, bufVars
    <3>2. r.op = "OP_READ" /\ r.status = "STATUS_OK" /\ r.dst = p
      BY <2>2, <3>1 DEF Done, Takes
    <3>3. r.n = sent[p]
      BY <1>0, <3>1, TakesNewest DEF Done
    <3>4. r.src = t
      BY <1>0, <2>2, <3>1, <3>2, DoneMeansHandled DEF RegisterOps
    <3>5. r.payload = Words(flash[t], hdr[p].addr, hdr[p].len)
      BY <2>2, <3>2, <3>3, <3>4 DEF CurrentInv, ReadReplies
    <3>6. rx'[p] = r.payload
      BY <1>0, <2>2 DEF DataDone, AckInv, BcastInv, TypeInv, TypeOK
    <3> QED BY <2>2, <3>1, <3>5, <3>6
  <2> QED BY <2>1, <2>2
<1> QED BY <1>2, <1>3 DEF CurrentParts

LEMMA ReceiveCurrent ==
  ASSUME Ordered, CurrentInv, UNCHANGED progVars,
         NEW t \in Targets, NEW m \in requests, Receive(t, m)
  PROVE  CurrentParts'
<1>0. /\ TypeInv /\ AckInv /\ OnceInv
      /\ replies \subseteq Reply
      /\ handled \in [Targets -> SUBSET Request]
  BY DEF CurrentInv, OnceInv, TypeInv, TypeOK
<1>1. UNCHANGED <<sent, hdr, outcome, txAddr, rx>>
  BY ReceiveForm DEF progVars
<1>2. ASSUME NEW r \in replies, r.op = "OP_READ", r.status = "STATUS_OK",
             r.n = sent[r.dst], registered'[r.src] = r.dst
      PROVE  r.payload = Words(flash'[r.src], hdr[r.dst].addr, hdr[r.dst].len)
  <2>1. r.src \in Targets /\ r.dst \in Programmers
    BY <1>0 DEF Reply
  <2>2. PICK x \in handled[r.src] : x.src = r.dst /\ x.n = sent[r.dst] /\ x.op = "OP_READ"
    BY <1>0, <1>2 DEF AckInv, OkMeansHandled
  <2>3. hdr[r.dst].op = "OP_READ"
    BY <1>0, <2>1, <2>2 DEF AckInv, HandledOK, Newest, InBuffer
  <2>4. registered[r.src] = r.dst /\ flash'[r.src] = flash[r.src]
    BY <1>0, <1>2, <2>1, <2>2, <2>3, FlashKept, OthersKept
  <2> QED BY <1>2, <2>4 DEF CurrentInv, ReadReplies
<1>3. ASSUME NEW r \in replies' \ replies, r.op = "OP_READ", r.status = "STATUS_OK",
             r.n = sent[r.dst]
      PROVE  r.payload = Words(flash'[r.src], hdr[r.dst].addr, hdr[r.dst].len)
  <2>1. r.src = t /\ r.dst = m.src /\ r.n = m.n /\ r.op = m.op
    BY ReceiveForm
  <2>2. ReadBlock(t, m)
    BY <1>3, <2>1
    DEF Receive, DropDuplicate, RefuseStranger, Register, ErasePage, WriteSector, RefuseParam,
        Unsupported, Send, Answer, RegisterOps, MemoryOps
  <2>3. r.payload = Words(flash[t], m.addr, m.len) /\ flash' = flash
    BY <1>3, <2>2 DEF ReadBlock, Report, Send, Answer
  <2>4. m.addr = hdr[m.src].addr /\ m.len = hdr[m.src].len
    BY <1>0, <1>3, <2>1 DEF AckInv, RequestsOK, Newest, InBuffer
  <2> QED BY <2>1, <2>3, <2>4
<1>4. ReadReplies'
  BY <1>1, <1>2, <1>3 DEF ReadReplies
<1>5. ReadIsCurrent'
  <2> SUFFICES ASSUME NEW p \in Programmers, NEW u \in Targets,
                      outcome[p] = "ok", hdr[p].op = "OP_READ", txAddr[p] = u,
                      registered'[u] = p
               PROVE  rx[p] = Words(flash'[u], hdr[p].addr, hdr[p].len)
    BY <1>1 DEF ReadIsCurrent
  <2>1. \E x \in handled[u] : x.src = p /\ x.n = sent[p]
    BY <1>0 DEF AckInv, AckMeansExecuted, Executed, InBuffer
  <2>2. registered[u] = p /\ flash'[u] = flash[u]
    BY <1>0, <2>1, FlashKept, OthersKept
  <2> QED BY <2>2 DEF CurrentInv, ReadIsCurrent
<1> QED BY <1>4, <1>5 DEF CurrentParts

LEMMA CurrentNext ==
  ASSUME Ordered, MaxRestarts = 0, Lifetime <= SeqMod
  PROVE  CurrentInv /\ [Next]_vars => CurrentInv'
<1> SUFFICES ASSUME CurrentInv, [Next]_vars PROVE CurrentInv'
  OBVIOUS
<1>1. AckInv' /\ OnceInv'
  BY AckNext, OnceNext DEF CurrentInv
<1>2. ASSUME NEW t \in Targets, Restart(t) PROVE FALSE
  BY <1>2 DEF Restart, CurrentInv, OnceInv, TypeInv, TypeOK
<1>3. ASSUME Exhausted \/ UNCHANGED vars PROVE CurrentParts'
  <2>1. UNCHANGED <<replies, sent, hdr, txAddr, rx, outcome, flash, registered>>
    BY <1>3 DEF Exhausted, vars, pathVars, progVars, targetVars
  <2> QED BY <2>1 DEF CurrentInv, CurrentParts, ReadReplies, ReadIsCurrent
<1>4. ASSUME NEW p \in Programmers, Programmer(p), UNCHANGED targetVars PROVE CurrentParts'
  BY <1>4, ProgrammerCurrent
<1>5. ASSUME NEW t \in Targets, NEW m \in requests, Receive(t, m), UNCHANGED progVars
      PROVE  CurrentParts'
  BY <1>5, ReceiveCurrent
<1>6. CurrentParts'
  BY <1>2, <1>3, <1>4, <1>5 DEF Next
<1> QED BY <1>1, <1>6 DEF CurrentInv, CurrentParts

LEMMA CurrentInit == Init => CurrentInv
<1> SUFFICES ASSUME Init PROVE CurrentInv
  OBVIOUS
<1>1. replies = {} /\ outcome = [p \in Programmers |-> "none"]
  BY DEF Init, PathInit, ProgInit
<1> QED BY <1>1, AckInit, OnceInit DEF CurrentInv, ReadReplies, ReadIsCurrent

\* On such a path what read() has returned is what the flash holds, until the caller makes
\* another call or someone else takes the target over: no retry or late copy of an earlier
\* write or erase takes effect behind it.
THEOREM ReadsCurrent ==
  ASSUME Ordered, MaxRestarts = 0, Lifetime <= SeqMod
  PROVE  Spec => []ReadIsCurrent
<1>1. CurrentInv => ReadIsCurrent
  BY DEF CurrentInv
<1>2. CurrentInv /\ [Next]_vars => CurrentInv'
  BY CurrentNext
<1> QED BY <1>1, <1>2, CurrentInit, PTL DEF Spec
=============================================================================
