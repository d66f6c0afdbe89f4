---------------------------- MODULE SessionProofs ----------------------------
(***************************************************************************)
(* What holds of a session for all programmers, targets, arguments and     *)
(* bounds.                                                                 *)
(***************************************************************************)
EXTENDS Session, TLAPS

(***************************************************************************)
(* The inductive invariant                                                 *)
(***************************************************************************)

\* The sequence number d transmissions before the one that has s, d < SeqMod.
Back(s, d) == IF s >= d THEN s - d ELSE s - d + SeqMod

\* Transmission n of p is young enough to be in flight and has sequence number s.
InFlight(p, n, s) ==
  /\ n <= sent[p]
  /\ n + Lifetime > sent[p]
  /\ s = Back(seq[p], sent[p] - n)

\* The newest transmission of p carries its buffer, and goes where p waits for it.
Newest(p, m) ==
  m.n = sent[p] => InBuffer(p, m) /\ (tries[p] > 0 => m.dst = txAddr[p])

RequestsOK ==
  \A m \in requests :
    /\ InFlight(m.src, m.n, m.seq)
    /\ Newest(m.src, m)

\* A target has handled requests addressed to it or to everybody.
HandledOK ==
  \A t \in Targets : \A m \in handled[t] :
    /\ m.n <= sent[m.src]
    /\ m.dst \in {t, Broadcast}
    /\ m.dst = Broadcast => m.op \in RegisterOps
    /\ Newest(m.src, m)

RepliesInFlight == \A r \in replies : InFlight(r.dst, r.n, r.seq)

\* STATUS_OK is the answer to a request that was carried out.
OkMeansHandled ==
  \A r \in replies :
    r.status = "STATUS_OK" =>
      \E m \in handled[r.src] : m.src = r.dst /\ m.n = r.n /\ m.op = r.op

\* A DiscoverReply carries the device id.
DiscoverReplyOK ==
  \A r \in replies :
    r.op \in RegisterOps /\ r.status = "STATUS_OK" => r.payload = <<DeviceId[r.src]>>

\* Broadcasts are allowed while a discovery is waiting, and at no other time.
BroadcastOK ==
  \A p \in Programmers : bcast[p] => tries[p] > 0 /\ hdr[p].op \in RegisterOps

PendingOK == \A p \in Programmers : tries[p] > 0 => outcome[p] = "pending"

TypeInv  == TypeOK /\ DiscoverReplyOK
BcastInv == TypeInv /\ BroadcastOK /\ NoBroadcastFlashOp
AckInv   ==
  /\ BcastInv
  /\ PendingOK
  /\ RequestsOK
  /\ HandledOK
  /\ RepliesInFlight
  /\ OkMeansHandled
  /\ AckMeansExecuted

-----------------------------------------------------------------------------
(***************************************************************************)
(* Types                                                                   *)
(***************************************************************************)
USE DEF MAX_TRIES

\* A sequence number counted up is a sequence number.
LEMMA NextSeqType == ASSUME NEW s \in SeqNo PROVE NextSeq(s) \in SeqNo
  BY ProtocolAssumption DEF SeqNo, NextSeq

\* The words of a range inside the flash are a sequence of words.
LEMMA WordsType ==
  ASSUME NEW mem \in Memory, NEW a \in Nat, NEW l \in Nat, a + l <= FLASH_SIZE
  PROVE  Words(mem, a, l) \in Seq(Word \cup DeviceIds)
<1>1. \A i \in 1 .. l : a + i - 1 \in 0 .. FLASH_SIZE - 1
  BY ProtocolAssumption
<1>2. \A i \in 1 .. l : mem[a + i - 1] \in Word \cup DeviceIds
  BY <1>1 DEF Memory
<1> QED BY <1>2 DEF Words

\* The initial states have the types.
LEMMA TypeInit == Init => TypeInv
<1> SUFFICES ASSUME Init PROVE TypeInv
  OBVIOUS
<1>1. \A a \in {0, FLASH_SIZE} : [op |-> "OP_DISCOVER", addr |-> a, len |-> 0] \in Header
  BY ProtocolAssumption DEF Header, Length, Operation, RegisterOps
<1>2. flash \in [Targets -> Memory]
  BY TargetAssumption DEF Init, TargetInit, Memory
<1>3. 0 \in SeqNo
  BY ProtocolAssumption DEF SeqNo
<1>4. restarts \in 0 .. MaxRestarts
  BY TargetAssumption DEF Init, TargetInit
<1>5. <<>> \in Seq(Word \cup DeviceIds)
  OBVIOUS
<1>6. hdr \in [Programmers -> Header]
  BY <1>1 DEF Init, ProgInit
<1>7. requests \subseteq Request /\ replies \subseteq Reply /\ DiscoverReplyOK
  BY DEF Init, PathInit, DiscoverReplyOK
<1>8. /\ sent \in [Programmers -> Nat]
      /\ heard \in [Targets -> [Programmers -> Nat]]
  BY DEF Init, PathInit
<1>9. /\ tries \in [Programmers -> 0 .. MAX_TRIES]
      /\ seq \in [Programmers -> SeqNo]
      /\ body \in [Programmers -> Body]
      /\ txAddr \in [Programmers -> Destination]
      /\ bcast \in [Programmers -> BOOLEAN]
      /\ boot \in [Programmers -> DeviceIds \cup {NoDevice}]
      /\ devDesc \in [Programmers -> Supported \cup {NoDevice}]
      /\ rx \in [Programmers -> Seq(Word \cup DeviceIds)]
      /\ outcome \in [Programmers -> Outcome]
  BY <1>5 DEF Init, ProgInit, Body, Destination, Outcome
<1>10. /\ registered \in [Targets -> Programmers \cup {Nobody}]
       /\ lastSeq \in [Targets -> SeqNo]
       /\ handled \in [Targets -> SUBSET Request]
  BY <1>3 DEF Init, TargetInit
<1> QED
  BY <1>2, <1>4, <1>6, <1>7, <1>8, <1>9, <1>10 DEF TypeInv, TypeOK

\* What a transmission of a well-typed frame leaves behind.
LEMMA TransmitType ==
  ASSUME TypeInv,
         NEW p \in Programmers, NEW h \in Header, NEW b \in Body,
         NEW dst \in Destination, NEW allowed \in BOOLEAN,
         Transmit(p, h, b, dst, allowed)
  PROVE  /\ requests' \subseteq Request
         /\ replies' \subseteq replies
         /\ sent' \in [Programmers -> Nat]
         /\ seq' \in [Programmers -> SeqNo]
<1>1. sent' \in [Programmers -> Nat]
  BY DEF TypeInv, TypeOK, Transmit
<1>2. seq' \in [Programmers -> SeqNo]
  BY NextSeqType DEF TypeInv, TypeOK, Transmit
<1>3. replies' \subseteq replies
  BY DEF Transmit, RepliesAfter
<1>4. ASSUME CanSend(dst, allowed) PROVE Frame(p, h, b, dst) \in Request
  <2>1. dst \in Targets \cup {Broadcast}
    BY <1>4 DEF CanSend
  <2>2. NextSeq(seq[p]) \in SeqNo /\ sent[p] + 1 \in Nat
    BY NextSeqType DEF TypeInv, TypeOK
  <2> QED BY <2>1, <2>2 DEF Frame, Request, Header
<1>5. requests' \subseteq Request
  BY <1>4 DEF Transmit, RequestsAfter, TypeInv, TypeOK
<1> QED BY <1>1, <1>2, <1>3, <1>5

\* A call that starts, or fails to start, keeps the types.
LEMMA CommunicateType ==
  ASSUME TypeInv, UNCHANGED targetVars,
         NEW p \in Programmers, NEW h \in Header, NEW b \in Body,
         NEW dst \in Destination, NEW allowed \in BOOLEAN,
         Communicate(p, h, b, dst, allowed)
  PROVE  TypeInv'
<1>1. Transmit(p, h, b, dst, allowed)
  BY DEF Communicate
<1>2. /\ requests' \subseteq Request
      /\ replies' \subseteq replies
      /\ sent' \in [Programmers -> Nat]
      /\ seq' \in [Programmers -> SeqNo]
  BY <1>1, TransmitType
<1>3. /\ tries' \in [Programmers -> 0 .. MAX_TRIES]
      /\ hdr' \in [Programmers -> Header]
      /\ body' \in [Programmers -> Body]
      /\ txAddr' \in [Programmers -> Destination]
      /\ bcast' \in [Programmers -> BOOLEAN]
      /\ outcome' \in [Programmers -> Outcome]
  BY DEF Communicate, TypeInv, TypeOK, Outcome
<1>4. UNCHANGED <<heard, boot, devDesc, rx, flash, registered, lastSeq, restarts, handled>>
  BY DEF Communicate, devVars, targetVars
<1>5. DiscoverReplyOK'
  BY <1>2 DEF TypeInv, DiscoverReplyOK
<1> QED BY <1>2, <1>3, <1>4, <1>5 DEF TypeInv, TypeOK

\* A call begins with a frame to an address it may use, ...
Begins(p) ==
  \E h \in Header, b \in Body, dst \in Destination, allowed \in BOOLEAN :
    /\ Communicate(p, h, b, dst, allowed)
    /\ \/ allowed = bcast[p]
       \/ dst = Broadcast /\ h.op \in RegisterOps

\* ... or is refused without one.
Refused(p) == \E what \in {"not_connected", "refused", "unsupported"} : Refuse(p, what)

LEMMA StartCallForm ==
  ASSUME TypeInv, NEW p \in Programmers, StartCall(p)
  PROVE  Begins(p) \/ Refused(p)
<1>1. \A op \in Operation, a \in Nat, l \in Nat :
        Select(op, a, l) \in Header /\ Select(op, a, l).op = op
  BY ProtocolAssumption DEF Select, Header, Length
<1>2. \A op \in Operation : Prepare(p, op) \in Header /\ Prepare(p, op).op = op
  BY ZenonT(30) DEF Prepare, Header, TypeInv, TypeOK
<1>3. /\ txAddr[p] \in Destination
      /\ bcast[p] \in BOOLEAN
      /\ Broadcast \in Destination
      /\ NoBody \in Body
  BY DEF TypeInv, TypeOK, Destination, Body
<1>4. /\ {"OP_DISCOVER", "OP_NET_CONFIG", "OP_READ", "OP_ERASE", "OP_RESET", "OP_WRITE",
          "OP_CHECKSUM"} \subseteq Operation
      /\ 0 \in Nat /\ WRITE_SIZE \in Nat
      /\ {"OP_DISCOVER", "OP_NET_CONFIG"} = RegisterOps
  BY ProtocolAssumption DEF Operation, RegisterOps, MemoryOps
<1>5. ASSUME NEW h \in Header, NEW b \in Body, Checked(p, h, b)
      PROVE  Begins(p) \/ Refused(p)
  <2>1. CASE Communicate(p, h, b, txAddr[p], bcast[p])
    BY <1>3, <2>1 DEF Begins
  <2>2. CASE Refuse(p, "not_connected")
    BY <2>2 DEF Refused
  <2> QED BY <1>5, <2>1, <2>2 DEF Checked
<1>6. CASE Discover(p)
  <2> DEFINE h == Select("OP_DISCOVER", 0, 0)
  <2>1. h \in Header /\ h.op \in RegisterOps
    BY <1>1, <1>4
  <2>2. Communicate(p, h, NoBody, Broadcast, TRUE)
    BY <1>6 DEF Discover
  <2> QED BY <1>3, <2>1, <2>2 DEF Begins
<1>7. CASE Configure(p)
  <2> DEFINE h == Prepare(p, "OP_NET_CONFIG")
  <2>1. h \in Header /\ h.op \in RegisterOps
    BY <1>2, <1>4
  <2>2. Communicate(p, h, NoBody, Broadcast, TRUE)
    BY <1>7 DEF Configure
  <2> QED BY <1>3, <2>1, <2>2 DEF Begins
<1>8. CASE \E t \in Targets : Connect(p, t)
  <2> PICK t \in Targets : Connect(p, t)
    BY <1>8
  <2> DEFINE h == Select("OP_DISCOVER", 0, 0)
  <2>1. h \in Header /\ t \in Destination
    BY <1>1, <1>4 DEF Destination
  <2>2. Communicate(p, h, NoBody, t, bcast[p])
    BY DEF Connect
  <2> QED BY <1>3, <2>1, <2>2 DEF Begins
<1>9. CASE Reset(p)
  BY <1>1, <1>3, <1>4, <1>5, <1>9 DEF Reset
<1>10. CASE Checksum(p, 0, WRITE_SIZE)
  <2> DEFINE h == Select("OP_CHECKSUM", 0, WRITE_SIZE)
  <2>1. h \in Header
    BY <1>1, <1>4
  <2>2. Communicate(p, h, NoBody, txAddr[p], bcast[p])
    BY <1>10 DEF Checksum
  <2> QED BY <1>3, <2>1, <2>2 DEF Begins
<1>11. ASSUME NEW a \in Nat, NEW l \in Nat, Read(p, a, l)
       PROVE  Begins(p) \/ Refused(p)
  BY <1>1, <1>3, <1>4, <1>5, <1>11 DEF Read
<1>12. ASSUME NEW a \in Nat, Erase(p, a)
       PROVE  Begins(p) \/ Refused(p)
  BY <1>1, <1>3, <1>4, <1>5, <1>12 DEF Erase
<1>13. ASSUME NEW a \in Nat, NEW d, Write(p, a, d)
       PROVE  Begins(p) \/ Refused(p)
  <2> PICK block \in Copied(d) :
             Checked(p, Prepare(p, "OP_WRITE"), [address |-> a, data |-> block])
    BY <1>13 DEF Write
  <2> [address |-> a, data |-> block] \in Body
    BY DEF Body, Copied
  <2> QED BY <1>2, <1>4, <1>5
<1>14. ASSUME NEW what \in {"refused", "unsupported"}, Refuse(p, what)
       PROVE  Begins(p) \/ Refused(p)
  BY <1>14 DEF Refused
<1>15. /\ \A c \in Reads : c[1] \in Nat /\ c[2] \in Nat
       /\ \A a \in Erases : a \in Nat
       /\ \A w \in Writes : w[1] \in Nat
  BY SessionAssumption
<1>16. CASE StartSelection(p)
  BY <1>6, <1>7, <1>8, <1>16 DEF StartSelection
<1>17. CASE StartDirect(p)
  BY <1>9, <1>10, <1>11, <1>12, <1>13, <1>15, <1>17 DEF StartDirect
<1>18. CASE StartFacade(p)
  <2>1. CASE \E c \in Reads : FacadeRead(p, c[1], c[2])
    BY <1>11, <1>14, <1>15, <2>1 DEF FacadeRead
  <2>2. CASE \E a \in Erases : FacadeErase(p, a)
    BY <1>12, <1>14, <1>15, <2>2 DEF FacadeErase
  <2>3. CASE \E w \in Writes : FacadeWrite(p, w[1], w[2])
    BY <1>13, <1>14, <1>15, <2>3 DEF FacadeWrite
  <2>4. CASE \E w \in Writes : FacadeEraseWrite(p, w[1], w[2])
    BY <1>13, <1>14, <1>15, <2>4 DEF FacadeEraseWrite
  <2> QED
    BY <1>9, <1>10, <1>14, <1>18, <2>1, <2>2, <2>3, <2>4
    DEF StartFacade, FacadeReset, FacadeChecksum, FacadeChipErase
<1> QED BY <1>16, <1>17, <1>18 DEF StartCall

\* Every call starts with a well-typed frame.
LEMMA StartCallType ==
  ASSUME TypeInv, UNCHANGED targetVars, NEW p \in Programmers, StartCall(p)
  PROVE  TypeInv'
<1>1. CASE Begins(p)
  BY <1>1, CommunicateType DEF Begins
<1>2. CASE Refused(p)
  <2> PICK what \in {"not_connected", "refused", "unsupported"} : Refuse(p, what)
    BY <1>2 DEF Refused
  <2>1. outcome' \in [Programmers -> Outcome]
    BY DEF Refuse, TypeInv, TypeOK, Outcome
  <2> QED
    BY <2>1
    DEF Refuse, TypeInv, TypeOK, DiscoverReplyOK, pathVars, bufVars, devVars, targetVars
<1> QED BY <1>1, <1>2, StartCallForm

\* A call that waits, and one that ends, keep the types.
LEMMA OpenCallType ==
  ASSUME TypeInv, UNCHANGED targetVars, NEW p \in Programmers,
         Timeout(p) \/ RefuseFrame(p) \/ \E r \in replies : TakeReply(p, r)
  PROVE  TypeInv'
<1>0. /\ tries \in [Programmers -> 0 .. MAX_TRIES]
      /\ txAddr \in [Programmers -> Destination]
      /\ bcast \in [Programmers -> BOOLEAN]
      /\ boot \in [Programmers -> DeviceIds \cup {NoDevice}]
      /\ devDesc \in [Programmers -> Supported \cup {NoDevice}]
      /\ rx \in [Programmers -> Seq(Word \cup DeviceIds)]
      /\ outcome \in [Programmers -> Outcome]
  BY DEF TypeInv, TypeOK
<1>1. ASSUME NEW what \in Outcome, Throw(p, what)
      PROVE  /\ tries' \in [Programmers -> 0 .. MAX_TRIES]
             /\ outcome' \in [Programmers -> Outcome]
             /\ bcast' \in [Programmers -> BOOLEAN]
  BY <1>1 DEF Throw, TypeInv, TypeOK
<1>2. {"timeout", "bad_frame", "socket_error", "bad_operation", "bad_status"} \subseteq Outcome
      /\ ErrorStatus \subseteq Outcome
  BY DEF Outcome
<1>3. CASE Timeout(p)
  <2>1. /\ UNCHANGED <<heard, hdr, body, txAddr, boot, devDesc, rx>>
        /\ UNCHANGED <<flash, registered, lastSeq, restarts, handled>>
    BY <1>3 DEF Timeout, bufVars, devVars, targetVars
  <2>2. CASE /\ tries[p] < MAX_TRIES
             /\ Transmit(p, hdr[p], body[p], txAddr[p], bcast[p])
             /\ tries' = [tries EXCEPT ![p] = @ + 1]
             /\ UNCHANGED <<outcome, bcast>>
    <3>1. /\ hdr[p] \in Header /\ body[p] \in Body
          /\ txAddr[p] \in Destination /\ bcast[p] \in BOOLEAN
      BY DEF TypeInv, TypeOK
    <3>2. /\ requests' \subseteq Request
          /\ replies' \subseteq replies
          /\ sent' \in [Programmers -> Nat]
          /\ seq' \in [Programmers -> SeqNo]
      BY <2>2, <3>1, TransmitType
    <3>3. tries' \in [Programmers -> 0 .. MAX_TRIES]
      BY <1>0, <2>2
    <3> QED BY <2>1, <2>2, <3>2, <3>3 DEF TypeInv, TypeOK, DiscoverReplyOK
  <2>3. CASE Throw(p, "timeout") /\ UNCHANGED <<seq, sent, requests, replies>>
    BY <1>1, <1>2, <2>1, <2>3 DEF TypeInv, TypeOK, DiscoverReplyOK
  <2> QED BY <1>3, <2>2, <2>3 DEF Timeout
<1>4. ASSUME NEW what \in Outcome, Throw(p, what),
             UNCHANGED <<pathVars, seq, bufVars, txAddr, devVars>>
      PROVE  TypeInv'
  BY <1>1, <1>4
  DEF TypeInv, TypeOK, DiscoverReplyOK, pathVars, bufVars, devVars, targetVars
<1>5. CASE RefuseFrame(p)
  BY <1>2, <1>4, <1>5 DEF RefuseFrame
<1>6. CASE \E r \in replies : TakeReply(p, r)
  <2> PICK r \in replies : TakeReply(p, r)
    BY <1>6
  <2>1. r \in Reply
    BY DEF TypeInv, TypeOK
  <2>2. CASE Reject(p, r)
    <3>1. UNCHANGED <<pathVars, seq, bufVars, txAddr, devVars>>
      BY <2>2 DEF Reject
    <3>2. Complaint(p, r) \in ErrorStatus \cup {"bad_operation", "bad_status"}
      BY DEF Complaint
    <3>3. Throw(p, Complaint(p, r))
      BY <2>2 DEF Reject
    <3> QED BY <1>2, <1>4, <3>1, <3>2, <3>3
  <2>3. CASE DiscoverDone(p, r)
    <3>1. r.payload = <<DeviceId[r.src]>> /\ r.src \in Targets
      BY <2>1, <2>3 DEF DiscoverDone, Done, TypeInv, DiscoverReplyOK, Reply
    <3>2. Head(r.payload) \in DeviceIds
      BY <3>1, TargetAssumption
    <3>3. /\ tries' \in [Programmers -> 0 .. MAX_TRIES]
          /\ txAddr' \in [Programmers -> Destination]
          /\ bcast' \in [Programmers -> BOOLEAN]
          /\ boot' \in [Programmers -> DeviceIds \cup {NoDevice}]
      <4>1. tries' = [tries EXCEPT ![p] = 0] /\ txAddr' = [txAddr EXCEPT ![p] = r.src]
        BY <2>3 DEF DiscoverDone
      <4>2. bcast' = [bcast EXCEPT ![p] = FALSE] /\ boot' = [boot EXCEPT ![p] = Head(r.payload)]
        BY <2>3 DEF DiscoverDone
      <4> QED BY <1>0, <3>1, <3>2, <4>1, <4>2 DEF Destination
    <3>4. /\ devDesc' \in [Programmers -> Supported \cup {NoDevice}]
          /\ outcome' \in [Programmers -> Outcome]
      <4>1. \/ /\ Head(r.payload) \in Supported
               /\ devDesc' = [devDesc EXCEPT ![p] = Head(r.payload)]
               /\ outcome' = [outcome EXCEPT ![p] = "ok"]
            \/ UNCHANGED devDesc /\ outcome' = [outcome EXCEPT ![p] = "unknown_device"]
        BY <2>3 DEF DiscoverDone
      <4> QED BY <1>0, <4>1 DEF Outcome
    <3>5. UNCHANGED <<requests, replies, sent, heard, seq, hdr, body, rx>>
      BY <2>3 DEF DiscoverDone, pathVars, bufVars
    <3> QED BY <3>3, <3>4, <3>5 DEF TypeInv, TypeOK, DiscoverReplyOK, targetVars
  <2>4. CASE DataDone(p, r)
    <3>1. /\ tries' \in [Programmers -> 0 .. MAX_TRIES]
          /\ rx' \in [Programmers -> Seq(Word \cup DeviceIds)]
          /\ outcome' \in [Programmers -> Outcome]
      <4>1. \/ /\ rx' = [rx EXCEPT ![p] = r.payload]
               /\ outcome' = [outcome EXCEPT ![p] = "ok"]
            \/ UNCHANGED rx /\ outcome' = [outcome EXCEPT ![p] = "no_payload"]
        BY <2>4 DEF DataDone
      <4>2. tries' = [tries EXCEPT ![p] = 0] /\ r.payload \in Seq(Word \cup DeviceIds)
        BY <2>1, <2>4 DEF DataDone, Reply
      <4>3. rx' \in [Programmers -> Seq(Word \cup DeviceIds)]
        BY <1>0, <4>1, <4>2
      <4>4. outcome' \in [Programmers -> Outcome]
        BY <1>0, <4>1 DEF Outcome
      <4>5. tries' \in [Programmers -> 0 .. MAX_TRIES]
        BY <1>0, <4>2
      <4> QED BY <4>3, <4>4, <4>5
    <3>2. UNCHANGED <<requests, replies, sent, heard, seq, hdr, body, txAddr, bcast, boot, devDesc>>
      BY <2>4 DEF DataDone, pathVars, bufVars
    <3> QED BY <3>1, <3>2 DEF TypeInv, TypeOK, DiscoverReplyOK, targetVars
  <2>5. CASE CommandDone(p, r)
    <3>1. /\ tries' \in [Programmers -> 0 .. MAX_TRIES]
          /\ outcome' \in [Programmers -> Outcome]
      BY <2>5 DEF CommandDone, TypeInv, TypeOK, Outcome
    <3>2. /\ UNCHANGED <<requests, replies, sent, heard, seq, hdr, body, txAddr, bcast>>
          /\ UNCHANGED <<boot, devDesc, rx>>
      BY <2>5 DEF CommandDone, pathVars, bufVars, devVars
    <3> QED BY <3>1, <3>2 DEF TypeInv, TypeOK, DiscoverReplyOK, targetVars
  <2> QED BY <2>2, <2>3, <2>4, <2>5 DEF TakeReply
<1> QED BY <1>3, <1>5, <1>6

\* What the target appends to the path keeps its types.
LEMMA SendType ==
  ASSUME TypeInv, NEW answers \in SUBSET Reply, Send(answers),
         \A r \in answers :
           r.op \in RegisterOps /\ r.status = "STATUS_OK" => r.payload = <<DeviceId[r.src]>>
  PROVE  /\ requests' \subseteq Request
         /\ replies' \subseteq Reply
         /\ sent' \in [Programmers -> Nat]
         /\ DiscoverReplyOK'
  BY DEF Send, TypeInv, TypeOK, DiscoverReplyOK

\* Every request a target takes keeps the types.
LEMMA ReceiveType ==
  ASSUME TypeInv, UNCHANGED progVars,
         NEW t \in Targets, NEW m \in requests, Receive(t, m)
  PROVE  TypeInv'
<1>0. /\ flash \in [Targets -> Memory]
      /\ registered \in [Targets -> Programmers \cup {Nobody}]
      /\ lastSeq \in [Targets -> SeqNo]
      /\ handled \in [Targets -> SUBSET Request]
      /\ m \in Request
  BY DEF TypeInv, TypeOK
<1>1. /\ m.src \in Programmers /\ m.n \in Nat /\ m.seq \in SeqNo
      /\ m.op \in Operation /\ m.addr \in Nat /\ m.len \in Nat /\ m.body \in Body
  BY <1>0 DEF Request, Length
<1>2. heard' \in [Targets -> [Programmers -> Nat]]
  <2>1. Hear(t, m)
    BY DEF Receive, DropDuplicate, RefuseStranger, Accept, Register, ErasePage, WriteSector,
           ReadBlock, RefuseParam, Unsupported
  <2> QED BY <1>1, <2>1 DEF Hear, TypeInv, TypeOK
<1>3. ASSUME NEW status \in Status, NEW payload \in Seq(Word \cup DeviceIds)
      PROVE  Answer(t, m, status, payload) \in Reply
  BY <1>1, <1>3 DEF Answer, Reply
<1>4. ASSUME requests' \subseteq Request, replies' \subseteq Reply,
             sent' \in [Programmers -> Nat], DiscoverReplyOK',
             flash' \in [Targets -> Memory],
             registered' \in [Targets -> Programmers \cup {Nobody}],
             lastSeq' \in [Targets -> SeqNo],
             handled' \in [Targets -> SUBSET Request],
             UNCHANGED restarts
      PROVE  TypeInv'
  <2>1. UNCHANGED <<tries, seq, hdr, body, txAddr, bcast, boot, devDesc, rx, outcome>>
    BY DEF progVars
  <2> QED BY <1>2, <1>4, <2>1 DEF TypeInv, TypeOK
<1>5. ASSUME Accept(t, m)
      PROVE  lastSeq' \in [Targets -> SeqNo] /\ UNCHANGED restarts
  BY <1>0, <1>1, <1>5 DEF Accept
<1>6. ASSUME Perform(t, m) PROVE handled' \in [Targets -> SUBSET Request]
  BY <1>0, <1>6 DEF Perform
<1>7. <<>> \in Seq(Word \cup DeviceIds)
  OBVIOUS
<1>8. {"STATUS_OK", "STATUS_INPROGRESS", "STATUS_INV_SRC", "STATUS_INV_OP",
       "STATUS_INV_PARAM"} \subseteq Status
  BY DEF Status, ErrorStatus
<1>9. ASSUME NEW payload \in Seq(Word \cup DeviceIds), Report(t, m, payload),
             m.op \in MemoryOps
      PROVE  /\ requests' \subseteq Request
             /\ replies' \subseteq Reply
             /\ sent' \in [Programmers -> Nat]
             /\ DiscoverReplyOK'
             /\ handled' \in [Targets -> SUBSET Request]
  <2> DEFINE A == {Answer(t, m, "STATUS_INPROGRESS", <<>>), Answer(t, m, "STATUS_OK", payload)}
  <2>1. A \in SUBSET Reply
    BY <1>3, <1>7, <1>8
  <2>2. \A r \in A : r.op \notin RegisterOps
    BY <1>9 DEF Answer, MemoryOps, RegisterOps
  <2>3. Send(A)
    BY <1>9 DEF Report
  <2> HIDE DEF A
  <2> QED BY <1>6, <1>9, <2>1, <2>2, <2>3, SendType DEF Report
<1>10. ASSUME NEW status \in ErrorStatus, Send({Answer(t, m, status, <<>>)})
       PROVE  /\ requests' \subseteq Request
              /\ replies' \subseteq Reply
              /\ sent' \in [Programmers -> Nat]
              /\ DiscoverReplyOK'
  <2> DEFINE A == {Answer(t, m, status, <<>>)}
  <2>1. A \in SUBSET Reply
    BY <1>3, <1>7, <1>8 DEF Status
  <2>2. \A r \in A : r.status # "STATUS_OK"
    BY DEF Answer, ErrorStatus
  <2>3. Send(A)
    BY <1>10
  <2> HIDE DEF A
  <2> QED BY <2>1, <2>2, <2>3, SendType
<1>11. CASE DropDuplicate(t, m)
  BY <1>0, <1>4, <1>11 DEF DropDuplicate, targetVars, TypeInv, TypeOK, DiscoverReplyOK
<1>12. CASE RefuseStranger(t, m)
  BY <1>0, <1>4, <1>10, <1>12 DEF RefuseStranger, targetVars, ErrorStatus
<1>13. CASE Register(t, m)
  <2> DEFINE a == Answer(t, m, "STATUS_OK", <<DeviceId[t]>>)
  <2>1. a \in Reply
    <3>1. DeviceId[t] \in Word \cup DeviceIds
      BY TargetAssumption
    <3>2. <<DeviceId[t]>> \in Seq(Word \cup DeviceIds)
      BY <3>1
    <3> QED BY <1>3, <1>8, <3>2
  <2>2. a.payload = <<DeviceId[a.src]>>
    BY DEF Answer
  <2>3. Send({a})
    BY <1>13 DEF Register
  <2> HIDE DEF a
  <2>4. /\ requests' \subseteq Request
        /\ replies' \subseteq Reply
        /\ sent' \in [Programmers -> Nat]
        /\ DiscoverReplyOK'
    BY <2>1, <2>2, <2>3, SendType
  <2>5. registered' \in [Targets -> Programmers \cup {Nobody}]
    BY <1>0, <1>1, <1>13 DEF Register
  <2> QED BY <1>0, <1>4, <1>5, <1>6, <1>13, <2>4, <2>5 DEF Register
<1>14. CASE ErasePage(t, m)
  <2>1. flash' \in [Targets -> Memory]
    BY <1>0, <1>14, ProtocolAssumption DEF ErasePage, Memory
  <2> QED BY <1>0, <1>4, <1>5, <1>7, <1>9, <1>14, <2>1 DEF ErasePage, MemoryOps
<1>15. CASE WriteSector(t, m)
  <2>1. PICK d \in ReceivedData(m) :
          flash' = [flash EXCEPT ![t] =
                      [i \in DOMAIN @ |-> IF i \in m.addr .. m.addr + WRITE_SIZE - 1
                                          THEN d[i - m.addr] ELSE @[i]]]
    BY <1>15 DEF WriteSector
  <2>2. d \in Block
    BY DEF ReceivedData
  <2>3. \A i \in m.addr .. m.addr + WRITE_SIZE - 1 : d[i - m.addr] \in Word
    BY <1>1, <2>2, ProtocolAssumption DEF Block
  <2>4. flash' \in [Targets -> Memory]
    BY <1>0, <2>1, <2>3 DEF Memory
  <2> QED BY <1>0, <1>4, <1>5, <1>7, <1>9, <1>15, <2>4 DEF WriteSector, MemoryOps
<1>16. CASE ReadBlock(t, m)
  <2>1. Words(flash[t], m.addr, m.len) \in Seq(Word \cup DeviceIds)
    BY <1>0, <1>1, <1>16, WordsType DEF ReadBlock, ValidRead
  <2> QED BY <1>0, <1>4, <1>5, <1>9, <1>16, <2>1 DEF ReadBlock, MemoryOps
<1>17. CASE RefuseParam(t, m)
  BY <1>0, <1>4, <1>5, <1>10, <1>17 DEF RefuseParam, ErrorStatus
<1>18. CASE Unsupported(t, m)
  BY <1>0, <1>4, <1>5, <1>10, <1>18 DEF Unsupported, ErrorStatus
<1> QED
  BY <1>11, <1>12, <1>13, <1>14, <1>15, <1>16, <1>17, <1>18 DEF Receive

\* A target that is started again has its initial values.
LEMMA RestartType ==
  ASSUME TypeInv, UNCHANGED progVars, NEW t \in Targets, Restart(t)
  PROVE  TypeInv'
<1>1. UNCHANGED <<requests, replies, sent, heard, handled>>
  BY DEF Restart, pathVars
<1>2. UNCHANGED <<tries, seq, hdr, body, txAddr, bcast, boot, devDesc, rx, outcome>>
  BY DEF progVars
<1>3. flash \in [Targets -> Memory] /\ lastSeq \in [Targets -> SeqNo]
      /\ registered \in [Targets -> Programmers \cup {Nobody}] /\ restarts \in 0 .. MaxRestarts
  BY DEF TypeInv, TypeOK
<1>4. flash' \in [Targets -> Memory]
  BY <1>3, TargetAssumption DEF Restart, Memory
<1>5. lastSeq' \in [Targets -> SeqNo] /\ restarts' \in 0 .. MaxRestarts
  BY <1>3, TargetAssumption, ProtocolAssumption DEF Restart, SeqNo
<1>6. registered' \in [Targets -> Programmers \cup {Nobody}]
  BY <1>3 DEF Restart
<1> QED BY <1>1, <1>2, <1>4, <1>5, <1>6 DEF TypeInv, TypeOK, DiscoverReplyOK

LEMMA TypeNext == TypeInv /\ [Next]_vars => TypeInv'
<1> SUFFICES ASSUME TypeInv, [Next]_vars PROVE TypeInv'
  OBVIOUS
<1>1. ASSUME NEW p \in Programmers, Programmer(p), UNCHANGED targetVars PROVE TypeInv'
  BY <1>1, StartCallType, OpenCallType DEF Programmer
<1>2. ASSUME NEW t \in Targets, NEW m \in requests, Receive(t, m), UNCHANGED progVars
      PROVE  TypeInv'
  BY <1>2, ReceiveType
<1>3. ASSUME NEW t \in Targets, Restart(t), UNCHANGED progVars PROVE TypeInv'
  BY <1>3, RestartType
<1>4. CASE Exhausted \/ UNCHANGED vars
  <2>1. UNCHANGED vars
    BY <1>4 DEF Exhausted
  <2>2. /\ UNCHANGED <<requests, replies, sent, heard, tries, seq, hdr, body, txAddr, bcast>>
        /\ UNCHANGED <<boot, devDesc, rx, outcome>>
        /\ UNCHANGED <<flash, registered, lastSeq, restarts, handled>>
    BY <2>1 DEF vars, pathVars, progVars, targetVars
  <2> QED BY <2>2 DEF TypeInv, TypeOK, DiscoverReplyOK
<1> QED BY <1>1, <1>2, <1>3, <1>4 DEF Next

\* Whatever the calls, the losses, the duplicates and the restarts, every variable of
\* programmers, targets and path keeps to the values the code can give it.
THEOREM TypeCorrect == Spec => []TypeOK
<1>1. TypeInv => TypeOK
  BY DEF TypeInv
<1> QED BY <1>1, TypeInit, TypeNext, PTL DEF Spec

-----------------------------------------------------------------------------
(***************************************************************************)
(* Broadcasts                                                              *)
(***************************************************************************)

\* A transmission that may not be broadcast, or is a discovery, keeps to the rule.
LEMMA TransmitBcast ==
  ASSUME TypeInv, NoBroadcastFlashOp,
         NEW p \in Programmers, NEW h \in Header, NEW b \in Body,
         NEW dst \in Destination, NEW allowed \in BOOLEAN,
         Transmit(p, h, b, dst, allowed),
         allowed => h.op \in RegisterOps
  PROVE  NoBroadcastFlashOp'
<1> SUFFICES ASSUME NEW m \in requests', m.dst = Broadcast PROVE m.op \in RegisterOps
  BY DEF NoBroadcastFlashOp
<1>1. CASE m \in requests
  BY <1>1 DEF NoBroadcastFlashOp
<1>2. CASE CanSend(dst, allowed) /\ m = Frame(p, h, b, dst)
  <2>1. dst = Broadcast /\ m.op = h.op
    BY <1>2 DEF Frame
  <2> QED BY <1>2, <2>1, PathAssumption DEF CanSend
<1> QED BY <1>1, <1>2 DEF Transmit, RequestsAfter

\* A call starts with the permission it had, unless it is a discovery.
LEMMA CommunicateBcast ==
  ASSUME BcastInv,
         NEW p \in Programmers, NEW h \in Header, NEW b \in Body,
         NEW dst \in Destination, NEW allowed \in BOOLEAN,
         Communicate(p, h, b, dst, allowed),
         \/ allowed = bcast[p]
         \/ dst = Broadcast /\ h.op \in RegisterOps
  PROVE  BroadcastOK' /\ NoBroadcastFlashOp'
<1>0. /\ tries \in [Programmers -> 0 .. MAX_TRIES]
      /\ hdr \in [Programmers -> Header]
      /\ bcast \in [Programmers -> BOOLEAN]
  BY DEF BcastInv, TypeInv, TypeOK
<1>1. ~bcast[p]
  BY DEF Communicate, BcastInv, BroadcastOK
<1>2. allowed => dst = Broadcast /\ h.op \in RegisterOps
  BY <1>1
<1>3. NoBroadcastFlashOp'
  BY <1>2, TransmitBcast DEF Communicate, BcastInv
<1>4. /\ hdr' = [hdr EXCEPT ![p] = h]
      /\ bcast' = [bcast EXCEPT ![p] = allowed]
      /\ tries' = [tries EXCEPT ![p] = IF CanSend(dst, allowed) THEN 1 ELSE 0]
  BY DEF Communicate
<1>5. ASSUME NEW q \in Programmers, bcast'[q]
      PROVE  tries'[q] > 0 /\ hdr'[q].op \in RegisterOps
  <2>1. CASE q = p
    <3>1. allowed
      BY <1>0, <1>4, <1>5, <2>1
    <3>2. CanSend(dst, allowed)
      BY <1>2, <3>1 DEF CanSend
    <3> QED BY <1>0, <1>2, <1>4, <2>1, <3>1, <3>2
  <2>2. CASE q # p
    <3>1. bcast[q] /\ tries'[q] = tries[q] /\ hdr'[q] = hdr[q]
      BY <1>0, <1>4, <1>5, <2>2
    <3> QED BY <3>1 DEF BcastInv, BroadcastOK
  <2> QED BY <2>1, <2>2
<1> QED BY <1>3, <1>5 DEF BroadcastOK

\* Every call that starts keeps to the rule.
LEMMA StartCallBcast ==
  ASSUME BcastInv, NEW p \in Programmers, StartCall(p)
  PROVE  BroadcastOK' /\ NoBroadcastFlashOp'
<1>1. CASE Begins(p)
  BY <1>1, CommunicateBcast DEF Begins
<1>2. CASE Refused(p)
  BY <1>2 DEF Refused, Refuse, BcastInv, BroadcastOK, NoBroadcastFlashOp, pathVars, bufVars
<1> QED BY <1>1, <1>2, StartCallForm DEF BcastInv

\* A call that waits, and one that ends, keep to the rule.
LEMMA OpenCallBcast ==
  ASSUME BcastInv, NEW p \in Programmers,
         Timeout(p) \/ RefuseFrame(p) \/ \E r \in replies : TakeReply(p, r)
  PROVE  BroadcastOK' /\ NoBroadcastFlashOp'
<1>0. /\ tries \in [Programmers -> 0 .. MAX_TRIES]
      /\ hdr \in [Programmers -> Header]
      /\ body \in [Programmers -> Body]
      /\ txAddr \in [Programmers -> Destination]
      /\ bcast \in [Programmers -> BOOLEAN]
  BY DEF BcastInv, TypeInv, TypeOK
<1>1. \A q \in Programmers : bcast[q] => tries[q] > 0 /\ hdr[q].op \in RegisterOps
  BY DEF BcastInv, BroadcastOK
<1>2. ASSUME bcast' = [bcast EXCEPT ![p] = FALSE], tries' = [tries EXCEPT ![p] = 0],
             UNCHANGED <<requests, hdr>>
      PROVE  BroadcastOK' /\ NoBroadcastFlashOp'
  BY <1>0, <1>1, <1>2 DEF BcastInv, BroadcastOK, NoBroadcastFlashOp
<1>3. ASSUME NEW what, Throw(p, what)
      PROVE  bcast' = [bcast EXCEPT ![p] = FALSE] /\ tries' = [tries EXCEPT ![p] = 0]
  BY <1>0, <1>1, <1>3 DEF Throw
<1>4. CASE Timeout(p)
  <2>1. UNCHANGED hdr
    BY <1>4 DEF Timeout, bufVars
  <2>2. CASE /\ Transmit(p, hdr[p], body[p], txAddr[p], bcast[p])
             /\ tries' = [tries EXCEPT ![p] = @ + 1]
             /\ UNCHANGED bcast
    <3>1. NoBroadcastFlashOp'
      BY <1>0, <1>1, <2>2, TransmitBcast DEF BcastInv
    <3>2. BroadcastOK'
      BY <1>0, <1>1, <2>1, <2>2 DEF BroadcastOK
    <3> QED BY <3>1, <3>2
  <2>3. CASE Throw(p, "timeout") /\ UNCHANGED requests
    BY <1>2, <1>3, <2>1, <2>3
  <2> QED BY <1>4, <2>2, <2>3 DEF Timeout
<1>5. CASE RefuseFrame(p)
  <2>1. PICK what \in {"bad_frame", "socket_error"} : Throw(p, what)
    BY <1>5 DEF RefuseFrame
  <2>2. UNCHANGED <<requests, hdr>>
    BY <1>5 DEF RefuseFrame, pathVars, bufVars
  <2> QED BY <1>2, <1>3, <2>1, <2>2
<1>6. CASE \E r \in replies : TakeReply(p, r)
  <2> PICK r \in replies : TakeReply(p, r)
    BY <1>6
  <2>1. CASE Reject(p, r)
    <3>1. \E what : Throw(p, what)
      BY <2>1 DEF Reject
    <3>2. UNCHANGED <<requests, hdr>>
      BY <2>1 DEF Reject, pathVars, bufVars
    <3> QED BY <1>2, <1>3, <3>1, <3>2
  <2>2. CASE DiscoverDone(p, r)
    BY <1>2, <2>2 DEF DiscoverDone, pathVars, bufVars
  <2>3. ASSUME Done(p, r), r.op \notin RegisterOps, tries' = [tries EXCEPT ![p] = 0],
               UNCHANGED <<requests, hdr, bcast>>
        PROVE  BroadcastOK' /\ NoBroadcastFlashOp'
    <3>1. ~bcast[p]
      BY <1>1, <2>3 DEF Done
    <3> QED BY <1>0, <1>2, <2>3, <3>1
  <2>4. CASE DataDone(p, r)
    BY <2>3, <2>4 DEF DataDone, pathVars, bufVars, RegisterOps
  <2>5. CASE CommandDone(p, r)
    BY <2>3, <2>5 DEF CommandDone, pathVars, bufVars
  <2> QED BY <2>1, <2>2, <2>4, <2>5 DEF TakeReply
<1> QED BY <1>4, <1>5, <1>6

\* A target sends no requests; it answers the one it took, with STATUS_OK only when it
\* has carried it out.
LEMMA ReceiveForm ==
  ASSUME NEW t \in Targets, NEW m \in requests, Receive(t, m)
  PROVE  /\ UNCHANGED <<requests, sent>>
         /\ Arrives(t, m)
         /\ UNCHANGED handled \/ Perform(t, m)
         /\ \A r \in replies' \ replies :
              /\ r.src = t /\ r.dst = m.src /\ r.n = m.n /\ r.seq = m.seq /\ r.op = m.op
              /\ r.status = "STATUS_OK" => Perform(t, m)
<1>1. UNCHANGED <<requests, sent>>
  BY DEF Receive, DropDuplicate, RefuseStranger, Register, ErasePage, WriteSector, ReadBlock,
         RefuseParam, Unsupported, Report, Send
<1>2. Arrives(t, m)
  BY DEF Receive, DropDuplicate, RefuseStranger, Accept, Register, ErasePage, WriteSector,
         ReadBlock, RefuseParam, Unsupported
<1>3. \/ UNCHANGED <<replies, handled>>
      \/ \E status \in ErrorStatus :
           UNCHANGED handled /\ replies' = replies \cup {Answer(t, m, status, <<>>)}
      \/ /\ Perform(t, m)
         /\ replies' = replies \cup {Answer(t, m, "STATUS_OK", <<DeviceId[t]>>)}
      \/ \E payload : Report(t, m, payload)
  <2>1. CASE DropDuplicate(t, m)
    BY <2>1 DEF DropDuplicate, targetVars
  <2>2. CASE RefuseStranger(t, m) \/ RefuseParam(t, m) \/ Unsupported(t, m)
    BY <2>2 DEF RefuseStranger, RefuseParam, Unsupported, Send, targetVars, ErrorStatus
  <2>3. CASE Register(t, m)
    BY <2>3 DEF Register, Send
  <2>4. CASE ErasePage(t, m) \/ WriteSector(t, m) \/ ReadBlock(t, m)
    BY <2>4 DEF ErasePage, WriteSector, ReadBlock
  <2> QED BY <2>1, <2>2, <2>3, <2>4 DEF Receive
<1>4. CASE UNCHANGED <<replies, handled>>
  BY <1>1, <1>2, <1>4
<1>5. CASE \E status \in ErrorStatus :
             UNCHANGED handled /\ replies' = replies \cup {Answer(t, m, status, <<>>)}
  BY <1>1, <1>2, <1>5 DEF Answer, ErrorStatus
<1>6. CASE /\ Perform(t, m)
           /\ replies' = replies \cup {Answer(t, m, "STATUS_OK", <<DeviceId[t]>>)}
  BY <1>1, <1>2, <1>6 DEF Answer
<1>7. CASE \E payload : Report(t, m, payload)
  BY <1>1, <1>2, <1>7 DEF Report, Send, Answer
<1> QED BY <1>3, <1>4, <1>5, <1>6, <1>7

LEMMA BcastNext == BcastInv /\ [Next]_vars => BcastInv'
<1> SUFFICES ASSUME BcastInv, [Next]_vars PROVE BcastInv'
  OBVIOUS
<1>1. TypeInv'
  BY TypeNext DEF BcastInv
<1>2. ASSUME UNCHANGED requests, UNCHANGED progVars
      PROVE  BroadcastOK' /\ NoBroadcastFlashOp'
  BY <1>2 DEF BcastInv, BroadcastOK, NoBroadcastFlashOp, progVars
<1>3. ASSUME NEW p \in Programmers, Programmer(p) PROVE BroadcastOK' /\ NoBroadcastFlashOp'
  BY <1>3, StartCallBcast, OpenCallBcast DEF Programmer
<1>4. ASSUME NEW t \in Targets, NEW m \in requests, Receive(t, m), UNCHANGED progVars
      PROVE  BroadcastOK' /\ NoBroadcastFlashOp'
  BY <1>2, <1>4, ReceiveForm
<1>5. ASSUME NEW t \in Targets, Restart(t), UNCHANGED progVars
      PROVE  BroadcastOK' /\ NoBroadcastFlashOp'
  BY <1>2, <1>5 DEF Restart, pathVars
<1>6. ASSUME Exhausted \/ UNCHANGED vars PROVE BroadcastOK' /\ NoBroadcastFlashOp'
  BY <1>2, <1>6 DEF Exhausted, vars, pathVars
<1>7. BroadcastOK' /\ NoBroadcastFlashOp'
  BY <1>3, <1>4, <1>5, <1>6 DEF Next
<1> QED BY <1>1, <1>7 DEF BcastInv

LEMMA BcastInit == Init => BcastInv
  BY TypeInit DEF Init, PathInit, ProgInit, BcastInv, BroadcastOK, NoBroadcastFlashOp

\* No operation on a flash memory is ever broadcast, whatever call failed before it.
THEOREM BroadcastSafe == Spec => []NoBroadcastFlashOp
<1>1. BcastInv => NoBroadcastFlashOp
  BY DEF BcastInv
<1> QED BY <1>1, BcastInit, BcastNext, PTL DEF Spec

-----------------------------------------------------------------------------
(***************************************************************************)
(* Acknowledgements                                                        *)
(***************************************************************************)

\* Counting one transmission on keeps the numbers of those before it in step.
LEMMA BackNext ==
  ASSUME NEW s \in SeqNo, NEW d \in Nat, d + 1 < SeqMod
  PROVE  Back(NextSeq(s), d + 1) = Back(s, d)
  BY ProtocolAssumption DEF SeqNo, NextSeq, Back

\* Fewer than SeqMod transmissions apart, only the newest has the newest number.
LEMMA BackUnique ==
  ASSUME NEW s \in SeqNo, NEW d \in Nat, d < SeqMod
  PROVE  (Back(s, d) = s) <=> d = 0
  BY ProtocolAssumption DEF SeqNo, Back

\* The parts of AckInv that a step may disturb.
AckParts ==
  PendingOK /\ RequestsOK /\ HandledOK /\ RepliesInFlight /\ OkMeansHandled /\ AckMeansExecuted

\* A transmission leaves every older datagram in step with the sequence number.
LEMMA InFlightNext ==
  ASSUME Lifetime <= SeqMod, TypeInv,
         NEW p \in Programmers, NEW q \in Programmers, NEW n \in Nat, NEW s,
         sent' = [sent EXCEPT ![p] = @ + 1],
         seq' = [seq EXCEPT ![p] = NextSeq(@)],
         InFlight(q, n, s),
         q = p => n + Lifetime > sent[p] + 1
  PROVE  InFlight(q, n, s)'
<1>1. /\ sent \in [Programmers -> Nat]
      /\ seq \in [Programmers -> SeqNo]
  BY DEF TypeInv, TypeOK
<1>2. CASE q = p
  <2> DEFINE d == sent[p] - n
  <2>1. d \in Nat /\ d + 1 < SeqMod
    BY <1>1, <1>2, ProtocolAssumption, PathAssumption DEF InFlight
  <2>2. sent'[p] = sent[p] + 1 /\ seq'[p] = NextSeq(seq[p])
    BY <1>1
  <2>3. Back(seq'[p], d + 1) = Back(seq[p], d)
    BY <1>1, <2>1, <2>2, BackNext
  <2>4. sent'[p] - n = d + 1
    BY <1>1, <2>2
  <2>5. s = Back(seq'[p], sent'[p] - n)
    BY <1>2, <2>3, <2>4 DEF InFlight
  <2>6. n <= sent'[p] /\ n + Lifetime > sent'[p]
    BY <1>1, <1>2, <2>2, PathAssumption DEF InFlight
  <2> QED BY <1>2, <2>5, <2>6 DEF InFlight
<1>3. CASE q # p
  <2>1. sent'[q] = sent[q] /\ seq'[q] = seq[q]
    BY <1>1, <1>3
  <2> QED BY <2>1 DEF InFlight
<1> QED BY <1>2, <1>3

LEMMA TransmitAck ==
  ASSUME Lifetime <= SeqMod, AckInv,
         NEW p \in Programmers, NEW h \in Header, NEW b \in Body,
         NEW dst \in Destination, NEW allowed \in BOOLEAN, NEW k \in 0 .. MAX_TRIES,
         Transmit(p, h, b, dst, allowed),
         hdr' = [hdr EXCEPT ![p] = h],
         body' = [body EXCEPT ![p] = b],
         txAddr' = [txAddr EXCEPT ![p] = dst],
         tries' = [tries EXCEPT ![p] = k],
         outcome' = [outcome EXCEPT ![p] = IF k > 0 THEN "pending" ELSE "socket_error"],
         UNCHANGED handled
  PROVE  AckParts'
<1>0. /\ sent \in [Programmers -> Nat]
      /\ seq \in [Programmers -> SeqNo]
      /\ tries \in [Programmers -> 0 .. MAX_TRIES]
      /\ hdr \in [Programmers -> Header]
      /\ body \in [Programmers -> Body]
      /\ txAddr \in [Programmers -> Destination]
      /\ outcome \in [Programmers -> Outcome]
      /\ handled \in [Targets -> SUBSET Request]
      /\ requests \subseteq Request
      /\ replies \subseteq Reply
      /\ TypeInv
  BY DEF AckInv, BcastInv, TypeInv, TypeOK
<1>1. /\ sent' = [sent EXCEPT ![p] = @ + 1]
      /\ seq' = [seq EXCEPT ![p] = NextSeq(@)]
      /\ requests' \subseteq RequestsAfter(p, sent[p] + 1) \cup {Frame(p, h, b, dst)}
      /\ replies' = RepliesAfter(p, sent[p] + 1)
  BY DEF Transmit
<1>2. \A q \in Programmers \ {p} :
        /\ sent'[q] = sent[q] /\ hdr'[q] = hdr[q] /\ body'[q] = body[q]
        /\ txAddr'[q] = txAddr[q] /\ tries'[q] = tries[q] /\ outcome'[q] = outcome[q]
  BY <1>0, <1>1
<1>3. /\ sent'[p] = sent[p] + 1 /\ seq'[p] = NextSeq(seq[p]) /\ hdr'[p] = h /\ body'[p] = b
      /\ txAddr'[p] = dst /\ tries'[p] = k /\ (k > 0 => outcome'[p] = "pending")
      /\ outcome'[p] # "ok"
  BY <1>0, <1>1
<1>4. ASSUME NEW m \in Request, m.n <= sent[m.src], Newest(m.src, m)
      PROVE  Newest(m.src, m)' /\ m.n <= sent'[m.src]
  <2>1. m.src \in Programmers /\ m.n \in Nat
    BY DEF Request
  <2>2. CASE m.src = p
    BY <1>0, <1>3, <1>4, <2>1, <2>2 DEF Newest
  <2>3. CASE m.src # p
    BY <1>2, <1>4, <2>1, <2>3 DEF Newest, InBuffer
  <2> QED BY <2>2, <2>3
<1>5. RequestsOK'
  <2> SUFFICES ASSUME NEW m \in requests'
               PROVE  InFlight(m.src, m.n, m.seq)' /\ Newest(m.src, m)'
    BY DEF RequestsOK
  <2>1. CASE m \in RequestsAfter(p, sent[p] + 1)
    <3>1. m \in requests /\ (m.src = p => m.n + Lifetime > sent[p] + 1)
      BY <2>1 DEF RequestsAfter
    <3>2. m \in Request /\ m.src \in Programmers /\ m.n \in Nat
      BY <1>0, <3>1 DEF Request
    <3>3. InFlight(m.src, m.n, m.seq) /\ Newest(m.src, m)
      BY <3>1 DEF AckInv, RequestsOK
    <3>4. InFlight(m.src, m.n, m.seq)'
      BY <1>0, <1>1, <3>1, <3>2, <3>3, InFlightNext
    <3>5. m.n <= sent[m.src]
      BY <3>3 DEF InFlight
    <3> QED BY <1>4, <3>2, <3>3, <3>4, <3>5
  <2>2. CASE m = Frame(p, h, b, dst)
    <3>1. /\ m.src = p /\ m.n = sent'[p] /\ m.seq = seq'[p] /\ m.dst = dst
          /\ m.op = h.op /\ m.addr = h.addr /\ m.len = h.len /\ m.body = b
      BY <1>3, <2>2 DEF Frame
    <3>2. sent'[p] \in Nat /\ seq'[p] \in SeqNo
      BY <1>0, <1>3, NextSeqType
    <3>3. Back(seq'[p], sent'[p] - m.n) = seq'[p]
      BY <3>1, <3>2, ProtocolAssumption DEF Back, SeqNo
    <3>4. InFlight(m.src, m.n, m.seq)'
      BY <3>1, <3>2, <3>3, PathAssumption DEF InFlight
    <3>5. Newest(m.src, m)'
      BY <1>3, <3>1 DEF Newest, InBuffer
    <3> QED BY <3>4, <3>5
  <2> QED BY <1>1, <2>1, <2>2
<1>6. HandledOK'
  <2> SUFFICES ASSUME NEW t \in Targets, NEW m \in handled[t]
               PROVE  /\ m.n <= sent'[m.src]
                      /\ m.dst \in {t, Broadcast}
                      /\ m.dst = Broadcast => m.op \in RegisterOps
                      /\ Newest(m.src, m)'
    BY DEF HandledOK
  <2>1. m \in Request
    BY <1>0
  <2> QED BY <1>4, <2>1 DEF AckInv, HandledOK
<1>7. RepliesInFlight'
  <2> SUFFICES ASSUME NEW r \in replies' PROVE InFlight(r.dst, r.n, r.seq)'
    BY DEF RepliesInFlight
  <2>1. r \in replies /\ (r.dst = p => r.n + Lifetime > sent[p] + 1)
    BY <1>1 DEF RepliesAfter
  <2>2. r.dst \in Programmers /\ r.n \in Nat
    BY <1>0, <2>1 DEF Reply
  <2>3. InFlight(r.dst, r.n, r.seq)
    BY <2>1 DEF AckInv, RepliesInFlight
  <2> QED BY <1>0, <1>1, <2>1, <2>2, <2>3, InFlightNext
<1>8. OkMeansHandled'
  BY <1>1 DEF AckInv, OkMeansHandled, RepliesAfter
<1>9. PendingOK'
  BY <1>2, <1>3 DEF AckInv, PendingOK
<1>10. AckMeansExecuted'
  <2> SUFFICES ASSUME NEW q \in Programmers, outcome'[q] = "ok" PROVE Executed(q)'
    BY DEF AckMeansExecuted
  <2>1. q # p
    BY <1>3
  <2>2. Executed(q)
    BY <1>2, <2>1 DEF AckInv, AckMeansExecuted
  <2> QED BY <1>2, <2>1, <2>2 DEF Executed, InBuffer
<1> QED BY <1>5, <1>6, <1>7, <1>8, <1>9, <1>10 DEF AckParts

\* A call that ends, or is refused, leaves path, buffers and sequence numbers alone.
LEMMA EndCallAck ==
  ASSUME AckInv, NEW p \in Programmers, NEW what, NEW a \in Destination,
         tries' = [tries EXCEPT ![p] = 0],
         outcome' = [outcome EXCEPT ![p] = what],
         txAddr' = [txAddr EXCEPT ![p] = a],
         UNCHANGED <<requests, replies, sent, seq, hdr, body, handled>>,
         what = "ok" => Executed(p)'
  PROVE  AckParts'
<1>0. /\ tries \in [Programmers -> 0 .. MAX_TRIES]
      /\ txAddr \in [Programmers -> Destination]
      /\ outcome \in [Programmers -> Outcome]
      /\ handled \in [Targets -> SUBSET Request]
      /\ requests \subseteq Request
  BY DEF AckInv, BcastInv, TypeInv, TypeOK
<1>1. \A q \in Programmers \ {p} :
        txAddr'[q] = txAddr[q] /\ tries'[q] = tries[q] /\ outcome'[q] = outcome[q]
  BY <1>0
<1>2. tries'[p] = 0 /\ outcome'[p] = what
  BY <1>0
<1>3. ASSUME NEW m \in Request, Newest(m.src, m) PROVE Newest(m.src, m)'
  <2>1. m.src \in Programmers
    BY DEF Request
  <2> QED BY <1>1, <1>2, <1>3, <2>1 DEF Newest, InBuffer
<1>4. \A q, n, s : InFlight(q, n, s)' <=> InFlight(q, n, s)
  BY DEF InFlight
<1>5. RequestsOK'
  BY <1>0, <1>3, <1>4 DEF AckInv, RequestsOK
<1>6. HandledOK'
  BY <1>0, <1>3 DEF AckInv, HandledOK
<1>7. RepliesInFlight' /\ OkMeansHandled'
  BY <1>4 DEF AckInv, RepliesInFlight, OkMeansHandled
<1>8. PendingOK'
  BY <1>1, <1>2 DEF AckInv, PendingOK
<1>9. AckMeansExecuted'
  <2> SUFFICES ASSUME NEW q \in Programmers, outcome'[q] = "ok" PROVE Executed(q)'
    BY DEF AckMeansExecuted
  <2>1. CASE q = p
    BY <1>2, <2>1
  <2>2. CASE q # p
    <3>1. Executed(q)
      BY <1>1, <2>2 DEF AckInv, AckMeansExecuted
    <3> QED BY <1>1, <2>2, <3>1 DEF Executed, InBuffer
  <2> QED BY <2>1, <2>2
<1> QED BY <1>5, <1>6, <1>7, <1>8, <1>9 DEF AckParts

\* A reply that process() takes answers the newest transmission.
LEMMA TakesNewest ==
  ASSUME Lifetime <= SeqMod, AckInv,
         NEW p \in Programmers, NEW r \in replies, Takes(p, r)
  PROVE  r.n = sent[p]
<1>0. /\ sent[p] \in Nat
      /\ seq[p] \in SeqNo
      /\ r \in Reply
  BY DEF AckInv, BcastInv, TypeInv, TypeOK
<1> DEFINE d == sent[p] - r.n
<1>1. r.dst = p /\ r.seq = seq[p]
  BY DEF Takes, Matches
<1>2. r.n \in Nat
  BY <1>0 DEF Reply
<1>3. r.n <= sent[p] /\ r.n + Lifetime > sent[p] /\ Back(seq[p], d) = seq[p]
  BY <1>1 DEF AckInv, RepliesInFlight, InFlight
<1>4. d \in Nat /\ d < SeqMod
  BY <1>0, <1>2, <1>3, ProtocolAssumption, PathAssumption
<1>5. d = 0
  BY <1>0, <1>3, <1>4, BackUnique
<1> QED BY <1>0, <1>2, <1>5

\* A reply that matches and says STATUS_OK answers the newest transmission.
LEMMA DoneMeansHandled ==
  ASSUME Lifetime <= SeqMod, AckInv,
         NEW p \in Programmers, NEW r \in replies, Done(p, r)
  PROVE  /\ r.src \in Targets
         /\ \E m \in handled[r.src] :
              /\ InBuffer(p, m)
              /\ m.n = sent[p]
              /\ r.op \notin RegisterOps => r.src = txAddr[p]
<1>0. /\ handled \in [Targets -> SUBSET Request]
      /\ r \in Reply
  BY DEF AckInv, BcastInv, TypeInv, TypeOK
<1>1. r.dst = p /\ tries[p] > 0 /\ r.op = hdr[p].op /\ r.status = "STATUS_OK"
  BY DEF Done, Takes
<1>2. r.src \in Targets
  BY <1>0 DEF Reply
<1>3. r.n = sent[p]
  BY TakesNewest DEF Done
<1>4. PICK m \in handled[r.src] : m.src = p /\ m.n = r.n /\ m.op = r.op
  BY <1>1 DEF AckInv, OkMeansHandled
<1>5. /\ m.dst \in {r.src, Broadcast}
      /\ m.dst = Broadcast => m.op \in RegisterOps
      /\ Newest(p, m)
  BY <1>2, <1>4 DEF AckInv, HandledOK
<1>6. InBuffer(p, m) /\ m.dst = txAddr[p]
  BY <1>1, <1>3, <1>4, <1>5 DEF Newest
<1> QED BY <1>2, <1>3, <1>4, <1>5, <1>6

LEMMA ProgrammerAck ==
  ASSUME Lifetime <= SeqMod, AckInv,
         NEW p \in Programmers, Programmer(p), UNCHANGED targetVars
  PROVE  AckParts'
<1>0. /\ tries \in [Programmers -> 0 .. MAX_TRIES]
      /\ txAddr \in [Programmers -> Destination]
      /\ hdr \in [Programmers -> Header]
      /\ body \in [Programmers -> Body]
      /\ bcast \in [Programmers -> BOOLEAN]
      /\ outcome \in [Programmers -> Outcome]
      /\ replies \subseteq Reply
  BY DEF AckInv, BcastInv, TypeInv, TypeOK
<1>1. UNCHANGED handled
  BY DEF targetVars
<1>2. txAddr = [txAddr EXCEPT ![p] = txAddr[p]]
  BY <1>0
<1>3. ASSUME NEW what, what # "ok",
             tries' = [tries EXCEPT ![p] = 0],
             outcome' = [outcome EXCEPT ![p] = what],
             UNCHANGED <<requests, replies, sent, seq, hdr, body, txAddr>>
      PROVE  AckParts'
  BY <1>0, <1>1, <1>2, <1>3, EndCallAck
<1>4. CASE StartCall(p)
  <2>1. CASE Begins(p)
    <3>1. PICK h \in Header, b \in Body, dst \in Destination, allowed \in BOOLEAN :
            Communicate(p, h, b, dst, allowed)
      BY <2>1 DEF Begins
    <3> DEFINE k == IF CanSend(dst, allowed) THEN 1 ELSE 0
    <3>2. /\ Transmit(p, h, b, dst, allowed)
          /\ hdr' = [hdr EXCEPT ![p] = h] /\ body' = [body EXCEPT ![p] = b]
          /\ txAddr' = [txAddr EXCEPT ![p] = dst]
      BY <3>1 DEF Communicate
    <3>3. tries' = [tries EXCEPT ![p] = k]
      BY <3>1 DEF Communicate
    <3>4. outcome' = [outcome EXCEPT ![p] = IF k > 0 THEN "pending" ELSE "socket_error"]
      <4>1. k > 0 <=> CanSend(dst, allowed)
        OBVIOUS
      <4> QED BY <3>1, <4>1 DEF Communicate
    <3>5. k \in 0 .. MAX_TRIES
      BY DEF MAX_TRIES
    <3> HIDE DEF k
    <3> QED BY <1>1, <3>2, <3>3, <3>4, <3>5, TransmitAck
  <2>2. CASE Refused(p)
    <3> PICK what \in {"not_connected", "refused", "unsupported"} : Refuse(p, what)
      BY <2>2 DEF Refused
    <3>1. tries' = [tries EXCEPT ![p] = 0]
      BY <1>0 DEF Refuse
    <3>2. /\ outcome' = [outcome EXCEPT ![p] = what]
          /\ UNCHANGED <<requests, replies, sent, seq, hdr, body, txAddr>>
      BY DEF Refuse, pathVars, bufVars
    <3> QED BY <1>3, <3>1, <3>2
  <2> QED BY <1>4, <2>1, <2>2, StartCallForm DEF AckInv, BcastInv
<1>5. CASE Timeout(p)
  <2>1. UNCHANGED <<hdr, body, txAddr>>
    BY <1>5 DEF Timeout, bufVars
  <2>2. CASE /\ tries[p] < MAX_TRIES
             /\ Transmit(p, hdr[p], body[p], txAddr[p], bcast[p])
             /\ tries' = [tries EXCEPT ![p] = @ + 1]
             /\ UNCHANGED outcome
    <3> DEFINE k == tries[p] + 1
               h == hdr[p]
               b == body[p]
               dst == txAddr[p]
    <3>1. k \in 0 .. MAX_TRIES /\ k > 0
      BY <1>0, <2>2
    <3>2. tries[p] > 0 /\ outcome[p] = "pending"
      BY <1>5 DEF Timeout, AckInv, PendingOK
    <3>3. /\ hdr' = [hdr EXCEPT ![p] = h] /\ body' = [body EXCEPT ![p] = b]
          /\ txAddr' = [txAddr EXCEPT ![p] = dst]
          /\ tries' = [tries EXCEPT ![p] = k]
      BY <1>0, <2>1, <2>2
    <3>4. outcome' = [outcome EXCEPT ![p] = IF k > 0 THEN "pending" ELSE "socket_error"]
      BY <1>0, <2>2, <3>1, <3>2
    <3>5. h \in Header /\ b \in Body /\ dst \in Destination /\ bcast[p] \in BOOLEAN
      BY <1>0
    <3>6. Transmit(p, h, b, dst, bcast[p])
      BY <2>2
    <3> HIDE DEF k, h, b, dst
    <3> QED BY <1>1, <3>1, <3>3, <3>4, <3>5, <3>6, TransmitAck
  <2>3. CASE Throw(p, "timeout") /\ UNCHANGED <<seq, sent, requests, replies>>
    BY <1>3, <2>1, <2>3 DEF Throw
  <2> QED BY <1>5, <2>2, <2>3 DEF Timeout
<1>6. CASE RefuseFrame(p)
  <2>1. PICK what \in {"bad_frame", "socket_error"} : Throw(p, what)
    BY <1>6 DEF RefuseFrame
  <2>2. UNCHANGED <<requests, replies, sent, seq, hdr, body, txAddr>>
    BY <1>6 DEF RefuseFrame, pathVars, bufVars
  <2> QED BY <1>3, <2>1, <2>2 DEF Throw
<1>7. CASE \E r \in replies : TakeReply(p, r)
  <2> PICK r \in replies : TakeReply(p, r)
    BY <1>7
  <2>1. CASE Reject(p, r)
    <3>1. Throw(p, Complaint(p, r)) /\ Complaint(p, r) # "ok"
      BY <2>1 DEF Reject, Complaint, ErrorStatus
    <3>2. UNCHANGED <<requests, replies, sent, seq, hdr, body, txAddr>>
      BY <2>1 DEF Reject, pathVars, bufVars
    <3> QED BY <1>3, <3>1, <3>2 DEF Throw
  <2>2. CASE DiscoverDone(p, r)
    <3>1. Done(p, r) /\ UNCHANGED <<requests, replies, sent, seq, hdr, body>>
      BY <2>2 DEF DiscoverDone, pathVars, bufVars
    <3>2. /\ tries' = [tries EXCEPT ![p] = 0]
          /\ txAddr' = [txAddr EXCEPT ![p] = r.src]
      BY <2>2 DEF DiscoverDone
    <3>3. \E what : outcome' = [outcome EXCEPT ![p] = what]
      BY <2>2 DEF DiscoverDone
    <3>4. r.src \in Targets /\ r.src \in Destination /\ txAddr'[p] = r.src
      BY <1>0, <3>1, <3>2, DoneMeansHandled DEF Destination
    <3>5. Executed(p)'
      BY <1>1, <3>1, <3>4, DoneMeansHandled DEF Executed, InBuffer
    <3> QED BY <1>1, <3>1, <3>2, <3>3, <3>4, <3>5, EndCallAck
  <2>3. CASE DataDone(p, r) \/ CommandDone(p, r)
    <3>1. Done(p, r) /\ UNCHANGED <<requests, replies, sent, seq, hdr, body, txAddr>>
      BY <2>3 DEF DataDone, CommandDone, pathVars, bufVars
    <3>2. r.op \notin RegisterOps /\ tries' = [tries EXCEPT ![p] = 0]
      BY <2>3 DEF DataDone, CommandDone, RegisterOps
    <3>3. \E what : outcome' = [outcome EXCEPT ![p] = what]
      BY <2>3 DEF DataDone, CommandDone
    <3>4. Executed(p)'
      BY <1>1, <3>1, <3>2, DoneMeansHandled DEF Executed, InBuffer
    <3>5. txAddr' = [txAddr EXCEPT ![p] = txAddr[p]] /\ txAddr[p] \in Destination
      BY <1>0, <3>1
    <3> QED BY <1>1, <3>1, <3>2, <3>3, <3>4, <3>5, EndCallAck
  <2> QED BY <2>1, <2>2, <2>3 DEF TakeReply
<1> QED BY <1>4, <1>5, <1>6, <1>7 DEF Programmer

\* What a target adds answers, or records, a request that was in flight.
LEMMA ReceiveAck ==
  ASSUME AckInv, UNCHANGED progVars,
         NEW t \in Targets, NEW m \in requests, Receive(t, m)
  PROVE  AckParts'
<1>0. /\ handled \in [Targets -> SUBSET Request]
      /\ requests \subseteq Request
      /\ replies \subseteq Reply
  BY DEF AckInv, BcastInv, TypeInv, TypeOK
<1>1. UNCHANGED <<requests, sent, seq, tries, outcome, hdr, body, txAddr>>
  BY ReceiveForm DEF progVars
<1>2. UNCHANGED handled \/ Perform(t, m)
  BY ReceiveForm
<1>3. \A u \in Targets : handled[u] \subseteq handled'[u]
  BY <1>0, <1>2 DEF Perform
<1>4. \A u \in Targets : \A x \in handled'[u] : x \in handled[u] \/ (u = t /\ x = m)
  BY <1>0, <1>2 DEF Perform
<1>5. Perform(t, m) => m \in handled'[t]
  BY <1>0 DEF Perform
<1>6. \A q, x : Newest(q, x)' <=> Newest(q, x)
  BY <1>1 DEF Newest, InBuffer
<1>7. \A q, n, s : InFlight(q, n, s)' <=> InFlight(q, n, s)
  BY <1>1 DEF InFlight
<1>8. InFlight(m.src, m.n, m.seq) /\ Newest(m.src, m)
  BY DEF AckInv, RequestsOK
<1>9. RequestsOK' /\ PendingOK'
  BY <1>1, <1>6, <1>7 DEF AckInv, RequestsOK, PendingOK
<1>10. HandledOK'
  <2> SUFFICES ASSUME NEW u \in Targets, NEW x \in handled'[u]
               PROVE  /\ x.n <= sent[x.src]
                      /\ x.dst \in {u, Broadcast}
                      /\ x.dst = Broadcast => x.op \in RegisterOps
                      /\ Newest(x.src, x)
    BY <1>1, <1>6 DEF HandledOK
  <2>1. CASE x \in handled[u]
    BY <2>1 DEF AckInv, HandledOK
  <2>2. CASE u = t /\ x = m
    <3>1. m.dst \in {t, Broadcast}
      BY ReceiveForm DEF Arrives
    <3>2. m.dst = Broadcast => m.op \in RegisterOps
      BY DEF AckInv, BcastInv, NoBroadcastFlashOp
    <3>3. m.n <= sent[m.src]
      BY <1>8 DEF InFlight
    <3> QED BY <1>8, <2>2, <3>1, <3>2, <3>3
  <2> QED BY <1>4, <2>1, <2>2
<1>11. RepliesInFlight' /\ OkMeansHandled'
  <2> SUFFICES ASSUME NEW r \in replies'
               PROVE  /\ InFlight(r.dst, r.n, r.seq)
                      /\ r.status = "STATUS_OK" =>
                           \E x \in handled'[r.src] : x.src = r.dst /\ x.n = r.n /\ x.op = r.op
    BY <1>7 DEF RepliesInFlight, OkMeansHandled
  <2>1. CASE r \in replies
    <3>1. r.src \in Targets
      BY <1>0, <2>1 DEF Reply
    <3> QED BY <1>3, <2>1, <3>1 DEF AckInv, RepliesInFlight, OkMeansHandled
  <2>2. CASE r \notin replies
    <3>1. /\ r.src = t /\ r.dst = m.src /\ r.n = m.n /\ r.seq = m.seq /\ r.op = m.op
          /\ r.status = "STATUS_OK" => Perform(t, m)
      BY <2>2, ReceiveForm
    <3> QED BY <1>5, <1>8, <3>1
  <2> QED BY <2>1, <2>2
<1>12. AckMeansExecuted'
  BY <1>1, <1>3 DEF AckInv, AckMeansExecuted, Executed, InBuffer
<1> QED BY <1>9, <1>10, <1>11, <1>12 DEF AckParts

LEMMA AckNext ==
  ASSUME Lifetime <= SeqMod
  PROVE  AckInv /\ [Next]_vars => AckInv'
<1> SUFFICES ASSUME AckInv, [Next]_vars PROVE AckInv'
  OBVIOUS
<1>1. BcastInv'
  BY BcastNext DEF AckInv
<1>2. ASSUME NEW p \in Programmers, Programmer(p), UNCHANGED targetVars PROVE AckParts'
  BY <1>2, ProgrammerAck
<1>3. ASSUME NEW t \in Targets, NEW m \in requests, Receive(t, m), UNCHANGED progVars
      PROVE  AckParts'
  BY <1>3, ReceiveAck
<1>4. ASSUME UNCHANGED <<pathVars, progVars, handled>> PROVE AckParts'
  BY <1>4
  DEF AckInv, AckParts, PendingOK, RequestsOK, HandledOK, RepliesInFlight, OkMeansHandled,
      AckMeansExecuted, Executed, InBuffer, InFlight, Newest, pathVars, progVars
<1>5. ASSUME NEW t \in Targets, Restart(t), UNCHANGED progVars PROVE AckParts'
  BY <1>4, <1>5 DEF Restart
<1>6. ASSUME Exhausted \/ UNCHANGED vars PROVE AckParts'
  BY <1>4, <1>6 DEF Exhausted, vars, targetVars
<1>7. AckParts'
  BY <1>2, <1>3, <1>5, <1>6 DEF Next
<1> QED BY <1>1, <1>7 DEF AckInv, AckParts

LEMMA AckInit == Init => AckInv
<1> SUFFICES ASSUME Init PROVE AckInv
  OBVIOUS
<1>1. BcastInv
  BY BcastInit
<1>2. requests = {} /\ replies = {} /\ handled = [t \in Targets |-> {}]
  BY DEF Init, PathInit, TargetInit
<1>3. tries = [p \in Programmers |-> 0] /\ outcome = [p \in Programmers |-> "none"]
  BY DEF Init, ProgInit
<1> QED
  BY <1>1, <1>2, <1>3
  DEF AckInv, PendingOK, RequestsOK, HandledOK, RepliesInFlight, OkMeansHandled, AckMeansExecuted

\* A call that returned was carried out by the target it is addressed to, as long as no
\* datagram outlives a full turn of the sequence number.
THEOREM AckSafe ==
  ASSUME Lifetime <= SeqMod
  PROVE  Spec => []AckMeansExecuted
<1>1. AckInv => AckMeansExecuted
  BY DEF AckInv
<1>2. AckInv /\ [Next]_vars => AckInv'
  BY AckNext
<1> QED BY <1>1, <1>2, AckInit, PTL DEF Spec
=============================================================================
