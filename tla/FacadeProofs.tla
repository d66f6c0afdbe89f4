----------------------------- MODULE FacadeProofs -----------------------------
(***************************************************************************)
(* The checks of class Programmer, those of Target and the width of the    *)
(* frame between them, for all sizes of the memory, its sectors and pages, *)
(* and of the buffers.                                                     *)
(***************************************************************************)
EXTENDS SessionProofs

(***************************************************************************)
(* The inductive invariant                                                 *)
(***************************************************************************)

\* What CanRead() and CanErase() say of the header they let through.
Checks(h) ==
  /\ h.op = "OP_READ" => h.len <= MAX_READ /\ \E c \in Reads : c[1] = h.addr /\ c[2] = h.len
  /\ h.op = "OP_ERASE" => h.addr % ERASE_SIZE = 0

FacadeChecks == \A p \in Facades : Checks(hdr[p])

\* STATUS_INV_PARAM for the newest transmission is about what the buffer holds.
FaultInReply ==
  \A r \in replies :
    r.status = "STATUS_INV_PARAM" /\ r.n = sent[r.dst] => InvalidParam(hdr[r.dst])

\* So is the exception of the call.
FaultInCall ==
  \A p \in Programmers : outcome[p] = "STATUS_INV_PARAM" => InvalidParam(hdr[p])

FacadeInv == FacadeChecks /\ FaultInReply /\ FaultInCall

-----------------------------------------------------------------------------
\* A call of a Programmer leaves a header that was checked.
LEMMA FacadeCallChecks ==
  ASSUME TypeInv, NEW p \in Facades, Checks(hdr[p]), StartCall(p)
  PROVE  Checks(hdr'[p])
<1>0. p \in Programmers /\ hdr \in [Programmers -> Header]
  BY FacadeAssumption DEF TypeInv, TypeOK
<1>1. ASSUME NEW h, NEW b, NEW dst, NEW allowed, Communicate(p, h, b, dst, allowed), Checks(h)
      PROVE  Checks(hdr'[p])
  BY <1>0, <1>1 DEF Communicate
<1>2. ASSUME NEW what, Refuse(p, what) PROVE Checks(hdr'[p])
  BY <1>2 DEF Refuse, bufVars
<1>3. ASSUME NEW h, NEW b, Checked(p, h, b), Checks(h) PROVE Checks(hdr'[p])
  BY <1>1, <1>2, <1>3 DEF Checked
<1>4. \A op, a, l : /\ Select(op, a, l).op = op
                    /\ Select(op, a, l).addr = a
                    /\ l \in 0 .. MAX_READ => Select(op, a, l).len = l
  BY ProtocolAssumption, ProgrammerAssumption DEF Select, MAX_READ
<1>5. \A op : Prepare(p, op).op = op
  BY <1>0 DEF Prepare, Header
<1>6. CASE StartSelection(p)
  <2>1. /\ Checks(Select("OP_DISCOVER", 0, 0))
        /\ Checks(Prepare(p, "OP_NET_CONFIG"))
    BY <1>4, <1>5 DEF Checks
  <2> QED BY <1>1, <1>6, <2>1 DEF StartSelection, Discover, Configure, Connect
<1>7. ASSUME NEW a, NEW d, Write(p, a, d) PROVE Checks(hdr'[p])
  BY <1>3, <1>5, <1>7 DEF Write, Checks
<1>8. CASE StartFacade(p)
  <2>1. CASE FacadeReset(p) \/ FacadeChecksum(p, 0, WRITE_SIZE)
    BY <1>1, <1>3, <1>4, <2>1 DEF FacadeReset, Reset, FacadeChecksum, Checksum, Checks
  <2>2. CASE FacadeChipErase(p)
    BY <1>2, <2>2 DEF FacadeChipErase
  <2>3. ASSUME NEW c \in Reads, FacadeRead(p, c[1], c[2])
        PROVE  Checks(hdr'[p])
    <3>1. CASE CanRead(c[2]) /\ Read(p, c[1], c[2])
      <4>1. c[2] \in 0 .. MAX_READ
        BY <3>1, SessionAssumption, ProgrammerAssumption DEF CanRead, MAX_READ
      <4>2. Checks(Select("OP_READ", c[1], c[2]))
        BY <1>4, <4>1 DEF Checks
      <4> QED BY <1>3, <3>1, <4>2 DEF Read
    <3> QED BY <1>2, <2>3, <3>1 DEF FacadeRead
  <2>4. CASE \E a \in Erases : FacadeErase(p, a)
    BY <1>2, <1>3, <1>4, <2>4 DEF FacadeErase, Erase, CanErase, Checks
  <2>5. CASE \E w \in Writes : FacadeWrite(p, w[1], w[2]) \/ FacadeEraseWrite(p, w[1], w[2])
    BY <1>2, <1>7, <2>5 DEF FacadeWrite, FacadeEraseWrite
  <2> QED BY <1>8, <2>1, <2>2, <2>3, <2>4, <2>5 DEF StartFacade
<1> QED BY <1>6, <1>8 DEF StartCall

\* A transmission makes every earlier reply an old one.
LEMMA TransmitFault ==
  ASSUME AckInv, FacadeInv,
         NEW p \in Programmers, NEW h, NEW b, NEW dst, NEW allowed,
         Transmit(p, h, b, dst, allowed),
         hdr' = [hdr EXCEPT ![p] = h]
  PROVE  FaultInReply'
<1> SUFFICES ASSUME NEW r \in replies', r.status = "STATUS_INV_PARAM", r.n = sent'[r.dst]
             PROVE  InvalidParam(hdr'[r.dst])
  BY DEF FaultInReply
<1>1. /\ sent \in [Programmers -> Nat]
      /\ hdr \in [Programmers -> Header]
      /\ replies \subseteq Reply
  BY DEF AckInv, BcastInv, TypeInv, TypeOK
<1>2. r \in replies /\ sent' = [sent EXCEPT ![p] = @ + 1]
  BY DEF Transmit, RepliesAfter
<1>3. r.dst \in Programmers /\ r.n <= sent[r.dst]
  BY <1>1, <1>2 DEF Reply, AckInv, RepliesInFlight, InFlight
<1>4. r.dst # p
  BY <1>1, <1>2, <1>3
<1> QED BY <1>1, <1>2, <1>3, <1>4 DEF FacadeInv, FaultInReply

\* A call that ends without a complaint of the target leaves the replies and the header.
LEMMA EndFault ==
  ASSUME AckInv, FacadeInv, NEW p \in Programmers, NEW what,
         outcome' = [outcome EXCEPT ![p] = what],
         what = "STATUS_INV_PARAM" => InvalidParam(hdr[p]),
         UNCHANGED <<sent, hdr>>, replies' = replies
  PROVE  FacadeInv'
<1>1. outcome \in [Programmers -> Outcome]
  BY DEF AckInv, BcastInv, TypeInv, TypeOK
<1>2. FacadeChecks' /\ FaultInReply'
  BY DEF FacadeInv, FacadeChecks, FaultInReply
<1>3. FaultInCall'
  BY <1>1 DEF FacadeInv, FaultInCall
<1> QED BY <1>2, <1>3 DEF FacadeInv

\* What a programmer does keeps the header and the complaints in step.
LEMMA ProgrammerFault ==
  ASSUME Lifetime <= SeqMod, AckInv, FacadeInv,
         NEW p \in Programmers, Programmer(p)
  PROVE  FacadeInv'
<1>0. /\ TypeInv
      /\ hdr \in [Programmers -> Header]
      /\ outcome \in [Programmers -> Outcome]
      /\ Facades \subseteq Programmers
  BY FacadeAssumption DEF AckInv, BcastInv, TypeInv, TypeOK
<1>1. ASSUME NEW what \in {"timeout", "bad_frame", "socket_error", "not_connected", "refused",
                          "unsupported"},
             outcome' = [outcome EXCEPT ![p] = what],
             UNCHANGED <<sent, hdr, replies>>
      PROVE  FacadeInv'
  BY <1>1, EndFault
<1>2. CASE StartCall(p)
  <2>1. CASE Begins(p)
    <3>1. PICK h \in Header, b \in Body, dst \in Destination, allowed \in BOOLEAN :
            Communicate(p, h, b, dst, allowed)
      BY <2>1 DEF Begins
    <3>2. Transmit(p, h, b, dst, allowed) /\ hdr' = [hdr EXCEPT ![p] = h]
      BY <3>1 DEF Communicate
    <3>3. FaultInReply'
      BY <3>2, TransmitFault
    <3>4. \A q \in Programmers \ {p} : hdr'[q] = hdr[q] /\ outcome'[q] = outcome[q]
      BY <1>0, <3>1 DEF Communicate
    <3>5. outcome'[p] # "STATUS_INV_PARAM"
      BY <1>0, <3>1 DEF Communicate
    <3>6. FaultInCall'
      BY <3>4, <3>5 DEF FacadeInv, FaultInCall
    <3>7. p \in Facades => Checks(hdr'[p])
      BY <1>0, <1>2, FacadeCallChecks DEF FacadeInv, FacadeChecks
    <3>8. FacadeChecks'
      BY <1>0, <3>4, <3>7 DEF FacadeInv, FacadeChecks, Checks
    <3> QED BY <3>3, <3>6, <3>8 DEF FacadeInv
  <2>2. CASE Refused(p)
    BY <1>1, <2>2 DEF Refused, Refuse, pathVars, bufVars
  <2> QED BY <1>0, <1>2, <2>1, <2>2, StartCallForm
<1>3. CASE Timeout(p)
  <2>1. CASE Transmit(p, hdr[p], body[p], txAddr[p], bcast[p]) /\ UNCHANGED outcome
    <3>1. hdr' = [hdr EXCEPT ![p] = hdr[p]] /\ UNCHANGED hdr
      BY <1>0, <1>3 DEF Timeout, bufVars
    <3>2. FaultInReply'
      BY <2>1, <3>1, TransmitFault
    <3> QED BY <2>1, <3>1, <3>2 DEF FacadeInv, FacadeChecks, FaultInCall
  <2>2. CASE Throw(p, "timeout") /\ UNCHANGED <<seq, sent, requests, replies>>
    BY <1>1, <1>3, <2>2 DEF Timeout, Throw, bufVars
  <2> QED BY <1>3, <2>1, <2>2 DEF Timeout
<1>4. CASE RefuseFrame(p)
  BY <1>1, <1>4 DEF RefuseFrame, Throw, pathVars, bufVars
<1>5. CASE \E r \in replies : TakeReply(p, r)
  <2> PICK r \in replies : TakeReply(p, r)
    BY <1>5
  <2>1. CASE Reject(p, r)
    <3>1. /\ outcome' = [outcome EXCEPT ![p] = Complaint(p, r)]
          /\ UNCHANGED <<sent, hdr, replies>>
      BY <2>1 DEF Reject, Throw, pathVars, bufVars
    <3>2. r.n = sent[p] /\ r.dst = p
      BY <2>1, TakesNewest DEF Reject, Takes
    <3>3. Complaint(p, r) = "STATUS_INV_PARAM" => r.status = "STATUS_INV_PARAM"
      BY DEF Complaint
    <3>4. Complaint(p, r) = "STATUS_INV_PARAM" => InvalidParam(hdr[p])
      BY <3>2, <3>3 DEF FacadeInv, FaultInReply
    <3> QED BY <3>1, <3>4, EndFault
  <2>2. ASSUME NEW what \in {"ok", "unknown_device", "no_payload"},
               outcome' = [outcome EXCEPT ![p] = what],
               UNCHANGED <<sent, hdr, replies>>
        PROVE  FacadeInv'
    BY <2>2, EndFault
  <2>3. CASE DiscoverDone(p, r)
    BY <2>2, <2>3 DEF DiscoverDone, pathVars, bufVars
  <2>4. CASE DataDone(p, r) \/ CommandDone(p, r)
    BY <2>2, <2>4 DEF DataDone, CommandDone, pathVars, bufVars
  <2> QED BY <2>1, <2>3, <2>4 DEF TakeReply
<1> QED BY <1>2, <1>3, <1>4, <1>5 DEF Programmer

\* A target finds fault only with a request whose arguments are at fault.
LEMMA ReceiveFault ==
  ASSUME AckInv, FacadeInv, UNCHANGED progVars,
         NEW t \in Targets, NEW m \in requests, Receive(t, m)
  PROVE  FacadeInv'
<1>1. UNCHANGED <<hdr, outcome, sent>>
  BY ReceiveForm DEF progVars
<1>2. \A r \in replies' \ replies : r.status = "STATUS_INV_PARAM" => InvalidParam(m)
  BY DEF Receive, DropDuplicate, RefuseStranger, Register, ErasePage, WriteSector, ReadBlock,
         RefuseParam, Unsupported, Report, Send, Answer
<1>3. m.n = sent[m.src] => InBuffer(m.src, m)
  BY DEF AckInv, RequestsOK, Newest
<1>4. m.n = sent[m.src] /\ InvalidParam(m) => InvalidParam(hdr[m.src])
  BY <1>3 DEF InBuffer, InvalidParam, ValidErase, ValidWrite, ValidRead
<1>5. \A r \in replies' \ replies : r.dst = m.src /\ r.n = m.n
  BY ReceiveForm
<1>6. FaultInReply'
  BY <1>1, <1>2, <1>4, <1>5 DEF FacadeInv, FaultInReply
<1> QED BY <1>1, <1>6 DEF FacadeInv, FacadeChecks, FaultInCall

\* Every step keeps the checks and the complaints.
LEMMA FacadeNext ==
  ASSUME Lifetime <= SeqMod
  PROVE  AckInv /\ FacadeInv /\ [Next]_vars => FacadeInv'
<1> SUFFICES ASSUME AckInv, FacadeInv, [Next]_vars PROVE FacadeInv'
  OBVIOUS
<1>1. ASSUME UNCHANGED <<pathVars, progVars>> PROVE FacadeInv'
  BY <1>1 DEF FacadeInv, FacadeChecks, FaultInReply, FaultInCall, pathVars, progVars
<1>2. ASSUME NEW t \in Targets, Restart(t), UNCHANGED progVars PROVE FacadeInv'
  BY <1>1, <1>2 DEF Restart
<1>3. CASE Exhausted \/ UNCHANGED vars
  BY <1>1, <1>3 DEF Exhausted, vars
<1> QED BY <1>2, <1>3, ProgrammerFault, ReceiveFault DEF Next

\* They hold in the initial states.
LEMMA FacadeInit == Init => FacadeInv
<1> SUFFICES ASSUME Init PROVE FacadeInv
  OBVIOUS
<1>1. \A p \in Programmers : hdr[p].op = "OP_DISCOVER" /\ outcome[p] = "none"
  BY DEF Init, ProgInit
<1>2. replies = {} /\ Facades \subseteq Programmers
  BY FacadeAssumption DEF Init, PathInit
<1> QED BY <1>1, <1>2 DEF FacadeInv, FacadeChecks, FaultInReply, FaultInCall, Checks

\* The checks of class Programmer are those of Target, but for the end of the flash: a
\* read or an erase it lets through is refused by the target only for reaching outside. The
\* buffers at both ends have 1500 bytes each.
THEOREM FacadeSound ==
  ASSUME Lifetime <= SeqMod, RxPayload <= MAX_PAYLOAD
  PROVE  Spec => []InvalidMeansOutside
<1>1. TypeInv /\ FacadeInv => InvalidMeansOutside
  <2> SUFFICES ASSUME TypeInv, FacadeInv, NEW p \in Facades,
                      outcome[p] = "STATUS_INV_PARAM", hdr[p].op \in {"OP_READ", "OP_ERASE"}
               PROVE  hdr[p].addr + hdr[p].len > FLASH_SIZE \/ hdr[p].addr >= FLASH_SIZE
    BY DEF InvalidMeansOutside
  <2>1. p \in Programmers /\ hdr[p].addr \in Nat /\ hdr[p].len \in Nat
    BY FacadeAssumption DEF TypeInv, TypeOK, Header, Length
  <2>2. InvalidParam(hdr[p]) /\ Checks(hdr[p])
    BY <2>1 DEF FacadeInv, FaultInCall, FacadeChecks
  <2>3. CASE hdr[p].op = "OP_READ"
    <3>1. hdr[p].len <= RxPayload
      BY <2>2, <2>3 DEF Checks, MAX_READ
    <3>2. ~(hdr[p].addr + hdr[p].len <= FLASH_SIZE /\ hdr[p].len <= MAX_PAYLOAD)
      BY <2>2, <2>3 DEF InvalidParam, ValidRead
    <3> QED BY <2>1, <3>1, <3>2, ProtocolAssumption, ProgrammerAssumption
  <2>4. CASE hdr[p].op = "OP_ERASE"
    <3>1. hdr[p].addr % ERASE_SIZE = 0
      BY <2>2, <2>4 DEF Checks
    <3>2. ~(hdr[p].addr % ERASE_SIZE = 0 /\ hdr[p].addr < FLASH_SIZE)
      BY <2>2, <2>4 DEF InvalidParam, ValidErase
    <3> QED BY <2>1, <3>1, <3>2, ProtocolAssumption
  <2> QED BY <2>3, <2>4
<1>2. AckInv /\ FacadeInv /\ [Next]_vars => AckInv' /\ FacadeInv'
  BY AckNext, FacadeNext
<1>3. AckInv => TypeInv
  BY DEF AckInv, BcastInv
<1> QED BY <1>1, <1>2, <1>3, AckInit, FacadeInit, PTL DEF Spec
-----------------------------------------------------------------------------
(***************************************************************************)
(* The length of what is read                                              *)
(***************************************************************************)

\* The reply to the newest transmission, a read, has as many words as the buffer asks for.
LengthInReply ==
  \A r \in replies :
    r.op = "OP_READ" /\ r.status = "STATUS_OK" /\ r.n = sent[r.dst]
      => Len(r.payload) = hdr[r.dst].len

\* So has what the call returned.
LengthInCall ==
  \A p \in Programmers :
    outcome[p] = "ok" /\ hdr[p].op = "OP_READ" => Len(rx[p]) = hdr[p].len

LengthInv == LengthInReply /\ LengthInCall

\* A transmission makes every earlier reply an old one.
LEMMA TransmitLength ==
  ASSUME AckInv, LengthInv,
         NEW p \in Programmers, NEW h, NEW b, NEW dst, NEW allowed,
         Transmit(p, h, b, dst, allowed),
         hdr' = [hdr EXCEPT ![p] = h]
  PROVE  LengthInReply'
<1> SUFFICES ASSUME NEW r \in replies', r.op = "OP_READ", r.status = "STATUS_OK",
                    r.n = sent'[r.dst]
             PROVE  Len(r.payload) = hdr'[r.dst].len
  BY DEF LengthInReply
<1>1. /\ sent \in [Programmers -> Nat]
      /\ hdr \in [Programmers -> Header]
      /\ replies \subseteq Reply
  BY DEF AckInv, BcastInv, TypeInv, TypeOK
<1>2. r \in replies /\ sent' = [sent EXCEPT ![p] = @ + 1]
  BY DEF Transmit, RepliesAfter
<1>3. r.dst \in Programmers /\ r.n <= sent[r.dst]
  BY <1>1, <1>2 DEF Reply, AckInv, RepliesInFlight, InFlight
<1>4. r.dst # p
  BY <1>1, <1>2, <1>3
<1> QED BY <1>1, <1>2, <1>3, <1>4 DEF LengthInv, LengthInReply

\* A call that returns from a read has the words of the reply to its newest transmission.
LEMMA ProgrammerLength ==
  ASSUME Lifetime <= SeqMod, AckInv, LengthInv,
         NEW p \in Programmers, Programmer(p)
  PROVE  LengthInv'
<1>0. /\ TypeInv
      /\ hdr \in [Programmers -> Header]
      /\ rx \in [Programmers -> Seq(Word \cup DeviceIds)]
      /\ outcome \in [Programmers -> Outcome]
  BY DEF AckInv, BcastInv, TypeInv, TypeOK
<1>1. ASSUME NEW what, outcome' = [outcome EXCEPT ![p] = what],
             what = "ok" => hdr[p].op # "OP_READ",
             \A q \in Programmers \ {p} : rx'[q] = rx[q],
             UNCHANGED <<sent, hdr, replies>>
      PROVE  LengthInv'
  <2>1. LengthInReply'
    BY <1>1 DEF LengthInv, LengthInReply
  <2>2. LengthInCall'
    BY <1>0, <1>1 DEF LengthInv, LengthInCall
  <2> QED BY <2>1, <2>2 DEF LengthInv
<1>2. ASSUME NEW what \in {"timeout", "bad_frame", "socket_error", "not_connected", "refused",
                          "unsupported"},
             outcome' = [outcome EXCEPT ![p] = what],
             UNCHANGED <<sent, hdr, replies, rx>>
      PROVE  LengthInv'
  BY <1>1, <1>2
<1>3. CASE StartCall(p)
  <2>1. CASE Begins(p)
    <3>1. PICK h \in Header, b \in Body, dst \in Destination, allowed \in BOOLEAN :
            Communicate(p, h, b, dst, allowed)
      BY <2>1 DEF Begins
    <3>2. /\ Transmit(p, h, b, dst, allowed) /\ hdr' = [hdr EXCEPT ![p] = h]
          /\ UNCHANGED rx
      BY <3>1 DEF Communicate, devVars
    <3>3. LengthInReply'
      BY <3>2, TransmitLength
    <3>4. \A q \in Programmers \ {p} : hdr'[q] = hdr[q] /\ outcome'[q] = outcome[q]
      BY <1>0, <3>1 DEF Communicate
    <3>5. outcome'[p] # "ok"
      BY <1>0, <3>1 DEF Communicate
    <3>6. LengthInCall'
      BY <3>2, <3>4, <3>5 DEF LengthInv, LengthInCall
    <3> QED BY <3>3, <3>6 DEF LengthInv
  <2>2. CASE Refused(p)
    BY <1>2, <2>2 DEF Refused, Refuse, pathVars, bufVars, devVars
  <2> QED BY <1>0, <1>3, <2>1, <2>2, StartCallForm
<1>4. CASE Timeout(p)
  <2>1. CASE Transmit(p, hdr[p], body[p], txAddr[p], bcast[p]) /\ UNCHANGED outcome
    <3>1. hdr' = [hdr EXCEPT ![p] = hdr[p]] /\ UNCHANGED <<hdr, rx>>
      BY <1>0, <1>4 DEF Timeout, bufVars, devVars
    <3>2. LengthInReply'
      BY <2>1, <3>1, TransmitLength
    <3> QED BY <2>1, <3>1, <3>2 DEF LengthInv, LengthInCall
  <2>2. CASE Throw(p, "timeout") /\ UNCHANGED <<seq, sent, requests, replies>>
    BY <1>2, <1>4, <2>2 DEF Timeout, Throw, bufVars, devVars
  <2> QED BY <1>4, <2>1, <2>2 DEF Timeout
<1>5. CASE RefuseFrame(p)
  BY <1>2, <1>5 DEF RefuseFrame, Throw, pathVars, bufVars, devVars
<1>6. CASE \E r \in replies : TakeReply(p, r)
  <2> PICK r \in replies : TakeReply(p, r)
    BY <1>6
  <2>1. CASE Reject(p, r)
    <3>1. /\ outcome' = [outcome EXCEPT ![p] = Complaint(p, r)]
          /\ UNCHANGED <<sent, hdr, replies, rx>>
      BY <2>1 DEF Reject, Throw, pathVars, bufVars, devVars
    <3>2. Complaint(p, r) # "ok"
      BY DEF Complaint, ErrorStatus
    <3> QED BY <1>1, <3>1, <3>2
  <2>2. CASE DiscoverDone(p, r)
    <3>1. hdr[p].op # "OP_READ" /\ UNCHANGED <<sent, hdr, replies, rx>>
      BY <2>2 DEF DiscoverDone, Done, RegisterOps, pathVars, bufVars
    <3>2. \E what : outcome' = [outcome EXCEPT ![p] = what]
      BY <2>2 DEF DiscoverDone
    <3> QED BY <1>1, <3>1, <3>2
  <2>3. CASE CommandDone(p, r)
    <3>1. hdr[p].op # "OP_READ" /\ UNCHANGED <<sent, hdr, replies, rx>>
      BY <2>3 DEF CommandDone, Done, pathVars, bufVars, devVars
    <3>2. \E what : outcome' = [outcome EXCEPT ![p] = what]
      BY <2>3 DEF CommandDone
    <3> QED BY <1>1, <3>1, <3>2
  <2>4. CASE DataDone(p, r)
    <3>1. /\ UNCHANGED <<sent, hdr, replies>>
          /\ r.op = hdr[p].op /\ r.status = "STATUS_OK"
          /\ \/ /\ rx' = [rx EXCEPT ![p] = r.payload]
                /\ outcome' = [outcome EXCEPT ![p] = "ok"]
             \/ /\ UNCHANGED rx
                /\ outcome' = [outcome EXCEPT ![p] = "no_payload"]
      BY <2>4 DEF DataDone, Done, pathVars, bufVars
    <3>2. r.n = sent[p] /\ r.dst = p
      BY <2>4, TakesNewest DEF DataDone, Done, Takes
    <3>3. hdr[p].op = "OP_READ" => Len(r.payload) = hdr[p].len
      BY <3>1, <3>2 DEF LengthInv, LengthInReply
    <3>4. LengthInReply'
      BY <3>1 DEF LengthInv, LengthInReply
    <3>5. LengthInCall'
      BY <1>0, <3>1, <3>3 DEF LengthInv, LengthInCall
    <3> QED BY <3>4, <3>5 DEF LengthInv
  <2> QED BY <2>1, <2>2, <2>3, <2>4 DEF TakeReply
<1> QED BY <1>3, <1>4, <1>5, <1>6 DEF Programmer

\* A target answers a read with as many words as the request asks for.
LEMMA ReceiveLength ==
  ASSUME AckInv, LengthInv, UNCHANGED progVars,
         NEW t \in Targets, NEW m \in requests, Receive(t, m)
  PROVE  LengthInv'
<1>1. UNCHANGED <<hdr, outcome, sent, rx>>
  BY ReceiveForm DEF progVars
<1>2. m.len \in Nat
  BY DEF AckInv, BcastInv, TypeInv, TypeOK, Request, Length
<1>3. Len(Words(flash[t], m.addr, m.len)) = m.len
  BY <1>2 DEF Words
<1>4. ASSUME NEW r \in replies' \ replies, r.op = "OP_READ", r.status = "STATUS_OK"
      PROVE  Len(r.payload) = m.len
  <2>1. m.op = "OP_READ"
    BY <1>4, ReceiveForm
  <2>2. ReadBlock(t, m)
    BY <1>4, <2>1
    DEF Receive, DropDuplicate, RefuseStranger, Register, ErasePage, WriteSector,
        RefuseParam, Unsupported, Send, Answer, RegisterOps, MemoryOps
  <2>3. r.payload = Words(flash[t], m.addr, m.len)
    BY <1>4, <2>2 DEF ReadBlock, Report, Send, Answer
  <2> QED BY <1>3, <2>3
<1>5. m.n = sent[m.src] => hdr[m.src].len = m.len
  BY DEF AckInv, RequestsOK, Newest, InBuffer
<1>6. \A r \in replies' \ replies : r.dst = m.src /\ r.n = m.n
  BY ReceiveForm
<1>7. LengthInReply'
  BY <1>1, <1>4, <1>5, <1>6 DEF LengthInv, LengthInReply
<1> QED BY <1>1, <1>7 DEF LengthInv, LengthInCall

\* Every step keeps the lengths.
LEMMA LengthNext ==
  ASSUME Lifetime <= SeqMod
  PROVE  AckInv /\ LengthInv /\ [Next]_vars => LengthInv'
<1> SUFFICES ASSUME AckInv, LengthInv, [Next]_vars PROVE LengthInv'
  OBVIOUS
<1>1. ASSUME UNCHANGED <<pathVars, progVars>> PROVE LengthInv'
  BY <1>1 DEF LengthInv, LengthInReply, LengthInCall, pathVars, progVars
<1>2. ASSUME NEW t \in Targets, Restart(t), UNCHANGED progVars PROVE LengthInv'
  BY <1>1, <1>2 DEF Restart
<1>3. CASE Exhausted \/ UNCHANGED vars
  BY <1>1, <1>3 DEF Exhausted, vars
<1> QED BY <1>2, <1>3, ProgrammerLength, ReceiveLength DEF Next

\* They are right in the initial states.
LEMMA LengthInit == Init => LengthInv
<1> SUFFICES ASSUME Init PROVE LengthInv
  OBVIOUS
<1>1. \A p \in Programmers : outcome[p] = "none"
  BY DEF Init, ProgInit
<1>2. replies = {}
  BY DEF Init, PathInit
<1> QED BY <1>1, <1>2 DEF LengthInv, LengthInReply, LengthInCall

\* Programmer::read() gives its caller as many words as it was asked for: the limit of the
\* programmer keeps the size within the 16 bits of the frame, and neither a retry nor a late
\* reply to another read changes the number of words.
THEOREM ReadsAnswered ==
  ASSUME Lifetime <= SeqMod
  PROVE  Spec => []ReadsInFull
<1>1. FacadeInv /\ LengthInv => ReadsInFull
  <2> SUFFICES ASSUME FacadeInv, LengthInv, NEW p \in Facades,
                      outcome[p] = "ok", hdr[p].op = "OP_READ"
               PROVE  \E c \in Reads : c[1] = hdr[p].addr /\ c[2] = Len(rx[p])
    BY DEF ReadsInFull
  <2>1. p \in Programmers
    BY FacadeAssumption
  <2>2. Len(rx[p]) = hdr[p].len
    BY <2>1 DEF LengthInv, LengthInCall
  <2> QED BY <2>2 DEF FacadeInv, FacadeChecks, Checks
<1>2. AckInv /\ FacadeInv /\ LengthInv /\ [Next]_vars => AckInv' /\ FacadeInv' /\ LengthInv'
  BY AckNext, FacadeNext, LengthNext
<1> QED BY <1>1, <1>2, AckInit, FacadeInit, LengthInit, PTL DEF Spec
=============================================================================
