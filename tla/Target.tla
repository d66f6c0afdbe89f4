------------------------------- MODULE Target -------------------------------
(***************************************************************************)
(* The software target of Target.cpp: the loop of Target::start(), which   *)
(* takes one request at a time, checks who sent it and whether it is a     *)
(* repetition, carries it out on the flash array and answers.              *)
(*                                                                         *)
(* The loop is sequential and its only contact with the world is its       *)
(* socket, so one iteration is one action; the progress report it sends    *)
(* before the work and the final status it sends after it both enter the   *)
(* path in that step. A frame that is too short, of another version, or    *)
(* not a request, is dropped before anything is read: it has no action.    *)
(***************************************************************************)
EXTENDS UdpPath

CONSTANTS
  Nobody,       \* an address that is no programmer's
  DeviceId,     \* DeviceId[t] is the id target t reports
  Zero,         \* the word a vector<byte> is filled with
  MaxRestarts   \* bound of the model: restarts of target processes

ASSUME TargetAssumption ==
  /\ Nobody \notin Programmers
  /\ DeviceId \in [Targets -> DeviceIds]
  /\ Zero \in Word
  /\ MaxRestarts \in Nat

VARIABLES
  flash,        \* _flash
  registered,   \* programmer_addr
  lastSeq,      \* last_seq
  restarts,     \* restarts so far
  handled       \* ghost: the requests t has answered with STATUS_OK

targetVars == <<flash, registered, lastSeq, restarts, handled>>

\* programmer_addr is read before it is written: it may hold any address.
TargetInit ==
  /\ flash = [t \in Targets |-> [i \in 0 .. FLASH_SIZE - 1 |-> Zero]]
  /\ registered \in [Targets -> Programmers \cup {Nobody}]
  /\ lastSeq = [t \in Targets |-> 0]
  /\ restarts = 0
  /\ handled = [t \in Targets |-> {}]

-----------------------------------------------------------------------------
Answer(t, m, status, payload) ==
  [src |-> t, dst |-> m.src, n |-> m.n, seq |-> m.seq, op |-> m.op,
   status |-> status, payload |-> payload]

\* send(): the reply goes to the sender of the request, in the buffer of the request.
Send(answers) ==
  /\ replies' = replies \cup answers
  /\ UNCHANGED <<requests, sent>>

Perform(t, m) == handled' = [handled EXCEPT ![t] = @ \cup {m}]

\* The request has a sequence number that was seen before: nobody hears of it.
Duplicate(t, m) == m.op \notin RegisterOps /\ m.seq = lastSeq[t]

DropDuplicate(t, m) ==
  /\ Arrives(t, m)
  /\ Duplicate(t, m)
  /\ Hear(t, m)
  /\ UNCHANGED <<requests, replies, sent, targetVars>>

\* Mutated form of Stranger: the sender is not checked.
StrangerNever(t, m) == FALSE

\* The request comes from a programmer that is not the registered one.
Stranger(t, m) == m.op \notin RegisterOps /\ m.src # registered[t]

RefuseStranger(t, m) ==
  /\ Arrives(t, m)
  /\ ~Duplicate(t, m)
  /\ Stranger(t, m)
  /\ Hear(t, m)
  /\ Send({Answer(t, m, "STATUS_INV_SRC", <<>>)})
  /\ UNCHANGED targetVars

\* Mutated forms of Accept: the sequence number is never remembered, or not that of a
\* discovery.
AcceptForgetting(t, m) ==
  /\ Arrives(t, m)
  /\ ~Duplicate(t, m)
  /\ ~Stranger(t, m)
  /\ Hear(t, m)
  /\ UNCHANGED <<lastSeq, restarts>>

AcceptForgettingDiscovery(t, m) ==
  /\ Arrives(t, m)
  /\ ~Duplicate(t, m)
  /\ ~Stranger(t, m)
  /\ Hear(t, m)
  /\ lastSeq' = [lastSeq EXCEPT ![t] = IF m.op \in RegisterOps THEN @ ELSE m.seq]
  /\ UNCHANGED restarts

\* The request gets past both checks and its sequence number is remembered.
Accept(t, m) ==
  /\ Arrives(t, m)
  /\ ~Duplicate(t, m)
  /\ ~Stranger(t, m)
  /\ Hear(t, m)
  /\ lastSeq' = [lastSeq EXCEPT ![t] = m.seq]
  /\ UNCHANGED restarts

-----------------------------------------------------------------------------
\* OP_DISCOVER and OP_NET_CONFIG: the sender takes the target over.
Register(t, m) ==
  /\ Accept(t, m)
  /\ m.op \in RegisterOps
  /\ registered' = [registered EXCEPT ![t] = m.src]
  /\ Send({Answer(t, m, "STATUS_OK", <<DeviceId[t]>>)})
  /\ Perform(t, m)
  /\ UNCHANGED flash

ValidErase(m) == m.addr % ERASE_SIZE = 0 /\ m.addr < FLASH_SIZE
ValidWrite(m) == m.addr % WRITE_SIZE = 0 /\ m.addr < FLASH_SIZE

\* The sum of a read is one of 32 bits. It is modelled as it is below AddrMod, and the
\* callers make no other reads (ReadsFit in module Session).
ValidRead(m) == m.addr + m.len <= FLASH_SIZE /\ m.len <= MAX_PAYLOAD

\* STATUS_INPROGRESS, the work, then STATUS_OK.
Report(t, m, payload) ==
  /\ Send({Answer(t, m, "STATUS_INPROGRESS", <<>>), Answer(t, m, "STATUS_OK", payload)})
  /\ Perform(t, m)

ErasePage(t, m) ==
  /\ Accept(t, m)
  /\ m.op = "OP_ERASE"
  /\ ValidErase(m)
  /\ flash' = [flash EXCEPT ![t] =
                 [i \in DOMAIN @ |-> IF i \in m.addr .. m.addr + ERASE_SIZE - 1
                                     THEN Blank ELSE @[i]]]
  /\ Report(t, m, <<>>)
  /\ UNCHANGED registered

(***************************************************************************)
(* What request.write.data holds. The compiler aligns Write, which is not  *)
(* packed, to four bytes: in Target's buffer it lies at offset 12, in the  *)
(* frame at offset 10. The data is read one word late, and its last word   *)
(* is whatever an earlier frame left behind the end of this one.           *)
(***************************************************************************)
ReceivedData(m) ==
  {d \in Block : \A i \in 0 .. WRITE_SIZE - 2 : d[i] = m.body.data[i + 1]}

\* The address is the header's, not the one of the payload.
WriteSector(t, m) ==
  /\ Accept(t, m)
  /\ m.op = "OP_WRITE"
  /\ ValidWrite(m)
  /\ \E d \in ReceivedData(m) :
       flash' = [flash EXCEPT ![t] =
                   [i \in DOMAIN @ |-> IF i \in m.addr .. m.addr + WRITE_SIZE - 1
                                       THEN d[i - m.addr] ELSE @[i]]]
  /\ Report(t, m, <<>>)
  /\ UNCHANGED registered

\* The words from a on, l of them.
Words(mem, a, l) == [i \in 1 .. l |-> mem[a + i - 1]]

ReadBlock(t, m) ==
  /\ Accept(t, m)
  /\ m.op = "OP_READ"
  /\ ValidRead(m)
  /\ Report(t, m, Words(flash[t], m.addr, m.len))
  /\ UNCHANGED <<flash, registered>>

InvalidParam(m) ==
  \/ m.op = "OP_ERASE" /\ ~ValidErase(m)
  \/ m.op = "OP_WRITE" /\ ~ValidWrite(m)
  \/ m.op = "OP_READ" /\ ~ValidRead(m)

RefuseParam(t, m) ==
  /\ Accept(t, m)
  /\ InvalidParam(m)
  /\ Send({Answer(t, m, "STATUS_INV_PARAM", <<>>)})
  /\ UNCHANGED <<flash, registered, handled>>

Unsupported(t, m) ==
  /\ Accept(t, m)
  /\ m.op \notin RegisterOps \cup MemoryOps
  /\ Send({Answer(t, m, "STATUS_INV_OP", <<>>)})
  /\ UNCHANGED <<flash, registered, handled>>

-----------------------------------------------------------------------------
\* The process ends and is started again: the flash is a vector in its memory.
Restart(t) ==
  /\ restarts < MaxRestarts
  /\ restarts' = restarts + 1
  /\ flash' = [flash EXCEPT ![t] = [i \in DOMAIN @ |-> Zero]]
  /\ lastSeq' = [lastSeq EXCEPT ![t] = 0]
  /\ \E a \in Programmers \cup {Nobody} : registered' = [registered EXCEPT ![t] = a]
  /\ UNCHANGED <<pathVars, handled>>

Receive(t, m) ==
  \/ DropDuplicate(t, m)
  \/ RefuseStranger(t, m)
  \/ Register(t, m)
  \/ ErasePage(t, m)
  \/ WriteSector(t, m)
  \/ ReadBlock(t, m)
  \/ RefuseParam(t, m)
  \/ Unsupported(t, m)
=============================================================================
