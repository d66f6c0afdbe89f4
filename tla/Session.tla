------------------------------- MODULE Session -------------------------------
(***************************************************************************)
(* Programmers, targets and the UDP path between them.                     *)
(*                                                                         *)
(* The programmers and the targets are processes of their own: a step is a *)
(* step of one of them, and they share only the datagrams. A call of a     *)
(* programmer is open from the action that starts it until it returns or   *)
(* throws; a caller may make any call next, whatever the last one did. It  *)
(* calls the NetworkProgrammer itself, or through class Programmer, whose  *)
(* operations are those on the memory of the target.                       *)
(***************************************************************************)
EXTENDS Facade, Target

CONSTANTS
  Reads,        \* <<address, length>> a caller may read
  Erases,       \* addresses a caller may erase
  Writes,       \* <<address, words>> a caller may write
  Calls         \* names of the other calls the callers make

ASSUME SessionAssumption ==
  /\ Reads \subseteq Nat \X Nat
  /\ Erases \subseteq Nat
  /\ Writes \subseteq Nat \X Seq(Word)
  /\ Calls \subseteq {"discover", "configure", "connect", "reset", "checksum",
                     "chip_erase", "erase_write"}

\* No read wraps around the addresses: Target would add its address and length wrongly.
ASSUME ReadsFit == \A c \in Reads : c[1] + c[2] < AddrMod

vars == <<pathVars, progVars, targetVars>>

Init == PathInit /\ ProgInit /\ TargetInit

\* The operations that select a target.
StartSelection(p) ==
  \/ "discover" \in Calls /\ Discover(p)
  \/ "configure" \in Calls /\ Configure(p)
  \/ "connect" \in Calls /\ \E t \in Targets : Connect(p, t)

\* The operations on the target, of a NetworkProgrammer ...
StartDirect(p) ==
  \/ "reset" \in Calls /\ Reset(p)
  \/ "checksum" \in Calls /\ Checksum(p, 0, WRITE_SIZE)
  \/ \E c \in Reads : Read(p, c[1], c[2])
  \/ \E a \in Erases : Erase(p, a)
  \/ \E w \in Writes : Write(p, w[1], w[2])

\* ... and of a Programmer.
StartFacade(p) ==
  \/ "reset" \in Calls /\ FacadeReset(p)
  \/ "checksum" \in Calls /\ FacadeChecksum(p, 0, WRITE_SIZE)
  \/ "chip_erase" \in Calls /\ FacadeChipErase(p)
  \/ \E c \in Reads : FacadeRead(p, c[1], c[2])
  \/ \E a \in Erases : FacadeErase(p, a)
  \/ \E w \in Writes : FacadeWrite(p, w[1], w[2])
  \/ "erase_write" \in Calls /\ \E w \in Writes : FacadeEraseWrite(p, w[1], w[2])

StartCall(p) ==
  \/ StartSelection(p)
  \/ p \notin Facades /\ StartDirect(p)
  \/ p \in Facades /\ StartFacade(p)

TakeReply(p, r) ==
  \/ Reject(p, r)
  \/ DiscoverDone(p, r)
  \/ DataDone(p, r)
  \/ CommandDone(p, r)

Programmer(p) ==
  \/ StartCall(p)
  \/ Timeout(p)
  \/ RefuseFrame(p)
  \/ \E r \in replies : TakeReply(p, r)

\* The budget of transmissions is used up and every call is over.
Exhausted ==
  /\ \A p \in Programmers : tries[p] = 0 /\ sent[p] + MAX_TRIES > MaxSends
  /\ UNCHANGED vars

Next ==
  \/ \E p \in Programmers : Programmer(p) /\ UNCHANGED targetVars
  \/ \E t \in Targets, m \in requests : Receive(t, m) /\ UNCHANGED progVars
  \/ \E t \in Targets : Restart(t) /\ UNCHANGED progVars
  \/ Exhausted

Spec == Init /\ [][Next]_vars

\* poll() returns at the deadline at the latest: a timeout cannot be put off for ever.
FairSpec == Spec /\ \A p \in Programmers : WF_vars(Timeout(p) /\ UNCHANGED targetVars)

-----------------------------------------------------------------------------
(***************************************************************************)
(* Types                                                                   *)
(***************************************************************************)

\* Every variable has a value the program can hold in it.
TypeOK ==
  /\ requests \subseteq Request
  /\ replies \subseteq Reply
  /\ sent \in [Programmers -> Nat]
  /\ heard \in [Targets -> [Programmers -> Nat]]
  /\ tries \in [Programmers -> 0 .. MAX_TRIES]
  /\ seq \in [Programmers -> SeqNo]
  /\ hdr \in [Programmers -> Header]
  /\ body \in [Programmers -> Body]
  /\ txAddr \in [Programmers -> Destination]
  /\ bcast \in [Programmers -> BOOLEAN]
  /\ boot \in [Programmers -> DeviceIds \cup {NoDevice}]
  /\ devDesc \in [Programmers -> Supported \cup {NoDevice}]
  /\ rx \in [Programmers -> Seq(Word \cup DeviceIds)]
  /\ outcome \in [Programmers -> Outcome]
  /\ flash \in [Targets -> Memory]
  /\ registered \in [Targets -> Programmers \cup {Nobody}]
  /\ lastSeq \in [Targets -> SeqNo]
  /\ restarts \in 0 .. MaxRestarts
  /\ handled \in [Targets -> SUBSET Request]

-----------------------------------------------------------------------------
(***************************************************************************)
(* Safety                                                                  *)
(***************************************************************************)

\* m carries what is in the transmit buffer of p now.
InBuffer(p, m) ==
  /\ m.src = p
  /\ m.op = hdr[p].op
  /\ m.addr = hdr[p].addr
  /\ m.len = hdr[p].len
  /\ m.body = body[p]

\* The target p talks to has handled the newest transmission of p.
Executed(p) ==
  \E t \in Targets :
    /\ t = txAddr[p]
    /\ \E m \in handled[t] : InBuffer(p, m) /\ m.n = sent[p]

\* A call that returned was carried out: the target it is addressed to has handled
\* the newest transmission of this very call, although process() looks only at the
\* sequence number and the operation of a reply, never at who sent it.
AckMeansExecuted == \A p \in Programmers : outcome[p] = "ok" => Executed(p)

\* Nothing but a discovery or a configuration is ever broadcast: an operation on the
\* flash reaches the selected target alone, also after calls that failed half way.
NoBroadcastFlashOp ==
  \A m \in requests : m.dst = Broadcast => m.op \in RegisterOps

\* p has registered with t since t was started.
Enrolled(t, p) ==
  /\ registered[t] = p
  /\ \E m \in handled[t] : m.src = p /\ m.op \in RegisterOps

\* On a path that keeps the order, the filter that knows only the last sequence number
\* is enough: a request that was carried out is never carried out a second time.
NoReexecution ==
  \A t \in Targets, m \in requests :
    (Arrives(t, m) /\ m \in handled[t] /\ m.op \notin RegisterOps)
      => Duplicate(t, m) \/ Stranger(t, m)

\* On such a path the filter discards copies only, never a request that is new, even
\* when the sequence numbers have wrapped around.
FreshNotDropped ==
  \A t \in Targets, m \in requests :
    (Arrives(t, m) /\ Enrolled(t, m.src) /\ Duplicate(t, m)
       /\ m.n - heard[t][m.src] < SeqMod) => m.n = heard[t][m.src]

\* On such a path what read() returns is what the flash holds, as long as no one else
\* has taken the target over: no earlier write or erase takes effect behind it.
ReadIsCurrent ==
  \A p \in Programmers : \A t \in Targets :
    (outcome[p] = "ok" /\ hdr[p].op = "OP_READ" /\ txAddr[p] = t /\ registered[t] = p)
      => rx[p] = Words(flash[t], hdr[p].addr, hdr[p].len)

\* What class Programmer lets through is what the target can do: the target finds fault
\* with a read or an erase only when it reaches outside the flash, never with its size or
\* alignment. (A write is judged by the address an older operation left in the header.)
InvalidMeansOutside ==
  \A p \in Facades :
    (outcome[p] = "STATUS_INV_PARAM" /\ hdr[p].op \in {"OP_READ", "OP_ERASE"})
      => hdr[p].addr + hdr[p].len > FLASH_SIZE \/ hdr[p].addr >= FLASH_SIZE

\* A read that class Programmer lets through is answered in full: as many words as were
\* asked for, although the frame has 16 bits for their number, and the replies to reads of
\* other sizes may still be under way.
ReadsInFull ==
  \A p \in Facades :
    (outcome[p] = "ok" /\ hdr[p].op = "OP_READ")
      => \E c \in Reads : c[1] = hdr[p].addr /\ c[2] = Len(rx[p])

-----------------------------------------------------------------------------
(***************************************************************************)
(* What comments, messages and tests of the repository say, and the code   *)
(* does not do                                                             *)
(***************************************************************************)

\* The address in the header of a request is its "Starting address": a write that a
\* target carries out goes to the address it was called with.
WriteReachesItsAddress ==
  \A t \in Targets : \A m \in handled[t] : m.op = "OP_WRITE" => m.addr = m.body.address

\* write() is to "Write a device's memory": when it has returned, and nobody else has
\* taken the target over, the sector the target has written holds the data.
WriteStoresItsData ==
  \A p \in Programmers, t \in Targets :
    (outcome[p] = "ok" /\ hdr[p].op = "OP_WRITE" /\ txAddr[p] = t /\ registered[t] = p)
      => \A i \in 0 .. WRITE_SIZE - 1 : flash[t][hdr[p].addr + i] = body[p].data[i]

\* "Not connected to a target.": an operation that check_connection() lets through is
\* sent to a target that has taken this programmer's discovery.
OperatesOnConnected ==
  \A p \in Programmers :
    (tries[p] > 0 /\ hdr[p].op \in MemoryOps \cup {"OP_RESET"})
      => \E t \in Targets : /\ t = txAddr[p]
                            /\ \E m \in handled[t] : m.src = p /\ m.op \in RegisterOps

-----------------------------------------------------------------------------
(***************************************************************************)
(* Liveness                                                                *)
(***************************************************************************)

\* Every call returns or throws, whatever the path and the targets do.
CallReturns == \A p \in Programmers : tries[p] > 0 ~> tries[p] = 0
=============================================================================
