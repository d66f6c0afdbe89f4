-------------------------- MODULE NetworkProgrammer --------------------------
(***************************************************************************)
(* NetworkProgrammer (Programmer.cpp): the programmer's end of a session.  *)
(* Every public operation fills the transmit buffer and runs communicate() *)
(* which sends the frame up to three times, each time with a new sequence  *)
(* number, and waits for the reply that carries the newest one.            *)
(*                                                                         *)
(* An operation of the class is the action that starts it (up to the       *)
(* first sendto()), Timeout for every deadline that passes, and one of the *)
(* actions that end it: a reply taken by process(), a frame process()      *)
(* refuses, or the third timeout.                                          *)
(***************************************************************************)
EXTENDS UdpPath

CONSTANTS
  Supported,    \* ids DeviceDescriptor::find() knows
  NoDevice,     \* _dev_desc == nullptr
  RxPayload,    \* ReceiveBuffer::MAX_PAYLOAD: words after the header in _rx_buf
  MaxSends      \* bound of the model: transmissions of one programmer

ASSUME ProgrammerAssumption ==
  /\ Supported \subseteq DeviceIds
  /\ NoDevice \notin DeviceIds
  /\ RxPayload \in Nat
  /\ MAX_PAYLOAD <= RxPayload /\ RxPayload < LenMod
  /\ MaxSends \in Nat

VARIABLES
  tries,        \* transmissions of the call in progress, 0 when there is none
  seq,          \* sequence number in the header of _tx_buf
  hdr,          \* operation, address and length in the header of _tx_buf
  body,         \* payload of the frame in _tx_buf
  txAddr,       \* _tx_address
  bcast,        \* SO_BROADCAST of the socket
  boot,         \* device id in _bootloader
  devDesc,      \* _dev_desc
  rx,           \* payload handed to the caller by the last call
  outcome       \* how the last call ended, "pending" while one is in progress

bufVars == <<hdr, body>>
devVars == <<boot, devDesc, rx>>
progVars == <<tries, seq, hdr, body, txAddr, bcast, boot, devDesc, rx, outcome>>

MAX_TRIES == 3

Outcome ==
  {"none", "pending", "ok", "timeout", "not_connected", "socket_error", "bad_frame",
   "bad_operation", "bad_status", "no_payload", "unknown_device", "refused",
   "unsupported"} \cup ErrorStatus

\* The buffer and the socket address are not initialised by the constructor.
ProgInit ==
  /\ tries = [p \in Programmers |-> 0]
  /\ seq \in [Programmers -> SeqNo]
  /\ \E a \in {0, FLASH_SIZE} :
       hdr = [p \in Programmers |-> [op |-> "OP_DISCOVER", addr |-> a, len |-> 0]]
  /\ body = [p \in Programmers |-> NoBody]
  /\ txAddr = [p \in Programmers |-> NoAddr]
  /\ bcast = [p \in Programmers |-> FALSE]
  /\ boot = [p \in Programmers |-> NoDevice]
  /\ devDesc = [p \in Programmers |-> NoDevice]
  /\ rx = [p \in Programmers |-> <<>>]
  /\ outcome = [p \in Programmers |-> "none"]

-----------------------------------------------------------------------------
(***************************************************************************)
(* communicate(): sending                                                  *)
(***************************************************************************)

\* sendto() fails for the zero address, and for a broadcast the socket does not allow.
CanSend(dst, allowed) == dst \in Targets \/ (dst = Broadcast /\ allowed)

Frame(p, h, b, dst) ==
  [src |-> p, dst |-> dst, n |-> sent[p] + 1, seq |-> NextSeq(seq[p]),
   op |-> h.op, addr |-> h.addr, len |-> h.len, body |-> b]

\* data() counts the sequence number up even when sendto() then fails.
Transmit(p, h, b, dst, allowed) ==
  /\ seq' = [seq EXCEPT ![p] = NextSeq(@)]
  /\ sent' = [sent EXCEPT ![p] = @ + 1]
  /\ requests' = RequestsAfter(p, sent[p] + 1)
                   \cup (IF CanSend(dst, allowed) THEN {Frame(p, h, b, dst)} ELSE {})
  /\ replies' = RepliesAfter(p, sent[p] + 1)

\* The call p begins: buffer h and b, to dst. The budget covers its retries.
Communicate(p, h, b, dst, allowed) ==
  /\ tries[p] = 0
  /\ sent[p] + MAX_TRIES <= MaxSends
  /\ hdr' = [hdr EXCEPT ![p] = h]
  /\ body' = [body EXCEPT ![p] = b]
  /\ txAddr' = [txAddr EXCEPT ![p] = dst]
  /\ bcast' = [bcast EXCEPT ![p] = allowed]
  /\ Transmit(p, h, b, dst, allowed)
  /\ tries' = [tries EXCEPT ![p] = IF CanSend(dst, allowed) THEN 1 ELSE 0]
  /\ outcome' = [outcome EXCEPT
                   ![p] = IF CanSend(dst, allowed) THEN "pending" ELSE "socket_error"]
  /\ UNCHANGED <<heard, devVars>>

\* Mutated form of Throw: a failed discovery leaves SO_BROADCAST set.
ThrowKeepingBroadcast(p, what) ==
  /\ tries' = [tries EXCEPT ![p] = 0]
  /\ outcome' = [outcome EXCEPT ![p] = what]
  /\ UNCHANGED bcast

\* An exception leaves the call; process_discover() withdraws the broadcast permission.
Throw(p, what) ==
  /\ tries' = [tries EXCEPT ![p] = 0]
  /\ outcome' = [outcome EXCEPT ![p] = what]
  /\ bcast' = [bcast EXCEPT ![p] = @ /\ hdr[p].op \notin RegisterOps]

\* Mutated form of Timeout: the last deadline is not the end of the call.
TimeoutWithoutEnd(p) ==
  /\ tries[p] \in 1 .. MAX_TRIES - 1
  /\ Transmit(p, hdr[p], body[p], txAddr[p], bcast[p])
  /\ tries' = [tries EXCEPT ![p] = @ + 1]
  /\ UNCHANGED <<outcome, heard, bufVars, txAddr, bcast, devVars>>

\* The deadline passes: send again with the next sequence number, or give up.
Timeout(p) ==
  /\ tries[p] > 0
  /\ \/ /\ tries[p] < MAX_TRIES
        /\ Transmit(p, hdr[p], body[p], txAddr[p], bcast[p])
        /\ tries' = [tries EXCEPT ![p] = @ + 1]
        /\ UNCHANGED <<outcome, bcast>>
     \/ /\ tries[p] = MAX_TRIES
        /\ Throw(p, "timeout")
        /\ UNCHANGED <<seq, sent, requests, replies>>
  /\ UNCHANGED <<heard, bufVars, txAddr, devVars>>

-----------------------------------------------------------------------------
(***************************************************************************)
(* The public operations                                                   *)
(***************************************************************************)

\* select_operation() sets the whole header and sends no payload. The size_t of the caller
\* becomes the uint16_t of the header.
Select(op, a, l) == [op |-> op, addr |-> a, len |-> l % LenMod]

\* prepare_payload() sets the operation only: address and length stay what they were.
Prepare(p, op) == [hdr[p] EXCEPT !.op = op]

Discover(p) ==
  Communicate(p, Select("OP_DISCOVER", 0, 0), NoBody, Broadcast, TRUE)

\* The payload, an address and a MAC, is left out: Target does not look at it.
Configure(p) ==
  Communicate(p, Prepare(p, "OP_NET_CONFIG"), NoBody, Broadcast, TRUE)

Connect(p, t) ==
  Communicate(p, Select("OP_DISCOVER", 0, 0), NoBody, t, bcast[p])

\* A call ends with an exception before it has done anything.
Refuse(p, what) ==
  /\ tries[p] = 0
  /\ outcome' = [outcome EXCEPT ![p] = what]
  /\ UNCHANGED <<pathVars, tries, seq, bufVars, txAddr, bcast, devVars>>

\* check_connection(), then the operation on the selected target.
Checked(p, h, b) ==
  \/ devDesc[p] # NoDevice /\ Communicate(p, h, b, txAddr[p], bcast[p])
  \/ devDesc[p] = NoDevice /\ Refuse(p, "not_connected")

Read(p, a, l) == Checked(p, Select("OP_READ", a, l), NoBody)
Erase(p, a)   == Checked(p, Select("OP_ERASE", a, 0), NoBody)
Reset(p)      == Checked(p, Select("OP_RESET", 0, 0), NoBody)

\* memcpy() copies a sector, whatever the size of the buffer d: the words behind a
\* shorter one are what lies there in memory, those of a longer one are left out.
Copied(d) ==
  {block \in Block : \A i \in 0 .. WRITE_SIZE - 1 : i < Len(d) => block[i] = d[i + 1]}

Write(p, a, d) ==
  \E block \in Copied(d) :
    Checked(p, Prepare(p, "OP_WRITE"), [address |-> a, data |-> block])

\* checksum() does not call check_connection().
Checksum(p, a, l) ==
  Communicate(p, Select("OP_CHECKSUM", a, l), NoBody, txAddr[p], bcast[p])

-----------------------------------------------------------------------------
(***************************************************************************)
(* process(): a frame arrives while communicate() polls. A frame with      *)
(* another sequence number (Result::Ignore) and an expected progress       *)
(* report (Result::ExtendTime) change nothing and have no action.          *)
(***************************************************************************)

\* Mutated form of Matches: any reply will do.
MatchesAnything(p, r) == TRUE

\* get_sequence() comparison: the only thing that ties a reply to a request.
Matches(p, r) == r.seq = seq[p]

Takes(p, r) ==
  /\ tries[p] > 0
  /\ r.dst = p
  /\ Matches(p, r)

\* The frame is too short, of another version, or recvfrom() fails: the call ends.
RefuseFrame(p) ==
  /\ tries[p] > 0
  /\ \E what \in {"bad_frame", "socket_error"} : Throw(p, what)
  /\ UNCHANGED <<pathVars, seq, bufVars, txAddr, devVars>>

\* The operation does not match, the status is an error, or nothing may be in progress.
Unwanted(p, r) ==
  \/ r.op # hdr[p].op
  \/ r.status \in ErrorStatus
  \/ r.status = "STATUS_INPROGRESS" /\ r.op \notin SlowOps

\* The operation is compared before the status is looked at.
Complaint(p, r) ==
  CASE r.op # hdr[p].op -> "bad_operation"
    [] r.op = hdr[p].op /\ r.status \in ErrorStatus -> r.status
    [] OTHER -> "bad_status"

Reject(p, r) ==
  /\ Takes(p, r)
  /\ Unwanted(p, r)
  /\ Throw(p, Complaint(p, r))
  /\ UNCHANGED <<pathVars, seq, bufVars, txAddr, devVars>>

Done(p, r) == Takes(p, r) /\ r.op = hdr[p].op /\ r.status = "STATUS_OK"

\* process_discover(): the sender is selected before its device id is looked up.
DiscoverDone(p, r) ==
  /\ Done(p, r)
  /\ r.op \in RegisterOps
  /\ tries' = [tries EXCEPT ![p] = 0]
  /\ txAddr' = [txAddr EXCEPT ![p] = r.src]
  /\ bcast' = [bcast EXCEPT ![p] = FALSE]
  /\ boot' = [boot EXCEPT ![p] = Head(r.payload)]
  /\ \/ /\ Head(r.payload) \in Supported
        /\ devDesc' = [devDesc EXCEPT ![p] = Head(r.payload)]
        /\ outcome' = [outcome EXCEPT ![p] = "ok"]
     \/ /\ Head(r.payload) \notin Supported
        /\ outcome' = [outcome EXCEPT ![p] = "unknown_device"]
        /\ UNCHANGED devDesc
  /\ UNCHANGED <<pathVars, seq, bufVars, rx>>

\* read() and checksum() return the payload and throw when there is none.
DataDone(p, r) ==
  /\ Done(p, r)
  /\ r.op \in {"OP_READ", "OP_CHECKSUM"}
  /\ tries' = [tries EXCEPT ![p] = 0]
  /\ \/ /\ r.payload # <<>>
        /\ rx' = [rx EXCEPT ![p] = r.payload]
        /\ outcome' = [outcome EXCEPT ![p] = "ok"]
     \/ /\ r.payload = <<>>
        /\ outcome' = [outcome EXCEPT ![p] = "no_payload"]
        /\ UNCHANGED rx
  /\ UNCHANGED <<pathVars, seq, bufVars, txAddr, bcast, boot, devDesc>>

CommandDone(p, r) ==
  /\ Done(p, r)
  /\ r.op \notin RegisterOps \cup {"OP_READ", "OP_CHECKSUM"}
  /\ tries' = [tries EXCEPT ![p] = 0]
  /\ outcome' = [outcome EXCEPT ![p] = "ok"]
  /\ UNCHANGED <<pathVars, seq, bufVars, txAddr, bcast, devVars>>
=============================================================================
