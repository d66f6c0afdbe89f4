------------------------------ MODULE NetTester ------------------------------
(***************************************************************************)
(* TargetNetworkTester (TargetTester.cpp): keeps a few frames under way to *)
(* a device that answers each of them, and finds out from the answers what *)
(* was lost and what the device got wrong.                                 *)
(*                                                                         *)
(* The tester is sequential: a step is what it does with one datagram, or  *)
(* at one deadline. The device and the path are external: the device runs  *)
(* a test firmware, the path loses, repeats and reorders datagrams.        *)
(*                                                                         *)
(* A frame carries n, its number in the order of sending, and a response   *)
(* the n of its frame. n is not on the wire; it stands for the payload     *)
(* too, which is random: no two frames have the same. What the tester only *)
(* prints (sizes, rates, registers of the device) is left out.             *)
(***************************************************************************)
EXTENDS Integers, Sequences

CONSTANTS
  SeqMod,             \* values of _seq without its top bit (2^31)
  QUEUE_FILL_LEVEL,
  MaxFrames,          \* bound of the model: frames sent
  MaxTimeouts,        \* bound of the model: deadlines that pass
  MaxReceived,        \* bound of the model: datagrams received
  MaxAnswers,         \* bound of the model: responses of the device
  MaxBoots            \* bound of the model: reboots of the device

\* The queue grows with every timeout, but never beyond the sequence numbers.
ASSUME TesterAssumption ==
  /\ SeqMod \in Nat \ {0}
  /\ QUEUE_FILL_LEVEL \in Nat \ {0}
  /\ MaxFrames \in Nat /\ MaxTimeouts \in Nat /\ MaxReceived \in Nat
  /\ MaxAnswers \in Nat /\ MaxBoots \in Nat
  /\ QUEUE_FILL_LEVEL + MaxTimeouts <= SeqMod

VARIABLES
  phase,        \* "start", "testing"; "failed" by an exception; "undefined"
  queue,        \* _queue
  seq,          \* _seq
  stats,        \* _stats
  lastBoot,     \* _last_response.boot_counter
  report,       \* what the last response was found to say of the device's reboots
  requests,     \* frames that may still reach the device
  responses,    \* responses that may still reach the tester
  device,       \* the device: last_seq, boot_counter
  seen          \* ghost: what an observer of path and device has seen

testerVars == <<phase, queue, seq, stats, lastBoot, report>>
vars == <<testerVars, requests, responses, device, seen>>

Damage == {"none", "changed", "resized"}

NoStats ==
  [tx |-> 0, rx |-> 0, timeout |-> 0, lost_rx |-> 0, lost_tx |-> 0,
   payload_size |-> 0, payload_invalid |-> 0, seq_mismatch |-> 0]

\* _last_response is not initialised: its counters may be small or large.
Init ==
  /\ phase = "start"
  /\ queue = <<>>
  /\ seq = 0
  /\ stats = NoStats
  /\ lastBoot \in {0, MaxBoots + 2}
  /\ report = "none"
  /\ requests = {}
  /\ responses = {}
  /\ device = [last_seq |-> 0, boot_counter |-> 1]
  /\ seen = [heard |-> 0, newest |-> 0, ordered |-> TRUE, answers |-> 0, taken |-> 0,
             changed |-> 0, resized |-> 0, boots |-> 0, bootsTaken |-> 0, rebooted |-> FALSE]

-----------------------------------------------------------------------------
(***************************************************************************)
(* send()                                                                  *)
(***************************************************************************)

\* _seq without the bit that asks the device to clear its statistics.
Low(s) == IF s >= SeqMod THEN s - SeqMod ELSE s

\* Mutated form of SeqAfter: the top bit is not taken back.
SeqAfterClear(s, i) == s + i

\* _seq after i frames that do not ask for it, i <= SeqMod.
SeqAfter(s, i) == IF Low(s) + i >= SeqMod THEN Low(s) + i - SeqMod ELSE Low(s) + i

FrameOf(n, s, clear) == [n |-> n, seq |-> s, clear |-> clear]

\* The next k frames.
NextFrames(k) == [i \in 1 .. k |-> FrameOf(stats.tx + i, SeqAfter(seq, i), FALSE)]

\* Mutated form of Missing: one frame is sent for each response.
MissingOne(length) == 1

\* The frames the queue lacks once it holds length of them.
Missing(length) == IF length < QUEUE_FILL_LEVEL THEN QUEUE_FILL_LEVEL - length ELSE 0

FramesOf(q) == {q[i] : i \in DOMAIN q}

Start ==
  /\ phase = "start"
  /\ LET first == FrameOf(1, SeqMod + SeqAfter(seq, 1), TRUE)
         more  == [i \in 1 .. Missing(1) |->
                     FrameOf(1 + i, SeqAfter(SeqMod + SeqAfter(seq, 1), i), FALSE)]
     IN  /\ queue' = <<first>> \o more
         /\ seq' = SeqAfter(SeqMod + SeqAfter(seq, 1), Missing(1))
         /\ stats' = [stats EXCEPT !.tx = @ + 1 + Missing(1)]
         /\ requests' = requests \cup FramesOf(queue')
  /\ phase' = "testing"
  /\ UNCHANGED <<lastBoot, report, responses, device, seen>>

-----------------------------------------------------------------------------
(***************************************************************************)
(* timeout()                                                               *)
(***************************************************************************)

\* The deadline passes: one more frame is sent, the unanswered ones are kept.
Timeout ==
  /\ phase = "testing"
  /\ stats.timeout < MaxTimeouts
  /\ LET k == 1 + Missing(Len(queue) + 1)
     IN  /\ stats.tx + k <= MaxFrames
         /\ queue' = queue \o NextFrames(k)
         /\ seq' = SeqAfter(seq, k)
         /\ stats' = [stats EXCEPT !.timeout = @ + 1, !.tx = @ + k]
         /\ requests' = requests \cup FramesOf(NextFrames(k))
  /\ UNCHANGED <<phase, lastBoot, report, responses, device, seen>>

-----------------------------------------------------------------------------
(***************************************************************************)
(* received()                                                              *)
(***************************************************************************)

\* Mutated forms of Answered: the search starts behind the first frame; ends at it.
AnsweredLater(i, r) ==
  /\ i \in DOMAIN queue
  /\ i > 1
  /\ queue[i].seq = r.cur_seq

AnsweredFirst(i, r) == i = 1 /\ queue # <<>>

\* The frame the tester takes r for the answer to.
Answered(i, r) ==
  /\ i \in DOMAIN queue
  /\ queue[i].seq = r.cur_seq
  /\ \A j \in 1 .. i - 1 : queue[j].seq # r.cur_seq

\* What the comparison of the payloads finds; those of two frames differ, unless empty.
Findings(frame, r) == IF frame.n = r.n THEN {r.damage} ELSE Damage

\* Mutated form of Skipped: the frames that are given up are not counted.
SkippedSilently(r, count) == stats

\* The frames in front of it are given up: the counters of the device tell on which way
\* they were lost, or so the tester takes it.
Skipped(r, count) ==
  IF r.last_seq + 1 = r.cur_seq
  THEN [stats EXCEPT !.lost_tx = @ + count] ELSE [stats EXCEPT !.lost_rx = @ + count]

\* Mutated form of Reboots: the counter is expected to change with every response.
RebootsAlways(r) == IF r.boot_counter < lastBoot THEN "decremented" ELSE "reboot"

Reboots(r) ==
  CASE r.boot_counter < lastBoot -> "decremented"
    [] r.boot_counter > lastBoot -> "reboot"
    [] OTHER -> "none"

\* What the observer makes of a response the tester takes.
Observe(r) ==
  [seen EXCEPT
     !.ordered = @ /\ r.n > seen.newest,
     !.newest = r.n,
     !.taken = @ + 1,
     !.changed = IF r.damage = "changed" THEN @ + 1 ELSE @,
     !.resized = IF r.damage = "resized" THEN @ + 1 ELSE @,
     !.rebooted = r.boots > seen.bootsTaken,
     !.bootsTaken = r.boots]

Receivable == phase = "testing" /\ stats.rx < MaxReceived

\* request is a reference, and the search copies each next frame into the first one's place,
\* which pop() has destroyed but a deque does not release: the copy is what is compared.
Receive(r) ==
  /\ Receivable
  /\ \E i \in DOMAIN queue :
       /\ Answered(i, r)
       /\ LET rest == SubSeq(queue, i + 1, Len(queue))
              k    == Missing(Len(rest))
          IN  /\ stats.tx + k <= MaxFrames
              /\ queue' = rest \o NextFrames(k)
              /\ seq' = SeqAfter(seq, k)
              /\ requests' = requests \cup FramesOf(NextFrames(k))
              /\ \E finding \in Findings(queue[i], r) :
                   stats' = [Skipped(r, i - 1) EXCEPT
                               !.rx = @ + 1,
                               !.tx = @ + k,
                               !.seq_mismatch = IF i > 1 THEN @ + 1 ELSE @,
                               !.payload_invalid = IF finding = "changed" THEN @ + 1 ELSE @,
                               !.payload_size = IF finding = "resized" THEN @ + 1 ELSE @]
       /\ lastBoot' = IF queue[i].clear THEN 0 ELSE r.boot_counter
  /\ report' = Reboots(r)
  /\ seen' = Observe(r)
  /\ UNCHANGED <<phase, responses, device>>

\* No frame of the queue has the number: the search goes on in an empty queue.
ReceiveForeign(r) ==
  /\ Receivable
  /\ \A i \in DOMAIN queue : ~Answered(i, r)
  /\ phase' = "undefined"
  /\ seen' = Observe(r)
  /\ UNCHANGED <<queue, seq, stats, lastBoot, report, requests, responses, device>>

\* "Response too short."
ReceiveShort ==
  /\ Receivable
  /\ stats' = [stats EXCEPT !.rx = @ + 1]
  /\ UNCHANGED <<phase, queue, seq, lastBoot, report, requests, responses, device, seen>>

\* The socket fails, and the exception ends the test.
SocketFails ==
  /\ phase = "testing"
  /\ phase' = "failed"
  /\ UNCHANGED <<queue, seq, stats, lastBoot, report, requests, responses, device, seen>>

-----------------------------------------------------------------------------
(***************************************************************************)
(* The device                                                              *)
(***************************************************************************)

\* It answers a frame, right or wrong. A frame with the top bit set clears its counters;
\* whether the answer to that frame has them cleared already is left open.
Answer(m) ==
  /\ phase = "testing"
  /\ seen.answers < MaxAnswers
  /\ \E damage \in Damage, count \in {device.boot_counter, IF m.clear THEN 0 ELSE device.boot_counter} :
       responses' = responses \cup
         {[n |-> m.n, cur_seq |-> m.seq, last_seq |-> device.last_seq, boot_counter |-> count,
           boots |-> seen.boots, damage |-> damage]}
  /\ device' = [last_seq |-> m.seq, boot_counter |-> IF m.clear THEN 0 ELSE device.boot_counter]
  /\ seen' = [seen EXCEPT !.ordered = @ /\ m.n > seen.heard, !.heard = m.n, !.answers = @ + 1]
  /\ UNCHANGED <<testerVars, requests>>

\* The boot counter survives the reboot.
Reboot ==
  /\ phase = "testing"
  /\ seen.boots < MaxBoots
  /\ device' = [last_seq |-> 0, boot_counter |-> device.boot_counter + 1]
  /\ seen' = [seen EXCEPT !.boots = @ + 1]
  /\ UNCHANGED <<testerVars, requests, responses>>

\* The program has ended, or anything may happen.
Stopped == phase \in {"failed", "undefined"} /\ UNCHANGED vars

Next ==
  \/ Start
  \/ Timeout
  \/ \E r \in responses : Receive(r) \/ ReceiveForeign(r)
  \/ ReceiveShort
  \/ SocketFails
  \/ \E m \in requests : Answer(m)
  \/ Reboot
  \/ Stopped

Spec == Init /\ [][Next]_vars

-----------------------------------------------------------------------------
Frame == [n : Nat \ {0}, seq : 0 .. 2 * SeqMod - 1, clear : BOOLEAN]

Stats ==
  [tx : Nat, rx : Nat, timeout : Nat, lost_rx : Nat, lost_tx : Nat,
   payload_size : Nat, payload_invalid : Nat, seq_mismatch : Nat]

Response ==
  [n : Nat \ {0}, cur_seq : 0 .. 2 * SeqMod - 1, last_seq : 0 .. 2 * SeqMod - 1,
   boot_counter : Nat, boots : Nat, damage : Damage]

\* Every variable has a value the program can hold in it.
TypeOK ==
  /\ phase \in {"start", "testing", "failed", "undefined"}
  /\ queue \in Seq(Frame)
  /\ seq \in 0 .. 2 * SeqMod - 1
  /\ stats \in Stats
  /\ lastBoot \in Nat
  /\ report \in {"none", "decremented", "reboot"}
  /\ requests \subseteq Frame
  /\ responses \subseteq Response
  /\ device \in [last_seq : 0 .. 2 * SeqMod - 1, boot_counter : Nat]
  /\ seen \in [heard : Nat, newest : Nat, ordered : BOOLEAN, answers : Nat, taken : Nat,
               changed : Nat, resized : Nat, boots : Nat, bootsTaken : Nat,
               rebooted : BOOLEAN]

\* received() reads an empty queue only when a response came twice or was overtaken: lost
\* frames and responses, timeouts and a device that reboots do not make it.
FallsOnlyWhenMisordered == phase = "undefined" => ~seen.ordered

\* Each frame is accounted for once: it is in the queue, was answered or was given up.
EveryFrameCounted ==
  phase = "testing" => stats.tx = Len(queue) + seen.taken + stats.lost_rx + stats.lost_tx

\* The queue is as long as the tester keeps it, and longer by a frame for a timeout.
QueueBounded == Len(queue) <= QUEUE_FILL_LEVEL + stats.timeout

\* On a path that keeps the order, the tester reports a payload exactly when the device got
\* it wrong: each response is compared with the frame it answers, whatever was lost.
ReportsDamage ==
  seen.ordered =>
    stats.payload_invalid = seen.changed /\ stats.payload_size = seen.resized

\* On such a path, from the second response on, a reboot is reported when there was one
\* since the response before, and the counter is never found to have gone back.
ReportsReboots ==
  seen.ordered /\ seen.taken > 1 => report = IF seen.rebooted THEN "reboot" ELSE "none"
=============================================================================
