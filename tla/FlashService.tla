----------------------------- MODULE FlashService -----------------------------
(***************************************************************************)
(* What a programmer promises its caller about the memory of a target,     *)
(* without frames, retries or sequence numbers: calls are made one after   *)
(* the other, and                                                          *)
(*   - a call that returns has taken effect, once or more, and will not    *)
(*     take effect again;                                                  *)
(*   - what it returns is taken from the memory at that moment;            *)
(*   - a call that failed may take effect later, but never behind a newer  *)
(*     call, and not once a newer call has returned.                       *)
(***************************************************************************)
EXTENDS Sequences, Integers

CONSTANTS
  NoCall,
  Effects(_, _),    \* Effects(c, m): what the memory m may be after call c
  Result(_, _, _),  \* Result(c, m, g): what c gives its caller, who held g before
  MaxRepeats        \* transmissions of one call

VARIABLES
  mem,              \* the memory
  pending,          \* the call in progress
  applied,          \* it has taken effect
  late,             \* calls that failed and may still take effect, oldest first
  got               \* what the last call that has a result gave

vars == <<mem, pending, applied, late, got>>

\* The oldest of the failed calls may be forgotten at any time.
Forgotten(calls) == {SubSeq(calls, i, Len(calls)) : i \in 1 .. Len(calls) + 1}

Init ==
  /\ pending = NoCall
  /\ ~applied
  /\ late = <<>>
  /\ got = <<>>

Begin ==
  /\ pending = NoCall
  /\ pending' # NoCall
  /\ ~applied'
  /\ late' \in Forgotten(late)
  /\ UNCHANGED <<mem, got>>

Apply ==
  /\ pending # NoCall
  /\ mem' \in Effects(pending, mem)
  /\ applied'
  /\ late' = <<>>
  /\ UNCHANGED <<pending, got>>

\* A call that failed takes effect after all; those that failed before it never will.
ApplyLate ==
  /\ ~applied
  /\ \E i \in DOMAIN late :
       /\ mem' \in Effects(late[i], mem)
       /\ late' = SubSeq(late, i + 1, Len(late))
  /\ UNCHANGED <<pending, applied, got>>

Forget ==
  /\ late' \in Forgotten(late)
  /\ UNCHANGED <<mem, pending, applied, got>>

Return ==
  /\ pending # NoCall
  /\ applied
  /\ got' = Result(pending, mem, got)
  /\ pending' = NoCall
  /\ ~applied'
  /\ late' = <<>>
  /\ UNCHANGED mem

\* A call fails, and leaves transmissions behind.
Fail ==
  /\ pending # NoCall
  /\ pending' = NoCall
  /\ ~applied'
  /\ \E k \in 0 .. MaxRepeats : late' \in Forgotten(late \o [i \in 1 .. k |-> pending])
  /\ UNCHANGED <<mem, got>>

Next == Begin \/ Apply \/ ApplyLate \/ Forget \/ Return \/ Fail

Spec == Init /\ [][Next]_vars
=============================================================================
