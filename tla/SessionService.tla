---------------------------- MODULE SessionService ----------------------------
(***************************************************************************)
(* A session of one programmer and one target that does not restart, on a  *)
(* path that keeps the order of requests, implements the service of        *)
(* FlashService: retries, lost and repeated datagrams and the one sequence *)
(* number a target remembers are not visible to the caller.                *)
(***************************************************************************)
EXTENDS Session, FiniteSets

CONSTANT Idle       \* no call is in progress

ASSUME IdleAssumption == Idle \notin [op : Operation, addr : Nat, len : Nat, body : Body]

Caller == CHOOSE p \in Programmers : TRUE
Device == CHOOSE t \in Targets : TRUE

CallOf(op, addr, len, block) == [op |-> op, addr |-> addr, len |-> len, body |-> block]
CallOfRequest(m) == CallOf(m.op, m.addr, m.len, m.body)

\* What Target makes of its flash when it carries the call out.
CallEffects(c, mem) ==
  CASE c.op = "OP_ERASE" /\ ValidErase(c) ->
         {[i \in DOMAIN mem |-> IF i \in c.addr .. c.addr + ERASE_SIZE - 1
                                THEN Blank ELSE mem[i]]}
    [] c.op = "OP_WRITE" /\ ValidWrite(c) ->
         {[i \in DOMAIN mem |-> IF i \in c.addr .. c.addr + WRITE_SIZE - 1
                                THEN d[i - c.addr] ELSE mem[i]] : d \in ReceivedData(c)}
    [] OTHER -> {mem}

\* read() gives its caller the words of the memory, other operations nothing.
CallResult(c, mem, held) ==
  IF c.op = "OP_READ" THEN Words(mem, c.addr, c.len) ELSE held

\* The transmissions of the call in progress come after this one.
CallStart == sent[Caller] - tries[Caller]

\* Element i of a set of numbers, and what f has for its elements, in ascending order.
Nth(S, i)    == CHOOSE n \in S : Cardinality({k \in S : k <= n}) = i
Listed(S, f) == [i \in 1 .. Cardinality(S) |-> f[Nth(S, i)]]

\* The transmissions of earlier calls that the target may still take.
Overdue == {m.n : m \in requests} \cap (heard[Device][Caller] + 1 .. CallStart)

\* The calls they belong to, oldest first.
Outstanding ==
  Listed(Overdue, [n \in Overdue |-> CallOfRequest(CHOOSE m \in requests : m.n = n)])

Service == INSTANCE FlashService WITH
  NoCall     <- Idle,
  Effects    <- CallEffects,
  Result     <- CallResult,
  MaxRepeats <- MAX_TRIES,
  mem        <- flash[Device],
  pending    <- IF tries[Caller] = 0 THEN Idle
                ELSE CallOf(hdr[Caller].op, hdr[Caller].addr, hdr[Caller].len, body[Caller]),
  applied    <- tries[Caller] > 0 /\ \E m \in handled[Device] : m.n > CallStart,
  late       <- Outstanding,
  got        <- rx[Caller]

\* The caller of a programmer sees the service of FlashService: a call that returned has
\* taken effect and will not do so again, one that failed never does so behind a newer one.
ImplementsService == Service!Spec
=============================================================================
