# A TLA+ verification of Programmer

Programmer (`src/Programmer`) writes firmware into PIC18F microcontrollers over
Ethernet: a programmer on a PC talks UDP to a bootloader in the device, and a
software target stands in for the device. This directory models its protocol,
both of its ends, and the way from a firmware file to the sectors of the flash;
model-checks all of it on small instances with TLC; and proves with TLAPS, for all values
of the constants that satisfy the named assumptions, every safety property the runs check
and that a session implements an abstract service.

The repository has no documentation and no automated tests. What the code is meant to do
is taken from its comments, its messages and the expectations of `TargetProtoTester`.

## The system

| component | source | state | operations | what makes it correct |
|---|---|---|---|---|
| protocol | `protocol.hpp` | - | operation codes, status codes, frames | both ends read a frame alike |
| `NetworkProgrammer` | `Programmer.cpp`, `Programmer.hpp` | transmit buffer (header, payload, sequence number), selected address, broadcast permission, device descriptor | discover, configure, connect, read, write, erase, reset, checksum; each runs `communicate()`: three transmissions, one second each | a call that returns was carried out, by the right target; a call always ends |
| `Target` | `Target.cpp` | flash, registered programmer, last sequence number | `start()`: receive, check, carry out, answer | nothing is carried out twice, for a stranger, or dropped when it is new |
| network | `Network.hpp` | datagrams | `sendto`, `recvfrom`, broadcast option | none: it loses, duplicates, reorders |
| `Image` | `Image.cpp`, `Image.hpp` | list of sections | `process(address, data)`, `process(address, size)` | no byte lost or moved; overlaps refused |
| `ImageProgrammer` | `Image.cpp` | locals of `program()` | `program()`, `erase()`, `write()` | the flash holds the image; erase before write, each once |
| `Hex`, `Elf` | `Hex.cpp`, `Elf.cpp` | position in the file, segment address, headers | `read_file`, `read_image`, `read_image2` | every record reaches the image at its address |
| `Programmer` facade | `Programmer.cpp:16-130` | - | checks arguments, calls the strategy | what it lets through is what the strategy can do |
| `DeviceDescriptor` | `DeviceDescriptor.cpp` | table of devices | `find` | - |
| `TargetNetworkTester` | `TargetTester.cpp:47-334` | queue of frames, sequence number, statistics | `send`, `received`, `timeout`, `test` | a response is compared with its own frame |
| `TargetProtoTester` | `TargetTester.cpp:339-456` | - | `run_tests` | - |
| `Main`, `Exceptions`, `Timer`, `elf.h` | | - | start-up, formatting, system calls | - |

Interaction. A programmer and a target share nothing but datagrams. A caller holds a
`NetworkProgrammer` (directly or behind the facade) and makes one call at a time; a call
blocks until it returns or throws. A target takes one request at a time. Several
programmers may talk to a target: a discovery makes its sender the registered one. A file
reader pushes blocks into an `Image`, and `program()` is called once the file is read. The
network tester talks to a device of its own kind, with a test firmware, and shares nothing
with the sessions.

What is hard in it: replies and requests that arrive late, twice or never, while the only
link between the two is a sequence number of one byte and one remembered number in the
target; calls that fail half way and leave their traces in the programmer; buffers that
are reused with what the last call left in them; a list of sections that must be joined,
sorted and cut so that each page is erased before, and never after, it is written; files
that end early or whose headers say more than they hold; a queue of frames whose answers
come late, wrong, twice or not at all.
`PROJECT.json` lists these hazards at their lines, each with the properties that cover it.

## Modules

    Protocol <- UdpPath <- NetworkProgrammer <- Facade \
                       <- Target                    -> Session
    Session, FlashService <- SessionService <- MCSession

    Image <- HexFile, ElfFile, ImageProgrammer <- Firmware <- MCFirmware

    Session   <- SessionProofs <- FacadeProofs, OrderedProofs
    OrderedProofs, SessionService <- ServiceProofs
    Firmware  <- ImageProofs <- LoadingProofs <- ProgramProofs
    NetTester <- NetTesterProofs

- **Protocol**: frames and codes. The memory is counted in *words* of two bytes, because
  the two ends disagree by two bytes on where the data of a write starts; nothing smaller
  matters. `SeqMod` is the number of sequence numbers (256 in the program), `LenMod` that
  of lengths (2^16 bytes), `AddrMod` that of addresses (2^32 bytes).
- **UdpPath** (external): datagrams stay in the sets `requests` and `replies` and may be
  received at any time, in any order, often or never. `Lifetime` is how many newer
  transmissions of its programmer a datagram survives; `Ordered` keeps the requests of one
  programmer to one target in order. Each datagram carries `n`, the number of its
  transmission, which is not on the wire and which no guard of the program reads.
- **NetworkProgrammer**: one action per public operation (`Discover`, `Configure`,
  `Connect`, `Read`, `Write`, `Erase`, `Reset`, `Checksum`), which does everything up to
  the first `sendto()`; `Timeout` for a deadline that passes (send again with the next
  sequence number, or throw); `Reject`, `DiscoverDone`, `DataDone`, `CommandDone` for the
  ways `process()` and the operation after it treat a matching reply; `RefuseFrame` for a
  short frame or a failing socket, which may come from anybody at any time.
  `Result::Ignore` and `Result::ExtendTime` change no state and have no action.
  Variables: `seq`, `hdr`, `body` are `_tx_buf`, `txAddr` is `_tx_address`, `bcast` is
  SO_BROADCAST, `boot`/`devDesc` are `_bootloader`/`_dev_desc`; `tries` is the loop counter
  of `communicate()`, `rx` and `outcome` are what the caller gets.
  `Select` cuts the size of a read or a checksum off at `LenMod`, as the `uint16_t` of
  `select_operation()` does. `RxPayload` is the receive buffer.
  `Refuse` is an exception before anything was done. `Copied` is what `memcpy()` makes of
  a buffer that is no sector.
- **Facade**: class `Programmer`. An operation hands its arguments on, or refuses them;
  `erase_write()` calls `write()`, as the code does, and `chip_erase()` reaches the default
  operation of `IProgrammerStrategy`, which throws. `Facades` are the programmers that are
  called this way. Its limits are the receive buffer of the programmer (`RxPayload`), not
  the buffer of the target (`MAX_PAYLOAD`): the source defines them apart, both with 1500
  bytes for a frame.
- **Target**: one iteration of the loop is one action, chosen by the checks of the code:
  `DropDuplicate`, `RefuseStranger`, `Register`, `ErasePage`, `WriteSector`, `ReadBlock`,
  `RefuseParam`, `Unsupported`. The progress report and the final status are sent in one
  step: the loop is sequential, and as replies are taken in any order from a set, sending
  them apart would add no behaviour of the programmer. A frame dropped before it is looked
  at has no action. `Restart` ends the process and starts it anew. `programmer_addr` is
  read before it is written, so it starts with any value. `WriteSector` picks the last
  word of the data at will: it lies beyond the end of the frame, in what an older frame
  left in the buffer. `handled` is a ghost: the requests answered with STATUS_OK.
- **Session**: all of them together, the properties, and the specifications. `Exhausted`
  is the end of the bounded model: all transmissions are used up and nobody waits.
- **FlashService** is abstract: what a caller is promised about the memory of a target,
  without frames, retries or sequence numbers. A call that returns has taken effect and
  will not do so again; a call that failed may take effect later (`ApplyLate`), but never
  behind a newer one. What a call does to the memory, and what it returns, are parameters.
- **SessionService** maps a session of one programmer and one target to it: a call has
  been applied once the target has handled one of its transmissions; the failed calls that
  may still take effect (`Outstanding`) are the requests of earlier calls on the path that
  are newer than the last the target has heard, in the order of their transmission
  (`Overdue`, `Listed`).
- **Image**: a block or section is its first address, its end and its bytes by address.
  `Process` is `process(address, data)` with its four outcomes; `Load` is
  `process(address, size)` with the read that fills the new section; `LoadFails` is the
  file ending in it. `given` is a ghost: what the file has handed over.
- **HexFile**: `read_file()`, a line at a time: one action per type of record, `BadRecord`
  for all that `parse_line()` and `process_line()` refuse, `EndsEarly` for a file without an
  end record. The line is chosen when it is read. A line without a record, and a start
  address, leave no trace. `lines` is a ghost.
- **ElfFile**: the constructor (`ReadHeader`, `ReadSection`, `ReadNames`, `ReadProgram`,
  `Opened`) and the two ways to load an image (`LoadProgram`, `LoadSection`, `ImageRead`).
  The contents are a function of the position in the file, the entries of its tables are
  chosen when they are read. `OffMod` is where a sum of two offsets is cut off (2^32). An
  `Exception` is reported ("failed"); a `String`, which `read()` throws at the end of the
  file, and the assertion of `read_image2()` end the program ("terminated"). A table that
  is not read again is dropped, to keep the states few.
- **Firmware** composes them: a file of either kind is read, and then programmed. It is
  more general than `Main.cpp:110-165` (which `if (0)` switches off in the source): there
  only the image of `read_image()` is programmed, while a Hex file and `read_image2()` fill
  an `Image` that has no `program()`.
- **ImageProgrammer**: `program()`, one action per part of the loop: `Begin` (sort),
  `SwitchSector` (write, prepare, erase), `FillSector`, `NextSection`, `Finish`;
  `Underflow` is the case in which `address - sector_addr` wraps around. The device is a
  ghost (`flash`, `writes`, `erasures`), since `erase()` and `write()` only print.
- **NetTester**: `test()` with `send()`, `received()` and `timeout()`: a step is what the
  tester does with one datagram (`Receive`, `ReceiveForeign`, `ReceiveShort`) or at one
  deadline (`Timeout`), with the frames that refill the queue. A frame carries its number
  `n` in the order of sending, which is not on the wire and stands for the random payload.
  The device (`Answer`, `Reboot`) and the path are external: the device may answer wrongly
  and reboot, the path loses, repeats and reorders. `seen` is a ghost, an observer of both.
  `SeqMod` is the number of sequence numbers (2^31), the number plus `SeqMod` is the one
  with the top bit, which asks the device to clear its counters.

Operators whose comment starts with "Mutated form" are plausible bugs; no specification
uses them. `PROJECT.json` pairs each with the definition it replaces and the property that
must then fail.

## Properties and runs

Bounds common to the sessions: sectors of two words, a page of two sectors, a flash of one
page (two in `single`), three words (`zero`, `blank`, `a`), three or two sequence numbers, so that they wrap
within the budget `MaxSends` of transmissions of a programmer. A call is only started
when all three of its transmissions are in the budget: no call is cut off by the bound.

| run | instance | shows |
|---|---|---|
| `lookup` | 1 programmer, 2 targets (one with an unknown device), discovery, reset, checksum and erase, 5 transmissions, unordered | `AckMeansExecuted`, `NoBroadcastFlashOp` |
| `single` | 1 programmer behind class `Programmer`, 1 target that may restart, every operation with good and bad arguments, 5 transmissions, 2 sequence numbers, unordered | `TypeOK`, `AckMeansExecuted`, `InvalidMeansOutside`, `ReadsInFull` |
| `ordered` | 1 programmer, 1 target, read, write and erase, 7 transmissions, ordered | `NoReexecution`, `FreshNotDropped`, `ReadIsCurrent`, `ImplementsService` |
| `pair` | 2 programmers (symmetric), 1 target, 4 transmissions each, 2 sequence numbers, ordered | the first three of these |
| `aged` | datagrams outlive the sequence numbers, fairness | `CallReturns` |
| `firmware` | Hex files of up to 4 lines, with records of 0, 1, 2 or 5 bytes, both kinds of address records, bad and missing lines; ELF files of 12 bytes with 3 segments or sections and each damage the checks look for; sectors of 2 bytes, pages of 4, a device of 16 | `TypeOK`, `LosslessLoading`, `HexPlaced`, `RefusedForOverlap`, `ElfPlaced`, `ChecksSuffice`, `WearsOnce`, `DeviceHoldsImage`, `StaysInBuffer`, `Terminates` |
| `nettester` | fill level 2, 6 frames, 4 sequence numbers, 2 timeouts, 3 responses received of 3 sent, 1 reboot | `TypeOK`, `FallsOnlyWhenMisordered`, `EveryFrameCounted`, `QueueBounded`, `ReportsDamage`, `ReportsReboots` |

- `AckMeansExecuted`: `process()` never looks at the sender of a reply. Still, a call that
  returns was handled, in its newest transmission, by the target it is addressed to. It
  needs `Lifetime <= SeqMod`: with 256 numbers and at least one transmission per reply
  that is a network that delivers within 256 transmissions. Under that bound no wrong
  operation can match either, so "bad_operation" is reached in `aged` only.
- `NoBroadcastFlashOp` relates the socket option, the selected address and the operation
  over calls that fail: an unconnected programmer must not erase every device.
- `NoReexecution`, `FreshNotDropped`, `ReadIsCurrent` are about one remembered sequence
  number as a duplicate filter. They hold only where requests of a programmer arrive in
  order. `FreshNotDropped` is stated for a registered programmer and for fewer than
  `SeqMod` transmissions since the last that arrived: beyond, a full turn makes a new
  request look like the last. Registration counts since a discovery that was handled,
  because a discovery also sets the remembered number.
- `InvalidMeansOutside` compares two sets of checks that are written apart from each
  other: those of class `Programmer` and those of the target. It is stated for reads and
  erases, since a write is judged by the address an older operation left in the header. With
  a receive buffer larger than the buffer of the target it fails.
- `ReadsInFull` is about a size that passes through three limits: that of the programmer,
  the 16 bits of the frame, and the buffer of the target. One of the reads of `single` is
  larger than a frame can say; what is left of its size there is a read nobody asked for.
- `ImplementsService` is the refinement: every step of a session is a step of
  `FlashService` or changes nothing the caller sees. It holds on an ordered path, for a
  target that does not restart and has one programmer; each of the three is needed, since
  a request that was overtaken, a target that forgot its last number, or another
  programmer in between makes a call take effect twice or too late.
- `LosslessLoading`, `DeviceHoldsImage`, `StaysInBuffer` are stated for pieces that do not
  overlap; `WearsOnce` for all.
- `HexPlaced` computes where a byte belongs from the lines of the file, not from the state
  of the reader. `ElfPlaced` goes both ways: all that the headers promise is in the image,
  and nothing else is. `ChecksSuffice` says which cases the checks of the constructor
  leave open: the entry at which loading stops is a segment at the start of the file, has a
  sum that does not fit 32 bits, or has no address. The sums of the header (`HeaderOK`) are
  those of a `size_t` of 64 bits.
- `FallsOnlyWhenMisordered`: the comment at `TargetTester.cpp:109` knows that the search
  for a frame may run off the queue. Lost frames, lost responses, late answers to a
  timeout and reboots do not cause it; a response that comes twice or is overtaken does.
- `ReportsDamage`, `ReportsReboots` are about a path that keeps the order. The first
  response is left out of `ReportsReboots`, because it is compared with a
  `_last_response` that was never initialised.
- `EveryFrameCounted` counts the lost frames as a whole: on which way they were lost is a
  guess of the tester (`Skipped`), and no property says it is right.
- The bounds of `firmware` let three pieces touch, leave gaps in a sector, in a page and
  of a whole page, straddle sectors and pages, and come in each order; each byte of a file
  tells its position, so that one in the wrong place shows. In `nettester` four sequence
  numbers wrap around within six frames, and two timeouts fill the queue up to the number
  of sequence numbers, which is the most the code can bear (`TesterAssumption`).

Runs that must fail, each for a disagreement between the code and what it says (see
"findings" in `PROJECT.json`):

| run | property | because |
|---|---|---|
| `write_address` | `WriteReachesItsAddress` | the address of a write is not put into the header, where the target takes it from |
| `write_data` | `WriteStoresItsData` | `Protocol::Write` is not packed, and the target reads the data two bytes late |
| `stale_connection` | `OperatesOnConnected` | a failed connect leaves the new address with the old device descriptor |
| `image_overlap` | `OverlapRefused` | only the first joinable section is looked at |
| `image_empty` | `WritesPreparedData` | the last sector is written even if there is none |

Because of the first two, no property says that a write stores its data at its address;
`ReadIsCurrent` is about the address and words the target has used.

### Fairness

`Session!FairSpec` assumes weak fairness of `Timeout` alone: `poll()` returns at the
deadline at the latest and the loop then goes on. The two deadlines of a slow call cannot
be put off by replies that are ignored, since `deadline` is fixed before the loop. Nothing
is assumed of the path or the targets. `Firmware!FairSpec` assumes that `program()`,
a sequential function, goes on once it was called. The tester runs for ever and has no
liveness property.

## Proofs

`SessionProofs` proves, for all programmers, targets, arguments and bounds that satisfy
the named assumptions of the modules:

- `TypeCorrect`: `Spec => []TypeOK`
- `BroadcastSafe`: `Spec => []NoBroadcastFlashOp`
- `AckSafe`: `Lifetime <= SeqMod` implies `Spec => []AckMeansExecuted`

None of the properties is inductive. `TypeInv` adds that the reply to a discovery carries
a device id (`DiscoverReplyOK`), or `boot` would have no type. `BcastInv` adds
`BroadcastOK`: broadcasts are permitted only while a discovery waits, which is why every
way out of a discovery must withdraw the permission. `AckInv` ties path and ends together:
the sequence number of a datagram in flight is that of the newest transmission, counted
back (`InFlight`, `Back`), the newest transmission carries what is in the buffer
(`Newest`), what a target has handled was sent to it (`HandledOK`), and a reply with
STATUS_OK has its handled request (`OkMeansHandled`). A reply with the awaited number is
then less than `SeqMod` transmissions old and has the same number as the newest one, so it
is the answer to the newest one (`BackUnique`, `DoneMeansHandled`).

Each invariant has a lemma for `Init` and one for `Next`, the latter with one case per
action; `StartCallForm` and `ReceiveForm` reduce the actions that start a call, or answer
a request, to the few facts the later invariants need. TLC has checked every inductive
invariant named here as an invariant of the runs of its component.

`FacadeProofs` proves, for `Lifetime <= SeqMod`:

- `FacadeSound`: `RxPayload <= MAX_PAYLOAD` implies `Spec => []InvalidMeansOutside`
- `ReadsAnswered`: `Spec => []ReadsInFull`

`FacadeInv` follows a fault from the check to the caller:
what class `Programmer` has let through (`FacadeChecks`), what the target finds wrong with
a request and says in its reply (`FaultInReply`), and what the caller is told
(`FaultInCall`). Between the last two lies the question which request a reply answers,
so it rests on `AckInv`. `LengthInv` follows the length of a read in the same way, from the
reply (`LengthInReply`) to the caller (`LengthInCall`); that `RxPayload` is below `LenMod`,
an assumption about two constants of the source, is what keeps the size in the frame.

`OrderedProofs` proves, for `Ordered` and `MaxRestarts = 0`:

- `CarriedOutOnce`: `Spec => []NoReexecution`
- `DropsCopiesOnly`: `Spec => []FreshNotDropped`
- `ReadsCurrent`: `Lifetime <= SeqMod` implies `Spec => []ReadIsCurrent`

`OnceInv` says that a transmission is one request (`OneRequest`), that what was handled was
heard and what was heard was sent (`HeardOK`), and that a target that has handled the
newest request it heard of its programmer remembers its number (`LastIsNewest`). A copy
that arrives is not older than what was heard, so it is the newest one, and its number is
the remembered one. `FreshInv` adds `InStep`: the remembered number is that of the newest
request heard, counted back from the number of any later one, so two that are less than
`SeqMod` apart differ. `CurrentInv` adds `ReadReplies`: a reply to the newest transmission
has what the flash holds now, because whatever could change the flash is older than the
read and on an ordered path can no longer arrive.

`ServiceProofs` proves the refinement, for one programmer and one target
(`Programmers = {Caller}`, `Targets = {Device}`), `Ordered`, `MaxRestarts = 0` and
`Lifetime <= SeqMod`:

- `ServiceImplemented`: `Spec => ImplementsService`

`ServiceInv` adds to `CurrentInv` what ties a call to its transmissions: those in flight
since the call began carry what is in the buffer (`CallCopies`), a target that has handled
anything serves the only programmer (`ServesCaller`), what it has handled are operations on
the memory or registrations (`HandledOps`), and another copy of the newest request it has
heard is dropped or refused unless it only registers (`HeardOnce`). Without the last, a
request that was refused, and that the service no longer expects, could be carried out
when it arrives again.
`CallerForm` and `DeviceForm` reduce the steps of the two ends to the few forms that
matter. Each form is a step of the service: a call that starts is `Begin`, one that
fails leaves `pending` behind, as often as it was sent (`Fail`), one that a reply ends was applied
and gets the words of the memory as it is (`Return`, by `DoneMeansHandled` and
`ReadIsCurrent`). A request that the target carries out is `Apply` or `ApplyLate`; a
request it drops or answers otherwise, and a retry that makes the path give up older
datagrams, is `Forget`. The list of outstanding calls is the image of a set of transmission
numbers under their order: `Rank` counts the numbers up to one, `Nth` inverts it, and
`ListedAbove` and `ListedJoin` say that taking away the lowest numbers takes away the front
of the list, and adding higher ones appends to it.

`LoadingProofs` proves, for all files and settings:

- `LoadingKeepsBytes`: `Spec => []LosslessLoading`
- `RefusalJustified`: `Spec => []RefusedForOverlap`
- `RecordsPlaced`: `Spec => []HexPlaced`
- `ElfFilesPlaced`: `Spec => []ElfPlaced`
- `ChecksAreEnough`: `Spec => []ChecksSuffice`

They rest on `ImageProofs`: what each outcome of `Process` and `Load` leaves in the image,
and what a sector, a page and a multiple are. `ProgramProofs` goes on with what happens
once the file is read:

- `TypeCorrect`: `Spec => []TypeOK`
- `FlashWornOnce`: `Spec => []WearsOnce`
- `ImageProgrammed`: `Spec => []DeviceHoldsImage`
- `NoWriteOutside`: `Spec => []StaysInBuffer`

`ProgramInv` has the loop invariant of `program()`, `LoopInv`. Either no sector was
prepared, or the one in the buffer lies in the page erased last (`Prepared`). No page
behind that one was erased, and no sector from the one in the buffer on was written
(`Wear`). What the loop has passed lies in erased pages in front of the end of the sector,
and the rest of the memory is blank or old (`RestKept`). For pieces that do not overlap,
the bytes passed are in the flash or in the buffer (`BytesKept`), and what is to come lies
behind the start of the sector (`AheadOfSector`); without the last, `address - sector_addr`
could wrap around. `SortedPermutation` shows that the sections can be sorted, by counting
the sections in front of each, and `FilesFit` is what keeps a page inside the device.

`NetTesterProofs` proves for any fill level, number of sequence numbers and bounds with
`QUEUE_FILL_LEVEL + MaxTimeouts <= SeqMod`:

- `TypeCorrect`: `Spec => []TypeOK`
- `QueueSafe`: `Spec => []QueueBounded`
- `CountSafe`: `Spec => []EveryFrameCounted`
- `SearchSafe`: `Spec => []FallsOnlyWhenMisordered`
- `DamageReported`: `Spec => []ReportsDamage`
- `RebootsReported`: `Spec => []ReportsReboots`

The inductive invariant is `IInv`. Its core is `Held`: the queue holds the frames that
were sent last (`LastSent`), so that number and sequence number of each follow from the
counter of frames and from `_seq` (`Back`), and what is on the path carries the same
(`RequestsMatch`, `ResponsesMatch`). The queue is shorter than the turn of the sequence
numbers (`LengthInv`), hence no two of its frames have the same one (`BackDistinct`), and
the search of `received()` stops at the frame that was answered. `NewestInv` adds that on
an ordered path all that has left the queue is as old as the last response, so that the
frame of the next one is still in it. `BootInv` follows the counter of the device through
the clearing of its statistics: only the first frame asks for it (`ClearIsFirst`,
`FirstSent`), the device counts on from what it has told (`Told`, `ToldRight`), on an ordered
path the counters arrive in the order of the reboots (`BootsOrdered`, `OrderedBoots`), and
`_last_response` has the last of them (`LastTold`).

Only model-checked: the liveness properties `CallReturns` and `Terminates`, which are out
of reach of the prover. The five properties of the runs that must fail are false and have
no theorem.

## Not modelled

- Wording of messages and logging, also the texts `ETarget` chooses (its switch has no
  `break`); byte order; socket options other than the broadcast permission; system timers.
- The table of devices: its ids are the set `Supported`.
- Arguments for which `address + length` wraps around 32 bits (`Target.cpp:195`): the
  target would read outside its flash. `ReadsFit` in `Session` leaves them out.
- `OP_ERASE_WRITE` and `OP_CHIP_ERASE` have neither a caller nor a handler. The payload of
  `NetworkConfig` is ignored by `Target` and left out.
- The script of `TargetProtoTester`: a list of calls with the status each is to end with,
  made for a device with a protected bootloader. `Target` has none, and answers most of
  the wrong arguments with another status; the last expectation is `WriteStoresItsData`.
- The characters of a Hex record and its checksum; the printing of an ELF file and the
  lookup of the name of a section, which change no state; of `elf.h`, all but the three
  structures that are read.
- The other programs in `Main`: it is compiled with one of several, and their calls are
  among those of the sessions. `program()` is called once per image.
- What the network tester only prints: rates, sizes, registers of the device; and its
  settings `ENDLESS_TX` and `TX_THROUGHPUT_TEST`, which are off in the source.

## Plan

1. Done: the session (protocol, path, both ends) behind class `Programmer`, the service it
   implements; files, the image and `program()`; the network tester; the theorems above.
2. Done: proofs of all invariants the runs check, and of the refinement.
3. The refinement for several programmers, each with a target of its own: it needs an
   abstract service with a memory per target.
