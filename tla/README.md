# A TLA+ model of rcping

rcping (`src/`) is a terminal program that pings a list of targets once a period,
shows the last 3600 results of each as a row of characters, traces the route to the
selected target in parallel, and can log everything to a file. It is a Rust port of
`cping.c`. Three threads share one `Arc<Mutex<App>>`: a sender, a receiver and the
main thread, which reads keys and draws.

## Inventory

| Component | State | Operations | Talks to |
|---|---|---|---|
| Ring and counters, `ping.rs` | `Ping` (`cur`, 3600 bytes), `Stat` | `set`, `get`, `shift`, `update`, `byte_time` | called under the `App` mutex by all three threads |
| Sender, `net.rs` `spawn_sender` | `seq`, `tseq`, `total`, `seq_now`, the copied addresses | begin a group (log row, new number, shift all rings), probe 24 hops, ping every target, pause, `-N` | `App`, the send socket, `run`, `show` |
| Receiver, `net.rs` `spawn_receiver`, `process` | the packet in hand | echo reply (current, late, trace), time exceeded, unreachable | `App`, the receive socket, `run` |
| Main loop, `main.rs` | `swx`, the terminal | keys, resizes, switches, redraw, reset of the sockets, shutdown | all of the above |
| Viewport, `app.rs` | `mode`, `sel`, `top`, `wid`, `hgt`, `nping` and toggles | `bottom`, `scroll`, `resize`, `newsel`, `init_trace` | the main thread only; the sender reads `sel` |
| Traceroute, in `net.rs`, `app.rs`, `ui.rs` | `traces`, `nhop`, `tseq` | sweep, replies, trim on redraw, clear on selection | sender, receiver, main |
| Rendering, `ui.rs` | none of its own; moves `delt` and `nhop` | ping, trace and help screens | `App` under the mutex, DNS cache |
| Log, `output.rs` | the file | header, row, final count, footer | sender and main |
| Configuration, `config.rs` | `Options`, targets, `nhdr`, `nwid`, `awid` | read the file and the options | before the threads start |
| ICMP codec, `icmp.rs` | none | checksum, build an echo request, unpack headers | sender, receiver |
| DNS cache `dnscache.rs`, switches `gpio.rs`, helpers `util.rs` | a map; a one-slot mailbox | lookup; interrupt; clock | drawing; main loop; all |

What is hard here: a reply can arrive in any later group, twice, out of order, or
never, and is matched to a ring slot by a number that wraps from 65535 to 3600; the
main thread moves the offset `delt` under which the rings are read while the receiver
writes them; the 0 key replaces two sockets and clears the counters in three separate
critical sections, and while it waits for the second of them a second raw socket is open
and receives everything as well; `run` can be cleared at any point of any loop; selection, window
and mode are three variables that many handlers move. `PROJECT.json` lists each of
these as a hazard at its line.

What makes each component correct: a reply decides the slot of its own ping and no
other; the counters add up to the pings sent; recorded history is never disturbed by
looking at it; the program always ends once told to; the selection is always drawn and
selecting always returns; the history row is as wide as the screen allows; the trace
screen shows the path to the selection and nothing else.

## Modules

| Module | Models |
|---|---|
| `PingRing` | `ping.rs` as operators: bytes and codes, `byte_time` with its truncating casts, ring, counters, shift |
| `PingHistory` | the abstract specification: pings numbered for ever, each target's outcomes by age |
| `Prober` | sender, receiver and main thread on the target pings; composes `PingRing`, is mapped to `PingHistory` |
| `Viewport` | `app.rs` geometry and selection under the keys, switches and resize events, with `ping_screen`'s rows |
| `PathTrace` | the traceroute: sweep, answers, trim, reset; composes `Viewport`, which moves the selection |
| `Threads` | who waits for what: three mutexes, `run`, `show`, the switch mailbox, the receive timeout |
| `Icmp` | `icmp.rs` on sequences of bytes, and how `process` recognises a packet |
| `Startup` | the configuration file, the command line and the checks of `main`; composes `Icmp` |
| `MCProber`, `MCViewport`, `MCPathTrace`, `MCThreads`, `MCStartup` | values of constants for the model checker |
| `RingProofs` | lemmas about `PingRing` |
| `HistoryProofs` | `Prober` implements `PingHistory`; the counters, the log and `-N` |
| `ProberProofs`, `ViewportProofs`, `PathProofs`, `ThreadsProofs`, `StartupProofs`, `IcmpProofs` | theorems about the module of the name |

The modules look at one program from five sides, because their product is beyond any
model checker. What one takes from another is an assumption of the one and a property
of the other where that is possible: `Startup` shows that option values, addresses and
`nhdr` are what `Prober` and `Viewport` assume (`StartupTypeOK`, `AddressNamesTarget`,
`HeadersCounted`); `Threads` shows that a critical section is one
(`LocksFollowControl`), which makes it a step in the others.

### Prober against the code

State: `seq`, `total`, `ping`, `stat`, `delt`, `run` and `show` are the variables of
the code. `dt` is the last round-trip time of a target, kept as the number of the ping
it measured (0 for the initial -1), because what matters is which group it belongs to.
`row` is the last row of the log. `net` holds replies in the network or the receive
buffer; `held` is the packet between `recv_from` and the mutex; `queue` holds the replies
that a second receive socket gets as well, from its opening until it takes the place of
the first. Two pieces of state are
not in the code and no guard on a program step reads them: `base`, the value of
`total` at the last reset, and the fields `no` and `copy` of a packet. The two
environment bounds below do read `no`.

Each critical section of the `App` mutex is one step (`BeginGroup`, `Process`,
`ResetStats`, `Review`, `Draw`, `Finish`), each `send_icmp` is one (`PingTarget`), and so
is each atomic flag. A test of `run` is merged with the step it guards: a thread that
has passed the test only takes a step that it could also have taken just before the
flag was cleared, and no step but that of the flag's own writers depends on it. The
0 key is four steps because other threads run between them: `PressReset` (the send
socket), `OpenReceiveSocket`, `SwapReceiveSocket` and `ResetStats`. In
`*recv_sock.lock().unwrap() = net::make_recv_socket()?` (`main.rs:419-420`) the right
side comes first, so the new raw socket is open while the main thread waits for the
mutex, which the receiver holds in `recv_from`. Every reply that arrives meanwhile is in
`net` and in `queue`. After the swap, those that the old socket has not delivered are
delivered by the new one alone, and those that it has are delivered once more: `Second`
gives them a `copy` beyond `MaxCopies`, so that a copy by a socket can be told from one
by the network. `OpenReceiveSocket` and `SwapReceiveSocket` choose which replies the
new socket gets, so that one may also miss some, or all. `Deliveries` is all that the
receiver may still process. `rid` does not
appear: `Icmp` says which packets are answers to pings, and `process` leaves the state
alone for the others. `AsI32` is the cast in the test of `-N`, with `HALF` for 2^31.

The network loses, duplicates, delays and reorders. It forgets a packet after
`MaxLife` periods, and `LifeAssumption` says that this is shorter than a cycle of the
sequence numbers (61936 periods in the program, 17 hours; a thread stopped that long
with a packet in hand is excluded in the same way). Without it no numbering could
work.

### Viewport and PathTrace against the code

A handler is one step. `newsel` is a step per iteration of its loop, because whether the
loop ends is the question; nothing else happens meanwhile since the mutex is held, and
`pc = "loop"` guards what takes the mutex in `PathTrace`. Each GPIO switch does what a
key does (1 Enter, 2 and 3 up and down, 4 `a`). `TALL` is the 20 of `bottom` and
`ping_screen`.

`PathTrace` adds `nhop`, `traces` and the sender's place in the sweep. A hop keeps who
answered it, whether its time is pending, taken or -1, and the current slot of its
history. An answer has the TTL of its probe, which is all the code gets, and the path
and sweep it belongs to, which only the properties read. `SelectTarget` is the end of
`newsel`; the sender copies the selected address once per sweep (`aim`) and goes on with
it. `tseq` is left out: it is written and never read. `whole` records for `PathIsFound`
that nothing has spoilt the sweep: a lost or refused probe, a selection, a trim.

### Threads against the code

A control value that ends in `Wait` is a thread at a `lock()`, one without is inside the
section. The sections compute nothing here. `PacketArrives` and `EventArrives` are not
in `Receiver` and `Main`, so fairness does not promise them. `event` is what handling it
leads to: leave, replace the sockets, redraw, or nothing. Every `?` of the main
thread's path is a branch to `leave`. `swx` holds the number of the press instead of the
number of the switch, so that presses can be told apart.

### Startup and Icmp against the code

A step of `Startup` is a line of the configuration file: header, option or target;
comments and empty lines change nothing. An argument is the number `atoi` makes of it;
a flag takes none. A host has a length and an address, or none, and `Hosts` says which.
The command line is the set of its options, because `clap` refuses one given twice;
they are checked in a fixed order, which cannot be told from any other. `Fail` is a
`bail!`, `?` or `Err`.

`Icmp` has one operator per function. Words are little-endian (`NeBytes`, `FromNe`);
`ChecksumIsRight` adds them up the other way round, as another host would. `Taken` is
the case analysis of `process` up to the conditions that need `App`; those are in
`Prober` and `PathTrace`. An answer with `rsq = 0` is among those.

## Runs

Every run keeps TLC's deadlock check on. A program that has ended stutters (`Exited`,
`Ended`).

| Run | Shows |
|---|---|
| `history` | types, `NumbersInStep`, `AgeFound`, `NeverPinged`, the log's times (`AnswersAreLogged`), and that `Prober` implements `PingHistory` |
| `books` | counters, final count and `-N` (`Balanced`, `LateWereLost`, `StopsAfterNum`) and `Refines`, with a log, two targets, resets, quits and errors |
| `review` | history and counts while the history is being reviewed and the 0 key is pressed; under fairness, `Terminates` |
| `scroll` | the ping screen on screens that do and do not show the whole list |
| `path` | the path on the traceroute screen, whatever the order of answers, redraws and selections |
| `threads` | mutual exclusion, no waiting with a mutex in hand, the switch mailbox; under fairness the shutdown, the frames and the groups |
| `startup` | the configuration against its limits, and the packets of the program it starts |
| `late_review`, `num_forever`, `hang`, `paged_hops`, `reset_waits` | disagreements between a comment and the code, below |

Bounds.

- `Prober`: `NSEC` is 2 or 3, which is enough for a slot to be reused and for a late reply
  both inside and outside the ring. `SEQMAX` is at most a few above `NSEC`; `history` runs
  one period past it, so packets sent before the wrap are answered after it. `MaxTotal`
  (3 to 6) bounds the periods, `MaxCopies` (0 to 2) the duplicates, `MaxLife` (1 or 2) the
  age of a packet. `LostLimit` is 1 in `history`, so the saturation of the count is met.
  `Caps` is the set of values `NSEC - nping - 3` takes over window sizes. `NUM = 2` in
  `books` lets `-N` end the run at the second group; in `num_forever` it is one above
  `SEQMAX`. `HALF` is 8: the numbers here stay below it, as those of a user below 2^31.
  `review` has one target and `NUM = 4`, so that `-N` ends it too; it is where
  `Terminates` is checked, because `books` is too large for a liveness check.
  `Balanced` supposes a network without duplicates and times under ten seconds, which
  are stored as times: a duplicate reply is counted twice by `Stat::update`, as in the
  original. It and `LateWereLost` speak of a target until its
  count of the lost is at `LostLimit` (99999 in the program, `ping.rs:172`), where
  it stops counting.
- `Balanced` with the 0 key: a reset in mid-period leaves up to two replies of the current
  ping to come, one from each socket, and nothing in the counters says that it was sent;
  hence 0 to 2 replies at first and a surplus of 0 to 2 later. Between the swap and
  `ResetStats` a reply may have been counted twice, which the reset then clears
  (`Doubled`). `LateWereLost` leaves out that moment for the same reason.
- `Viewport`: seven targets, two with a header, and screens of 5, 7 and 12 lines, on either
  side of the limits 6 (title) and 11 (the list fits). `scroll` stays on the ping screen (Esc is
  pressed there to no effect); the mode changes are in `path`, with a list that fits, and
  in `hang`.
- `PathTrace`: a sweep of three probes, one target two hops away, so that the target
  answers two probes, and one out of reach; three sweeps, on a screen that shows both
  targets. `MaxLife` is 0 (an answer comes within its period). `paged_hops` has a third
  target and a screen for two.
- `Threads`: one packet per group and two presses of a switch, enough for a press to
  overwrite another; any number of packets, keys and resizes. The proofs have no bound on
  the presses either. `FrameIsDrawn` says by itself that the user rests at last
  (`UserRests`: no more events and presses), because the code needs it: without that
  premise the property fails.
- `Startup`: files of four lines, enough for two targets with a header replaced or taken
  back between them; option values on both sides of every limit, the pauses at 950 ms
  exactly and just beyond, with two targets. Of the command lines, one takes the place of
  options of the file (`-m`, `-s`), one of others (`-p`), one has no options, and two are
  refused, by a limit and by the check of the pauses. `MAXSZ` is 19 instead of 1024, which keeps
  the packets short and allows odd and even lengths. The proofs suppose `SizeAssumption`,
  that it is a natural number below 65536.

Fairness. `FairSpec` of `Prober` is weak fairness of each thread: none of them waits for
an event to occur, since every pause and receive has a timeout and every critical section
ends; nothing is assumed of the user or the network. That a blocked thread gets the
mutex in the end is part of it, and `Threads` takes that apart: strong fairness for the
`App` mutex and the send socket, which their owners leave alone for milliseconds between
two uses, so that the futex behind `std::sync::Mutex` lets a waiter in; only weak
fairness for the receive socket, which the receiver locks again at once after each
`recv_from`, for 250 ms at a time. Under that assumption `Exits` holds, since a receiver
that ends leaves the mutex free for good; `ResetHappens` does not. `FairSpec` of
`Viewport` is weak fairness of newsel's loop alone.

### Disagreements found

With a run:

1. `late_review`: a late reply's slot is read at `k + delt` and written at `k`
   (`net.rs:223-225`); while reviewing, the wrong slot decides.
2. `num_forever`: `-N` is compared with a sequence number that wraps, so a number above
   65535 never stops the program (`net.rs:145`).
3. `hang`: on the trace or help screen, with a list that does not fit, moving the
   selection past the window never returns, and the whole program stops with the mutex
   held (`app.rs:246`).
4. `paged_hops`: with a list that does not fit, Page Down moves the selection without
   clearing the trace buffers, and the traceroute screen shows the old hops under the new
   name until the next sweep (`app.rs:198`). On the three-line screen of the run no hop is
   drawn; with more targets the same happens on screens that draw some.
5. `reset_waits`: the 0 key may wait for the receive socket for ever, with no key read and
   no frame drawn (`main.rs:419`, `net.rs:161-168`); in practice it waits for one lucky
   gap between two receives. The sender is not affected (`GroupsGoOn`).

Found with these models and without a run of their own, since a property is checked for
what it promises and not for each way in which it does not hold:

- The 0 key can have a reply delivered twice on a network that duplicates nothing
  (`main.rs:419`), and the receiver takes the second for a reply like any other. What is
  processed after `reset_stats` stays in the counters for good: with `{0, 1}` for `Balanced`'s
  `0 .. 2`, or without `mpc # "clear"` in `LateWereLost`, `books` has a counterexample.
- `finalize_lost` reads the reviewed slot (`output.rs:80`): `Balanced` fails in a logged
  run with review keys, which `books` therefore does not press.
- Events that come back to back, from a key held down or a window being dragged, keep the
  display flag from being looked at (`main.rs:330-347`), so a frame that is due is drawn as
  new only after they stop, and `delt` does not follow the history meanwhile:
  `FrameIsDrawn` fails without `UserRests`.
- A slot of the history stands for `-s` seconds, and a period is longer: the pauses of the 24
  probes are not deducted (`net.rs:127`, `138-142`; 24 times `-p` more), nor is the time
  spent sending and waiting. `PeriodWithinASecond` bounds the first by a second and does
  not speak of the second.
- A round-trip time from 1000 ms on is wider than its column (`ui.rs:388`, `{:5.1}`), and the
  row then longer than the line; `RowFillsTheLine` counts columns at their width.
- Pings shifted in but never sent, because `run` was cleared in the middle of a group, are
  counted as lost (`net.rs:131`).
- A lost ping's row in the log repeats an older time (`output.rs:47`); hence
  `AnswersAreLogged` speaks of targets that answered.
- A time of -1 ms, after the wall clock was set back, is stored as 255, "no ping
  recorded" (`ping.rs:54`): `NeverPinged` fails with -15 among the `RTTs`.
- A resize on the traceroute screen can leave the selection below the window
  (`app.rs:210`), which the ping screen then does not show.
- An answer one period late to a probe of the target selected before appears as a hop of
  the one selected now (`net.rs:228`): with `MaxLife = 1`, `HopsAreReset` fails although
  the list fits. An answer carries only its TTL.
- A redraw in the middle of a sweep trims `nhop`, and the hops beyond are then ignored
  until the next sweep (`ui.rs:267`): `PathIsFound` needs `whole`.
- A selection made on a one-line screen scrolls past itself, so that `SelectionIsDrawn`
  fails after a resize; hence the condition `hgt >= 3`.
- An error message that quotes the 8 bytes which RFC 792 requires is taken when it says
  unreachable and not when it says time exceeded (`net.rs:246`): `AnswersAreRecognised`
  states both.
- A start that fails at the sockets has already emptied the log (`main.rs:183`).

## Proofs

The theorems hold for every value of the constants that satisfies the named
assumptions.

`RingProofs` proves, for every `NSEC >= 2`, what a read returns after a write
(`GetSet`) and after a shift (`GetShift`), that the casts of `byte_time` give a byte for
every integer (`ByteTimeIsByte`), and that the counters keep their types. The modular
arithmetic is done there once.

`ProberProofs`:

- `TypeCorrect`: `Spec => []TypeOK`, one step per action.
- `NumbersStayInStep`: the inductive invariant `NumbersInStep`. `AgeFound` alone is not
  inductive, because it says nothing of where a number lies with respect to the wrap;
  the strengthening says that the age of a ping is `seq - rsq`, or the same plus the
  length of the cycle once `seq` has wrapped below `rsq`. The step that matters is
  `BeginGroup` (lemma `StepsTogether`), and that is where `LifeAssumption` is used.
- `AgeIsFound`: `AgeFound` follows.
- `NeverPingedStays`: `NeverPinged`, under `ClockIsSteady` (no negative round-trip time),
  from `AgeFound`: a late reply is written at its ping's age, which is below `total`.

`HistoryProofs` rests on these. Every step of `Prober` is one of seven that matter to the
history or to what is under way (a group begins, a target is pinged, a packet is
processed, a second socket opens, it takes over, the counters restart, the run is
finished), or it only forgets packets (`Quiet`, lemma `StepsOfHistory`).

- `HistoryIsKept`: `Spec => Refines`. Initial states map to initial states, and each of
  these is a step of `PingHistory` or a stutter: `PeriodBegins` (the shift of all rings
  moves every outcome one period on, by `GetShift`, and counts the loss of the open
  ping), `RequestIsMade`, `ReplyAnswers` (a reply decides the outcome of the age that
  `AgeFound` gives it, and no other, by `GetSet`; it is taken off the replies owed),
  `CountersRestart`, `BooksClose` and `OthersDiscard`. The replies owed are a set,
  so two that may still be delivered must never be the same (`PacketsDiffer`, which
  follows first and second deliveries through the swap; `DeliveriesDiffer`). For
  `PingHistory` a second delivery is owed from the moment the request is answered, and
  is dropped if it does not come.
- `LateMarkIsItsOwn`: `LateMarksItsPing`, which `late_review` violates.
- `AnswersLogged`: `AnswersAreLogged`, without a hypothesis. `TimeIsCurrent` says that a
  current slot which is not lost goes with a `dt` measured in the same group.
- `BooksBalance`: `Balanced`, on a network that does not duplicate. The strengthening
  `BooksAreKept` has, for each target, one of two states. `Fresh`, from a reset until the
  next period: the replies counted and those still due (`Due`) are two at most
  (`TwoAtMost`). `Under`, from then on: the surplus is what the reset left, plus one if the
  next reset is pending and has had a reply counted twice. It rests on two facts about
  deliveries: `CurrentIsOpen`, that the first delivery of a reply to the current ping
  finds it open, so that it is counted once, and `OnlyAfterSwap`, that a second one comes
  when a reset is about to clear it, or after that reset. For the final count it also
  needs `AllJoined`: when the main thread is done, both others have ended.
- `NoPingGoesMissing`: the half of the books that holds on a network which duplicates, for
  any `MaxCopies`: replies, losses and the open ping are never fewer than the pings
  since the last reset. A second reply to the current ping only adds to them.
- `LatesWereLost`: `LateWereLost` is not inductive. `LatesAreCovered` also counts the
  replies that are under way and no longer current: a ping that falls behind has just
  been counted as lost (`OneFallsBehind`), and its late reply then moves from one term
  to another. Before the first swap every delivery is a first one (`OnlyAfterSwap`).
- `NumIsKept`: `StopsAfterNum` when `NUM <= SEQMAX`; until the wrap the number of a group
  is the count of the groups (`CountsToNum`).

Their hypotheses are conditions on the constants, each met by a run: `NoReview` (none of
the keys that look back is pressed; without it see `late_review` and what is said of
`finalize_lost` above), `TimesAreKept` (no time is stored as one of the three codes;
`KeptTime` proves it of every time from 0 to 9999.4 ms), `MaxCopies <= 1` (the network makes
no duplicates; the second deliveries of the 0 key are in the model whatever `MaxCopies` is) and `NUM <= SEQMAX` (`num_forever`). `BooksBalance` needs
`NoReview` only of a program that logs, for the final count.

`ThreadsProofs`:

- `TypeCorrect`: types, and that a packet is only sent while one is left.
- `LocksAreFollowed`: `LocksFollowControl` is inductive. Its converse direction (a thread
  outside its sections owns nothing) is what makes `Lock`'s guard exclude the others.
- `NobodyWaitsWithAMutex`: `WaitsEmptyHanded` follows, since no waiting place is inside a
  section.
- `LatestPressStays`: `LatestPressIsKept`, with the strengthening that the press in hand
  is the latest, or the latest is in the mailbox.

`StartupProofs`:

- `TypesAndRanges`: `StartupTypeOK`; lemma `AcceptedInRange` says what `check_opt` lets
  through, `CommandLine` that the command line keeps it so.
- `NothingIsCutOff`, `AddressesDiffer`: both from `HowTargetsChange`, that a step leaves
  the list alone or appends a target with a new address and widened columns.
- `EveryHeaderCounts`: `HeadersCounted`, with the header that waits in `hdr` as part of
  the count; that part is what makes it inductive.
- `LastWordWins`: `CommandLineWins`, from `OptsFollow`: while the file is read, the options
  are what its last lines said (`OneMoreSaid` adds a line), and after it the command line
  only overwrites what it names.
- `PeriodBounded`: `PeriodWithinASecond`, from the check of the pauses being the only way
  to `"run"` and nothing changing options or targets after it.

- `RequestsCloseAnywhere`: `ChecksumIsRight`, from `RequestsAddUp` below and the range of
  `-m`, for every process number.
- `AnswersAreKnown`: `AnswersAreRecognised`. `BehindReads` says what `unpack_header` makes
  of a packet behind an IP header of any length (`ihl` from 5 to 15): the fields, and a
  payload that is the rest byte for byte. An error message is such a packet whose payload
  is one again, so the lemma is used twice (`ErrorTaken`, for a quotation of any
  length from 8 bytes on; `ReplyTaken` and `RequestTaken` need it once). These lemmas hold
  for every sequence number; the property names those TLC tries. The two identifiers
  are words and differ (`Identifiers`), because `pingid` is even and below 65535.

`IcmpProofs`:

- `ChecksumCloses`: the complement of the folded sum completes the sum to a multiple of
  65535, for every sum that 65535 words can have. It is the place where the two folds
  matter.
- `RequestsAddUp`: every request that `build_echo` makes, with any identifier, sequence
  number, time stamp and size up to 65535 bytes, adds up to zero in ones' complement, and
  not by being all zeros, whichever byte of a word comes first. The argument: without its
  checksum the packet has a sum that `ChecksumCloses` applies to (`SumsOfBytes`); putting
  the checksum into bytes 3 and 4 adds it to the sum (`TotalChanges`, with
  `PacketCompletes`, which says that the two packets are the same elsewhere); and the sum
  in the other byte order is 256 times the sum, less a multiple of 65535 (`OtherOrder`, by
  `TotalCombines`). `PacketFields` says which byte of a packet is which.
- The facts about `Total` are inductions over a sequence. The library's induction
  theorems take an operator, so `UpTo` does it for a set: the least number missing from it,
  which exists because `<` is well-founded, has a predecessor that is not missing.
  `SumExists` and `TotalIs` give every sequence its partial sums; the other lemmas are
  about those.

`ViewportProofs`: `LaidOut` is the inductive invariant, `TypeOK` with
`nping = Columns(wid, hop, showip, stat)`; `TypeCorrect` and `RowFills` follow. For the
types, `Bottom` has to be a row (`BottomIsARow`), so `Min` has to be a member of its set.
The library has no theorem that says so;
`MinIsLeast` counts the smaller elements instead, which maps the set one to one, hence
onto, the numbers below its cardinality, and the element with none below it is the least.

`SelectionStaysDrawn` is about the agreement of two pieces of code, `bottom` in `app.rs` and
`ping_screen` in `ui.rs`: `BottomIsDrawn` says that everything from `top` to
`Bottom(top, hgt)` is drawn, because the lines to a target grow with the target
(`LinesGrow`) and a screen of three lines has room for one (`FirstIsDrawn`). The invariant
is `InWindow`: between events `sel` lies between `top` and the bottom, and while `newsel`
scrolls, the window has not yet passed the target it is to select. That second part is
what makes it inductive, and what fails on the other screens (the run `hang`). The theorem
therefore supposes that the user stays on the ping screen and that every screen has room
(`StaysOnPings`, `ScreensHaveRoom`), or else that every screen shows the whole list
(`ListFits`), in which case nothing scrolls on any screen (`NothingScrolls`).

`PathProofs`, for every number of probes and every distance:

- `PathTypes`, on top of `NextLaidOut`, since every step is a step of the view or leaves
  it alone (`ViewMoves`).
- `TargetStaysLast`, `PathShrinks` and `TrimKeeps` for any network. `EndInv` strengthens
  `TargetIsLast` with `SlotsAreSwept`, that a path on the screen has slots of a sweep;
  without it a selection could be mistaken for a redraw.
- For a network in which no answer is a period late (`MaxLife = 0`): `FreshAnswers` says
  that under way are answers to this sweep's probes, one for each at most, and that a hop
  holds the one to its probe. On it rest `HistoryKeepsUp` (a refusal keeps a slot that
  only an answer to the same probe could have written), `WholePathIsFound` (while nothing
  has spoilt the sweep, every probe's answer is under way or has had its effect) and,
  when the list fits on all screens, `HopsStayOfSelection`.

Only model-checked: liveness (`Terminates`, `SelectionReturns`, `Exits`, `FrameIsDrawn`,
`GroupsGoOn`), because the prover has no ENABLED. Every other property of a passing run is
a theorem.

## Plan

Done: all the modules and theorems above. What is left, in this order:

1. The traceroute for a network in which answers come late (`MaxLife > 0`): which part of
   `HistoryHasTheTimes` and `PathIsFound` survives.
2. How far replies and losses may exceed the pings in terms of `MaxCopies`, the other half
   of `Balanced` for a network that duplicates.
3. A composition of `Prober` and `Viewport` in which `nping` gives the bound of `delt`.

## Not modelled

Colours, rulers, the bell and the text of the screens, the shape of the log's lines, the
parsing of characters, terminal set-up and packaging: formatting that no other part of
the program reads. The map of the DNS cache: one thread fills it on first use; what
matters, that a lookup blocks with the mutex held, is `Render` in `Threads`. The
aggregates of `Stat` (sum, squares, minimum, maximum, mean, deviation): floating point
that nothing branches on. The length of time anything waits. `cping.c`, which is the
ancestor and not part of the program.
