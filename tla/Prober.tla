-------------------------------- MODULE Prober --------------------------------
(***************************************************************************)
(* The target pings of rcping: the sender thread (net.rs spawn_sender), the *)
(* receiver thread (net.rs spawn_receiver and process) and what the main    *)
(* thread does to the same state (main.rs run_loop, handle_key, draw and    *)
(* the shutdown of main; ui.rs render's history offset).                    *)
(*                                                                         *)
(* A critical section of the App mutex is one step.  A test of the `run`    *)
(* flag is merged with the section or the send it guards.  The traceroute   *)
(* half of the same handlers, and the screen, have modules of their own.    *)
(***************************************************************************)
EXTENDS PingRing

CONSTANTS
  NTAR,        \* number of targets
  SEQMAX,      \* largest sequence number; 65535 in the program
  NUM,         \* -N: stop after this many groups, 0 to run for ever
  HALF,        \* the i32 of the test of -N is below this; 2^31
  LOGGING,     \* -o: a log file is open
  RTTs,        \* the round-trip times the clock can show, in 0.1 ms
  Pressed,     \* the keys the user presses
  MINUTE,      \* seconds in the step of the - and + keys; 60
  Caps,        \* bounds on `delt`, one for every window geometry in use
  MaxCopies,   \* bound: replies the network makes of one request
  MaxLife,     \* bound: periods a packet survives in the network
  MaxTotal     \* bound: periods of a behaviour

ReviewKeys == {"Left", "Right", "-", "+", "End"}
Keys == ReviewKeys \cup {"0", "q"}

ASSUME TargetsAssumption == NTAR \in Nat \ {0}
ASSUME SeqAssumption == SEQMAX \in Nat /\ NSEC <= SEQMAX
ASSUME OptionsAssumption == NUM \in Nat /\ LOGGING \in BOOLEAN
ASSUME WidthAssumption == HALF \in Nat /\ SEQMAX < HALF
ASSUME ClockAssumption == RTTs \subseteq Int
ASSUME KeysAssumption ==
         Pressed \subseteq Keys /\ MINUTE \in Nat /\ Caps \subseteq Nat
ASSUME NetworkAssumption == MaxCopies \in Nat /\ MaxLife \in Nat
\* A packet outlives less than one cycle of the sequence numbers.
ASSUME LifeAssumption == MaxLife < SEQMAX + 1 - NSEC
ASSUME BoundAssumption == MaxTotal \in Nat

VARIABLES
  run,      \* AtomicBool: keep running
  show,     \* AtomicBool: the display is due
  seq,      \* App.seq
  total,    \* App.total; it also numbers the pings for the properties
  ping,     \* App.targets[t].ping
  stat,     \* App.targets[t].stat
  base,     \* for the properties only: `total` when `stat` was last reset
  dt,       \* App.targets[t].dt, as the number of the ping it measures
  delt,     \* App.delt
  row,      \* the last row of the log file and the group it is for
  spc, idx, sent,   \* sender: control, next target, its `seq_now`
  rpc, held,        \* receiver: control, the packet it took off the socket
  mpc, fresh,       \* main: control, the `new` argument of draw
  net,      \* replies in the network or in the receive socket's buffer
  queue     \* those of them that the next receive socket gets as well, while
            \* it is open and has not taken the place of the old one

app     == <<seq, total, ping, stat, base, dt, row>>
sender  == <<spc, idx, sent>>
receiver == <<rpc, held>>
main    == <<mpc, fresh>>
under   == <<net, queue>>
vars    == <<run, show, app, delt, sender, receiver, main, under>>

Targets == 1 .. NTAR

\* An echo reply: its source, its sequence field, and, for the properties
\* only, the number of the ping it answers and which copy it is.  Beyond
\* MaxCopies are the copies that a second receive socket has made.
Packet == [to : Targets, rsq : 0 .. SEQMAX, no : Nat, copy : 1 .. 2 * MaxCopies]

NoPacket == <<>>

-------------------------------------------------------------------------------
\* main() up to the spawn of the threads; run_loop draws once first.
Init ==
  /\ run = TRUE /\ show = FALSE
  /\ seq = 0 /\ total = 0
  /\ ping = [t \in Targets |-> NewPing]
  /\ stat = [t \in Targets |-> NewStat]
  /\ base = 0
  /\ dt = [t \in Targets |-> 0]
  /\ delt = 0
  /\ row = [group |-> 0, dt |-> dt]
  /\ spc = "group" /\ idx = 1 /\ sent = 0
  /\ rpc = "recv" /\ held = NoPacket
  /\ mpc = "draw" /\ fresh = FALSE
  /\ net = {} /\ queue = {}

-------------------------------------------------------------------------------
(* The sender thread.                                                       *)

\* Mutant: the numbers wrap to zero.
NextSeqToZero(s) == IF s + 1 > SEQMAX THEN 0 ELSE s + 1

NextSeq(s) == IF s + 1 > SEQMAX THEN NSEC ELSE s + 1

\* Packets older than MaxLife periods have left the network, and no thread
\* is suspended for that long with a packet in hand.
Alive(no) == no + MaxLife >= total'

\* The critical section at the head of the loop: log the previous group,
\* take the next sequence number, shift every ring.
BeginGroup ==
  /\ spc = "group" /\ run
  /\ total < MaxTotal
  /\ total' = total + 1
  /\ row' = IF LOGGING /\ seq > 0 THEN [group |-> total, dt |-> dt] ELSE row
  /\ seq' = NextSeq(seq)
  /\ ping' = [t \in Targets |-> ShiftPing(ping[t])]
  /\ stat' = [t \in Targets |-> ShiftStat(ping[t], stat[t])]
  /\ spc' = "ping" /\ idx' = 1 /\ sent' = seq'
  /\ net' = {m \in net : Alive(m.no)} /\ queue' = {m \in queue : Alive(m.no)}
  /\ rpc = "process" => Alive(held.no)
  /\ UNCHANGED <<run, show, base, dt, delt, receiver, main>>

\* send_icmp to one target.  The network loses the request or its reply
\* (no copy), or delivers the reply, more than once perhaps, in any order.
PingTarget ==
  /\ spc = "ping" /\ idx <= NTAR /\ run
  /\ \E c \in 0 .. MaxCopies :
       LET replies == {[to |-> idx, rsq |-> sent, no |-> total, copy |-> i] : i \in 1 .. c}
       IN  /\ net' = net \cup replies
           /\ queue' = IF mpc = "swap" THEN queue \cup replies ELSE queue
  /\ idx' = idx + 1
  /\ UNCHANGED <<run, show, app, delt, spc, sent, receiver, main>>

\* After the last target: the first pause, then the display is due.
GroupSent ==
  /\ spc = "ping" /\ idx > NTAR
  /\ show' = TRUE
  /\ spc' = "pause"
  /\ UNCHANGED <<run, app, delt, idx, sent, receiver, main, under>>

\* The cast `as i32` keeps the low bits of the i64.
AsI32(n) == ((n + HALF) % (2 * HALF)) - HALF

\* Mutant: one group too many.
EndGroupLater ==
  /\ spc = "pause"
  /\ run' = (run /\ ~(NUM > 0 /\ sent > AsI32(NUM)))
  /\ spc' = "group"
  /\ UNCHANGED <<show, app, delt, idx, sent, receiver, main, under>>

\* The second pause, then the test of -N.
EndGroup ==
  /\ spc = "pause"
  /\ run' = (run /\ ~(NUM > 0 /\ sent >= AsI32(NUM)))
  /\ spc' = "group"
  /\ UNCHANGED <<show, app, delt, idx, sent, receiver, main, under>>

\* The loop ends, or a probe loop returns early.
SenderStops ==
  /\ ~run
  /\ spc = "group" \/ (spc = "ping" /\ idx <= NTAR)
  /\ spc' = "done"
  /\ UNCHANGED <<run, show, app, delt, idx, sent, receiver, main, under>>

Sender == BeginGroup \/ PingTarget \/ GroupSent \/ EndGroup \/ SenderStops

-------------------------------------------------------------------------------
(* The receiver thread.                                                     *)

\* recv_from returned a packet; a timeout changes nothing.
Receive ==
  /\ rpc = "recv" /\ run
  /\ \E m \in net : held' = m /\ net' = net \ {m}
  /\ rpc' = "process"
  /\ UNCHANGED <<run, show, app, delt, sender, main, queue>>

\* Mutant: the wrap of the numbers is not caught.
LateOffsetNoWrap(s, rsq) == s - rsq

\* How many slots ago, catching the wrap from SEQMAX to NSEC.
LateOffset(s, rsq) == IF s - rsq < 0 THEN s - rsq + SEQMAX + 1 - NSEC ELSE s - rsq

\* Mutant: every reply is put down to the first target.
CurrentFirstTarget(m) ==
  /\ m.rsq = seq
  /\ dt' = [dt EXCEPT ![1] = m.no]
  /\ \E d \in RTTs : ping' = [ping EXCEPT ![1] = SetPing(@, 0, ByteTime(d))]
  /\ stat' = [stat EXCEPT ![1] = CountReply(@)]

\* The reply is to the current group.
Current(m) ==
  /\ m.rsq = seq
  /\ dt' = [dt EXCEPT ![m.to] = m.no]
  /\ \E d \in RTTs :
       ping' = [ping EXCEPT ![m.to] = SetPing(@, 0, ByteTime(d))]
  /\ stat' = [stat EXCEPT ![m.to] = CountReply(@)]

\* Mutant: the slot is not looked at.
GivenUpUnchecked(p, k) == k > 0 /\ k < NSEC

\* The slot a late reply is for was given up.  The read honours `delt`.
GivenUp(p, k) == k > 0 /\ k < NSEC /\ GetPing(p, k, delt) = LOST_PING

\* Mutant: the time of every reply is kept, not only of a current one.
OverdueTimed(m) ==
  /\ m.rsq # seq
  /\ LET k == LateOffset(seq, m.rsq)
     IN  ping' = IF GivenUp(ping[m.to], k)
                 THEN [ping EXCEPT ![m.to] = SetPing(@, k, LATE_PING)]
                 ELSE ping
  /\ stat' = [stat EXCEPT ![m.to] = CountLate(@)]
  /\ dt' = [dt EXCEPT ![m.to] = m.no]

\* The reply is to an earlier group.
Overdue(m) ==
  /\ m.rsq # seq
  /\ LET k == LateOffset(seq, m.rsq)
     IN  ping' = IF GivenUp(ping[m.to], k)
                 THEN [ping EXCEPT ![m.to] = SetPing(@, k, LATE_PING)]
                 ELSE ping
  /\ stat' = [stat EXCEPT ![m.to] = CountLate(@)]
  /\ UNCHANGED dt

\* process(): one critical section.
Process ==
  /\ rpc = "process"
  /\ Current(held) \/ Overdue(held)
  /\ rpc' = "recv" /\ held' = NoPacket
  /\ UNCHANGED <<run, show, seq, total, base, row, delt, sender, main, under>>

\* Mutant: the receive socket has no timeout, so only a packet wakes the thread.
ReceiverStopsOnPacket ==
  /\ rpc = "recv" /\ ~run /\ net # {}
  /\ rpc' = "done"
  /\ UNCHANGED <<run, show, app, delt, sender, held, main, under>>

ReceiverStops ==
  /\ rpc = "recv" /\ ~run
  /\ rpc' = "done"
  /\ UNCHANGED <<run, show, app, delt, sender, held, main, under>>

Receiver == Receive \/ Process \/ ReceiverStops

-------------------------------------------------------------------------------
(* The main thread.                                                         *)

AtLeastZero(x) == IF x < 0 THEN 0 ELSE x

\* handle_key on a history-review key; the redraw is a section of its own.
Review(key) ==
  /\ mpc = "loop" /\ run
  /\ delt' = CASE key = "Left"  -> delt + 1
               [] key = "Right" -> IF delt > 0 THEN delt - 1 ELSE delt
               [] key = "-"     -> delt + MINUTE
               [] key = "+"     -> AtLeastZero(delt - MINUTE)
               [] key = "End"   -> 0
  /\ mpc' = "draw" /\ fresh' = FALSE
  /\ UNCHANGED <<run, show, app, sender, receiver, under>>

\* The 0 key: the send socket is replaced first.
PressReset ==
  /\ mpc = "loop" /\ run
  /\ "0" \in Pressed
  /\ mpc' = "open"
  /\ UNCHANGED <<run, show, app, delt, sender, receiver, fresh, under>>

\* Then a second receive socket is opened, before the mutex of the first is
\* asked for.  It gets a copy of every reply that has not arrived yet.
OpenReceiveSocket ==
  /\ mpc = "open"
  /\ queue' \in SUBSET {m \in net : m.copy <= MaxCopies}
  /\ mpc' = "swap"
  /\ UNCHANGED <<run, show, app, delt, sender, receiver, fresh, net>>

\* A reply delivered once more, after the other socket has delivered it.
Second(m) == [m EXCEPT !.copy = @ + MaxCopies]

\* Then it takes the place of the first, and the replies that only the first
\* has queued are gone; its own queue may have been too short for some.
SwapReceiveSocket ==
  /\ mpc = "swap"
  /\ \E kept \in SUBSET queue :
       net' = (kept \cap net) \cup {Second(m) : m \in kept \ net}
  /\ queue' = {}
  /\ mpc' = "clear"
  /\ UNCHANGED <<run, show, app, delt, sender, receiver, fresh>>

\* Then App::reset_stats.
ResetStats ==
  /\ mpc = "clear"
  /\ stat' = [t \in Targets |-> NewStat]
  /\ base' = total
  /\ mpc' = "draw" /\ fresh' = FALSE
  /\ UNCHANGED <<run, show, seq, total, ping, dt, row, delt, sender, receiver, under>>

PressQuit ==
  /\ mpc = "loop" /\ run
  /\ "q" \in Pressed
  /\ run' = FALSE
  /\ UNCHANGED <<show, app, delt, sender, receiver, main, under>>

ShowIsDue ==
  /\ mpc = "loop" /\ run /\ show
  /\ show' = FALSE
  /\ mpc' = "draw" /\ fresh' = TRUE
  /\ UNCHANGED <<run, app, delt, sender, receiver, under>>

Clamp(d, cap) == IF d > cap THEN cap ELSE AtLeastZero(d)

\* render(): follow the review window, then bound it.
Draw ==
  /\ mpc = "draw"
  /\ \E cap \in Caps :
       delt' = Clamp(IF fresh /\ delt > 0 THEN delt + 1 ELSE delt, cap)
  /\ mpc' = "loop" /\ fresh' = FALSE
  /\ UNCHANGED <<run, show, app, sender, receiver, under>>

\* An error of the terminal or of a socket ends run_loop; main clears `run`.
MainFails ==
  /\ mpc \in {"loop", "draw", "open"}
  /\ run' = FALSE
  /\ mpc' = "join"
  /\ UNCHANGED <<show, app, delt, sender, receiver, fresh, under>>

MainLeaves ==
  /\ mpc = "loop" /\ ~run
  /\ mpc' = "join"
  /\ UNCHANGED <<run, show, app, delt, sender, receiver, fresh, under>>

\* Both threads are joined; a logged run counts the outstanding pings.
Finish ==
  /\ mpc = "join" /\ spc = "done" /\ rpc = "done"
  /\ stat' = IF LOGGING
             THEN [t \in Targets |-> CountLost(stat[t], GetPing(ping[t], 0, delt))]
             ELSE stat
  /\ mpc' = "done"
  /\ UNCHANGED <<run, show, seq, total, ping, base, dt, row, delt, sender, receiver, fresh, under>>

Main ==
  \/ \E key \in Pressed \cap ReviewKeys : Review(key)
  \/ PressReset \/ OpenReceiveSocket \/ SwapReceiveSocket \/ ResetStats
  \/ PressQuit \/ ShowIsDue \/ Draw
  \/ MainFails \/ MainLeaves \/ Finish

\* The program has exited.
Exited == mpc = "done" /\ UNCHANGED vars

-------------------------------------------------------------------------------
Next == Sender \/ Receiver \/ Main \/ Exited

Spec == Init /\ [][Next]_vars

\* Each thread keeps running; the user and the network owe nothing.
FairSpec == Spec /\ WF_vars(Sender) /\ WF_vars(Receiver) /\ WF_vars(Main)

-------------------------------------------------------------------------------
(* What is to hold.                                                         *)

\* What the receiver has not processed yet, of the socket in use.
InFlight == net \cup IF rpc = "process" THEN {held} ELSE {}

\* All that it may still process: while a second socket is open, or might yet
\* be, a reply can be delivered once more.
Deliveries ==
  InFlight \cup
    {Second(m) : m \in IF mpc = "swap" THEN queue ELSE {r \in net : r.copy <= MaxCopies}}

\* Every variable keeps its type.
TypeOK ==
  /\ run \in BOOLEAN /\ show \in BOOLEAN
  /\ seq \in 0 .. SEQMAX /\ total \in Nat
  /\ ping \in [Targets -> Ping] /\ stat \in [Targets -> Stat]
  /\ base \in Nat /\ dt \in [Targets -> Nat] /\ delt \in Nat
  /\ row \in [group : Nat, dt : [Targets -> Nat]]
  /\ spc \in {"group", "ping", "pause", "done"}
  /\ idx \in 1 .. NTAR + 1 /\ sent \in 0 .. SEQMAX
  /\ rpc \in {"recv", "process", "done"}
  /\ held \in Packet \cup {NoPacket}
  /\ rpc = "process" => held \in Packet
  /\ mpc \in {"loop", "draw", "open", "swap", "clear", "join", "done"}
  /\ fresh \in BOOLEAN
  /\ net \subseteq Packet /\ queue \subseteq {m \in Packet : m.copy <= MaxCopies}

\* The sequence field of any reply still under way, however the numbers have
\* wrapped since, identifies its ping: process() takes it for the current one
\* exactly when it is, and the slot offset it computes is the ping's age.
AgeFound ==
  \A m \in InFlight :
    /\ m.no <= total
    /\ m.rsq = seq <=> m.no = total
    /\ m.rsq # seq => LateOffset(seq, m.rsq) = total - m.no

\* Why AgeFound holds: every reply under way, in either socket, answers a ping that
\* was sent, is young enough, and has a number that is its ping's age behind `seq`, either
\* directly or across the wrap from SEQMAX to NSEC.  (Inductive.)
NumbersInStep ==
  /\ spc = "ping" => sent = seq /\ total >= 1
  /\ \A m \in InFlight \cup queue :
       /\ m.no \in 1 .. total /\ total - m.no <= MaxLife
       /\ \/ m.rsq <= seq /\ total - m.no = seq - m.rsq
          \/ m.rsq > seq /\ seq >= NSEC
             /\ total - m.no = seq - m.rsq + SEQMAX + 1 - NSEC

\* The history shows "no ping recorded" for exactly the slots that are older
\* than the first ping, whatever replies have come and however the ring and
\* the sequence numbers have wrapped.
NeverPinged ==
  \A t \in Targets, k \in Slots : GetPing(ping[t], k, 0) = NO_PING <=> k >= total

\* The current ping of a target is not accounted for yet.
Open(t) == IF ~(mpc = "done" /\ LOGGING) /\ GetPing(ping[t], 0, 0) = LOST_PING
           THEN 1 ELSE 0

\* Replies to the current ping that were counted twice and that the reset which is
\* under way will clear.
Doubled == IF mpc = "clear" THEN 1 ELSE 0

\* The books balance: since the counters were last reset, every ping is one
\* reply, one loss, or the one still open.  On top comes what a reset leaves: two
\* replies of the ping under way, which both sockets have queued, and, while the
\* next reset is pending, a reply of the current ping counted again.  (For a network
\* that does not duplicate, RTTs that are not encoded as a loss, and until the
\* count of the lost is at its limit.)
Balanced ==
  \A t \in Targets :
    LET s == stat[t]
        extra == s.n + s.lost + Open(t) - (total - base)
    IN  IF s.lost < 0 THEN total = base /\ s.n \in 0 .. 2
        ELSE s.lost < LostLimit => extra \in 0 .. Doubled + (IF base = 0 THEN 0 ELSE 2)

\* A late reply was counted as lost before: without a reset there are never
\* more late replies than losses, until the losses are at their limit.  (When
\* the second socket has taken over, the reset that follows is part of it.)
LateWereLost ==
  base = 0 /\ mpc # "clear" => \A t \in Targets :
    stat[t].lost < LostLimit => stat[t].late <= AtLeastZero(stat[t].lost)

\* The row that BeginGroup logs for the group before has the time of every
\* target that answered in that group, whatever late replies came in between.
AnswersAreLogged ==
  [][LOGGING /\ seq > 0 /\ total' > total =>
       \A t \in Targets :
         GetPing(ping[t], 0, 0) # LOST_PING => row'.dt[t] = row'.group]_vars

\* -N ends the program with that group: no more groups are sent.
StopsAfterNum == NUM > 0 => total <= NUM

\* The program exits once `run` is cleared: by q, by -N or by an error.
Terminates == ~run ~> mpc = "done"

-------------------------------------------------------------------------------
(* The history kept in rings and addressed by sequence numbers implements   *)
(* the history of PingHistory.                                              *)

OutcomeOf(byte) == CASE byte = NO_PING   -> "never"
                     [] byte = LOST_PING -> "lost"
                     [] byte = LATE_PING -> "late"
                     [] OTHER            -> "answered"

History == INSTANCE PingHistory WITH
  hist   <- [t \in Targets |-> [a \in Slots |-> OutcomeOf(GetPing(ping[t], a, 0))]],
  count  <- stat,
  owed   <- {[to |-> m.to, no |-> m.no, copy |-> m.copy] : m \in Deliveries},
  closed <- mpc = "done" /\ LOGGING

\* The program keeps the promises of PingHistory.
Refines == History!Spec

-------------------------------------------------------------------------------
(* What the comments of the source say and the code does only as long as     *)
(* nothing is reviewed.                                                      *)

\* ping.rs: a slot is late when "the reply arrived, but more than one period
\* late"; the C original checks that it was "previously marked as lost".  So a
\* late reply marks its ping's slot late exactly when that slot is lost.
LateMarksItsPing ==
  [][\A t \in Targets : stat'[t].late = stat[t].late + 1 =>
       \A k \in 1 .. NSEC - 1 : k = total - held.no =>
         (GetPing(ping'[t], k, 0) = LATE_PING) <=> (GetPing(ping[t], k, 0) \in {LOST_PING, LATE_PING})]_vars

===============================================================================
