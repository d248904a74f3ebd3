------------------------------- MODULE PathTrace -------------------------------
(***************************************************************************)
(* The traceroute: the sweep of probes that the sender thread makes of the  *)
(* path to the selected target (net.rs), the three kinds of answer that     *)
(* process() takes from the receive socket, the trim in render (ui.rs), and *)
(* newsel's reset of the trace buffers (app.rs).  Composed with Viewport,   *)
(* whose handlers move the selection meanwhile.                             *)
(*                                                                         *)
(* A probe carries its TTL as its sequence number and nothing else, so an   *)
(* answer does not say which sweep, or which target, it belongs to.         *)
(***************************************************************************)
EXTENDS Viewport

CONSTANTS
  TTTL,        \* largest TTL of a sweep; 24
  Dist,        \* hops to each target
  MaxLife,     \* bound: periods an answer survives in the network
  MaxSweeps    \* bound: sweeps of a behaviour

ASSUME PathAssumption == TTTL \in Nat \ {0} /\ Dist \in [Rows -> Nat \ {0}]
ASSUME SweepAssumption == MaxLife \in Nat /\ MaxSweeps \in Nat

VARIABLES
  nhop,     \* App.nhop
  traces,   \* App.traces: who answered, the time, the current history slot
  probe,    \* sender: the TTL to probe next; TTTL + 1 when the sweep is over
  aim,      \* sender: `sel_addr`, the target it probes
  answers,  \* in the network or in the receive socket's buffer
  sweep,    \* for the properties and the bounds: the number of the sweep
  whole     \* for the properties: nothing has spoilt this sweep

paths == <<nhop, traces, probe, aim, answers, sweep, whole>>
vars == <<view, paths>>

Hops == 1 .. TTTL

Kinds == {"echo", "exceeded", "unreachable"}

\* `ttl` is the sequence number of the probe, `kind` the type of the answer;
\* the path and the sweep it was sent on are for the properties only.
Answer == [path : Rows, sweep : Nat, ttl : Hops, kind : Kinds]

\* Trace.ip is 0.0.0.0
Nobody == <<>>

Trace == [from : Answer \cup {Nobody}, dt : {"pending", "timed", "unreachable"},
          slot : {"never", "lost", "answered"}]

NewTrace == [from |-> Nobody, dt |-> "pending", slot |-> "never"]

-------------------------------------------------------------------------------
(* The sender thread.  The target pings that follow a sweep are in Prober;  *)
(* here they are the time between the last probe and the next sweep.        *)

\* Mutant: one hop more than there are buffers.
BeginSweepOneMore ==
  /\ pc = "loop"
  /\ probe = TTTL + 1 /\ sweep < MaxSweeps
  /\ nhop' = TTTL + 1
  /\ traces' = [k \in Hops |-> [from |-> Nobody, dt |-> "pending", slot |-> "lost"]]
  /\ aim' = sel /\ probe' = 1
  /\ sweep' = sweep + 1 /\ whole' = TRUE
  /\ answers' = {m \in answers : m.sweep + MaxLife >= sweep'}
  /\ UNCHANGED view

\* The head of the loop: every hop is pending again, its history moves on.
\* Answers older than MaxLife periods have left the network.
BeginSweep ==
  /\ pc = "loop"
  /\ probe = TTTL + 1 /\ sweep < MaxSweeps
  /\ nhop' = TTTL
  /\ traces' = [k \in Hops |-> [from |-> Nobody, dt |-> "pending", slot |-> "lost"]]
  /\ aim' = sel /\ probe' = 1
  /\ sweep' = sweep + 1 /\ whole' = TRUE
  /\ answers' = {m \in answers : m.sweep + MaxLife >= sweep'}
  /\ UNCHANGED view

\* How the network can answer a probe of the path to t.  A router may refuse it
\* anywhere; an answer that quotes less than the time stamp counts as none.
Replies(t, k) ==
  {[path |-> t, sweep |-> sweep, ttl |-> k, kind |-> kind] :
      kind \in {"unreachable", IF k < Dist[t] THEN "exceeded" ELSE "echo"}}

\* send_icmp: the probe is answered, refused or lost.
Probe ==
  /\ probe <= TTTL
  /\ \/ \E m \in Replies(aim, probe) :
          answers' = answers \cup {m} /\ whole' = (whole /\ m.kind # "unreachable")
     \/ whole' = FALSE /\ UNCHANGED answers
  /\ probe' = probe + 1
  /\ UNCHANGED <<view, nhop, traces, aim, sweep>>

-------------------------------------------------------------------------------
(* The receiver thread.  process() is one critical section of the App mutex, *)
(* which a selection in progress holds.  An answer that waits for the mutex  *)
(* counts as one that is still in the network.                               *)

\* Mutant: the path is not cut at the target.
EchoUncut(m) ==
  /\ m.kind = "echo" /\ m.ttl <= nhop
  /\ traces' = [traces EXCEPT ![m.ttl] = [from |-> m, dt |-> "timed", slot |-> "answered"]]
  /\ UNCHANGED nhop

\* Mutant: any echo sets the length of the path.
EchoLatest(m) ==
  /\ m.kind = "echo"
  /\ nhop' = m.ttl
  /\ traces' = [traces EXCEPT ![m.ttl] = [from |-> m, dt |-> "timed", slot |-> "answered"]]

\* An echo reply: the target, at this hop or before.
Echo(m) ==
  /\ m.kind = "echo" /\ m.ttl <= nhop
  /\ nhop' = m.ttl
  /\ traces' = [traces EXCEPT ![m.ttl] = [from |-> m, dt |-> "timed", slot |-> "answered"]]

\* Time exceeded: a router on the way.
Exceeded(m) ==
  /\ m.kind = "exceeded" /\ m.ttl <= nhop
  /\ traces' = [traces EXCEPT ![m.ttl] = [from |-> m, dt |-> "timed", slot |-> "answered"]]
  /\ UNCHANGED nhop

\* Mutant: the history is marked as well.
UnreachableMarked(m) ==
  /\ m.kind = "unreachable" /\ m.ttl < nhop
  /\ nhop' = m.ttl
  /\ traces' = [traces EXCEPT ![m.ttl] =
                  [from |-> m, dt |-> "unreachable", slot |-> "answered"]]

\* Unreachable: the path ends here.  The hop's history is left alone.
Unreachable(m) ==
  /\ m.kind = "unreachable" /\ m.ttl < nhop
  /\ nhop' = m.ttl
  /\ traces' = [traces EXCEPT ![m.ttl] = [from |-> m, dt |-> "unreachable", slot |-> @.slot]]

\* Anything else is beyond the end of the path.
Ignored(m) ==
  /\ m.ttl > nhop \/ (m.kind = "unreachable" /\ m.ttl = nhop)
  /\ UNCHANGED <<nhop, traces>>

\* recv_from and process; the network may deliver the packet once more.
Process ==
  /\ pc = "loop"
  /\ \E m \in answers :
       /\ Echo(m) \/ Exceeded(m) \/ Unreachable(m) \/ Ignored(m)
       /\ answers' \in {answers, answers \ {m}}
  /\ UNCHANGED <<view, probe, aim, sweep, whole>>

-------------------------------------------------------------------------------
(* The main thread.                                                         *)

Answered(k) == k \in Hops /\ traces[k].from # Nobody

\* Mutant: one silent hop is enough to end the path.
TrimmedTooFar(n) ==
  /\ n = 0 <=> nhop = 0
  /\ n > 1 => Answered(n - 1)
  /\ \A k \in n + 1 .. nhop : ~Answered(k - 1)

\* render: while the last two hops have not answered, the last is dropped; n
\* hops are left.
Trimmed(n) ==
  /\ n = 0 <=> nhop = 0
  /\ n > 1 => Answered(n) \/ Answered(n - 1)
  /\ \A k \in n + 1 .. nhop : ~Answered(k) /\ ~Answered(k - 1)

\* render on the traceroute screen: when `show` is due and after most keys.
Draw ==
  /\ pc = "loop" /\ mode = "trace"
  /\ \E n \in 0 .. nhop : Trimmed(n) /\ nhop' = n
  /\ whole' = (whole /\ nhop' = nhop)
  /\ UNCHANGED <<view, traces, probe, aim, answers, sweep>>

\* Mutant: the length of the path is kept.
SelectKeepingPath ==
  /\ Selected
  /\ traces' = [k \in Hops |-> [traces[k] EXCEPT !.slot = "never"]]
  /\ whole' = FALSE
  /\ UNCHANGED <<nhop, probe, aim, answers, sweep>>

\* The end of newsel: no hops, and init_trace clears their history.  The
\* addresses and times stay until the next sweep.
SelectTarget ==
  /\ Selected
  /\ nhop' = 0
  /\ traces' = [k \in Hops |-> [traces[k] EXCEPT !.slot = "never"]]
  /\ whole' = FALSE
  /\ UNCHANGED <<probe, aim, answers, sweep>>

\* new_traces and the start of main
PathInit ==
  /\ Init
  /\ nhop = 0 /\ traces = [k \in Hops |-> NewTrace]
  /\ probe = TTTL + 1 /\ aim = 0
  /\ answers = {} /\ sweep = 0 /\ whole = FALSE

PathNext ==
  \/ BeginSweep \/ Probe \/ Process
  \/ Draw \/ SelectTarget
  \/ Handlers /\ UNCHANGED paths

PathSpec == PathInit /\ [][PathNext]_vars

-------------------------------------------------------------------------------
\* Every variable keeps its type, whichever thread moves it.  In particular
\* nhop stays an index into the trace buffers, or zero.
PathTypeOK ==
  /\ TypeOK
  /\ nhop \in 0 .. TTTL /\ traces \in [Hops -> Trace]
  /\ probe \in 1 .. TTTL + 1 /\ aim \in Rows
  /\ answers \subseteq Answer /\ sweep \in Nat /\ whole \in BOOLEAN

\* Every hop on the screen answered a probe of this sweep to the target that is
\* selected, wherever in a sweep the selection moved - as long as no answer is a
\* period late, and the list fits on the screen, so that paging selects nothing.
HopsAreOfSelection ==
  pc = "loop" => \A k \in 1 .. nhop :
    Answered(k) => traces[k].from.path = sel /\ traces[k].from.sweep = sweep

\* The C original: "Reset traceroute hops when selected target changes".  So no
\* hop on the traceroute screen is one of a target selected before.
HopsAreReset ==
  mode = "trace" /\ pc = "loop" => \A k \in 1 .. nhop : Answered(k) => traces[k].from.path = sel

\* In whatever order and however often the answers come, the target, or the
\* router that refused the probe, is the last hop of the path.
TargetIsLast ==
  \A k \in 1 .. nhop - 1 : Answered(k) => traces[k].from.kind = "exceeded"

\* Once every probe of a sweep has been answered and every answer taken, in any
\* order, the path is as long as it is and no hop is missing - provided that no
\* redraw has trimmed it meanwhile.
PathIsFound ==
  whole /\ probe = TTTL + 1 /\ answers = {} =>
    /\ nhop = IF Dist[aim] <= TTTL THEN Dist[aim] ELSE TTTL
    /\ \A k \in 1 .. nhop : Answered(k)

\* A hop on the screen has a reply in its history exactly when it has a time.
HistoryHasTheTimes ==
  pc = "loop" => \A k \in 1 .. nhop : traces[k].slot = "answered" <=> traces[k].dt = "timed"

\* Between two sweeps the path never grows.
PathOnlyShrinks == [][sweep' = sweep => nhop' <= nhop]_vars

\* The trim of a redraw takes no hop that has answered off the path.
TrimKeepsAnswers ==
  [][UNCHANGED <<sweep, traces>> => \A k \in 1 .. nhop : Answered(k) => k <= nhop']_vars

===============================================================================
