------------------------------- MODULE PathProofs -------------------------------
(***************************************************************************)
(* Theorems about PathTrace, for every list, path length and screen: types, *)
(* the end of the path and the trim of a redraw; and, when no answer is a   *)
(* period late, that the path is found and is the selected target's.        *)
(***************************************************************************)
EXTENDS PathTrace, ViewportProofs

\* An answer is somebody's.
LEMMA AnswerIsSomebody == \A m \in Answer : m # Nobody
<1> SUFFICES ASSUME NEW m \in Answer, m = Nobody PROVE FALSE
  OBVIOUS
<1>1. "ttl" \in DOMAIN m
  BY DEF Answer
<1>2. DOMAIN Nobody = {}
  BY DEF Nobody
<1> QED
  BY <1>1, <1>2

\* Every step of the traceroute is a step of the view, or leaves it alone.
LEMMA ViewMoves == [PathNext]_vars => [Next]_view
<1> SUFFICES ASSUME [PathNext]_vars PROVE [Next]_view
  OBVIOUS
<1>1. CASE BeginSweep
  BY <1>1 DEF BeginSweep
<1>2. CASE Probe
  BY <1>2 DEF Probe
<1>3. CASE Process
  BY <1>3 DEF Process
<1>4. CASE Draw
  BY <1>4 DEF Draw
<1>5. CASE SelectTarget
  BY <1>5 DEF SelectTarget, Next
<1>6. CASE Handlers /\ UNCHANGED paths
  BY <1>6 DEF Next
<1>7. CASE UNCHANGED vars
  BY <1>7 DEF vars
<1> QED
  BY <1>1, <1>2, <1>3, <1>4, <1>5, <1>6, <1>7 DEF PathNext

\* What a probe is answered with is an answer to it.
LEMMA ReplyIsAnswer ==
  ASSUME NEW t \in Rows, NEW k \in Hops, sweep \in Nat, NEW m \in Replies(t, k)
  PROVE  m \in Answer /\ m.path = t /\ m.sweep = sweep /\ m.ttl = k
<1>1. PICK kind \in {"unreachable", IF k < Dist[t] THEN "exceeded" ELSE "echo"} :
        m = [path |-> t, sweep |-> sweep, ttl |-> k, kind |-> kind]
  BY DEF Replies
<1>2. kind \in Kinds
  BY <1>1 DEF Kinds
<1> QED
  BY <1>1, <1>2 DEF Answer

-------------------------------------------------------------------------------
(* Types.                                                                   *)

\* The view is laid out and the path's variables have their types.
PathInv == LaidOut /\ PathTypeOK

\* new_traces makes a buffer for every hop.
LEMMA InitPath == PathInit => PathInv
<1> SUFFICES ASSUME PathInit PROVE PathInv
  OBVIOUS
<1>1. LaidOut /\ TypeOK
  BY InitLaidOut DEF PathInit, LaidOut
<1>2. NewTrace \in Trace
  BY DEF NewTrace, Trace
<1>3. 0 \in Rows
  BY TargetsAssumption DEF Rows
<1>4. nhop \in 0 .. TTTL /\ traces \in [Hops -> Trace] /\ probe \in 1 .. TTTL + 1
  BY <1>2, PathAssumption DEF PathInit
<1>5. whole \in BOOLEAN
  BY DEF PathInit
<1>6. aim \in Rows /\ answers \subseteq Answer /\ sweep \in Nat
  BY <1>3 DEF PathInit
<1> QED
  BY <1>1, <1>4, <1>5, <1>6 DEF PathInv, PathTypeOK

\* One step for each thing the three threads do to the path.
LEMMA NextPath == PathInv /\ [PathNext]_vars => PathInv'
<1> SUFFICES ASSUME PathInv, [PathNext]_vars PROVE PathInv'
  OBVIOUS
<1>0. LaidOut' /\ TypeOK'
  BY ViewMoves, NextLaidOut DEF PathInv, LaidOut
<1> DEFINE Types ==
      /\ nhop \in 0 .. TTTL /\ traces \in [Hops -> Trace]
      /\ probe \in 1 .. TTTL + 1 /\ aim \in Rows
      /\ answers \subseteq Answer /\ sweep \in Nat
<1>T. Types /\ sel \in Rows /\ TTTL \in Nat \ {0}
  BY PathAssumption DEF PathInv, PathTypeOK, TypeOK
<1>1. ASSUME BeginSweep PROVE Types'
  <2>1. [from |-> Nobody, dt |-> "pending", slot |-> "lost"] \in Trace
    BY DEF Trace
  <2> QED
    BY <1>T, <1>1, <2>1 DEF BeginSweep
<1>2. ASSUME Probe PROVE Types'
  <2>1. probe \in Hops /\ probe' \in 1 .. TTTL + 1
    BY <1>T, <1>2 DEF Probe, Hops
  <2>2. answers' \subseteq Answer
    BY <1>T, <1>2, <2>1, ReplyIsAnswer DEF Probe
  <2> QED
    BY <1>T, <1>2, <2>1, <2>2 DEF Probe
<1>3. ASSUME Process PROVE Types'
  <2>1. PICK m \in answers : /\ Echo(m) \/ Exceeded(m) \/ Unreachable(m) \/ Ignored(m)
                             /\ answers' \in {answers, answers \ {m}}
    BY <1>3 DEF Process
  <2>2. m \in Answer /\ m.ttl \in Hops
    BY <1>T DEF Answer
  <2>3. nhop' \in 0 .. TTTL
    BY <1>T, <2>1, <2>2 DEF Echo, Exceeded, Unreachable, Ignored, Hops
  <2>4. traces' \in [Hops -> Trace]
    <3>1. [from |-> m, dt |-> "timed", slot |-> "answered"] \in Trace
      BY <2>2 DEF Trace
    <3>2. [from |-> m, dt |-> "unreachable", slot |-> traces[m.ttl].slot] \in Trace
      BY <1>T, <2>2 DEF Trace
    <3> QED
      BY <1>T, <2>1, <2>2, <3>1, <3>2 DEF Echo, Exceeded, Unreachable, Ignored
  <2> QED
    BY <1>T, <1>3, <2>1, <2>3, <2>4 DEF Process
<1>4. ASSUME Draw PROVE Types'
  <2>1. nhop' \in 0 .. TTTL
    BY <1>T, <1>4 DEF Draw
  <2> QED
    BY <1>T, <1>4, <2>1 DEF Draw
<1>5. ASSUME SelectTarget PROVE Types'
  <2>1. \A k \in Hops : [traces[k] EXCEPT !.slot = "never"] \in Trace
    BY <1>T DEF Trace
  <2> QED
    BY <1>T, <1>5, <2>1 DEF SelectTarget
<1>6. ASSUME UNCHANGED paths PROVE Types'
  BY <1>T, <1>6 DEF paths
<1>7. Types'
  <2> HIDE DEF Types
  <2> QED
    BY <1>1, <1>2, <1>3, <1>4, <1>5, <1>6 DEF PathNext, vars
<1>8. whole' \in BOOLEAN
  <2>1. whole \in BOOLEAN
    BY DEF PathInv, PathTypeOK
  <2>2. CASE \E b \in BOOLEAN : whole' = b
    BY <2>2
  <2>3. CASE Probe
    BY <2>1, <2>3 DEF Probe
  <2>4. CASE Draw
    BY <2>1, <2>4 DEF Draw
  <2>5. CASE UNCHANGED whole
    BY <2>1, <2>5
  <2> QED
    BY <2>2, <2>3, <2>4, <2>5 DEF PathNext, BeginSweep, Process, SelectTarget, vars, paths
<1> QED
  BY <1>0, <1>7, <1>8 DEF PathInv, PathTypeOK

\* Every reachable state has the types.
LEMMA AlwaysPath == PathSpec => []PathInv
BY InitPath, NextPath, PTL DEF PathSpec

\* Whichever thread moves it, nhop is an index into the trace buffers or zero, and
\* every probe's TTL is one that there is a buffer for.
THEOREM PathTypes == PathSpec => []PathTypeOK
<1>1. PathInv => PathTypeOK
  BY DEF PathInv
<1> QED
  BY <1>1, AlwaysPath, PTL

-------------------------------------------------------------------------------
(* The end of the path.                                                     *)

\* A path that is on the screen belongs to a sweep that has begun: each of its
\* hops has a slot of history for it.
SlotsAreSwept == nhop > 0 => \A k \in Hops : traces[k].slot # "never"

EndInv == PathInv /\ TargetIsLast /\ SlotsAreSwept

\* Before the first sweep there are no hops.
LEMMA InitEnd == PathInit => EndInv
BY InitPath DEF PathInit, EndInv, TargetIsLast, SlotsAreSwept

\* Each answer cuts the path where it should, and nothing else prolongs it but a
\* sweep, which forgets the answers.
LEMMA NextEnd == EndInv /\ [PathNext]_vars => EndInv'
<1> SUFFICES ASSUME EndInv, [PathNext]_vars PROVE EndInv'
  OBVIOUS
<1>0. PathInv'
  BY NextPath DEF EndInv
<1> DEFINE Ends == TargetIsLast /\ SlotsAreSwept
<1>T. /\ nhop \in 0 .. TTTL /\ traces \in [Hops -> Trace] /\ answers \subseteq Answer
      /\ TTTL \in Nat \ {0}
  BY PathAssumption DEF EndInv, PathInv, PathTypeOK
<1>E. Ends
  BY DEF EndInv
<1>1. ASSUME BeginSweep PROVE Ends'
  <2>1. \A k \in Hops : traces'[k].slot = "lost" /\ traces'[k].from = Nobody
    BY <1>1 DEF BeginSweep
  <2> QED
    BY <2>1 DEF TargetIsLast, SlotsAreSwept, Answered
<1>2. ASSUME UNCHANGED <<nhop, traces>> PROVE Ends'
  BY <1>2, <1>E DEF TargetIsLast, SlotsAreSwept, Answered
<1>3. ASSUME Process PROVE Ends'
  <2>1. PICK m \in answers : Echo(m) \/ Exceeded(m) \/ Unreachable(m) \/ Ignored(m)
    BY <1>3 DEF Process
  <2>2. m.ttl \in Hops
    BY <1>T DEF Answer
  <2>3. nhop' \in 0 .. nhop /\ (nhop' = nhop \/ nhop' = m.ttl)
    BY <1>T, <2>1, <2>2 DEF Echo, Exceeded, Unreachable, Ignored, Hops
  <2>4. \A k \in Hops : k # m.ttl => traces'[k] = traces[k]
    BY <1>T, <2>1 DEF Echo, Exceeded, Unreachable, Ignored
  <2>5. CASE Echo(m) \/ Unreachable(m)
    <3>1. nhop' = m.ttl /\ nhop' > 0
      BY <2>2, <2>5 DEF Echo, Unreachable, Hops
    <3>2. TargetIsLast'
      <4> SUFFICES ASSUME NEW k \in 1 .. nhop' - 1, Answered(k)'
                   PROVE  traces'[k].from.kind = "exceeded"
        BY DEF TargetIsLast
      <4>1. k \in 1 .. nhop - 1 /\ k \in Hops /\ k # m.ttl
        BY <1>T, <2>3, <3>1 DEF Hops
      <4> QED
        BY <1>E, <2>4, <4>1 DEF TargetIsLast, Answered
    <3>3. traces'[m.ttl].slot # "never"
      BY <1>T, <1>E, <2>2, <2>3, <2>5, <3>1 DEF Echo, Unreachable, SlotsAreSwept, Trace
    <3>4. SlotsAreSwept'
      BY <1>T, <1>E, <2>3, <2>4, <3>1, <3>3 DEF SlotsAreSwept
    <3> QED
      BY <3>2, <3>4
  <2>6. CASE Exceeded(m)
    <3>1. traces'[m.ttl].from = m /\ traces'[m.ttl].slot = "answered" /\ m.kind = "exceeded"
      BY <1>T, <2>2, <2>6 DEF Exceeded
    <3>2. nhop' = nhop
      BY <2>6 DEF Exceeded
    <3>3. TargetIsLast'
      <4> SUFFICES ASSUME NEW k \in 1 .. nhop - 1, Answered(k)'
                   PROVE  traces'[k].from.kind = "exceeded"
        BY <3>2 DEF TargetIsLast
      <4>1. k \in Hops
        BY <1>T DEF Hops
      <4> QED
        BY <1>E, <2>4, <3>1, <4>1 DEF TargetIsLast, Answered
    <3> QED
      BY <1>E, <2>4, <3>1, <3>2, <3>3 DEF SlotsAreSwept
  <2>7. CASE Ignored(m)
    BY <1>2, <2>7 DEF Ignored
  <2> QED
    BY <2>1, <2>5, <2>6, <2>7
<1>4. ASSUME Draw PROVE Ends'
  <2>1. PICK n \in 0 .. nhop : nhop' = n /\ UNCHANGED traces
    BY <1>T, <1>4 DEF Draw
  <2>2. TargetIsLast'
    <3>1. \A k \in 1 .. n - 1 : k \in 1 .. nhop - 1
      BY <1>T
    <3> QED
      BY <1>E, <2>1, <3>1 DEF TargetIsLast, Answered
  <2>3. SlotsAreSwept'
    BY <1>T, <1>E, <2>1 DEF SlotsAreSwept
  <2> QED
    BY <2>2, <2>3
<1>5. ASSUME SelectTarget PROVE Ends'
  BY <1>5 DEF SelectTarget, TargetIsLast, SlotsAreSwept
<1>6. Ends'
  <2> HIDE DEF Ends
  <2> QED
    BY <1>1, <1>2, <1>3, <1>4, <1>5 DEF PathNext, vars, paths, Probe
<1> QED
  BY <1>0, <1>6 DEF EndInv

\* Every reachable path ends where it should.
LEMMA AlwaysEnds == PathSpec => []EndInv
BY InitEnd, NextEnd, PTL DEF PathSpec

\* In whatever order, and however late or often the answers come, no hop of the
\* path but the last is the target or has refused the probe.
THEOREM TargetStaysLast == PathSpec => []TargetIsLast
<1>1. EndInv => TargetIsLast
  BY DEF EndInv
<1> QED
  BY <1>1, AlwaysEnds, PTL

\* Only a new sweep prolongs the path.
THEOREM PathShrinks == PathSpec => PathOnlyShrinks
<1>1. PathInv /\ [PathNext]_vars => [sweep' = sweep => nhop' <= nhop]_vars
  <2> SUFFICES ASSUME PathInv, PathNext, sweep' = sweep PROVE nhop' <= nhop
    BY DEF vars, paths
  <2>T. nhop \in 0 .. TTTL /\ answers \subseteq Answer /\ sweep \in Nat /\ TTTL \in Nat
    BY PathAssumption DEF PathInv, PathTypeOK
  <2>1. CASE BeginSweep
    BY <2>T, <2>1 DEF BeginSweep
  <2>2. CASE Process
    <3>1. PICK m \in answers : Echo(m) \/ Exceeded(m) \/ Unreachable(m) \/ Ignored(m)
      BY <2>2 DEF Process
    <3>2. m.ttl \in Nat
      BY <2>T DEF Answer, Hops
    <3> QED
      BY <2>T, <3>1, <3>2 DEF Echo, Exceeded, Unreachable, Ignored
  <2>3. CASE Draw
    BY <2>T, <2>3 DEF Draw
  <2>4. CASE SelectTarget
    BY <2>T, <2>4 DEF SelectTarget
  <2>5. CASE UNCHANGED nhop
    BY <2>T, <2>5
  <2> QED
    BY <2>1, <2>2, <2>3, <2>4, <2>5 DEF PathNext, Probe, paths
<1> QED
  BY <1>1, AlwaysPath, PTL DEF PathSpec, PathOnlyShrinks

\* The trim of a redraw takes no hop that has answered off the path, and neither
\* does an answer that was there already.
THEOREM TrimKeeps == PathSpec => TrimKeepsAnswers
<1> DEFINE Keeps == UNCHANGED <<sweep, traces>> => \A k \in 1 .. nhop : Answered(k) => k <= nhop'
<1>1. EndInv /\ [PathNext]_vars => [Keeps]_vars
  <2> SUFFICES ASSUME EndInv, PathNext, UNCHANGED <<sweep, traces>>,
                      NEW k \in 1 .. nhop, Answered(k)
               PROVE  k <= nhop'
    OBVIOUS
  <2>T. /\ nhop \in 0 .. TTTL /\ traces \in [Hops -> Trace] /\ answers \subseteq Answer
        /\ sweep \in Nat /\ TTTL \in Nat \ {0} /\ k \in Hops
    BY PathAssumption DEF EndInv, PathInv, PathTypeOK, Answered
  <2>1. CASE BeginSweep
    BY <2>T, <2>1 DEF BeginSweep
  <2>2. CASE Process
    <3>1. PICK m \in answers : Echo(m) \/ Exceeded(m) \/ Unreachable(m) \/ Ignored(m)
      BY <2>2 DEF Process
    <3>2. m.ttl \in Hops /\ m # Nobody
      BY <2>T, AnswerIsSomebody DEF Answer
    <3>3. CASE nhop' = nhop
      BY <2>T, <3>3
    <3>4. CASE Echo(m) \/ Unreachable(m)
      <4>1. nhop' = m.ttl /\ traces[m.ttl].from = m /\ m.kind # "exceeded"
        BY <2>T, <3>2, <3>4 DEF Echo, Unreachable
      <4>2. m.ttl \notin 1 .. nhop - 1
        BY <3>2, <4>1 DEF EndInv, TargetIsLast, Answered
      <4> QED
        BY <2>T, <3>2, <4>1, <4>2 DEF Hops
    <3> QED
      BY <3>1, <3>3, <3>4 DEF Exceeded, Ignored
  <2>3. CASE Draw
    <3>1. PICK n \in 0 .. nhop : Trimmed(n) /\ nhop' = n
      BY <2>3 DEF Draw
    <3> QED
      BY <2>T, <3>1 DEF Trimmed
  <2>4. CASE SelectTarget
    <3>1. traces[k].slot = "never"
      <4>1. traces'[k] = [traces[k] EXCEPT !.slot = "never"]
        BY <2>T, <2>4 DEF SelectTarget
      <4>2. traces[k] \in Trace /\ traces'[k] = traces[k]
        BY <2>T
      <4> QED
        BY <4>1, <4>2 DEF Trace
    <3> QED
      BY <2>T, <3>1 DEF EndInv, SlotsAreSwept
  <2>5. CASE UNCHANGED nhop
    BY <2>T, <2>5
  <2> QED
    BY <2>1, <2>2, <2>3, <2>4, <2>5 DEF PathNext, Probe, paths
<1> QED
  BY <1>1, AlwaysEnds, PTL DEF PathSpec, TrimKeepsAnswers

-------------------------------------------------------------------------------
(* A network in which no answer is a period late.                           *)

\* Under way are answers to this sweep's probes, one to each; a hop holds the one
\* to its probe.  So what an answer is written over can only be itself.
FreshAnswers ==
  /\ \A m \in answers : m.path = aim /\ m.sweep = sweep /\ m.ttl < probe
  /\ \A m1, m2 \in answers : m1.ttl = m2.ttl => m1 = m2
  /\ \A k \in Hops : Answered(k) =>
       /\ traces[k].from.path = aim /\ traces[k].from.sweep = sweep
       /\ traces[k].from.ttl = k /\ k < probe
       /\ \A m \in answers : m.ttl = k => traces[k].from = m

FreshInv == PathInv /\ FreshAnswers

\* No probe has been sent.
LEMMA InitFresh == PathInit => FreshInv
<1> SUFFICES ASSUME PathInit PROVE FreshAnswers
  BY InitPath DEF FreshInv
<1>1. answers = {} /\ \A k \in Hops : traces[k].from = Nobody
  BY DEF PathInit, NewTrace
<1> QED
  BY <1>1 DEF FreshAnswers, Answered

\* The first probe of a sweep finds nothing of the last one; each probe has a TTL
\* that no answer has yet.
LEMMA NextFresh ==
  ASSUME MaxLife = 0
  PROVE  FreshInv /\ [PathNext]_vars => FreshInv'
<1> SUFFICES ASSUME FreshInv, [PathNext]_vars PROVE FreshAnswers'
  BY NextPath DEF FreshInv
<1>T. /\ nhop \in 0 .. TTTL /\ traces \in [Hops -> Trace] /\ answers \subseteq Answer
      /\ TTTL \in Nat \ {0} /\ probe \in 1 .. TTTL + 1 /\ aim \in Rows /\ sweep \in Nat
  BY PathAssumption DEF FreshInv, PathInv, PathTypeOK
<1>F. FreshAnswers
  BY DEF FreshInv
<1>1. ASSUME BeginSweep PROVE FreshAnswers'
  <2>1. answers' = {}
    <3> SUFFICES ASSUME NEW m \in answers, m.sweep + 0 >= sweep + 1 PROVE FALSE
      BY <1>1 DEF BeginSweep
    <3>1. m.sweep = sweep
      BY <1>F DEF FreshAnswers
    <3> QED
      BY <1>T, <3>1
  <2>2. \A k \in Hops : traces'[k].from = Nobody
    BY <1>1 DEF BeginSweep
  <2> QED
    BY <2>1, <2>2 DEF FreshAnswers, Answered
<1>2. ASSUME Probe PROVE FreshAnswers'
  <2>1. probe \in Hops /\ probe' = probe + 1 /\ UNCHANGED <<aim, sweep, traces>>
    BY <1>T, <1>2 DEF Probe, Hops
  <2>2. CASE UNCHANGED answers
    BY <1>T, <1>F, <2>1, <2>2 DEF FreshAnswers, Answered, Answer, Hops
  <2>3. CASE \E m \in Replies(aim, probe) : answers' = answers \cup {m}
    <3>1. PICK m \in Replies(aim, probe) : answers' = answers \cup {m}
      BY <2>3
    <3>2. m \in Answer /\ m.path = aim /\ m.sweep = sweep /\ m.ttl = probe
      BY <1>T, <2>1, ReplyIsAnswer
    <3>3. \A a \in answers : a.ttl \in Hops /\ a.ttl < probe
      BY <1>T, <1>F DEF FreshAnswers, Answer
    <3>4. \A a \in answers' : a.path = aim' /\ a.sweep = sweep' /\ a.ttl < probe'
      BY <1>T, <1>F, <2>1, <3>1, <3>2, <3>3 DEF FreshAnswers, Hops
    <3>5. \A m1, m2 \in answers' : m1.ttl = m2.ttl => m1 = m2
      BY <1>T, <1>F, <2>1, <3>1, <3>2, <3>3 DEF FreshAnswers, Hops
    <3>6. ASSUME NEW k \in Hops, Answered(k)'
          PROVE  /\ traces'[k].from.path = aim' /\ traces'[k].from.sweep = sweep'
                 /\ traces'[k].from.ttl = k /\ k < probe'
                 /\ \A a \in answers' : a.ttl = k => traces'[k].from = a
      <4>1. /\ traces[k].from.path = aim /\ traces[k].from.sweep = sweep
            /\ traces[k].from.ttl = k /\ k < probe
            /\ \A a \in answers : a.ttl = k => traces[k].from = a
        BY <1>F, <2>1, <3>6 DEF FreshAnswers, Answered
      <4> QED
        BY <1>T, <2>1, <3>1, <3>2, <4>1 DEF Hops
    <3> QED
      BY <3>4, <3>5, <3>6 DEF FreshAnswers
  <2> QED
    BY <1>2, <2>2, <2>3 DEF Probe
<1>3. ASSUME Process PROVE FreshAnswers'
  <2>1. PICK m \in answers : /\ Echo(m) \/ Exceeded(m) \/ Unreachable(m) \/ Ignored(m)
                             /\ answers' \in {answers, answers \ {m}}
    BY <1>3 DEF Process
  <2>2. m.ttl \in Hops /\ m.path = aim /\ m.sweep = sweep /\ m.ttl < probe
    BY <1>T, <1>F DEF Answer, FreshAnswers
  <2>3. UNCHANGED <<aim, sweep, probe>> /\ answers' \subseteq answers
    BY <1>3, <2>1 DEF Process
  <2>4. \A k \in Hops : traces'[k] = traces[k] \/ (k = m.ttl /\ traces'[k].from = m)
    BY <1>T, <2>1, <2>2 DEF Echo, Exceeded, Unreachable, Ignored
  <2>5. ASSUME NEW k \in Hops, Answered(k)'
        PROVE  /\ traces'[k].from.path = aim /\ traces'[k].from.sweep = sweep
               /\ traces'[k].from.ttl = k /\ k < probe
               /\ \A a \in answers : a.ttl = k => traces'[k].from = a
    <3>1. CASE traces'[k] = traces[k]
      BY <1>F, <2>5, <3>1 DEF FreshAnswers, Answered
    <3>2. CASE k = m.ttl /\ traces'[k].from = m
      BY <1>F, <2>2, <3>2 DEF FreshAnswers
    <3> QED
      BY <2>4, <3>1, <3>2
  <2> QED
    BY <1>F, <2>3, <2>5 DEF FreshAnswers
<1>4. ASSUME SelectTarget PROVE FreshAnswers'
  <2>1. \A k \in Hops : traces'[k].from = traces[k].from
    BY <1>T, <1>4 DEF SelectTarget, Trace
  <2> QED
    BY <1>F, <1>4, <2>1 DEF SelectTarget, FreshAnswers, Answered
<1>5. ASSUME UNCHANGED <<traces, answers, aim, sweep, probe>> PROVE FreshAnswers'
  BY <1>F, <1>5 DEF FreshAnswers, Answered
<1> QED
  BY <1>1, <1>2, <1>3, <1>4, <1>5 DEF PathNext, vars, paths, Draw

\* Every reachable state is fresh.
LEMMA AlwaysFresh == ASSUME MaxLife = 0 PROVE PathSpec => []FreshInv
<1>1. FreshInv /\ [PathNext]_vars => FreshInv'
  BY NextFresh
<1> QED
  BY <1>1, InitFresh, PTL DEF PathSpec

-------------------------------------------------------------------------------
\* A hop has a time when its probe was answered and not refused; and one on the
\* screen then has it in its history.
Timed ==
  /\ \A k \in Hops : traces[k].dt = "timed" <=> Answered(k) /\ traces[k].from.kind # "unreachable"
  /\ \A k \in 1 .. nhop : traces[k].slot = "answered" <=> traces[k].dt = "timed"

TimesInv == FreshInv /\ Timed

\* A refusal keeps the slot of the hop, which can only have been written by an
\* earlier answer to the same probe - and there is none but the refusal itself.
LEMMA NextTimes ==
  ASSUME MaxLife = 0
  PROVE  TimesInv /\ [PathNext]_vars => TimesInv'
<1> SUFFICES ASSUME TimesInv, [PathNext]_vars PROVE Timed'
  BY NextFresh DEF TimesInv
<1>T. /\ nhop \in 0 .. TTTL /\ traces \in [Hops -> Trace] /\ answers \subseteq Answer
      /\ TTTL \in Nat \ {0}
  BY PathAssumption DEF TimesInv, FreshInv, PathInv, PathTypeOK
<1>F. Timed /\ FreshAnswers
  BY DEF TimesInv, FreshInv
<1>H. \A n \in 0 .. nhop : \A k \in 1 .. n : k \in Hops /\ k \in 1 .. nhop
  BY <1>T DEF Hops
<1>1. ASSUME BeginSweep PROVE Timed'
  <2>1. traces' = [k \in Hops |-> [from |-> Nobody, dt |-> "pending", slot |-> "lost"]]
        /\ nhop' = TTTL
    BY <1>1 DEF BeginSweep
  <2> QED
    BY <2>1 DEF Timed, Answered, Hops
<1>2. ASSUME Process PROVE Timed'
  <2>1. PICK m \in answers : Echo(m) \/ Exceeded(m) \/ Unreachable(m) \/ Ignored(m)
    BY <1>2 DEF Process
  <2>2. m.ttl \in Hops /\ m # Nobody
    BY <1>T, AnswerIsSomebody DEF Answer
  <2>3. PICK n \in 0 .. nhop : nhop' = n
    BY <1>T, <2>1, <2>2 DEF Echo, Exceeded, Unreachable, Ignored, Hops
  <2>4. CASE traces' = traces
    BY <1>F, <1>H, <2>3, <2>4 DEF Timed, Answered
  <2>5. CASE Echo(m) \/ Exceeded(m)
    <3>1. traces' = [traces EXCEPT ![m.ttl] = [from |-> m, dt |-> "timed", slot |-> "answered"]]
          /\ m.kind # "unreachable"
      BY <2>5 DEF Echo, Exceeded
    <3>2. \A k \in Hops : \/ k # m.ttl /\ traces'[k] = traces[k]
                          \/ /\ k = m.ttl /\ traces'[k].from = m
                             /\ traces'[k].dt = "timed" /\ traces'[k].slot = "answered"
      BY <1>T, <3>1
    <3> QED
      BY <1>F, <1>H, <2>2, <2>3, <3>1, <3>2 DEF Timed, Answered
  <2>6. CASE Unreachable(m)
    <3>1. /\ m.kind = "unreachable" /\ m.ttl \in 1 .. nhop
          /\ traces' = [traces EXCEPT ![m.ttl] =
                          [from |-> m, dt |-> "unreachable", slot |-> traces[m.ttl].slot]]
      BY <1>T, <2>2, <2>6 DEF Unreachable, Hops
    <3>2. \A k \in Hops : \/ k # m.ttl /\ traces'[k] = traces[k]
                          \/ /\ k = m.ttl /\ traces'[k].from = m
                             /\ traces'[k].dt = "unreachable"
                             /\ traces'[k].slot = traces[k].slot
      BY <1>T, <3>1
    <3>3. traces[m.ttl].slot # "answered"
      BY <1>F, <2>2, <3>1 DEF Timed, FreshAnswers, Answered
    <3> QED
      BY <1>F, <1>H, <2>2, <2>3, <3>1, <3>2, <3>3 DEF Timed, Answered
  <2> QED
    BY <2>1, <2>4, <2>5, <2>6 DEF Ignored
<1>3. ASSUME Draw PROVE Timed'
  <2>1. PICK n \in 0 .. nhop : nhop' = n /\ UNCHANGED traces
    BY <1>3 DEF Draw
  <2> QED
    BY <1>F, <1>H, <2>1 DEF Timed, Answered
<1>4. ASSUME SelectTarget PROVE Timed'
  <2>1. \A k \in Hops : traces'[k].from = traces[k].from /\ traces'[k].dt = traces[k].dt
    BY <1>T, <1>4 DEF SelectTarget, Trace
  <2>2. nhop' = 0
    BY <1>4 DEF SelectTarget
  <2> QED
    BY <1>F, <2>1, <2>2 DEF Timed, Answered
<1>5. ASSUME UNCHANGED <<nhop, traces>> PROVE Timed'
  BY <1>F, <1>5 DEF Timed, Answered
<1> QED
  BY <1>1, <1>2, <1>3, <1>4, <1>5 DEF PathNext, vars, paths, Probe

\* When no answer is a period late, the hops on the screen whose history has a reply
\* are those with a time, in whatever order the answers come and the main thread
\* redraws and selects.
THEOREM HistoryKeepsUp == ASSUME MaxLife = 0 PROVE PathSpec => []HistoryHasTheTimes
<1>1. PathInit => TimesInv
  <2> SUFFICES ASSUME PathInit PROVE Timed
    BY InitFresh DEF TimesInv
  <2>1. nhop = 0 /\ \A k \in Hops : traces[k] = NewTrace
    BY DEF PathInit
  <2> QED
    BY <2>1 DEF Timed, Answered, NewTrace
<1>2. TimesInv /\ [PathNext]_vars => TimesInv'
  BY NextTimes
<1>3. TimesInv => HistoryHasTheTimes
  BY DEF TimesInv, Timed, HistoryHasTheTimes
<1> QED
  BY <1>1, <1>2, <1>3, PTL DEF PathSpec

-------------------------------------------------------------------------------
(* The path that is found.                                                  *)

\* The hops of the sweep's target that a sweep can reach.
Reach == IF Dist[aim] <= TTTL THEN Dist[aim] ELSE TTTL

\* As long as nothing has spoilt the sweep: every probe's answer is under way or has
\* been taken; the hops within reach that were taken are there, and the answer of
\* the last one has cut the path.  No answer cuts it shorter.
NothingMissing ==
  whole =>
    /\ \A m \in answers : m.kind = IF m.ttl < Dist[aim] THEN "exceeded" ELSE "echo"
    /\ nhop >= Reach
    /\ \A k \in Hops : k < probe /\ (\A m \in answers : m.ttl # k) =>
         /\ k <= Reach => Answered(k)
         /\ k = Reach => nhop <= k

FoundInv == FreshInv /\ NothingMissing

\* Each taken answer leaves nothing missing, whichever is taken first.
LEMMA NextFound ==
  ASSUME MaxLife = 0
  PROVE  FoundInv /\ [PathNext]_vars => FoundInv'
<1> SUFFICES ASSUME FoundInv, [PathNext]_vars, whole' PROVE NothingMissing'
  BY NextFresh DEF FoundInv, NothingMissing
<1>T. /\ nhop \in 0 .. TTTL /\ traces \in [Hops -> Trace] /\ answers \subseteq Answer
      /\ TTTL \in Nat \ {0} /\ probe \in 1 .. TTTL + 1 /\ aim \in Rows /\ sweep \in Nat
  BY PathAssumption DEF FoundInv, FreshInv, PathInv, PathTypeOK
<1>D. Dist[aim] \in Nat \ {0} /\ Reach \in Hops
  BY <1>T, PathAssumption DEF Reach, Hops
<1>F. FreshAnswers /\ FreshAnswers'
  BY NextFresh DEF FoundInv, FreshInv
<1> DEFINE Missing ==
      /\ \A m \in answers : m.kind = IF m.ttl < Dist[aim] THEN "exceeded" ELSE "echo"
      /\ nhop >= Reach
      /\ \A k \in Hops : k < probe /\ (\A m \in answers : m.ttl # k) =>
           /\ k <= Reach => Answered(k)
           /\ k = Reach => nhop <= k
<1>W. whole => Missing
  BY DEF FoundInv, NothingMissing
<1>1. ASSUME BeginSweep PROVE Missing'
  <2>1. probe' = 1 /\ nhop' = TTTL /\ \A m \in answers' : m.ttl < probe' /\ m.ttl \in Hops
    BY <1>T, <1>F, <1>1 DEF BeginSweep, FreshAnswers, Answer
  <2>2. aim' \in Rows
    BY <1>1 DEF BeginSweep, FoundInv, FreshInv, PathInv, PathTypeOK, TypeOK
  <2>3. Reach' <= TTTL
    BY <1>T, <2>2, PathAssumption DEF Reach
  <2> QED
    BY <1>T, <2>1, <2>2, <2>3, PathAssumption DEF Hops, Reach
<1>2. ASSUME Probe PROVE Missing'
  <2>1. PICK m \in Replies(aim, probe) :
          answers' = answers \cup {m} /\ whole' = (whole /\ m.kind # "unreachable")
    BY <1>2 DEF Probe
  <2>2. whole /\ m.kind # "unreachable"
    BY <2>1
  <2>3. probe \in Hops /\ probe' = probe + 1 /\ UNCHANGED <<aim, nhop, traces>>
    BY <1>T, <1>2 DEF Probe, Hops
  <2>4. m.ttl = probe /\ m.kind = IF probe < Dist[aim] THEN "exceeded" ELSE "echo"
    BY <1>T, <2>2, <2>3 DEF Replies
  <2>5. Missing
    BY <1>W, <2>2
  <2>6. \A a \in answers' : a.kind = IF a.ttl < Dist[aim] THEN "exceeded" ELSE "echo"
    BY <2>1, <2>4, <2>5
  <2>7. \A k \in Hops : k < probe' /\ (\A a \in answers' : a.ttl # k) =>
          k < probe /\ \A a \in answers : a.ttl # k
    BY <1>T, <2>1, <2>3, <2>4 DEF Hops
  <2> QED
    BY <2>3, <2>5, <2>6, <2>7 DEF Reach, Answered
<1>3. ASSUME Process PROVE Missing'
  <2>1. PICK m \in answers : /\ Echo(m) \/ Exceeded(m) \/ Unreachable(m) \/ Ignored(m)
                             /\ answers' \in {answers, answers \ {m}}
    BY <1>3 DEF Process
  <2>2. UNCHANGED <<aim, probe, Reach>> /\ answers' \subseteq answers /\ whole
    BY <1>3, <2>1 DEF Process, Reach
  <2>3. Missing /\ m.ttl \in Hops /\ m # Nobody
    BY <1>T, <1>W, <2>2, AnswerIsSomebody DEF Answer
  <2>4. nhop' \in 0 .. nhop /\ nhop' >= Reach
    <3>1. CASE Echo(m)
      BY <1>T, <1>D, <2>3, <3>1 DEF Echo, Reach, Hops
    <3>2. CASE nhop' = nhop
      BY <1>T, <2>3, <3>2
    <3>3. ~Unreachable(m)
      BY <2>3 DEF Unreachable
    <3> QED
      BY <2>1, <3>1, <3>2, <3>3 DEF Exceeded, Ignored
  <2>5. \A k \in Hops : k # m.ttl => traces'[k] = traces[k]
    BY <1>T, <2>1 DEF Echo, Exceeded, Unreachable, Ignored
  <2>6. m.ttl <= Reach => Answered(m.ttl)'
    <3> SUFFICES ASSUME m.ttl <= Reach PROVE traces'[m.ttl].from = m
      BY <2>3 DEF Answered
    <3>1. m.ttl <= nhop /\ m.kind # "unreachable"
      BY <1>T, <1>D, <2>3 DEF Hops
    <3>2. ~Ignored(m) /\ ~Unreachable(m)
      BY <1>T, <2>3, <3>1 DEF Ignored, Unreachable, Hops
    <3> QED
      BY <1>T, <2>1, <2>3, <3>2 DEF Echo, Exceeded
  <2>7. m.ttl = Reach => nhop' <= m.ttl
    <3>1. CASE Echo(m)
      BY <1>T, <2>3, <3>1 DEF Echo, Hops
    <3>2. CASE m.ttl < Dist[aim]
      BY <1>T, <1>D, <2>4, <3>2 DEF Reach, Hops
    <3>3. m.kind = "echo" /\ m.ttl = Reach => Echo(m)
      <4> SUFFICES ASSUME m.kind = "echo", m.ttl = Reach PROVE Echo(m)
        OBVIOUS
      <4>1. m.ttl <= nhop
        BY <2>3
      <4>2. ~Ignored(m)
        BY <1>T, <2>3, <4>1 DEF Ignored, Hops
      <4> QED
        BY <2>1, <4>2 DEF Exceeded, Unreachable
    <3> QED
      BY <2>3, <3>1, <3>2, <3>3
  <2>8. ASSUME NEW k \in Hops, k < probe, \A a \in answers' : a.ttl # k
        PROVE  (k <= Reach => Answered(k)') /\ (k = Reach => nhop' <= k)
    <3>1. CASE k = m.ttl
      BY <2>6, <2>7, <3>1
    <3>2. CASE k # m.ttl
      <4>1. \A a \in answers : a.ttl # k
        BY <2>1, <2>8, <3>2
      <4>2. (k <= Reach => Answered(k)) /\ (k = Reach => nhop <= k)
        BY <2>3, <2>8, <4>1
      <4>3. nhop' <= nhop /\ nhop' \in Int /\ nhop \in Int /\ k \in Int
        BY <1>T, <2>4 DEF Hops
      <4> QED
        BY <2>5, <3>2, <4>2, <4>3 DEF Answered
    <3> QED
      BY <3>1, <3>2
  <2>9. \A a \in answers' : a.kind = IF a.ttl < Dist[aim] THEN "exceeded" ELSE "echo"
    BY <2>2, <2>3
  <2> QED
    BY <2>2, <2>4, <2>8, <2>9
<1>4. ASSUME Draw PROVE Missing'
  <2>1. whole /\ UNCHANGED <<nhop, answers, aim, probe, traces>>
    BY <1>4 DEF Draw
  <2> QED
    BY <1>W, <2>1 DEF Reach, Answered
<1>5. ASSUME UNCHANGED paths PROVE Missing'
  BY <1>W, <1>5 DEF paths, Reach, Answered
<1>6. Missing'
  <2> HIDE DEF Missing
  <2>1. ~SelectTarget
    BY DEF SelectTarget
  <2> QED
    BY <1>1, <1>2, <1>3, <1>4, <1>5, <2>1 DEF PathNext, vars
<1> QED
  BY <1>6 DEF NothingMissing

\* For every number of hops and every distance, in and out of the sweep's reach, the
\* answers may come in any order and more than once: when all are taken the path is
\* as long as it is, and no hop of it is missing.
THEOREM WholePathIsFound == ASSUME MaxLife = 0 PROVE PathSpec => []PathIsFound
<1>1. PathInit => FoundInv
  BY InitFresh DEF FoundInv, NothingMissing, PathInit
<1>2. FoundInv /\ [PathNext]_vars => FoundInv'
  BY NextFound
<1>3. FoundInv => PathIsFound
  <2> SUFFICES ASSUME FoundInv, whole, probe = TTTL + 1, answers = {}
               PROVE  nhop = Reach /\ \A k \in 1 .. nhop : Answered(k)
    BY DEF PathIsFound, Reach
  <2>1. nhop \in 0 .. TTTL /\ TTTL \in Nat \ {0} /\ aim \in Rows
    BY PathAssumption DEF FoundInv, FreshInv, PathInv, PathTypeOK
  <2>2. Reach \in Hops
    BY <2>1, PathAssumption DEF Reach, Hops
  <2>3. nhop >= Reach /\ \A k \in Hops : (k <= Reach => Answered(k)) /\ (k = Reach => nhop <= k)
    BY <2>1 DEF FoundInv, NothingMissing, Hops
  <2> QED
    BY <2>1, <2>2, <2>3 DEF Hops
<1> QED
  BY <1>1, <1>2, <1>3, PTL DEF PathSpec

-------------------------------------------------------------------------------
(* The selected target.                                                     *)

\* The path on the screen is that of the target the sender probes, which is selected.
SelectedInv == FreshInv /\ (nhop > 0 => aim = sel)

\* When the whole list fits, only the end of newsel moves the selection, and it
\* takes the path off the screen.
LEMMA NextSelected ==
  ASSUME MaxLife = 0, \A size \in Sizes : Fits(size[2])
  PROVE  SelectedInv /\ [PathNext]_vars => SelectedInv'
<1> SUFFICES ASSUME SelectedInv, [PathNext]_vars, nhop' > 0 PROVE aim' = sel'
  BY NextFresh DEF SelectedInv
<1>T. nhop \in 0 .. TTTL /\ answers \subseteq Answer /\ <<wid, hgt>> \in Sizes /\ TTTL \in Nat
  BY PathAssumption DEF SelectedInv, FreshInv, PathInv, PathTypeOK, TypeOK
<1>S. nhop > 0 => aim = sel
  BY DEF SelectedInv
<1>1. CASE BeginSweep
  BY <1>1 DEF BeginSweep, view
<1>2. CASE Probe
  BY <1>S, <1>2 DEF Probe, view
<1>3. CASE Process
  <2>1. PICK m \in answers : Echo(m) \/ Exceeded(m) \/ Unreachable(m) \/ Ignored(m)
    BY <1>3 DEF Process
  <2>2. m.ttl \in Hops
    BY <1>T DEF Answer
  <2>3. nhop > 0
    BY <1>T, <2>1, <2>2 DEF Echo, Exceeded, Unreachable, Ignored, Hops
  <2> QED
    BY <1>S, <1>3, <2>3 DEF Process, view
<1>4. CASE Draw
  <2>1. PICK n \in 0 .. nhop : nhop' = n
    BY <1>4 DEF Draw
  <2>2. nhop > 0
    BY <1>T, <2>1
  <2> QED
    BY <1>S, <1>4, <2>2 DEF Draw, view
<1>5. CASE SelectTarget
  BY <1>5 DEF SelectTarget
<1>6. CASE Handlers /\ UNCHANGED paths
  <2>1. Fits(hgt) /\ \A size \in Sizes : Fits(size[2])
    <3>1. <<wid, hgt>>[2] = hgt
      OBVIOUS
    <3> QED
      BY <1>T, <3>1
  <2>2. \A d, h : Fits(h) /\ Scroll(d, h) => UNCHANGED sel
    BY DEF Scroll
  <2>3. UNCHANGED sel
    <3>1. ASSUME NEW key, NEW d, Page(key, d) PROVE UNCHANGED sel
      BY <2>1, <2>2, <3>1 DEF Page
    <3>2. ASSUME NEW key, NEW d, Select(key, d) PROVE UNCHANGED sel
      BY <3>2 DEF Select
    <3>3. CASE ScrollIntoView
      BY <2>1, <2>2, <3>3 DEF ScrollIntoView
    <3>4. ASSUME NEW key, ChangeMode(key) PROVE UNCHANGED sel
      BY <3>4 DEF ChangeMode
    <3>5. ASSUME NEW key, Toggle(key) PROVE UNCHANGED sel
      BY <2>1, <2>2, <3>5 DEF Toggle, Resize
    <3>6. CASE ResizeEvent
      BY <2>1, <2>2, <3>6 DEF ResizeEvent, Resize
    <3> QED
      BY <1>6, <3>1, <3>2, <3>3, <3>4, <3>5, <3>6 DEF Handlers
  <2> QED
    BY <1>S, <1>6, <2>3 DEF paths
<1>7. CASE UNCHANGED vars
  BY <1>S, <1>7 DEF vars, paths, view
<1> QED
  BY <1>1, <1>2, <1>3, <1>4, <1>5, <1>6, <1>7 DEF PathNext

\* When no answer is a period late and the whole list fits on the screen, what the
\* traceroute screen shows are answers of this sweep to the selected target.  The
\* run paged_hops shows what happens when the list does not fit.
THEOREM HopsStayOfSelection ==
  ASSUME MaxLife = 0, \A size \in Sizes : Fits(size[2])
  PROVE  PathSpec => []HopsAreOfSelection
<1>1. PathInit => SelectedInv
  BY InitFresh DEF SelectedInv, PathInit
<1>2. SelectedInv /\ [PathNext]_vars => SelectedInv'
  BY NextSelected
<1>3. SelectedInv => HopsAreOfSelection
  <2> SUFFICES ASSUME SelectedInv, NEW k \in 1 .. nhop, Answered(k)
               PROVE  traces[k].from.path = sel /\ traces[k].from.sweep = sweep
    BY DEF HopsAreOfSelection
  <2>1. nhop \in 0 .. TTTL /\ TTTL \in Nat
    BY PathAssumption DEF SelectedInv, FreshInv, PathInv, PathTypeOK
  <2>2. nhop > 0 /\ k \in Hops
    BY <2>1 DEF Hops
  <2> QED
    BY <2>2 DEF SelectedInv, FreshInv, FreshAnswers
<1> QED
  BY <1>1, <1>2, <1>3, PTL DEF PathSpec

===============================================================================
