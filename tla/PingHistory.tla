----------------------------- MODULE PingHistory -----------------------------
(***************************************************************************)
(* What the ping table promises, without rings, sequence numbers or        *)
(* threads.  Pings are numbered 1, 2, 3, ... for ever; each target has the  *)
(* outcome of its NSEC most recent pings, indexed by age (age 0 is the      *)
(* current ping).  A reply says which ping it answers.  It decides that     *)
(* ping and no other: the current one becomes "answered", an earlier one    *)
(* becomes "late" if it had been given up as "lost", and a decided outcome  *)
(* is never revised.                                                        *)
(***************************************************************************)
EXTENDS Integers

CONSTANTS
  Targets,    (* the targets of the configuration                          *)
  NSEC,       (* how many pings a target's history remembers               *)
  LostLimit   (* where the lost count saturates                            *)

VARIABLES
  total,      (* number of the current ping, 0 before the first            *)
  hist,       (* hist[t][a]: the outcome of t's ping of age a              *)
  count,      (* count[t]: replies, lost pings and late replies            *)
  owed,       (* replies the program can still receive                     *)
  closed      (* the final count has been taken                            *)

vars == <<total, hist, count, owed, closed>>

Ages == 0 .. NSEC - 1

Outcome == {"never", "lost", "late", "answered"}

NoCount == [n |-> 0, lost |-> -1, late |-> 0]

\* A reply to one ping; `copy` tells the duplicates of a reply apart.
Reply(t, no, copy) == [to |-> t, no |-> no, copy |-> copy]

-------------------------------------------------------------------------------
Init ==
  /\ total = 0
  /\ hist = [t \in Targets |-> [a \in Ages |-> "never"]]
  /\ count = [t \in Targets |-> NoCount]
  /\ owed = {}
  /\ closed = FALSE

\* One more ping given up, up to the limit.
GiveUp(c, outcome) ==
  IF outcome = "lost" /\ c.lost < LostLimit THEN [c EXCEPT !.lost = @ + 1] ELSE c

(* A new period: every target's history ages by one and starts a ping that *)
(* is lost until answered; the ping that ends is counted if it is lost.     *)
(* Replies may be lost by the network.                                      *)
NextPeriod ==
  /\ total' = total + 1
  /\ hist' = [t \in Targets |->
                [a \in Ages |-> IF a = 0 THEN "lost" ELSE hist[t][a - 1]]]
  /\ count' = [t \in Targets |->
                 IF count[t].lost < 0 THEN [count[t] EXCEPT !.lost = 0]
                 ELSE GiveUp(count[t], hist[t][0])]
  /\ owed' \subseteq owed
  /\ UNCHANGED closed

\* The current ping goes out to one target: some number of replies is owed.
Ask(t) ==
  /\ owed \subseteq owed'
  /\ \A r \in owed' \ owed : r.to = t /\ r.no = total
  /\ UNCHANGED <<total, hist, count, closed>>

\* A reply to the current ping.
AnswerNow(r) ==
  /\ r.no = total
  /\ hist' = [hist EXCEPT ![r.to][0] = "answered"]
  /\ count' = [count EXCEPT ![r.to].n = @ + 1]

\* A reply to an earlier ping, remembered or not.
AnswerLate(r) ==
  /\ r.no < total
  /\ hist' = [hist EXCEPT ![r.to] =
                [a \in Ages |->
                   IF a = total - r.no /\ @[a] = "lost" THEN "late" ELSE @[a]]]
  /\ count' = [count EXCEPT ![r.to].late = @ + 1]

Answer(r) ==
  /\ AnswerNow(r) \/ AnswerLate(r)
  /\ owed' = owed \ {r}
  /\ UNCHANGED <<total, closed>>

\* The 0 key: the counters start again, the history stays.
Restart ==
  /\ count' = [t \in Targets |-> NoCount]
  /\ UNCHANGED <<total, hist, owed, closed>>

\* Replies waiting in a socket that is closed are gone.
Discard ==
  /\ owed' \subseteq owed
  /\ UNCHANGED <<total, hist, count, closed>>

\* The end of a logged run counts the ping that is still outstanding.
CloseBooks ==
  /\ ~closed
  /\ closed' = TRUE
  /\ count' = [t \in Targets |-> GiveUp(count[t], hist[t][0])]
  /\ UNCHANGED <<total, hist, owed>>

Next ==
  \/ Discard
  \/ NextPeriod
  \/ \E t \in Targets : Ask(t)
  \/ \E r \in owed : Answer(r)
  \/ Restart
  \/ CloseBooks

Spec == Init /\ [][Next]_vars

===============================================================================
