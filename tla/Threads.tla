-------------------------------- MODULE Threads --------------------------------
(***************************************************************************)
(* The threads of rcping and what they wait for: the mutexes around App and *)
(* the two sockets, the flags `run` and `show`, the mailbox `swx` that the   *)
(* GPIO interrupts write, and the receive timeout (main.rs, net.rs,         *)
(* gpio.rs, dnscache.rs).  What the critical sections compute is in Prober, *)
(* Viewport and PathTrace; here they only take time.                        *)
(*                                                                         *)
(* A control value that ends in "Wait" is a thread at a lock() call.        *)
(***************************************************************************)
EXTENDS Integers

CONSTANTS
  SENDS,       \* packets of a group: T_TTL probes and a ping per target
  MaxPresses   \* bound: presses of GPIO switches

ASSUME SendsAssumption == SENDS \in Nat
ASSUME BoundAssumption == MaxPresses \in Nat

\* What a terminal event makes of the main thread: leave; replace the sockets;
\* change something and redraw (most keys and every resize); nothing ('c').
Events == {"quit", "reset", "redraw", "quiet"}

VARIABLES
  run, show,     \* AtomicBool
  swx,           \* AtomicU8: the last press not taken, by its number; 0: none
  lock,          \* the mutexes and their owners
  timed,         \* the receive socket has its read timeout
  spc, left,     \* sender: control, packets of the group still to send
  rpc,           \* receiver: control
  mpc,           \* main thread: control
  event, taken,  \* main thread: the event and the press in hand
  fresh,         \* main thread: the `new` argument of draw
  presses, served  \* for the bound and the properties: the presses, and the last
                   \* of them that was applied

flags    == <<run, show>>
sender   == <<spc, left>>
main     == <<mpc, event, taken, fresh>>
counts   == <<presses, served>>
vars     == <<flags, swx, lock, timed, sender, rpc, main, counts>>

Mutexes == {"app", "send", "recv"}
Free == "free"

Lock(t, m) == lock[m] = Free /\ lock' = [lock EXCEPT ![m] = t]
Unlock(m) == lock' = [lock EXCEPT ![m] = Free]

Init ==
  /\ run = TRUE /\ show = FALSE /\ swx = 0
  /\ lock = [m \in Mutexes |-> Free] /\ timed = TRUE
  /\ spc = "loop" /\ left = 0
  /\ rpc = "loop"
  /\ mpc = "drawWait" /\ event = "redraw" /\ taken = 0 /\ fresh = FALSE
  /\ presses = 0 /\ served = 0

-------------------------------------------------------------------------------
(* The sender thread.                                                       *)

SenderMoves(from, to) == spc = from /\ spc' = to

SenderLoop ==
  /\ SenderMoves("loop", IF run THEN "groupWait" ELSE "done")
  /\ UNCHANGED <<flags, swx, lock, timed, left, rpc, main, counts>>

SenderLocksApp ==
  /\ SenderMoves("groupWait", "group") /\ Lock("sender", "app")
  /\ UNCHANGED <<flags, swx, timed, left, rpc, main, counts>>

BeginGroup ==
  /\ SenderMoves("group", "packet") /\ Unlock("app")
  /\ left' = SENDS
  /\ UNCHANGED <<flags, swx, timed, rpc, main, counts>>

\* Mutant: one packet too many.
NextPacketMore ==
  /\ SenderMoves("packet", IF ~run THEN "done" ELSE "sendWait") /\ left >= 0
  /\ UNCHANGED <<flags, swx, lock, timed, left, rpc, main, counts>>

\* The test of `run` before every packet.
NextPacket ==
  /\ SenderMoves("packet", IF ~run THEN "done" ELSE "sendWait") /\ left > 0
  /\ UNCHANGED <<flags, swx, lock, timed, left, rpc, main, counts>>

SenderLocksSocket ==
  /\ SenderMoves("sendWait", "send") /\ Lock("sender", "send")
  /\ UNCHANGED <<flags, swx, timed, left, rpc, main, counts>>

SendPacket ==
  /\ SenderMoves("send", "packet") /\ Unlock("send")
  /\ left' = left - 1
  /\ UNCHANGED <<flags, swx, timed, rpc, main, counts>>

\* The first pause, then the display is due.
GroupSent ==
  /\ SenderMoves("packet", "pause") /\ left = 0
  /\ show' = TRUE
  /\ UNCHANGED <<run, swx, lock, timed, left, rpc, main, counts>>

\* The second pause; with -N this may have been the last group.
EndGroup ==
  /\ SenderMoves("pause", "loop")
  /\ run' = FALSE \/ UNCHANGED run
  /\ UNCHANGED <<show, swx, lock, timed, left, rpc, main, counts>>

Sender ==
  \/ SenderLoop \/ SenderLocksApp \/ BeginGroup \/ NextPacket
  \/ SenderLocksSocket \/ SendPacket \/ GroupSent \/ EndGroup

-------------------------------------------------------------------------------
(* The receiver thread.                                                     *)

ReceiverMoves(from, to) == rpc = from /\ rpc' = to

ReceiverLoop ==
  /\ ReceiverMoves("loop", IF run THEN "recvWait" ELSE "done")
  /\ UNCHANGED <<flags, swx, lock, timed, sender, main, counts>>

ReceiverLocksSocket ==
  /\ ReceiverMoves("recvWait", "recv") /\ Lock("receiver", "recv")
  /\ UNCHANGED <<flags, swx, timed, sender, main, counts>>

\* recv_from returns without a packet, after 250 ms.
ReceiveTimesOut ==
  /\ ReceiverMoves("recv", "loop") /\ Unlock("recv")
  /\ timed
  /\ UNCHANGED <<flags, swx, timed, sender, main, counts>>

\* recv_from returns a packet that unpack_header can parse, or another.
PacketArrives ==
  /\ \E to \in {"packetWait", "loop"} : ReceiverMoves("recv", to)
  /\ Unlock("recv")
  /\ UNCHANGED <<flags, swx, timed, sender, main, counts>>

ReceiverLocksApp ==
  /\ ReceiverMoves("packetWait", "packet") /\ Lock("receiver", "app")
  /\ UNCHANGED <<flags, swx, timed, sender, main, counts>>

Process ==
  /\ ReceiverMoves("packet", "loop") /\ Unlock("app")
  /\ UNCHANGED <<flags, swx, timed, sender, main, counts>>

\* What the receiver does of its own accord.
Receiver ==
  ReceiverLoop \/ ReceiverLocksSocket \/ ReceiveTimesOut \/ ReceiverLocksApp \/ Process

-------------------------------------------------------------------------------
(* The GPIO interrupts: a press overwrites one that was not taken yet.      *)

Press ==
  /\ presses < MaxPresses
  /\ presses' = presses + 1
  /\ swx' = presses'
  /\ UNCHANGED <<flags, lock, timed, sender, rpc, main, served>>

-------------------------------------------------------------------------------
(* The main thread.                                                         *)

MainMoves(from, to) == mpc = from /\ mpc' = to

\* run_loop ends: `run` is cleared, or the terminal gives an error.
MainEnds ==
  /\ \/ MainMoves("poll", "leave") /\ ~run
     \/ MainMoves("events", "leave")
  /\ UNCHANGED <<flags, swx, lock, timed, sender, rpc, event, taken, fresh, counts>>

\* The head of the loop swaps the mailbox for zero.
TakeSwitch ==
  /\ MainMoves("poll", IF swx # 0 THEN "switchWait" ELSE "events") /\ run
  /\ swx' = 0 /\ taken' = swx
  /\ UNCHANGED <<flags, lock, timed, sender, rpc, event, fresh, counts>>

\* event::poll finds an event; there may be no end of them.
EventArrives ==
  /\ MainMoves("events", "keyWait")
  /\ event' \in Events
  /\ UNCHANGED <<flags, swx, lock, timed, sender, rpc, taken, fresh, counts>>

\* Mutant: the frame that is due is drawn like any other.
NoEventStale ==
  /\ MainMoves("events", IF show THEN "drawWait" ELSE "poll")
  /\ show' = FALSE
  /\ fresh' = FALSE
  /\ UNCHANGED <<run, swx, lock, timed, sender, rpc, event, taken, counts>>

\* It finds none; a frame may be due.
NoEvent ==
  /\ MainMoves("events", IF show THEN "drawWait" ELSE "poll")
  /\ show' = FALSE
  /\ fresh' = show
  /\ UNCHANGED <<run, swx, lock, timed, sender, rpc, event, taken, counts>>

\* lock() on App, for a key, a switch, a frame, the reset, or the summary.
MainLocksApp ==
  /\ \/ MainMoves("keyWait", "key") \/ MainMoves("switchWait", "switch")
     \/ MainMoves("drawWait", "draw") \/ MainMoves("resetWait", "reset")
     \/ MainMoves("sumWait", "sum")
  /\ Lock("main", "app")
  /\ UNCHANGED <<flags, swx, timed, sender, rpc, event, taken, fresh, counts>>

\* Mutant: the 0 key replaces the sockets with the App mutex in hand.
HandleKeyHolding ==
  /\ mpc = "key"
  /\ \/ event = "quit"   /\ run' = FALSE   /\ mpc' = "poll" /\ Unlock("app")
     \/ event = "quiet"  /\ UNCHANGED run  /\ mpc' = "poll" /\ Unlock("app")
     \/ event = "redraw" /\ UNCHANGED run  /\ mpc' = "drawWait" /\ Unlock("app")
     \/ event = "reset"  /\ UNCHANGED run  /\ mpc' = "sendWait" /\ UNCHANGED lock
  /\ fresh' = FALSE
  /\ UNCHANGED <<show, swx, timed, sender, rpc, event, taken, counts>>

\* handle_key, or the resize of a resize event.  For the 0 key a new socket is
\* opened, which may fail, once App is unlocked.
HandleKey ==
  /\ mpc = "key" /\ Unlock("app")
  /\ \/ event = "quit"   /\ run' = FALSE   /\ mpc' = "poll"
     \/ event = "quiet"  /\ UNCHANGED run  /\ mpc' = "poll"
     \/ event = "redraw" /\ UNCHANGED run  /\ mpc' = "drawWait"
     \/ event = "reset"  /\ UNCHANGED run  /\ mpc' \in {"sendWait", "leave"}
  /\ fresh' = FALSE
  /\ UNCHANGED <<show, swx, timed, sender, rpc, event, taken, counts>>

MainLocksSendSocket ==
  /\ MainMoves("sendWait", "send") /\ Lock("main", "send")
  /\ UNCHANGED <<flags, swx, timed, sender, rpc, event, taken, fresh, counts>>

\* The send socket is replaced; then a receive socket is opened, or not.
SwapSendSocket ==
  /\ \E to \in {"recvWait", "leave"} : MainMoves("send", to)
  /\ Unlock("send")
  /\ UNCHANGED <<flags, swx, timed, sender, rpc, event, taken, fresh, counts>>

MainLocksReceiveSocket ==
  /\ MainMoves("recvWait", "recv") /\ Lock("main", "recv")
  /\ UNCHANGED <<flags, swx, timed, sender, rpc, event, taken, fresh, counts>>

\* Mutant: make_socket instead of make_recv_socket.
SwapReceiveSocketUntimed ==
  /\ MainMoves("recv", "resetWait") /\ Unlock("recv")
  /\ timed' = FALSE
  /\ UNCHANGED <<flags, swx, sender, rpc, event, taken, fresh, counts>>

SwapReceiveSocket ==
  /\ MainMoves("recv", "resetWait") /\ Unlock("recv")
  /\ timed' = TRUE
  /\ UNCHANGED <<flags, swx, sender, rpc, event, taken, fresh, counts>>

ResetStats ==
  /\ MainMoves("reset", "drawWait") /\ Unlock("app")
  /\ UNCHANGED <<flags, swx, timed, sender, rpc, event, taken, fresh, counts>>

\* Mutant: the mailbox is cleared when the press has been applied.
ApplySwitchAndClear ==
  /\ MainMoves("switch", "drawWait") /\ Unlock("app")
  /\ served' = taken /\ fresh' = FALSE
  /\ swx' = 0
  /\ UNCHANGED <<flags, timed, sender, rpc, event, taken, presses>>

ApplySwitch ==
  /\ MainMoves("switch", "drawWait") /\ Unlock("app")
  /\ served' = taken /\ fresh' = FALSE
  /\ UNCHANGED <<flags, swx, timed, sender, rpc, event, taken, presses>>

\* render, with the name lookups of the traceroute screen, under the mutex; the
\* terminal is written after it, and may fail.
Render ==
  /\ \E to \in {"poll", "leave"} : MainMoves("draw", to)
  /\ Unlock("app")
  /\ UNCHANGED <<flags, swx, timed, sender, rpc, event, taken, fresh, counts>>

\* run_loop has returned, or failed.
Leave ==
  /\ MainMoves("leave", "join")
  /\ run' = FALSE
  /\ UNCHANGED <<show, swx, lock, timed, sender, rpc, event, taken, fresh, counts>>

Join ==
  /\ MainMoves("join", "sumWait") /\ spc = "done" /\ rpc = "done"
  /\ UNCHANGED <<flags, swx, lock, timed, sender, rpc, event, taken, fresh, counts>>

Summary ==
  /\ MainMoves("sum", "done") /\ Unlock("app")
  /\ UNCHANGED <<flags, swx, timed, sender, rpc, event, taken, fresh, counts>>

\* What the main thread does of its own accord.
Main ==
  \/ MainEnds \/ TakeSwitch \/ NoEvent \/ MainLocksApp \/ HandleKey
  \/ MainLocksSendSocket \/ SwapSendSocket
  \/ MainLocksReceiveSocket \/ SwapReceiveSocket \/ ResetStats
  \/ ApplySwitch \/ Render \/ Leave \/ Join \/ Summary

Exited == mpc = "done" /\ UNCHANGED vars

-------------------------------------------------------------------------------
Next == Sender \/ Receiver \/ PacketArrives \/ Press \/ Main \/ EventArrives \/ Exited

Spec == Init /\ [][Next]_vars

\* Threads keep running; the network, the user and the switches owe nothing.
\* App and the send socket are held for moments and left alone between them,
\* so a thread that waits for one gets it in the end.  The receive socket is
\* locked again at once after each receive: no more than weak fairness there.
FairSpec ==
  /\ Spec
  /\ WF_vars(Sender) /\ SF_vars(SenderLocksApp) /\ SF_vars(SenderLocksSocket)
  /\ WF_vars(Receiver) /\ SF_vars(ReceiverLocksApp)
  /\ WF_vars(Main) /\ SF_vars(MainLocksApp) /\ SF_vars(MainLocksSendSocket)

-------------------------------------------------------------------------------
\* Every variable keeps its type; in particular the sender's loops over the
\* packets of a group end with none left.
TypeOK ==
  /\ run \in BOOLEAN /\ show \in BOOLEAN /\ timed \in BOOLEAN /\ fresh \in BOOLEAN
  /\ swx \in 0 .. presses /\ taken \in 0 .. presses /\ served \in 0 .. presses
  /\ lock \in [Mutexes -> {"sender", "receiver", "main", Free}]
  /\ spc \in {"loop", "groupWait", "group", "packet", "sendWait", "send", "pause", "done"}
  /\ left \in 0 .. SENDS /\ (spc \in {"sendWait", "send"} => left > 0)
  /\ rpc \in {"loop", "recvWait", "recv", "packetWait", "packet", "done"}
  /\ mpc \in {"poll", "events", "keyWait", "key", "sendWait", "send", "recvWait", "recv",
              "resetWait", "reset", "switchWait", "switch", "drawWait", "draw",
              "leave", "join", "sumWait", "sum", "done"}
  /\ event \in Events /\ presses \in Nat

\* A thread owns a mutex exactly while it is inside a section that the mutex
\* guards, on every path through the 0 key, the failures and the shutdown.
\* (Inductive.)
LocksFollowControl ==
  /\ lock["app"] = "sender" <=> spc = "group"
  /\ lock["app"] = "receiver" <=> rpc = "packet"
  /\ lock["app"] = "main" <=> mpc \in {"key", "switch", "draw", "reset", "sum"}
  /\ lock["send"] = "sender" <=> spc = "send"
  /\ lock["send"] = "main" <=> mpc = "send"
  /\ lock["send"] # "receiver"
  /\ lock["recv"] = "receiver" <=> rpc = "recv"
  /\ lock["recv"] = "main" <=> mpc = "recv"
  /\ lock["recv"] # "sender"

Waits(t) ==
  CASE t = "sender"   -> spc \in {"groupWait", "sendWait"}
    [] t = "receiver" -> rpc \in {"recvWait", "packetWait"}
    [] t = "main"     -> mpc \in {"keyWait", "sendWait", "recvWait", "resetWait",
                                  "switchWait", "drawWait", "sumWait", "join"}

\* No thread waits, for a mutex or for the others to end, with a mutex in hand:
\* so they never all wait for each other.
WaitsEmptyHanded ==
  \A t \in {"sender", "receiver", "main"} : Waits(t) => \A m \in Mutexes : lock[m] # t

\* A press may be overwritten by a later one, but the latest is never lost: it
\* is in the mailbox, in the hands of the main thread, or has been applied.
LatestPressIsKept ==
  presses \in {swx, served} \/ (mpc \in {"switchWait", "switch"} /\ taken = presses)

\* Once `run` is cleared every thread ends, also after the sockets have been
\* replaced and when no packet ever comes again.
Exits == ~run ~> mpc = "done"

\* From some time on no event comes and no switch is pressed.
UserRests == <>[][~(EventArrives \/ Press)]_vars

\* A frame that is due is drawn as such, whatever keys and switches came before, once
\* the user rests, unless the program ends or the main thread waits for the receive
\* socket.  (Not before: run_loop looks at `show` only when there is no event.)
FrameIsDrawn ==
  UserRests => (show ~> (fresh /\ mpc = "draw") \/ ~run \/ mpc = "recvWait")

\* Groups go on being sent until the program ends, even while the main thread
\* waits for the receive socket.
GroupsGoOn == []<>(spc = "group") \/ <>~run

\* README.md: "The receive socket uses a 250 ms timeout so the thread can
\* observe shutdown and the `0`-key socket reset."  So the 0 key gets the socket.
ResetHappens == mpc = "recvWait" ~> mpc # "recvWait"

===============================================================================
