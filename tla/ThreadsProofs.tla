----------------------------- MODULE ThreadsProofs -----------------------------
(***************************************************************************)
(* Theorems about Threads: who owns a mutex, that nobody waits while owning *)
(* one, and that the latest press of a switch is never lost.               *)
(***************************************************************************)
EXTENDS Threads, TLAPS

\* Every variable keeps its type, step by step of each thread.
THEOREM TypeCorrect == Spec => []TypeOK
<1>1. Init => TypeOK
  <2> SUFFICES ASSUME Init PROVE TypeOK
    OBVIOUS
  <2>1. run \in BOOLEAN /\ show \in BOOLEAN /\ timed \in BOOLEAN /\ fresh \in BOOLEAN
    BY Zenon DEF Init
  <2> QED
    BY <2>1, SendsAssumption DEF Init, TypeOK, Mutexes, Free, Events
<1>2. TypeOK /\ [Next]_vars => TypeOK'
  <2> SUFFICES ASSUME TypeOK, [Next]_vars PROVE TypeOK'
    OBVIOUS
  <2> USE SendsAssumption DEF TypeOK, Mutexes, Free, Events, flags, sender, main, counts
  <2>1. CASE SenderLoop
    BY <2>1 DEF SenderLoop, SenderMoves
  <2>2. CASE SenderLocksApp
    BY <2>2 DEF SenderLocksApp, SenderMoves, Lock
  <2>3. CASE BeginGroup
    BY <2>3 DEF BeginGroup, SenderMoves, Unlock
  <2>4. CASE NextPacket
    BY <2>4 DEF NextPacket, SenderMoves
  <2>5. CASE SenderLocksSocket
    BY <2>5 DEF SenderLocksSocket, SenderMoves, Lock
  <2>6. CASE SendPacket
    BY <2>6 DEF SendPacket, SenderMoves, Unlock
  <2>7. CASE GroupSent
    BY <2>7 DEF GroupSent, SenderMoves
  <2>8. CASE EndGroup
    <3>1. run' \in BOOLEAN
      BY <2>8, Zenon DEF EndGroup
    <3>2. UNCHANGED <<timed, swx, presses, taken, served, left, rpc, event>>
      BY <2>8 DEF EndGroup
    <3>3. show' \in BOOLEAN /\ fresh' \in BOOLEAN
      BY <2>8, Zenon DEF EndGroup
    <3>4. spc' \in {"loop", spc} /\ mpc' \in {"poll", "drawWait", "sendWait", "leave", mpc}
      BY <2>8 DEF EndGroup, SenderMoves
    <3>5. lock' \in [Mutexes -> {"sender", "receiver", "main", Free}]
      BY <2>8 DEF EndGroup
    <3> QED
      BY <3>1, <3>2, <3>3, <3>4, <3>5
  <2>9. CASE ReceiverLoop
    BY <2>9 DEF ReceiverLoop, ReceiverMoves
  <2>10. CASE ReceiverLocksSocket
    BY <2>10 DEF ReceiverLocksSocket, ReceiverMoves, Lock
  <2>11. CASE ReceiveTimesOut
    BY <2>11 DEF ReceiveTimesOut, ReceiverMoves, Unlock
  <2>12. CASE PacketArrives
    BY <2>12 DEF PacketArrives, ReceiverMoves, Unlock
  <2>13. CASE ReceiverLocksApp
    BY <2>13 DEF ReceiverLocksApp, ReceiverMoves, Lock
  <2>14. CASE Process
    BY <2>14 DEF Process, ReceiverMoves, Unlock
  <2>15. CASE Press
    BY <2>15 DEF Press
  <2>16. CASE EventArrives
    BY <2>16 DEF EventArrives, MainMoves
  <2>17. CASE MainEnds
    BY <2>17 DEF MainEnds, MainMoves
  <2>18. CASE TakeSwitch
    BY <2>18 DEF TakeSwitch, MainMoves
  <2>19. CASE NoEvent
    <3>1. run' \in BOOLEAN /\ show' \in BOOLEAN /\ fresh' \in BOOLEAN /\ timed' \in BOOLEAN
      BY <2>19, Zenon DEF NoEvent
    <3>2. mpc' \in {"drawWait", "poll"}
      BY <2>19 DEF NoEvent, MainMoves
    <3>3. UNCHANGED <<swx, presses, taken, served, lock, spc, left, rpc, event>>
      BY <2>19 DEF NoEvent
    <3> QED
      BY <3>1, <3>2, <3>3
  <2>20. CASE MainLocksApp
    BY <2>20 DEF MainLocksApp, MainMoves, Lock
  <2>21. CASE HandleKey
    <3>1. run' \in BOOLEAN
      BY <2>21, Zenon DEF HandleKey
    <3>2. UNCHANGED <<timed, swx, presses, taken, served, left, rpc, event>>
      BY <2>21 DEF HandleKey
    <3>3. show' \in BOOLEAN /\ fresh' \in BOOLEAN
      BY <2>21, Zenon DEF HandleKey
    <3>4. spc' \in {"loop", spc} /\ mpc' \in {"poll", "drawWait", "sendWait", "leave", mpc}
      BY <2>21 DEF HandleKey
    <3>5. lock' \in [Mutexes -> {"sender", "receiver", "main", Free}]
      BY <2>21 DEF HandleKey, Unlock
    <3> QED
      BY <3>1, <3>2, <3>3, <3>4, <3>5
  <2>22. CASE MainLocksSendSocket
    BY <2>22 DEF MainLocksSendSocket, MainMoves, Lock
  <2>23. CASE SwapSendSocket
    BY <2>23 DEF SwapSendSocket, MainMoves, Unlock
  <2>24. CASE MainLocksReceiveSocket
    BY <2>24 DEF MainLocksReceiveSocket, MainMoves, Lock
  <2>25. CASE SwapReceiveSocket
    BY <2>25 DEF SwapReceiveSocket, MainMoves, Unlock
  <2>26. CASE ResetStats
    BY <2>26 DEF ResetStats, MainMoves, Unlock
  <2>27. CASE ApplySwitch
    <3>1. /\ served' = taken /\ fresh' = FALSE /\ mpc' = "drawWait"
          /\ UNCHANGED <<run, show, timed, swx, presses, taken, spc, left, rpc, event>>
      BY <2>27 DEF ApplySwitch, MainMoves
    <3>2. lock' \in [Mutexes -> {"sender", "receiver", "main", Free}]
      BY <2>27 DEF ApplySwitch, Unlock
    <3> QED
      BY <3>1, <3>2
  <2>28. CASE Render
    BY <2>28 DEF Render, MainMoves, Unlock
  <2>29. CASE Leave
    BY <2>29 DEF Leave, MainMoves
  <2>30. CASE Join
    BY <2>30 DEF Join, MainMoves
  <2>31. CASE Summary
    BY <2>31 DEF Summary, MainMoves, Unlock
  <2>32. CASE Exited \/ UNCHANGED vars
    BY <2>32 DEF Exited, vars
  <2> QED
    BY <2>1, <2>2, <2>3, <2>4, <2>5, <2>6, <2>7, <2>8, <2>9, <2>10, <2>11, <2>12, <2>13, <2>14, <2>15, <2>16, <2>17, <2>18, <2>19, <2>20, <2>21, <2>22, <2>23, <2>24, <2>25, <2>26, <2>27, <2>28, <2>29, <2>30, <2>31, <2>32 DEF Next, Sender, Receiver, Main
<1>3. QED
  BY <1>1, <1>2, PTL DEF Spec

\* A thread owns a mutex exactly while it is in a section that the mutex guards:
\* no path through handle_key, the reset or the shutdown keeps one by mistake.
THEOREM LocksAreFollowed == Spec => []LocksFollowControl
<1>1. Init => LocksFollowControl
  BY DEF Init, LocksFollowControl, Mutexes, Free
<1>2. TypeOK /\ LocksFollowControl /\ [Next]_vars => LocksFollowControl'
  <2> SUFFICES ASSUME TypeOK, LocksFollowControl, [Next]_vars PROVE LocksFollowControl'
    OBVIOUS
  <2> USE DEF TypeOK, LocksFollowControl, Mutexes, Free, flags, sender, main, counts
  <2>1. CASE SenderLoop
    BY <2>1 DEF SenderLoop, SenderMoves
  <2>2. CASE SenderLocksApp
    BY <2>2 DEF SenderLocksApp, SenderMoves, Lock
  <2>3. CASE BeginGroup
    BY <2>3 DEF BeginGroup, SenderMoves, Unlock
  <2>4. CASE NextPacket
    BY <2>4 DEF NextPacket, SenderMoves
  <2>5. CASE SenderLocksSocket
    BY <2>5 DEF SenderLocksSocket, SenderMoves, Lock
  <2>6. CASE SendPacket
    BY <2>6 DEF SendPacket, SenderMoves, Unlock
  <2>7. CASE GroupSent
    BY <2>7 DEF GroupSent, SenderMoves
  <2>8. CASE EndGroup
    BY <2>8 DEF EndGroup, SenderMoves
  <2>9. CASE ReceiverLoop
    BY <2>9 DEF ReceiverLoop, ReceiverMoves
  <2>10. CASE ReceiverLocksSocket
    BY <2>10 DEF ReceiverLocksSocket, ReceiverMoves, Lock
  <2>11. CASE ReceiveTimesOut
    BY <2>11 DEF ReceiveTimesOut, ReceiverMoves, Unlock
  <2>12. CASE PacketArrives
    BY <2>12 DEF PacketArrives, ReceiverMoves, Unlock
  <2>13. CASE ReceiverLocksApp
    BY <2>13 DEF ReceiverLocksApp, ReceiverMoves, Lock
  <2>14. CASE Process
    BY <2>14 DEF Process, ReceiverMoves, Unlock
  <2>15. CASE Press
    BY <2>15 DEF Press
  <2>16. CASE EventArrives
    BY <2>16 DEF EventArrives, MainMoves
  <2>17. CASE MainEnds
    BY <2>17 DEF MainEnds, MainMoves
  <2>18. CASE TakeSwitch
    BY <2>18 DEF TakeSwitch, MainMoves
  <2>19. CASE NoEvent
    BY <2>19 DEF NoEvent, MainMoves
  <2>20. CASE MainLocksApp
    BY <2>20 DEF MainLocksApp, MainMoves, Lock
  <2>21. CASE HandleKey
    BY <2>21 DEF HandleKey, Unlock
  <2>22. CASE MainLocksSendSocket
    BY <2>22 DEF MainLocksSendSocket, MainMoves, Lock
  <2>23. CASE SwapSendSocket
    BY <2>23 DEF SwapSendSocket, MainMoves, Unlock
  <2>24. CASE MainLocksReceiveSocket
    BY <2>24 DEF MainLocksReceiveSocket, MainMoves, Lock
  <2>25. CASE SwapReceiveSocket
    BY <2>25 DEF SwapReceiveSocket, MainMoves, Unlock
  <2>26. CASE ResetStats
    BY <2>26 DEF ResetStats, MainMoves, Unlock
  <2>27. CASE ApplySwitch
    BY <2>27 DEF ApplySwitch, MainMoves, Unlock
  <2>28. CASE Render
    BY <2>28 DEF Render, MainMoves, Unlock
  <2>29. CASE Leave
    BY <2>29 DEF Leave, MainMoves
  <2>30. CASE Join
    BY <2>30 DEF Join, MainMoves
  <2>31. CASE Summary
    BY <2>31 DEF Summary, MainMoves, Unlock
  <2>32. CASE Exited \/ UNCHANGED vars
    BY <2>32 DEF Exited, vars
  <2> QED
    BY <2>1, <2>2, <2>3, <2>4, <2>5, <2>6, <2>7, <2>8, <2>9, <2>10, <2>11, <2>12, <2>13, <2>14, <2>15, <2>16, <2>17, <2>18, <2>19, <2>20, <2>21, <2>22, <2>23, <2>24, <2>25, <2>26, <2>27, <2>28, <2>29, <2>30, <2>31, <2>32 DEF Next, Sender, Receiver, Main
<1>3. QED
  BY <1>1, <1>2, TypeCorrect, PTL DEF Spec

\* No thread waits with a mutex in hand, so they never all wait for each other:
\* where a thread waits, LocksFollowControl gives it no mutex.
THEOREM NobodyWaitsWithAMutex == Spec => []WaitsEmptyHanded
<1>1. TypeOK /\ LocksFollowControl => WaitsEmptyHanded
  BY DEF TypeOK, LocksFollowControl, WaitsEmptyHanded, Waits, Mutexes
<1>2. QED
  BY <1>1, TypeCorrect, LocksAreFollowed, PTL

-------------------------------------------------------------------------------
\* Why the latest press is kept: the mailbox is empty or holds the latest; and
\* the latest has been taken when it is not in the mailbox.
PressIsSomewhere ==
  /\ swx \in {0, presses}
  /\ IF mpc \in {"switchWait", "switch"} THEN presses \in {swx, taken}
                                         ELSE presses \in {swx, served}

\* The latest press of a switch is in the mailbox, in hand, or applied.
THEOREM LatestPressStays == Spec => []LatestPressIsKept
<1>1. Init => PressIsSomewhere
  BY DEF Init, PressIsSomewhere
<1>2. TypeOK /\ PressIsSomewhere /\ [Next]_vars => PressIsSomewhere'
  <2> SUFFICES ASSUME TypeOK, PressIsSomewhere, [Next]_vars PROVE PressIsSomewhere'
    OBVIOUS
  <2> USE DEF TypeOK, PressIsSomewhere, flags, sender, main, counts
  <2>1. CASE SenderLoop
    BY <2>1 DEF SenderLoop, SenderMoves
  <2>2. CASE SenderLocksApp
    BY <2>2 DEF SenderLocksApp, SenderMoves, Lock
  <2>3. CASE BeginGroup
    BY <2>3 DEF BeginGroup, SenderMoves, Unlock
  <2>4. CASE NextPacket
    BY <2>4 DEF NextPacket, SenderMoves
  <2>5. CASE SenderLocksSocket
    BY <2>5 DEF SenderLocksSocket, SenderMoves, Lock
  <2>6. CASE SendPacket
    BY <2>6 DEF SendPacket, SenderMoves, Unlock
  <2>7. CASE GroupSent
    BY <2>7 DEF GroupSent, SenderMoves
  <2>8. CASE EndGroup
    BY <2>8 DEF EndGroup, SenderMoves
  <2>9. CASE ReceiverLoop
    BY <2>9 DEF ReceiverLoop, ReceiverMoves
  <2>10. CASE ReceiverLocksSocket
    BY <2>10 DEF ReceiverLocksSocket, ReceiverMoves, Lock
  <2>11. CASE ReceiveTimesOut
    BY <2>11 DEF ReceiveTimesOut, ReceiverMoves, Unlock
  <2>12. CASE PacketArrives
    BY <2>12 DEF PacketArrives, ReceiverMoves, Unlock
  <2>13. CASE ReceiverLocksApp
    BY <2>13 DEF ReceiverLocksApp, ReceiverMoves, Lock
  <2>14. CASE Process
    BY <2>14 DEF Process, ReceiverMoves, Unlock
  <2>15. CASE Press
    BY <2>15 DEF Press
  <2>16. CASE EventArrives
    BY <2>16 DEF EventArrives, MainMoves
  <2>17. CASE MainEnds
    BY <2>17 DEF MainEnds, MainMoves
  <2>18. CASE TakeSwitch
    BY <2>18 DEF TakeSwitch, MainMoves
  <2>19. CASE NoEvent
    BY <2>19 DEF NoEvent, MainMoves
  <2>20. CASE MainLocksApp
    BY <2>20 DEF MainLocksApp, MainMoves, Lock
  <2>21. CASE HandleKey
    BY <2>21 DEF HandleKey, Unlock
  <2>22. CASE MainLocksSendSocket
    BY <2>22 DEF MainLocksSendSocket, MainMoves, Lock
  <2>23. CASE SwapSendSocket
    BY <2>23 DEF SwapSendSocket, MainMoves, Unlock
  <2>24. CASE MainLocksReceiveSocket
    BY <2>24 DEF MainLocksReceiveSocket, MainMoves, Lock
  <2>25. CASE SwapReceiveSocket
    BY <2>25 DEF SwapReceiveSocket, MainMoves, Unlock
  <2>26. CASE ResetStats
    BY <2>26 DEF ResetStats, MainMoves, Unlock
  <2>27. CASE ApplySwitch
    BY <2>27 DEF ApplySwitch, MainMoves, Unlock
  <2>28. CASE Render
    BY <2>28 DEF Render, MainMoves, Unlock
  <2>29. CASE Leave
    BY <2>29 DEF Leave, MainMoves
  <2>30. CASE Join
    BY <2>30 DEF Join, MainMoves
  <2>31. CASE Summary
    BY <2>31 DEF Summary, MainMoves, Unlock
  <2>32. CASE Exited \/ UNCHANGED vars
    BY <2>32 DEF Exited, vars
  <2> QED
    BY <2>1, <2>2, <2>3, <2>4, <2>5, <2>6, <2>7, <2>8, <2>9, <2>10, <2>11, <2>12, <2>13, <2>14, <2>15, <2>16, <2>17, <2>18, <2>19, <2>20, <2>21, <2>22, <2>23, <2>24, <2>25, <2>26, <2>27, <2>28, <2>29, <2>30, <2>31, <2>32 DEF Next, Sender, Receiver, Main
<1>3. PressIsSomewhere => LatestPressIsKept
  BY DEF PressIsSomewhere, LatestPressIsKept
<1>4. QED
  BY <1>1, <1>2, <1>3, TypeCorrect, PTL DEF Spec

===============================================================================
