------------------------------ MODULE OrderProofs ------------------------------
(***************************************************************************)
(* Proofs about Order for any number of starts, with and without a bid     *)
(* timeout.                                                                *)
(***************************************************************************)
EXTENDS Order, TLAPS

\* The calls of a monitor follow one another: what can be open at the same time, and what has
\* happened before a call is made.
CallsInv ==
  /\ ch["query"] # "nil" => stored
  /\ stored \/ ch["group"] # "nil"
       => ch["should"] = "nil" /\ ch["cluster"] = "nil" /\ ~reservation
  /\ ch["should"] # "nil" => ch["cluster"] = "nil" /\ ~reservation
  /\ ch["cluster"] # "nil" => ~reservation
  /\ ch["price"] # "nil" \/ ch["bid"] # "nil" \/ mine => reservation
  /\ ch["bid"] = "ok" => mine
  /\ ~won /\ phase \in {"unreserve", "close", "drain", "done", "none"} => ch["cluster"] = "nil"

\* The monitor has a reservation that it has not given back.
Owns == phase \in {"loop", "await", "unreserve"} /\ (reservation \/ ch["cluster"] = "ok")

\* The inventory holds what the monitor owns, and nothing else before the lease is won.
RoomInv ==
  /\ held \in Nat
  /\ Owns => held > 0
  /\ ~announced /\ engine = "up" => held = IF Owns THEN 1 ELSE 0
  /\ engine = "down" => held = 0 /\ phase = "none" /\ ch["cluster"] = "nil"
  /\ won => announced /\ phase \in {"await", "drain", "done", "none"}
  /\ won /\ reservation => held > 0

FlagsOK ==
  /\ key \in BOOLEAN /\ stored \in BOOLEAN /\ reservation \in BOOLEAN /\ bidPlaced \in BOOLEAN
  /\ won \in BOOLEAN /\ timer \in BOOLEAN /\ mine \in BOOLEAN /\ announced \in BOOLEAN
  /\ closeFailed \in BOOLEAN

LEMMA FlagsNext == FlagsOK /\ [Next]_vars => FlagsOK'
<1> SUFFICES ASSUME FlagsOK, [Next]_vars PROVE FlagsOK'
  OBVIOUS
<1> USE StartsAssumption DEF FlagsOK, chainVars, serviceVars, monitorVars, LoopFrame, CleanupFrame, Leave, Stay
<1>1. CASE CreateOrder
  BY <1>1 DEF CreateOrder, Emit
<1>2. CASE LeaseToUs
  BY <1>2 DEF LeaseToUs, Emit
<1>3. CASE LeaseToOther
  BY <1>3 DEF LeaseToOther, Emit
<1>4. CASE CloseOrder
  BY <1>4 DEF CloseOrder, Emit
<1>5. CASE CloseBidOutside
  BY <1>5 DEF CloseBidOutside, Emit
<1>6. CASE FetchPage
  BY <1>6 DEF FetchPage
<1>7. CASE processOrdersPage
  BY <1>7, ZenonT(40) DEF processOrdersPage, newOrder
<1>8. CASE SetOrdersNextKey
  BY <1>8, ZenonT(40) DEF SetOrdersNextKey
<1>9. CASE ReadEvent
  BY <1>9, ZenonT(40) DEF ReadEvent, newOrder
<1>10. CASE Drain
  BY <1>10 DEF Drain
<1>11. CASE ShutdownCompleted
  BY <1>11, Zenon DEF ShutdownCompleted, Gone, NoMonitor
<1>12. CASE ShutdownRequest
  BY <1>12 DEF ShutdownRequest
<1>13. CASE Crash
  BY <1>13, Zenon DEF Crash, Gone, NoMonitor
<1>14. CASE Start
  BY <1>14 DEF Start
<1>15. CASE QueryBid
  BY <1>15 DEF QueryBid, Answer
<1>16. CASE Reserve
  BY <1>16 DEF Reserve, Answer
<1>17. CASE CreateBid
  BY <1>17, ZenonT(40) DEF CreateBid, Answer
<1>18. CASE MonitorShutdown
  BY <1>18 DEF MonitorShutdown
<1>19. CASE ExistingBid
  BY <1>19, ZenonT(40) DEF ExistingBid
<1>20. CASE ReadSub
  BY <1>20, ZenonT(40) DEF ReadSub, LeaseWon, LeaseLost
<1>21. CASE GroupFetched
  BY <1>21 DEF GroupFetched
<1>22. CASE ShouldBid
  BY <1>22 DEF ShouldBid
<1>23. CASE Reserved
  BY <1>23, ZenonT(40) DEF Reserved
<1>24. CASE Priced
  BY <1>24 DEF Priced
<1>25. CASE BidCreated
  BY <1>25, ZenonT(40) DEF BidCreated
<1>26. CASE TimedOut
  BY <1>26, Zenon DEF TimedOut
<1>27. CASE AwaitCluster
  BY <1>27, ZenonT(40) DEF AwaitCluster
<1>28. CASE Unreserve
  BY <1>28 DEF Unreserve
<1>29. CASE CloseBid
  BY <1>29, ZenonT(40) DEF CloseBid
<1>30. CASE Wait
  BY <1>30 DEF Wait
<1>31. CASE UNCHANGED vars
  BY <1>31 DEF vars
<1>32. QED
  BY <1>1, <1>2, <1>3, <1>4, <1>5, <1>6, <1>7, <1>8, <1>9, <1>10, <1>11, <1>12, <1>13,
     <1>14, <1>15, <1>16, <1>17, <1>18, <1>19, <1>20, <1>21, <1>22, <1>23, <1>24, <1>25,
     <1>26, <1>27, <1>28, <1>29, <1>30, <1>31
     DEF Next, Chain, Service, Runner, Loop, Cleanup

\* The variables whose values are names of states, the channels and the counters.
ControlOK ==
  /\ order \in {"none", "open", "matched", "closed"}
  /\ bid \in {"none", "open", "active", "closed"}
  /\ createdAt \in Nat /\ starts \in Nat
  /\ engine \in {"up", "stopping", "down"}
  /\ page \in {"unread", "queued", "last", "over"}
  /\ phase \in {"none", "loop", "await", "unreserve", "close", "drain", "done"}
  /\ ch \in [Runners -> {"nil", "called", "ok", "err", "none", "open", "active", "closed"}]
  /\ cause \in Causes

LEMMA ControlNext == ControlOK /\ [Next]_vars => ControlOK'
<1> SUFFICES ASSUME ControlOK, [Next]_vars PROVE ControlOK'
  OBVIOUS
<1> USE DEF ControlOK, Quiet, Runners, Causes, chainVars, serviceVars, monitorVars, LoopFrame, CleanupFrame, Leave, Stay
<1>1. CASE CreateOrder
  BY <1>1 DEF CreateOrder, Emit
<1>2. CASE LeaseToUs
  BY <1>2 DEF LeaseToUs, Emit
<1>3. CASE LeaseToOther
  BY <1>3 DEF LeaseToOther, Emit
<1>4. CASE CloseOrder
  BY <1>4 DEF CloseOrder, Emit
<1>5. CASE CloseBidOutside
  BY <1>5 DEF CloseBidOutside, Emit
<1>6. CASE FetchPage
  BY <1>6 DEF FetchPage
<1>7. CASE processOrdersPage
  BY <1>7 DEF processOrdersPage, newOrder
<1>8. CASE SetOrdersNextKey
  BY <1>8 DEF SetOrdersNextKey
<1>9. CASE ReadEvent
  BY <1>9 DEF ReadEvent, newOrder
<1>10. CASE Drain
  BY <1>10 DEF Drain
<1>11. CASE ShutdownCompleted
  BY <1>11 DEF ShutdownCompleted, Gone, NoMonitor
<1>12. CASE ShutdownRequest
  BY <1>12 DEF ShutdownRequest
<1>13. CASE Crash
  BY <1>13 DEF Crash, Gone, NoMonitor
<1>14. CASE Start
  BY <1>14 DEF Start
<1>15. CASE QueryBid
  BY <1>15 DEF QueryBid, Answer
<1>16. CASE Reserve
  BY <1>16 DEF Reserve, Answer
<1>17. CASE CreateBid
  BY <1>17 DEF CreateBid, Answer
<1>18. CASE MonitorShutdown
  BY <1>18 DEF MonitorShutdown
<1>19. CASE ExistingBid
  <2>1. ch' = [ch EXCEPT !["query"] = "nil"] /\ LoopFrame
    BY <1>19 DEF ExistingBid
  <2>2. Leave("query") \/ Stay
    BY <1>19, Zenon DEF ExistingBid
  <2>3. QED
    BY <2>1, <2>2
<1>20. CASE ReadSub
  BY <1>20 DEF ReadSub, LeaseWon, LeaseLost
<1>21. CASE GroupFetched
  BY <1>21 DEF GroupFetched
<1>22. CASE ShouldBid
  BY <1>22 DEF ShouldBid
<1>23. CASE Reserved
  BY <1>23 DEF Reserved
<1>24. CASE Priced
  BY <1>24 DEF Priced
<1>25. CASE BidCreated
  BY <1>25 DEF BidCreated
<1>26. CASE TimedOut
  BY <1>26 DEF TimedOut
<1>27. CASE AwaitCluster
  BY <1>27 DEF AwaitCluster
<1>28. CASE Unreserve
  BY <1>28 DEF Unreserve
<1>29. CASE CloseBid
  BY <1>29 DEF CloseBid
<1>30. CASE Wait
  BY <1>30 DEF Wait
<1>31. CASE UNCHANGED vars
  BY <1>31 DEF vars
<1>32. QED
  BY <1>1, <1>2, <1>3, <1>4, <1>5, <1>6, <1>7, <1>8, <1>9, <1>10, <1>11, <1>12, <1>13,
     <1>14, <1>15, <1>16, <1>17, <1>18, <1>19, <1>20, <1>21, <1>22, <1>23, <1>24, <1>25,
     <1>26, <1>27, <1>28, <1>29, <1>30, <1>31, Zenon
     DEF Next, Chain, Service, Runner, Loop, Cleanup

\* What can happen to a queue of events.
LEMMA Queue ==
  /\ <<>> \in Seq(Events)
  /\ \A s \in Seq(Events) : s # <<>> => Tail(s) \in Seq(Events)
  /\ \A s \in Seq(Events) : \A e \in Events : Append(s, e) \in Seq(Events)
OBVIOUS

QueuesOK == inbox \in Seq(Events) /\ sub \in Seq(Events)

LEMMA QueuesNext == QueuesOK /\ [Next]_vars => QueuesOK'
<1> SUFFICES ASSUME QueuesOK, [Next]_vars PROVE QueuesOK'
  OBVIOUS
<1>0. Events = {"created", "won", "lost", "closed", "bidclosed"}
  BY DEF Events
<1> USE <1>0, Queue DEF QueuesOK, chainVars, serviceVars, monitorVars, LoopFrame, CleanupFrame, Leave, Stay
<1>1. CASE CreateOrder
  BY <1>1 DEF CreateOrder, Emit
<1>2. CASE LeaseToUs
  BY <1>2 DEF LeaseToUs, Emit
<1>3. CASE LeaseToOther
  BY <1>3 DEF LeaseToOther, Emit
<1>4. CASE CloseOrder
  BY <1>4 DEF CloseOrder, Emit
<1>5. CASE CloseBidOutside
  BY <1>5 DEF CloseBidOutside, Emit
<1>6. CASE FetchPage
  BY <1>6 DEF FetchPage
<1>7. CASE processOrdersPage
  BY <1>7 DEF processOrdersPage, newOrder
<1>8. CASE SetOrdersNextKey
  BY <1>8 DEF SetOrdersNextKey
<1>9. CASE ReadEvent
  BY <1>9, Zenon DEF ReadEvent, newOrder
<1>10. CASE Drain
  BY <1>10 DEF Drain
<1>11. CASE ShutdownCompleted
  BY <1>11 DEF ShutdownCompleted, Gone, NoMonitor
<1>12. CASE ShutdownRequest
  BY <1>12 DEF ShutdownRequest
<1>13. CASE Crash
  BY <1>13 DEF Crash, Gone, NoMonitor
<1>14. CASE Start
  BY <1>14 DEF Start
<1>15. CASE QueryBid
  BY <1>15 DEF QueryBid, Answer
<1>16. CASE Reserve
  BY <1>16 DEF Reserve, Answer
<1>17. CASE CreateBid
  BY <1>17 DEF CreateBid, Answer
<1>18. CASE MonitorShutdown
  BY <1>18 DEF MonitorShutdown
<1>19. CASE ExistingBid
  BY <1>19, Zenon DEF ExistingBid
<1>20. CASE ReadSub
  BY <1>20, Zenon DEF ReadSub, LeaseWon, LeaseLost
<1>21. CASE GroupFetched
  BY <1>21, Zenon DEF GroupFetched
<1>22. CASE ShouldBid
  BY <1>22, Zenon DEF ShouldBid
<1>23. CASE Reserved
  BY <1>23, Zenon DEF Reserved
<1>24. CASE Priced
  BY <1>24, Zenon DEF Priced
<1>25. CASE BidCreated
  BY <1>25, Zenon DEF BidCreated
<1>26. CASE TimedOut
  BY <1>26 DEF TimedOut
<1>27. CASE AwaitCluster
  BY <1>27 DEF AwaitCluster
<1>28. CASE Unreserve
  BY <1>28 DEF Unreserve
<1>29. CASE CloseBid
  BY <1>29, Zenon DEF CloseBid
<1>30. CASE Wait
  BY <1>30 DEF Wait
<1>31. CASE UNCHANGED vars
  BY <1>31 DEF vars
<1>32. QED
  BY <1>1, <1>2, <1>3, <1>4, <1>5, <1>6, <1>7, <1>8, <1>9, <1>10, <1>11, <1>12, <1>13,
     <1>14, <1>15, <1>16, <1>17, <1>18, <1>19, <1>20, <1>21, <1>22, <1>23, <1>24, <1>25,
     <1>26, <1>27, <1>28, <1>29, <1>30, <1>31
     DEF Next, Chain, Service, Runner, Loop, Cleanup

Typed == FlagsOK /\ ControlOK

LEMMA CallsNext == Typed /\ CallsInv /\ [Next]_vars => CallsInv'
<1> SUFFICES ASSUME Typed, CallsInv, [Next]_vars PROVE CallsInv'
  BY Zenon
<1> USE DEF Typed, FlagsOK, ControlOK, CallsInv, Quiet, Runners, chainVars, serviceVars, monitorVars, InLoop, LoopFrame, CleanupFrame, Leave, Stay
<1>1. CASE CreateOrder
  BY <1>1 DEF CreateOrder, Emit
<1>2. CASE LeaseToUs
  BY <1>2 DEF LeaseToUs, Emit
<1>3. CASE LeaseToOther
  BY <1>3 DEF LeaseToOther, Emit
<1>4. CASE CloseOrder
  BY <1>4 DEF CloseOrder, Emit
<1>5. CASE CloseBidOutside
  BY <1>5 DEF CloseBidOutside, Emit
<1>6. CASE FetchPage
  BY <1>6 DEF FetchPage
<1>7. CASE processOrdersPage
  BY <1>7 DEF processOrdersPage, newOrder
<1>8. CASE SetOrdersNextKey
  BY <1>8 DEF SetOrdersNextKey
<1>9. CASE ReadEvent
  BY <1>9 DEF ReadEvent, newOrder
<1>10. CASE Drain
  BY <1>10 DEF Drain
<1>11. CASE ShutdownCompleted
  BY <1>11 DEF ShutdownCompleted, Gone, NoMonitor
<1>12. CASE ShutdownRequest
  BY <1>12 DEF ShutdownRequest
<1>13. CASE Crash
  BY <1>13 DEF Crash, Gone, NoMonitor
<1>14. CASE Start
  BY <1>14 DEF Start
<1>15. CASE QueryBid
  BY <1>15 DEF QueryBid, Answer
<1>16. CASE Reserve
  BY <1>16 DEF Reserve, Answer
<1>17. CASE CreateBid
  BY <1>17 DEF CreateBid, Answer
<1>18. CASE MonitorShutdown
  BY <1>18 DEF MonitorShutdown
<1>19. CASE ExistingBid
  BY <1>19 DEF ExistingBid
<1>20. CASE ReadSub
  BY <1>20 DEF ReadSub, LeaseWon, LeaseLost
<1>21. CASE GroupFetched
  BY <1>21 DEF GroupFetched
<1>22. CASE ShouldBid
  BY <1>22 DEF ShouldBid
<1>23. CASE Reserved
  BY <1>23 DEF Reserved
<1>24. CASE Priced
  BY <1>24 DEF Priced
<1>25. CASE BidCreated
  BY <1>25 DEF BidCreated
<1>26. CASE TimedOut
  BY <1>26 DEF TimedOut
<1>27. CASE AwaitCluster
  BY <1>27 DEF AwaitCluster
<1>28. CASE Unreserve
  BY <1>28 DEF Unreserve
<1>29. CASE CloseBid
  BY <1>29 DEF CloseBid
<1>30. CASE Wait
  BY <1>30 DEF Wait
<1>31. CASE UNCHANGED vars
  BY <1>31 DEF vars
<1>32. QED
  BY <1>1, <1>2, <1>3, <1>4, <1>5, <1>6, <1>7, <1>8, <1>9, <1>10, <1>11, <1>12, <1>13,
     <1>14, <1>15, <1>16, <1>17, <1>18, <1>19, <1>20, <1>21, <1>22, <1>23, <1>24, <1>25,
     <1>26, <1>27, <1>28, <1>29, <1>30, <1>31, Zenon
     DEF Next, Chain, Service, Runner, Loop, Cleanup

\* The reservation of a monitor is the only one before a lease is won.
LEMMA RoomNext == Typed /\ CallsInv /\ RoomInv /\ [Next]_vars => RoomInv'
<1> SUFFICES ASSUME Typed, CallsInv, RoomInv, [Next]_vars PROVE RoomInv'
  OBVIOUS
<1> USE DEF Typed, FlagsOK, ControlOK, CallsInv, RoomInv, Owns, Quiet, Runners, chainVars, serviceVars, monitorVars, InLoop, LoopFrame, CleanupFrame, Leave, Stay
<1>1. CASE CreateOrder
  BY <1>1 DEF CreateOrder, Emit
<1>2. CASE LeaseToUs
  BY <1>2 DEF LeaseToUs, Emit
<1>3. CASE LeaseToOther
  BY <1>3 DEF LeaseToOther, Emit
<1>4. CASE CloseOrder
  BY <1>4 DEF CloseOrder, Emit
<1>5. CASE CloseBidOutside
  BY <1>5 DEF CloseBidOutside, Emit
<1>6. CASE FetchPage
  BY <1>6 DEF FetchPage
<1>7. CASE processOrdersPage
  BY <1>7, Zenon DEF processOrdersPage, newOrder
<1>8. CASE SetOrdersNextKey
  BY <1>8 DEF SetOrdersNextKey
<1>9. CASE ReadEvent
  BY <1>9 DEF ReadEvent, newOrder
<1>10. CASE Drain
  BY <1>10 DEF Drain
<1>11. CASE ShutdownCompleted
  BY <1>11 DEF ShutdownCompleted, Gone, NoMonitor
<1>12. CASE ShutdownRequest
  BY <1>12 DEF ShutdownRequest
<1>13. CASE Crash
  BY <1>13 DEF Crash, Gone, NoMonitor
<1>14. CASE Start
  BY <1>14 DEF Start
<1>15. CASE QueryBid
  BY <1>15 DEF QueryBid, Answer
<1>16. CASE Reserve
  <2>1. /\ ch["cluster"] = "called" /\ ~reservation /\ ~Owns
        /\ UNCHANGED <<engine, phase, reservation, won, announced>>
    BY <1>16 DEF Reserve
  <2>2. won \/ phase \in {"loop", "await"}
    BY <2>1
  <2>3. CASE held' = held + 1 /\ ch'["cluster"] = "ok"
    <3>1. held \in Nat /\ held' \in Nat /\ held' > 0
      BY <2>3
    <3>2. ~announced /\ engine = "up" => held = 0 /\ ~won
      BY <2>1
    <3>3. ~announced /\ engine = "up" => held' = 1 /\ Owns'
      BY <2>1, <2>2, <2>3, <3>2
    <3>4. engine # "down"
      BY <2>1
    <3>5. QED
      BY <2>1, <3>1, <3>3, <3>4
  <2>4. CASE held' = held /\ ch'["cluster"] = "err"
    BY <2>1, <2>2, <2>4
  <2>5. QED
    BY <1>16, <2>3, <2>4, Zenon DEF Reserve, Answer
<1>17. CASE CreateBid
  BY <1>17 DEF CreateBid, Answer
<1>18. CASE MonitorShutdown
  BY <1>18 DEF MonitorShutdown
<1>19. CASE ExistingBid
  BY <1>19, Zenon DEF ExistingBid
<1>20. CASE ReadSub
  BY <1>20 DEF ReadSub, LeaseWon, LeaseLost
<1>21. CASE GroupFetched
  BY <1>21 DEF GroupFetched
<1>22. CASE ShouldBid
  BY <1>22 DEF ShouldBid
<1>23. CASE Reserved
  BY <1>23 DEF Reserved
<1>24. CASE Priced
  BY <1>24 DEF Priced
<1>25. CASE BidCreated
  BY <1>25 DEF BidCreated
<1>26. CASE TimedOut
  BY <1>26 DEF TimedOut
<1>27. CASE AwaitCluster
  <2>1. phase = "await" /\ UNCHANGED <<engine, held, won, announced>>
    BY <1>27 DEF AwaitCluster
  <2>2. CASE won /\ phase' = "drain" /\ UNCHANGED <<ch, reservation>>
    BY <2>1, <2>2
  <2>3. CASE ~won /\ phase' = "unreserve" /\ AwaitCluster
    <3>1. Owns' <=> Owns
      BY <2>1, <2>3, Zenon DEF AwaitCluster
    <3>2. QED
      BY <2>1, <2>3, <3>1
  <2>4. QED
    BY <1>27, <2>2, <2>3, Zenon DEF AwaitCluster
<1>28. CASE Unreserve
  BY <1>28 DEF Unreserve
<1>29. CASE CloseBid
  BY <1>29 DEF CloseBid
<1>30. CASE Wait
  BY <1>30 DEF Wait
<1>31. CASE UNCHANGED vars
  BY <1>31 DEF vars
<1>32. QED
  BY <1>1, <1>2, <1>3, <1>4, <1>5, <1>6, <1>7, <1>8, <1>9, <1>10, <1>11, <1>12, <1>13,
     <1>14, <1>15, <1>16, <1>17, <1>18, <1>19, <1>20, <1>21, <1>22, <1>23, <1>24, <1>25,
     <1>26, <1>27, <1>28, <1>29, <1>30, <1>31, Zenon
     DEF Next, Chain, Service, Runner, Loop, Cleanup

LEMMA FoundNext == Typed /\ CallsInv /\ FoundIsNotRebid /\ [Next]_vars => FoundIsNotRebid'
<1> SUFFICES ASSUME Typed, CallsInv, FoundIsNotRebid, [Next]_vars PROVE FoundIsNotRebid'
  OBVIOUS
<1> USE DEF Typed, FlagsOK, ControlOK, CallsInv, FoundIsNotRebid, Quiet, Runners, chainVars, serviceVars, monitorVars, InLoop, LoopFrame, CleanupFrame, Leave, Stay
<1>1. CASE CreateOrder
  BY <1>1 DEF CreateOrder, Emit
<1>2. CASE LeaseToUs
  BY <1>2 DEF LeaseToUs, Emit
<1>3. CASE LeaseToOther
  BY <1>3 DEF LeaseToOther, Emit
<1>4. CASE CloseOrder
  BY <1>4 DEF CloseOrder, Emit
<1>5. CASE CloseBidOutside
  BY <1>5 DEF CloseBidOutside, Emit
<1>6. CASE FetchPage
  BY <1>6 DEF FetchPage
<1>7. CASE processOrdersPage
  BY <1>7, Zenon DEF processOrdersPage, newOrder
<1>8. CASE SetOrdersNextKey
  BY <1>8 DEF SetOrdersNextKey
<1>9. CASE ReadEvent
  BY <1>9, Zenon DEF ReadEvent, newOrder
<1>10. CASE Drain
  BY <1>10 DEF Drain
<1>11. CASE ShutdownCompleted
  BY <1>11 DEF ShutdownCompleted, Gone, NoMonitor
<1>12. CASE ShutdownRequest
  BY <1>12 DEF ShutdownRequest
<1>13. CASE Crash
  BY <1>13 DEF Crash, Gone, NoMonitor
<1>14. CASE Start
  BY <1>14 DEF Start
<1>15. CASE QueryBid
  BY <1>15 DEF QueryBid, Answer
<1>16. CASE Reserve
  BY <1>16 DEF Reserve, Answer
<1>17. CASE CreateBid
  BY <1>17 DEF CreateBid, Answer
<1>18. CASE MonitorShutdown
  BY <1>18 DEF MonitorShutdown
<1>19. CASE ExistingBid
  BY <1>19 DEF ExistingBid
<1>20. CASE ReadSub
  BY <1>20, Zenon DEF ReadSub, LeaseWon, LeaseLost
<1>21. CASE GroupFetched
  BY <1>21 DEF GroupFetched
<1>22. CASE ShouldBid
  BY <1>22 DEF ShouldBid
<1>23. CASE Reserved
  BY <1>23 DEF Reserved
<1>24. CASE Priced
  BY <1>24 DEF Priced
<1>25. CASE BidCreated
  BY <1>25 DEF BidCreated
<1>26. CASE TimedOut
  BY <1>26 DEF TimedOut
<1>27. CASE AwaitCluster
  BY <1>27 DEF AwaitCluster
<1>28. CASE Unreserve
  BY <1>28 DEF Unreserve
<1>29. CASE CloseBid
  BY <1>29 DEF CloseBid
<1>30. CASE Wait
  BY <1>30 DEF Wait
<1>31. CASE UNCHANGED vars
  BY <1>31 DEF vars
<1>32. QED
  BY <1>1, <1>2, <1>3, <1>4, <1>5, <1>6, <1>7, <1>8, <1>9, <1>10, <1>11, <1>12, <1>13,
     <1>14, <1>15, <1>16, <1>17, <1>18, <1>19, <1>20, <1>21, <1>22, <1>23, <1>24, <1>25,
     <1>26, <1>27, <1>28, <1>29, <1>30, <1>31, Zenon
     DEF Next, Chain, Service, Runner, Loop, Cleanup

Has(s, e) == \E i \in 1..Len(s) : s[i] = e

\* What reading and writing a queue do to the events in it.
LEMMA HasQueue ==
  /\ \A e : ~Has(<<>>, e)
  /\ \A s \in Seq(Events) : s # <<>> => Has(s, Head(s))
  /\ \A s \in Seq(Events) : s # <<>> => \A e : Has(Tail(s), e) => Has(s, e)
  /\ \A s \in Seq(Events) : \A e \in Events : \A f : Has(Append(s, e), f) => f = e \/ Has(s, f)
<1>1. \A e : ~Has(<<>>, e)
  BY DEF Has
<1>2. ASSUME NEW s \in Seq(Events), s # <<>> PROVE Has(s, Head(s))
  BY <1>2 DEF Has
<1>3. ASSUME NEW s \in Seq(Events), s # <<>>, NEW e, Has(Tail(s), e) PROVE Has(s, e)
  <2>1. PICK i \in 1..Len(Tail(s)) : Tail(s)[i] = e
    BY <1>3 DEF Has
  <2>2. i + 1 \in 1..Len(s) /\ s[i + 1] = e
    BY <1>3, <2>1
  <2>3. QED
    BY <2>2 DEF Has
<1>4. ASSUME NEW s \in Seq(Events), NEW e \in Events, NEW f, Has(Append(s, e), f)
      PROVE  f = e \/ Has(s, f)
  BY <1>4 DEF Has
<1>5. QED
  BY <1>1, <1>2, <1>3, <1>4

LEMMA Fewer ==
  ASSUME NEW s \in Seq(Events), s # <<>>, NEW t, t = s \/ t = <<>> \/ t = Tail(s)
  PROVE  \A e : Has(t, e) => Has(s, e)
<1>1. \A e : ~Has(<<>>, e) /\ (Has(Tail(s), e) => Has(s, e))
  BY HasQueue
<1>2. QED
  BY <1>1, Zenon

LEMMA OneMore ==
  ASSUME NEW s \in Seq(Events), NEW x \in Events, NEW t, t = s \/ t = Append(s, x)
  PROVE  \A e : Has(t, e) => e = x \/ Has(s, e)
<1>1. \A e : Has(Append(s, x), e) => e = x \/ Has(s, e)
  BY HasQueue
<1>2. QED
  BY <1>1, Zenon

\* What the events on their way and the announcement say about the chain.
MarketInv ==
  /\ bid = "active" => order = "matched"
  /\ Has(inbox, "lost") \/ Has(sub, "lost") => order = "matched" /\ bid # "active"
  /\ Has(inbox, "won") \/ Has(sub, "won") => bid \in {"active", "closed"}
  /\ announced => bid \in {"active", "closed"}

LEMMA MarketNext == QueuesOK /\ ControlOK /\ MarketInv /\ [Next]_vars => MarketInv'
<1> SUFFICES ASSUME QueuesOK, ControlOK, MarketInv, [Next]_vars PROVE MarketInv'
  OBVIOUS
<1>0. Events = {"created", "won", "lost", "closed", "bidclosed"}
  BY DEF Events
<1> USE <1>0, HasQueue DEF QueuesOK, ControlOK, MarketInv, chainVars, serviceVars, monitorVars, InLoop, LoopFrame, CleanupFrame, Leave, Stay
<1>1. CASE CreateOrder
  BY <1>1 DEF CreateOrder, Emit
<1>2. CASE LeaseToUs
  BY <1>2, Zenon DEF LeaseToUs, Emit
<1>3. CASE LeaseToOther
  BY <1>3 DEF LeaseToOther, Emit
<1>4. CASE CloseOrder
  BY <1>4, Zenon DEF CloseOrder, Emit
<1>5. CASE CloseBidOutside
  BY <1>5 DEF CloseBidOutside, Emit
<1>6. CASE FetchPage
  BY <1>6 DEF FetchPage
<1>7. CASE processOrdersPage
  BY <1>7, Zenon DEF processOrdersPage, newOrder
<1>8. CASE SetOrdersNextKey
  BY <1>8 DEF SetOrdersNextKey
<1>9. CASE ReadEvent
  <2>1. inbox # <<>> /\ inbox' = Tail(inbox) /\ (sub' = sub \/ sub' = Tail(inbox))
    BY <1>9, Zenon DEF ReadEvent, newOrder
  <2>2. UNCHANGED <<order, bid, announced>>
    BY <1>9, Zenon DEF ReadEvent
  <2>3. \A e : Has(inbox', e) => Has(inbox, e)
    BY <2>1, Fewer, Zenon
  <2>4. (\A e : Has(sub', e) => Has(inbox, e)) \/ sub' = sub
    BY <2>1, Fewer, Zenon
  <2>5. QED
    BY <2>2, <2>3, <2>4
<1>10. CASE Drain
  BY <1>10, Zenon DEF Drain
<1>11. CASE ShutdownCompleted
  BY <1>11, Zenon DEF ShutdownCompleted, Gone, NoMonitor
<1>12. CASE ShutdownRequest
  BY <1>12, Zenon DEF ShutdownRequest
<1>13. CASE Crash
  BY <1>13, Zenon DEF Crash, Gone, NoMonitor
<1>14. CASE Start
  BY <1>14, Zenon DEF Start
<1>15. CASE QueryBid
  BY <1>15, Zenon DEF QueryBid, Answer
<1>16. CASE Reserve
  BY <1>16, Zenon DEF Reserve, Answer
<1>17. CASE CreateBid
  BY <1>17, Zenon DEF CreateBid, Answer
<1>18. CASE MonitorShutdown
  BY <1>18, Zenon DEF MonitorShutdown
<1>19. CASE ExistingBid
  <2>1. UNCHANGED <<order, bid, announced, inbox>> /\ (sub' = sub \/ sub' = <<>>)
    BY <1>19, Zenon DEF ExistingBid
  <2>2. QED
    BY <2>1
<1>20. CASE ReadSub
  <2>1. sub # <<>> /\ UNCHANGED <<order, bid, inbox>>
    BY <1>20 DEF ReadSub
  <2>2. sub' = <<>> \/ sub' = Tail(sub)
    BY <1>20, Zenon DEF ReadSub, LeaseWon, LeaseLost
  <2>3. announced' = announced \/ Head(sub) = "won"
    BY <1>20, Zenon DEF ReadSub, LeaseWon, LeaseLost
  <2>4. Has(sub, Head(sub)) /\ \A e : Has(sub', e) => Has(sub, e)
    BY <2>1, <2>2, Fewer, Zenon
  <2>5. announced' => bid \in {"active", "closed"}
    BY <2>3, <2>4, Zenon
  <2>6. QED
    BY <2>1, <2>4, <2>5, Zenon
<1>21. CASE GroupFetched
  BY <1>21 DEF GroupFetched
<1>22. CASE ShouldBid
  BY <1>22 DEF ShouldBid
<1>23. CASE Reserved
  BY <1>23 DEF Reserved
<1>24. CASE Priced
  BY <1>24 DEF Priced
<1>25. CASE BidCreated
  BY <1>25 DEF BidCreated
<1>26. CASE TimedOut
  BY <1>26, Zenon DEF TimedOut
<1>27. CASE AwaitCluster
  BY <1>27, Zenon DEF AwaitCluster
<1>28. CASE Unreserve
  BY <1>28, Zenon DEF Unreserve
<1>29. CASE CloseBid
  <2>1. UNCHANGED <<order, announced, sub>> /\ (bid' = bid \/ bid' = "closed")
    BY <1>29, Zenon DEF CloseBid
  <2>2. inbox' = inbox \/ inbox' = Append(inbox, "bidclosed")
    BY <1>29, Zenon DEF CloseBid
  <2>3. "bidclosed" \in Events
    OBVIOUS
  <2>4. \A e : Has(inbox', e) => e = "bidclosed" \/ Has(inbox, e)
    BY <2>2, <2>3, OneMore, Zenon
  <2>5. QED
    BY <2>1, <2>4, Zenon
<1>30. CASE Wait
  BY <1>30 DEF Wait
<1>31. CASE UNCHANGED vars
  BY <1>31 DEF vars
<1>32. QED
  BY <1>1, <1>2, <1>3, <1>4, <1>5, <1>6, <1>7, <1>8, <1>9, <1>10, <1>11, <1>12, <1>13,
     <1>14, <1>15, <1>16, <1>17, <1>18, <1>19, <1>20, <1>21, <1>22, <1>23, <1>24, <1>25,
     <1>26, <1>27, <1>28, <1>29, <1>30, <1>31, Zenon
     DEF Next, Chain, Service, Runner, Loop, Cleanup

\* A monitor for a lease that was announced knows of no bid that it could close.
KeptInv ==
  announced /\ bid = "active" =>
    /\ phase \in {"loop", "await", "unreserve", "close"} => won \/ ~bidPlaced
    /\ phase = "loop" => ch["query"] # "open" /\ ch["bid"] # "ok"

LEMMA KeptNext == QueuesOK /\ Typed /\ RoomInv /\ MarketInv /\ KeptInv /\ [Next]_vars => KeptInv'
<1> SUFFICES ASSUME QueuesOK, Typed, RoomInv, MarketInv, KeptInv, [Next]_vars PROVE KeptInv'
  OBVIOUS
<1> USE HasQueue DEF QueuesOK, Typed, FlagsOK, ControlOK, RoomInv, MarketInv, KeptInv, Quiet, Runners, chainVars, serviceVars, monitorVars, InLoop, LoopFrame, CleanupFrame, Leave, Stay
<1>1. CASE CreateOrder
  BY <1>1, Zenon DEF CreateOrder, Emit
<1>2. CASE LeaseToUs
  BY <1>2, Zenon DEF LeaseToUs, Emit
<1>3. CASE LeaseToOther
  BY <1>3, Zenon DEF LeaseToOther, Emit
<1>4. CASE CloseOrder
  BY <1>4, Zenon DEF CloseOrder, Emit
<1>5. CASE CloseBidOutside
  BY <1>5, Zenon DEF CloseBidOutside, Emit
<1>6. CASE FetchPage
  BY <1>6 DEF FetchPage
<1>7. CASE processOrdersPage
  BY <1>7, ZenonT(40) DEF processOrdersPage, newOrder
<1>8. CASE SetOrdersNextKey
  BY <1>8, Zenon DEF SetOrdersNextKey
<1>9. CASE ReadEvent
  BY <1>9, ZenonT(40) DEF ReadEvent, newOrder
<1>10. CASE Drain
  BY <1>10, Zenon DEF Drain
<1>11. CASE ShutdownCompleted
  BY <1>11, Zenon DEF ShutdownCompleted, Gone, NoMonitor
<1>12. CASE ShutdownRequest
  BY <1>12, Zenon DEF ShutdownRequest
<1>13. CASE Crash
  BY <1>13, Zenon DEF Crash, Gone, NoMonitor
<1>14. CASE Start
  BY <1>14, Zenon DEF Start
<1>15. CASE QueryBid
  BY <1>15, Zenon DEF QueryBid, Answer
<1>16. CASE Reserve
  BY <1>16, Zenon DEF Reserve, Answer
<1>17. CASE CreateBid
  BY <1>17, Zenon DEF CreateBid, Answer
<1>18. CASE MonitorShutdown
  BY <1>18, Zenon DEF MonitorShutdown
<1>19. CASE ExistingBid
  BY <1>19, Zenon DEF ExistingBid
<1>20. CASE ReadSub
  <2>1. phase = "loop" /\ sub # <<>> /\ UNCHANGED <<bid, ch>>
    BY <1>20, Zenon DEF ReadSub
  <2>2. Has(sub, Head(sub))
    BY <2>1
  <2>3. CASE Head(sub) = "won" /\ LeaseWon
    BY <2>3 DEF LeaseWon
  <2>4. CASE Head(sub) = "lost" /\ LeaseLost
    BY <2>1, <2>2, <2>4, Zenon DEF LeaseLost
  <2>5. CASE UNCHANGED <<won, announced, bidPlaced>>
    BY <2>1, <2>5, Zenon
  <2>6. QED
    BY <1>20, <2>3, <2>4, <2>5, Zenon DEF ReadSub
<1>21. CASE GroupFetched
  BY <1>21, Zenon DEF GroupFetched
<1>22. CASE ShouldBid
  BY <1>22, Zenon DEF ShouldBid
<1>23. CASE Reserved
  BY <1>23, Zenon DEF Reserved
<1>24. CASE Priced
  BY <1>24, Zenon DEF Priced
<1>25. CASE BidCreated
  BY <1>25, Zenon DEF BidCreated
<1>26. CASE TimedOut
  BY <1>26, Zenon DEF TimedOut
<1>27. CASE AwaitCluster
  BY <1>27, Zenon DEF AwaitCluster
<1>28. CASE Unreserve
  BY <1>28, Zenon DEF Unreserve
<1>29. CASE CloseBid
  BY <1>29, Zenon DEF CloseBid
<1>30. CASE Wait
  BY <1>30, Zenon DEF Wait
<1>31. CASE UNCHANGED vars
  BY <1>31, Zenon DEF vars
<1>32. QED
  BY <1>1, <1>2, <1>3, <1>4, <1>5, <1>6, <1>7, <1>8, <1>9, <1>10, <1>11, <1>12, <1>13,
     <1>14, <1>15, <1>16, <1>17, <1>18, <1>19, <1>20, <1>21, <1>22, <1>23, <1>24, <1>25,
     <1>26, <1>27, <1>28, <1>29, <1>30, <1>31, Zenon
     DEF Next, Chain, Service, Runner, Loop, Cleanup

\* The reasons why a monitor may leave a bid on the chain that it does not know to be placed.
Excused == cause = "bid" \/ (cause \in {"shutdown", "closed"} /\ ch["bid"] # "nil")

\* In the loop a bid is priced, then broadcast, then known to be placed; behind the loop every bid
\* that was broadcast is known or excused; and behind the close a known bid is closed.
BidInv ==
  /\ phase = "loop" =>
       /\ bidPlaced => ch["price"] = "nil" /\ ch["bid"] = "nil"
       /\ ch["price"] # "nil" => ch["bid"] = "nil"
       /\ timer => bidPlaced
       /\ mine => bidPlaced \/ ch["bid"] # "nil"
  /\ phase \in {"await", "unreserve", "close", "drain", "done"} /\ ~won =>
       (mine \/ ch["bid"] # "nil" => bidPlaced \/ Excused)
  /\ phase \in {"drain", "done"} /\ ~won /\ bidPlaced => closeFailed \/ bid = "closed"

LEMMA BidNext == Typed /\ CallsInv /\ BidInv /\ [Next]_vars => BidInv'
<1> SUFFICES ASSUME Typed, CallsInv, BidInv, [Next]_vars PROVE BidInv'
  OBVIOUS
<1> USE DEF Typed, FlagsOK, ControlOK, CallsInv, BidInv, Excused, Quiet, Runners, chainVars, serviceVars, monitorVars, InLoop, LoopFrame, CleanupFrame, Leave, Stay
<1>1. CASE CreateOrder
  BY <1>1 DEF CreateOrder, Emit
<1>2. CASE LeaseToUs
  BY <1>2 DEF LeaseToUs, Emit
<1>3. CASE LeaseToOther
  BY <1>3 DEF LeaseToOther, Emit
<1>4. CASE CloseOrder
  BY <1>4 DEF CloseOrder, Emit
<1>5. CASE CloseBidOutside
  BY <1>5 DEF CloseBidOutside, Emit
<1>6. CASE FetchPage
  BY <1>6 DEF FetchPage
<1>7. CASE processOrdersPage
  BY <1>7 DEF processOrdersPage, newOrder
<1>8. CASE SetOrdersNextKey
  BY <1>8 DEF SetOrdersNextKey
<1>9. CASE ReadEvent
  BY <1>9 DEF ReadEvent, newOrder
<1>10. CASE Drain
  BY <1>10 DEF Drain
<1>11. CASE ShutdownCompleted
  BY <1>11 DEF ShutdownCompleted, Gone, NoMonitor
<1>12. CASE ShutdownRequest
  BY <1>12 DEF ShutdownRequest
<1>13. CASE Crash
  BY <1>13 DEF Crash, Gone, NoMonitor
<1>14. CASE Start
  BY <1>14 DEF Start
<1>15. CASE QueryBid
  BY <1>15 DEF QueryBid, Answer
<1>16. CASE Reserve
  BY <1>16 DEF Reserve, Answer
<1>17. CASE CreateBid
  BY <1>17 DEF CreateBid, Answer
<1>18. CASE MonitorShutdown
  BY <1>18 DEF MonitorShutdown
<1>19. CASE ExistingBid
  <2>1. /\ phase = "loop" /\ ch["query"] # "nil"
        /\ ch' = [ch EXCEPT !["query"] = "nil"]
        /\ UNCHANGED <<bid, won, mine, closeFailed>>
    BY <1>19, Zenon DEF ExistingBid
  <2>2. ~mine /\ ch["price"] = "nil" /\ ch["bid"] = "nil"
    BY <2>1
  <2>3. ~mine' /\ ch'["price"] = "nil" /\ ch'["bid"] = "nil"
    BY <2>1, <2>2
  <2>4. phase' = "await" \/ (phase' = "loop" /\ (timer' => bidPlaced'))
    <3>1. \/ phase' = "await"
          \/ UNCHANGED phase /\ bidPlaced' = TRUE
          \/ UNCHANGED <<phase, bidPlaced, timer>>
      BY <1>19, Zenon DEF ExistingBid
    <3>2. QED
      BY <2>1, <3>1
  <2>5. QED
    BY <2>3, <2>4
<1>20. CASE ReadSub
  <2>1. phase = "loop" /\ UNCHANGED <<ch, timer, bid, mine, closeFailed>>
    BY <1>20, Zenon DEF ReadSub
  <2>2. \/ phase' = "await" /\ won' = TRUE
        \/ phase' = "await" /\ bidPlaced' = (bidPlaced \/ ch["bid"] # "nil")
        \/ phase' = "await" /\ cause' = "closed" /\ UNCHANGED bidPlaced
        \/ UNCHANGED <<phase, bidPlaced>>
    BY <1>20, Zenon DEF ReadSub, LeaseWon, LeaseLost
  <2>3. QED
    BY <2>1, <2>2
<1>21. CASE GroupFetched
  BY <1>21 DEF GroupFetched
<1>22. CASE ShouldBid
  BY <1>22 DEF ShouldBid
<1>23. CASE Reserved
  BY <1>23 DEF Reserved
<1>24. CASE Priced
  BY <1>24 DEF Priced
<1>25. CASE BidCreated
  BY <1>25 DEF BidCreated
<1>26. CASE TimedOut
  BY <1>26 DEF TimedOut
<1>27. CASE AwaitCluster
  BY <1>27 DEF AwaitCluster
<1>28. CASE Unreserve
  BY <1>28 DEF Unreserve
<1>29. CASE CloseBid
  BY <1>29 DEF CloseBid
<1>30. CASE Wait
  BY <1>30 DEF Wait
<1>31. CASE UNCHANGED vars
  BY <1>31 DEF vars
<1>32. QED
  BY <1>1, <1>2, <1>3, <1>4, <1>5, <1>6, <1>7, <1>8, <1>9, <1>10, <1>11, <1>12, <1>13,
     <1>14, <1>15, <1>16, <1>17, <1>18, <1>19, <1>20, <1>21, <1>22, <1>23, <1>24, <1>25,
     <1>26, <1>27, <1>28, <1>29, <1>30, <1>31, Zenon
     DEF Next, Chain, Service, Runner, Loop, Cleanup

-----------------------------------------------------------------------------

IInv ==
  /\ FlagsOK /\ ControlOK /\ QueuesOK
  /\ CallsInv /\ RoomInv /\ MarketInv /\ KeptInv /\ FoundIsNotRebid /\ BidInv

LEMMA Inductive == Spec => []IInv
<1>1. Init => IInv
  <2> SUFFICES ASSUME Init PROVE IInv
    OBVIOUS
  <2> USE DEF Init
  <2>1. FlagsOK
    BY Zenon DEF FlagsOK
  <2>2. ControlOK
    BY DEF ControlOK, Quiet, Runners, Causes
  <2>3. QueuesOK
    BY Queue DEF QueuesOK
  <2>4. CallsInv
    BY DEF CallsInv, Quiet, Runners
  <2>5. RoomInv
    BY DEF RoomInv, Owns, Quiet, Runners
  <2>6. MarketInv
    BY HasQueue DEF MarketInv
  <2>7. KeptInv /\ FoundIsNotRebid /\ BidInv
    BY DEF KeptInv, FoundIsNotRebid, BidInv
  <2>8. QED
    BY <2>1, <2>2, <2>3, <2>4, <2>5, <2>6, <2>7 DEF IInv
<1>2. IInv /\ [Next]_vars => IInv'
  BY FlagsNext, ControlNext, QueuesNext, CallsNext, RoomNext, MarketNext, KeptNext, FoundNext,
     BidNext
     DEF IInv, Typed
<1>3. QED
  BY <1>1, <1>2, PTL DEF Spec

\* Every value stays in its type; the number of reservations is never below zero, so no
\* cleanup gives back a reservation that its monitor does not have.
THEOREM OrderTypeCorrect == Spec => []TypeOK
<1>1. IInv => TypeOK
  BY DEF IInv, FlagsOK, ControlOK, QueuesOK, RoomInv, TypeOK
<1>2. QED
  BY <1>1, Inductive, PTL

\* A monitor that has ended without winning holds no room in the cluster, whichever way it
\* left its loop (order.go, the cleanup of run).
THEOREM RoomIsReturned == Spec => []ReservationReturned
<1>1. IInv => ReservationReturned
  BY DEF IInv, RoomInv, Owns, ReservationReturned
<1>2. QED
  BY <1>1, Inductive, PTL

\* A lease that is won with the monitor's own bid has its reservation (order.go, run: the bid
\* is broadcast behind the reservation, and a monitor that has won skips the cleanup).
THEOREM WonLeaseHasRoom == Spec => []WonIsReserved
<1>1. IInv => WonIsReserved
  BY DEF IInv, CallsInv, RoomInv, WonIsReserved
<1>2. QED
  BY <1>1, Inductive, PTL

\* A monitor that ends without winning has closed the bid it knows of, or closing it failed; a
\* bid it does not know of is one whose broadcast failed, or was unanswered when the provider
\* stopped or the order was closed (order.go, the cleanup of run).
THEOREM NoBidLeftOpen == Spec => []BidIsClosed
<1>1. IInv => BidIsClosed
  BY DEF IInv, BidInv, Excused, FlagsOK, BidIsClosed
<1>2. QED
  BY <1>1, Inductive, PTL

\* A bid that was found on the chain is never placed again (order.go, run: clusterch).
THEOREM NoSecondBid == Spec => []FoundIsNotRebid
<1>1. IInv => FoundIsNotRebid
  BY DEF IInv
<1>2. QED
  BY <1>1, Inductive, PTL

\* A lease that was announced is never closed by a monitor, across any number of monitors and
\* restarts (order.go, run: only an open bid is taken over).
THEOREM AnnouncedLeaseStays == Spec => AnnouncedIsKept
<1>1. ASSUME IInv, [Next]_vars, announced, bid = "active" PROVE bid' = "active"
  <2> USE <1>1 DEF chainVars
  <2>1. CASE Chain
    BY <2>1, Zenon DEF Chain, CreateOrder, LeaseToUs, LeaseToOther, CloseOrder, CloseBidOutside
  <2>2. CASE Service \/ ShutdownRequest \/ Crash \/ Start
    BY <2>2, Zenon DEF Service, FetchPage, processOrdersPage, SetOrdersNextKey, ReadEvent, Drain,
       ShutdownCompleted, ShutdownRequest, Crash, Start
  <2>3. CASE Runner
    BY <2>3, Zenon DEF Runner, QueryBid, Reserve, CreateBid
  <2>4. CASE Loop
    BY <2>4, Zenon DEF Loop, MonitorShutdown, ExistingBid, ReadSub, GroupFetched, ShouldBid, Reserved,
       Priced, BidCreated, TimedOut, LoopFrame
  <2>5. CASE Cleanup
    <3>1. CASE AwaitCluster \/ Unreserve \/ Wait
      BY <3>1 DEF AwaitCluster, Unreserve, Wait
    <3>2. CASE CloseBid
      <4>1. phase = "close" /\ ~won
        BY <3>2 DEF CloseBid, IInv, RoomInv, FlagsOK
      <4>2. ~bidPlaced
        BY <4>1 DEF IInv, KeptInv
      <4>3. QED
        BY <3>2, <4>2 DEF CloseBid
    <3>3. QED
      BY <2>5, <3>1, <3>2 DEF Cleanup
  <2>6. CASE UNCHANGED vars
    BY <2>6 DEF vars
  <2>7. QED
    BY <2>1, <2>2, <2>3, <2>4, <2>5, <2>6 DEF Next
<1>2. IInv /\ [Next]_vars => [announced /\ bid = "active" => bid' = "active"]_vars
  BY <1>1
<1>3. QED
  BY <1>2, Inductive, PTL DEF Spec, AnnouncedIsKept

=============================================================================
