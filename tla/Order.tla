--------------------------------- MODULE Order ---------------------------------
(***************************************************************************)
(* One order of the network and the bid engine's monitor for it:           *)
(* bidengine/order.go, and the part of bidengine/service.go that starts    *)
(* monitors (from EventOrderCreated, and from the pages of open orders     *)
(* that are read once after every start) and removes them.                 *)
(*                                                                         *)
(* A monitor fetches the order's group, decides whether to bid, reserves   *)
(* room in the cluster, prices the order and broadcasts the bid; then it   *)
(* waits for the lease.  Every call runs in a goroutine of its own and     *)
(* answers through a channel.  A call whose effect on the world can be     *)
(* seen before its answer is read has two steps here (the query for an     *)
(* existing bid, the reservation, the bid); the answer of any other call   *)
(* is chosen when it is read.                                              *)
(*                                                                         *)
(* The chain, the event bus and the inventory are seen as the code uses    *)
(* them.  The chain client broadcasts transactions one by one, in the      *)
(* order of the calls.  The pages end after the one that the order is on:  *)
(* an order of the last page is read again after every start, which is     *)
(* what happens here as long as no key is persisted.                       *)
(***************************************************************************)
EXTENDS Naturals, Sequences

CONSTANTS
  BidTimeout,   \* whether a bid timeout is configured
  MaxStarts     \* bound: how often the provider is started

ASSUME StartsAssumption == BidTimeout \in BOOLEAN /\ MaxStarts \in Nat

VARIABLES
  order,         \* the order on the chain
  bid,           \* this provider's bid on the chain
  createdAt,     \* the bid's age: the start of the provider after which it was created
  engine,        \* the provider's process and its bid engine service
  starts,        \* how often the process was started
  page,          \* the catch-up: the page with this order
  key,           \* persisted: the key of a page behind the one with this order
  inbox,         \* events that the service has not read
  phase,         \* the monitor: its loop, the steps of its cleanup
  sub,           \* events that the monitor has not read
  ch,            \* the monitor's channels
  stored,        \* the answer for the group is hidden in storedGroupCh
  reservation,   \* the monitor has its reservation
  bidPlaced,
  won,
  timer,         \* bidTimeout is armed
  held,          \* the inventory's reservations for the order
  cause,         \* history: why the monitor left its loop
  mine,          \* history: the bid was placed by this monitor
  announced,     \* history: LeaseWon was published
  closeFailed    \* history: closing the bid failed

chainVars == <<order, bid, createdAt>>
serviceVars == <<engine, starts, page, key>>
monitorVars == <<ch, stored, reservation, bidPlaced, won, timer, cause, mine, closeFailed>>
vars == <<chainVars, serviceVars, inbox, phase, sub, monitorVars, held, announced>>

Runners == {"query", "group", "should", "cluster", "price", "bid"}
Quiet == [r \in Runners |-> "nil"]

Events == {"created", "won", "lost", "closed", "bidclosed"}

Causes == Runners \cup {"timeout", "shutdown", "won", "lost", "closed", "none"}

TypeOK ==
  /\ order \in {"none", "open", "matched", "closed"}
  /\ bid \in {"none", "open", "active", "closed"}
  /\ createdAt \in Nat
  /\ engine \in {"up", "stopping", "down"} /\ starts \in Nat
  /\ page \in {"unread", "queued", "last", "over"} /\ key \in BOOLEAN
  /\ inbox \in Seq(Events) /\ sub \in Seq(Events)
  /\ phase \in {"none", "loop", "await", "unreserve", "close", "drain", "done"}
  /\ ch \in [Runners -> {"nil", "called", "ok", "err", "none", "open", "active", "closed"}]
  /\ stored \in BOOLEAN /\ reservation \in BOOLEAN /\ bidPlaced \in BOOLEAN
  /\ won \in BOOLEAN /\ timer \in BOOLEAN
  /\ held \in Nat
  /\ cause \in Causes
  /\ mine \in BOOLEAN /\ announced \in BOOLEAN /\ closeFailed \in BOOLEAN

\* The values of a monitor that does not exist.
NoMonitor ==
  /\ ch' = Quiet /\ stored' = FALSE
  /\ reservation' = FALSE /\ bidPlaced' = FALSE /\ won' = FALSE /\ timer' = FALSE
  /\ cause' = "none" /\ mine' = FALSE /\ closeFailed' = FALSE

Init ==
  /\ order = "none" /\ bid = "none" /\ createdAt = 0
  /\ engine = "up" /\ starts = 1 /\ page = "unread" /\ key = FALSE
  /\ inbox = <<>> /\ phase = "none" /\ sub = <<>>
  /\ ch = Quiet /\ stored = FALSE
  /\ reservation = FALSE /\ bidPlaced = FALSE /\ won = FALSE /\ timer = FALSE
  /\ held = 0
  /\ cause = "none" /\ mine = FALSE /\ announced = FALSE /\ closeFailed = FALSE

-----------------------------------------------------------------------------
(* The chain, and the bus that carries its events to the provider. *)

\* The service subscribes when it starts, a monitor reads until it has left its loop.
Emit(e) ==
  /\ inbox' = IF engine = "up" THEN Append(inbox, e) ELSE inbox
  /\ sub' = IF phase = "loop" THEN Append(sub, e) ELSE sub

CreateOrder ==
  /\ order = "none"
  /\ order' = "open" /\ Emit("created")
  /\ UNCHANGED <<bid, createdAt, serviceVars, phase, monitorVars, held, announced>>

\* The tenant takes this provider's bid.
LeaseToUs ==
  /\ order = "open" /\ bid = "open"
  /\ order' = "matched" /\ bid' = "active" /\ Emit("won")
  /\ UNCHANGED <<createdAt, serviceVars, phase, monitorVars, held, announced>>

\* The tenant takes another bid; the network does not close this one.
LeaseToOther ==
  /\ order = "open"
  /\ order' = "matched" /\ Emit("lost")
  /\ UNCHANGED <<bid, createdAt, serviceVars, phase, monitorVars, held, announced>>

CloseOrder ==
  /\ order = "open"
  /\ order' = "closed" /\ Emit("closed")
  /\ UNCHANGED <<bid, createdAt, serviceVars, phase, monitorVars, held, announced>>

\* Somebody closes the bid by hand.
CloseBidOutside ==
  /\ bid = "open"
  /\ bid' = "closed" /\ Emit("bidclosed")
  /\ UNCHANGED <<order, createdAt, serviceVars, phase, monitorVars, held, announced>>

Chain == CreateOrder \/ LeaseToUs \/ LeaseToOther \/ CloseOrder \/ CloseBidOutside

-----------------------------------------------------------------------------
(* The service. *)

\* newOrder: the monitor's subscription starts with what the service has not read.
newOrder(checkForExistingBid, unread) ==
  /\ phase' = "loop" /\ sub' = unread
  /\ ch' = [Quiet EXCEPT !["group"] = "called",
                         !["query"] = IF checkForExistingBid THEN "called" ELSE "nil"]
  /\ stored' = checkForExistingBid
  /\ reservation' = FALSE /\ bidPlaced' = FALSE /\ won' = FALSE /\ timer' = FALSE
  /\ cause' = "none" /\ mine' = FALSE /\ closeFailed' = FALSE

\* The fetcher reads the order's page, unless the persisted key is behind it.
FetchPage ==
  /\ engine = "up" /\ page = "unread"
  /\ page' = IF order = "open" /\ ~key THEN "queued" ELSE "last"
  /\ UNCHANGED <<chainVars, engine, starts, key, inbox, phase, sub, monitorVars, held, announced>>

processOrdersPage ==
  /\ engine = "up" /\ page = "queued"
  /\ page' = "last"
  /\ IF phase = "none"
     THEN newOrder(TRUE, inbox)
     ELSE UNCHANGED <<phase, sub, monitorVars>>
  /\ UNCHANGED <<chainVars, engine, starts, key, inbox, held, announced>>

\* The last page was processed: its key is persisted, if that succeeds.
SetOrdersNextKey ==
  /\ engine = "up" /\ page = "last"
  /\ page' = "over"
  /\ key' \in {key, TRUE}
  /\ UNCHANGED <<chainVars, engine, starts, inbox, phase, sub, monitorVars, held, announced>>

\* Only EventOrderCreated matters to the service.
ReadEvent ==
  /\ engine = "up" /\ inbox # <<>>
  /\ inbox' = Tail(inbox)
  /\ IF Head(inbox) = "created" /\ phase = "none"
     THEN newOrder(FALSE, Tail(inbox))
     ELSE UNCHANGED <<phase, sub, monitorVars>>
  /\ UNCHANGED <<chainVars, serviceVars, held, announced>>

\* drainch: the monitor is removed from s.orders.
Drain ==
  /\ engine # "down" /\ phase = "done"
  /\ phase' = "none"
  /\ UNCHANGED <<chainVars, serviceVars, inbox, sub, monitorVars, held, announced>>

ShutdownRequest ==
  /\ engine = "up"
  /\ engine' = "stopping" /\ inbox' = <<>>
  /\ UNCHANGED <<chainVars, starts, page, key, phase, sub, monitorVars, held, announced>>

\* The process is gone, and with it all that was not persisted or on the chain.
Gone ==
  /\ engine' = "down" /\ page' = "over" /\ inbox' = <<>>
  /\ phase' = "none" /\ sub' = <<>> /\ NoMonitor
  /\ held' = 0
  /\ UNCHANGED <<order, starts, key, announced>>

ShutdownCompleted ==
  /\ engine = "stopping" /\ phase = "none"
  /\ Gone /\ UNCHANGED <<bid, createdAt>>

\* A bid that was sent may still land.
Crash ==
  /\ engine # "down"
  /\ Gone
  /\ \/ UNCHANGED <<bid, createdAt>>
     \/ /\ ch["bid"] = "called" /\ order = "open" /\ bid = "none"
        /\ bid' = "open" /\ createdAt' = starts

Start ==
  /\ engine = "down" /\ starts < MaxStarts
  /\ engine' = "up" /\ starts' = starts + 1 /\ page' = "unread"
  /\ UNCHANGED <<chainVars, key, inbox, phase, sub, monitorVars, held, announced>>

Service == FetchPage \/ processOrdersPage \/ SetOrdersNextKey \/ ReadEvent \/ Drain
           \/ ShutdownCompleted

-----------------------------------------------------------------------------
(* The calls whose effect can be seen before their answer is read. *)

Answer(r, a) == ch' = [ch EXCEPT ![r] = a]

QueryBid ==
  /\ ch["query"] = "called"
  /\ Answer("query", bid) \/ Answer("query", "err")
  /\ UNCHANGED <<chainVars, serviceVars, inbox, phase, sub, stored, reservation, bidPlaced, won,
                 timer, held, cause, mine, announced, closeFailed>>

Reserve ==
  /\ ch["cluster"] = "called"
  /\ \/ Answer("cluster", "ok") /\ held' = held + 1
     \/ Answer("cluster", "err") /\ held' = held
  /\ UNCHANGED <<chainVars, serviceVars, inbox, phase, sub, stored, reservation, bidPlaced, won,
                 timer, cause, mine, announced, closeFailed>>

\* MsgCreateBid: one bid of a provider on an open order. A broadcast may be answered with an
\* error although the transaction has landed.
CreateBid ==
  /\ ch["bid"] = "called"
  /\ \/ /\ order = "open" /\ bid = "none"
        /\ bid' = "open" /\ createdAt' = starts /\ mine' = TRUE
        /\ Answer("bid", "ok") \/ Answer("bid", "err")
     \/ /\ UNCHANGED <<bid, createdAt, mine>>
        /\ Answer("bid", "err")
  /\ UNCHANGED <<order, serviceVars, inbox, phase, sub, stored, reservation, bidPlaced, won,
                 timer, held, cause, announced, closeFailed>>

Runner == QueryBid \/ Reserve \/ CreateBid

-----------------------------------------------------------------------------
(* The monitor's loop. *)

InLoop == phase = "loop"

Leave(c) == phase' = "await" /\ cause' = c /\ sub' = <<>>
Stay == UNCHANGED <<phase, cause, sub>>

\* What no step of the loop changes.
LoopFrame == UNCHANGED <<chainVars, serviceVars, inbox, held, mine, closeFailed>>

\* lc.ShutdownRequest: the service is shutting down.
MonitorShutdown ==
  /\ InLoop /\ engine = "stopping"
  /\ Leave("shutdown")
  /\ UNCHANGED <<ch, stored, reservation, bidPlaced, won, timer, announced>> /\ LoopFrame

\* isStaleBid compares the block of the bid with the block at which this session was created: a
\* bid is stale only if it was placed in this session, which a monitor that looks for a bid
\* finds when an earlier monitor of the session left one.
isStaleBid == {FALSE} \cup (IF BidTimeout /\ createdAt = starts THEN {TRUE} ELSE {})

\* Mutant: the state of the bid that was found is not looked at.
ExistingBidAnyState ==
  /\ InLoop /\ ch["query"] \notin {"nil", "called"}
  /\ ch' = [ch EXCEPT !["query"] = "nil"]
  /\ \/ /\ ch["query"] = "err"
        /\ Leave("query") /\ UNCHANGED <<bidPlaced, timer, stored>>
     \/ /\ ch["query"] \in {"open", "active", "closed"} /\ bidPlaced' = TRUE
        /\ \/ TRUE \in isStaleBid /\ Leave("query") /\ UNCHANGED <<timer, stored>>
           \/ Stay /\ timer' = BidTimeout /\ stored' = FALSE
     \/ /\ ch["query"] = "none"
        /\ Stay /\ stored' = FALSE /\ UNCHANGED <<bidPlaced, timer>>
  /\ UNCHANGED <<reservation, won, announced>> /\ LoopFrame

\* queryBidCh
ExistingBid ==
  /\ InLoop /\ ch["query"] \notin {"nil", "called"}
  /\ ch' = [ch EXCEPT !["query"] = "nil"]
  /\ \/ /\ ch["query"] \in {"err", "active", "closed"}
        /\ Leave("query") /\ UNCHANGED <<bidPlaced, timer, stored>>
     \/ /\ ch["query"] = "open" /\ bidPlaced' = TRUE
        /\ \/ TRUE \in isStaleBid /\ Leave("query") /\ UNCHANGED <<timer, stored>>
           \/ Stay /\ timer' = BidTimeout /\ stored' = FALSE
     \/ /\ ch["query"] = "none"
        /\ Stay /\ stored' = FALSE /\ UNCHANGED <<bidPlaced, timer>>
  /\ UNCHANGED <<reservation, won, announced>> /\ LoopFrame

\* EventLeaseCreated for this provider.
LeaseWon ==
  /\ won' = TRUE /\ announced' = TRUE
  /\ Leave("won") /\ UNCHANGED bidPlaced

\* Mutant: a bid that is in flight when the lease is lost is forgotten.
LeaseLostForgets ==
  Leave("lost") /\ UNCHANGED <<won, announced, bidPlaced>>

\* EventLeaseCreated for another provider: a bid in flight counts as placed.
LeaseLost ==
  /\ bidPlaced' = (bidPlaced \/ ch["bid"] # "nil")
  /\ Leave("lost") /\ UNCHANGED <<won, announced>>

\* sub.Events. The provider of EventBidClosed is compared with the text of the provider's record
\* and not with its address, so the event is never taken for this provider's.
ReadSub ==
  /\ InLoop /\ sub # <<>>
  /\ \/ Head(sub) = "won" /\ LeaseWon
     \/ Head(sub) = "lost" /\ LeaseLost
     \/ Head(sub) = "closed" /\ Leave("closed") /\ UNCHANGED <<won, announced, bidPlaced>>
     \/ /\ Head(sub) \in {"created", "bidclosed"}
        /\ sub' = Tail(sub) /\ UNCHANGED <<phase, cause, won, announced, bidPlaced>>
  /\ UNCHANGED <<ch, stored, reservation, timer>> /\ LoopFrame

\* groupch
GroupFetched ==
  /\ InLoop /\ ~stored /\ ch["group"] = "called"
  /\ \/ ch' = [ch EXCEPT !["group"] = "nil", !["should"] = "called"] /\ Stay
     \/ ch' = [ch EXCEPT !["group"] = "nil"] /\ Leave("group")
  /\ UNCHANGED <<stored, reservation, bidPlaced, won, timer, announced>> /\ LoopFrame

\* shouldBidCh: an error and a decline both end the monitor.
ShouldBid ==
  /\ InLoop /\ ch["should"] = "called"
  /\ \/ ch' = [ch EXCEPT !["should"] = "nil", !["cluster"] = "called"] /\ Stay
     \/ ch' = [ch EXCEPT !["should"] = "nil"] /\ Leave("should")
  /\ UNCHANGED <<stored, reservation, bidPlaced, won, timer, announced>> /\ LoopFrame

\* clusterch: a bid that was found is not placed again.
Reserved ==
  /\ InLoop /\ ch["cluster"] \in {"ok", "err"}
  /\ \/ /\ ch["cluster"] = "ok" /\ reservation' = TRUE
        /\ ch' = [ch EXCEPT !["cluster"] = "nil", !["price"] = IF bidPlaced THEN "nil" ELSE "called"]
        /\ Stay
     \/ /\ ch["cluster"] = "err" /\ UNCHANGED reservation
        /\ ch' = [ch EXCEPT !["cluster"] = "nil"] /\ Leave("cluster")
  /\ UNCHANGED <<stored, bidPlaced, won, timer, announced>> /\ LoopFrame

\* pricech: an error, another denomination and a price that is too high end the monitor.
Priced ==
  /\ InLoop /\ ch["price"] = "called"
  /\ \/ ch' = [ch EXCEPT !["price"] = "nil", !["bid"] = "called"] /\ Stay
     \/ ch' = [ch EXCEPT !["price"] = "nil"] /\ Leave("price")
  /\ UNCHANGED <<stored, reservation, bidPlaced, won, timer, announced>> /\ LoopFrame

\* Mutant: the timeout is not armed for a bid that was placed.
BidCreatedForever ==
  /\ InLoop /\ ch["bid"] \in {"ok", "err"}
  /\ ch' = [ch EXCEPT !["bid"] = "nil"]
  /\ \/ ch["bid"] = "ok" /\ bidPlaced' = TRUE /\ UNCHANGED timer /\ Stay
     \/ ch["bid"] = "err" /\ Leave("bid") /\ UNCHANGED <<bidPlaced, timer>>
  /\ UNCHANGED <<stored, reservation, won, announced>> /\ LoopFrame

\* bidch
BidCreated ==
  /\ InLoop /\ ch["bid"] \in {"ok", "err"}
  /\ ch' = [ch EXCEPT !["bid"] = "nil"]
  /\ \/ ch["bid"] = "ok" /\ bidPlaced' = TRUE /\ timer' = BidTimeout /\ Stay
     \/ ch["bid"] = "err" /\ Leave("bid") /\ UNCHANGED <<bidPlaced, timer>>
  /\ UNCHANGED <<stored, reservation, won, announced>> /\ LoopFrame

\* bidTimeout
TimedOut ==
  /\ InLoop /\ timer
  /\ timer' = FALSE /\ Leave("timeout")
  /\ UNCHANGED <<ch, stored, reservation, bidPlaced, won, announced>> /\ LoopFrame

Loop == MonitorShutdown \/ ExistingBid \/ ReadSub \/ GroupFetched \/ ShouldBid \/ Reserved
        \/ Priced \/ BidCreated \/ TimedOut

-----------------------------------------------------------------------------
(* The monitor's cleanup, after its loop. *)

CleanupFrame == UNCHANGED <<order, createdAt, serviceVars, stored, won, bidPlaced, timer, cause,
                            mine, announced>>

\* Mutant: a reservation that is still being made is not waited for.
AwaitClusterNot ==
  /\ phase = "await"
  /\ phase' = IF won THEN "drain" ELSE "unreserve"
  /\ UNCHANGED <<ch, reservation, bid, inbox, sub, held, closeFailed>> /\ CleanupFrame

\* Mutant: a monitor that has won gives its reservation back.
AwaitClusterAlsoWon ==
  /\ phase = "await" /\ ch["cluster"] # "called" /\ phase' = "unreserve"
  /\ ch' = [ch EXCEPT !["cluster"] = "nil"]
  /\ reservation' = (reservation \/ ch["cluster"] = "ok")
  /\ UNCHANGED <<bid, inbox, sub, held, closeFailed>> /\ CleanupFrame

\* A monitor that has not won takes the reservation that is still being made.
AwaitCluster ==
  /\ phase = "await"
  /\ \/ /\ won /\ phase' = "drain" /\ UNCHANGED <<ch, reservation>>
     \/ /\ ~won /\ ch["cluster"] # "called" /\ phase' = "unreserve"
        /\ ch' = [ch EXCEPT !["cluster"] = "nil"]
        /\ reservation' = (reservation \/ ch["cluster"] = "ok")
  /\ UNCHANGED <<bid, inbox, sub, held, closeFailed>> /\ CleanupFrame

\* cluster.Unreserve fails only when the cluster service stops, with the rest of the provider.
Unreserve ==
  /\ phase = "unreserve" /\ phase' = "close"
  /\ \/ reservation /\ held' = held - 1
     \/ (~reservation \/ engine # "up") /\ UNCHANGED held
  /\ UNCHANGED <<ch, reservation, bid, inbox, sub, closeFailed>> /\ CleanupFrame

\* MsgCloseBid, behind a bid that is still being broadcast. It also closes the lease of an
\* active bid.
CloseBid ==
  /\ phase = "close" /\ phase' = "drain"
  /\ \/ ~bidPlaced /\ UNCHANGED <<bid, inbox, closeFailed>>
     \/ /\ bidPlaced /\ ch["bid"] # "called" /\ bid \in {"open", "active"}
        /\ bid' = "closed" /\ closeFailed' = FALSE
        /\ inbox' = IF engine = "up" THEN Append(inbox, "bidclosed") ELSE inbox
     \/ /\ bidPlaced /\ closeFailed' = TRUE
        /\ UNCHANGED <<bid, inbox>>
  /\ UNCHANGED <<ch, reservation, sub, held>> /\ CleanupFrame

\* Wait for all runners to complete: a call that nobody reads any more is not waited for.
Wait ==
  /\ phase = "drain" /\ phase' = "done"
  /\ ch["cluster"] # "called" /\ ch["bid"] # "called"
  /\ UNCHANGED <<ch, reservation, bid, inbox, sub, held, closeFailed>> /\ CleanupFrame

Cleanup == AwaitCluster \/ Unreserve \/ CloseBid \/ Wait

-----------------------------------------------------------------------------

Next == Chain \/ Service \/ ShutdownRequest \/ Crash \/ Start \/ Runner \/ Loop \/ Cleanup

Spec == Init /\ [][Next]_vars

(***************************************************************************)
(* Calls are answered, the service and the monitors run.  Nobody has to    *)
(* create, take or close an order, or to start the provider again.         *)
(***************************************************************************)
Fairness == WF_vars(Service) /\ WF_vars(Runner) /\ WF_vars(Loop) /\ WF_vars(Cleanup)

FairSpec == Spec /\ Fairness

-----------------------------------------------------------------------------
(* Properties. *)

\* A monitor that has ended without winning holds no room in the cluster: whatever ends it, a
\* reservation that was made or was still being made is given back (order.go, the cleanup
\* behind the loop, for every way out of the loop).
ReservationReturned ==
  phase \in {"none", "done"} /\ ~announced /\ engine = "up" => held = 0

\* The lease that is won with a bid of this monitor has its reservation: the bid goes out only
\* after the reservation, and no way out of the loop gives it back once LeaseWon is published.
WonIsReserved == won /\ mine => held > 0

\* A monitor that ends without winning leaves its bid open on the chain only if closing it
\* failed, the broadcast of the bid was answered with an error although it landed, or the
\* provider stopped or the order was closed while the broadcast was still unanswered. A lease
\* that another provider wins during the broadcast is not such a case.
BidIsClosed ==
  phase = "done" /\ ~won /\ bid = "open" /\ (mine \/ bidPlaced)
    => \/ closeFailed \/ cause = "bid"
       \/ cause \in {"shutdown", "closed"} /\ ch["bid"] # "nil"

\* A bid that was found on the chain is never placed again.
FoundIsNotRebid ==
  phase = "loop" /\ bidPlaced /\ ~mine => ch["price"] = "nil" /\ ch["bid"] = "nil"

\* A lease that was announced to the provider is never closed by a monitor: not by the one that
\* won it, and not by a later one for the same order (catch-up behind the event, or the other
\* way around), which finds the bid active.
AnnouncedIsKept == [][announced /\ bid = "active" => bid' = "active"]_vars

\* With a bid timeout every monitor ends, whatever events it has missed.
EveryMonitorEnds == BidTimeout => []<>(phase = "none")

\* After a start, an open bid on an open order that no persisted key hides is attended to: a
\* monitor takes it over, unless the query fails or the chain or the provider moves on.
LeftBidIsFound ==
  (engine = "up" /\ page = "unread" /\ phase = "none" /\ order = "open" /\ bid = "open" /\ ~key)
    ~> (bidPlaced \/ bid # "open" \/ order # "open" \/ engine # "up" \/ cause = "query")

=============================================================================
