----------------------------- MODULE BiddingMC ------------------------------
(***************************************************************************)
(* What the provider bids with and for: the monitor of an order, the       *)
(* attributes that orders are checked against, the prices, and the         *)
(* placement of what is reserved on the nodes. One of them runs in a       *)
(* behaviour.                                                              *)
(***************************************************************************)
EXTENDS Order, Integers, FiniteSets, TLC

CONSTANTS None, c1, c2, c3,
  Parts   \* the components that may run: "order", "attributes", "pricing", "placement"

VARIABLES
  signed, offered, paLoop, paEvents, data, aged, waiting, fetching, attr, fetchAttr,
  pushAttr, currAttr, newAttr, paRetry, missed, stale, call, reqAttr, paChanges,
  paFaults,
  strategy, scale, asked, most, priced, slots,
  client, plCluster, walk, grants,
  part   \* the component that runs

\* Two calls for an auditor and one for the provider's own attributes.
Auditor == (c1 :> "a") @@ (c2 :> "a") @@ (c3 :> None)

\* Resource units and scales for the prices, and the one state of the pricing that
\* stands still.
Volume(persistent, class, size) == [persistent |-> persistent, class |-> class, size |-> size]
Unit(count, cpu, memory, storage, endpoints, ips) ==
  [count |-> count, cpu |-> cpu, memory |-> memory, storage |-> storage,
   endpoints |-> endpoints, ips |-> ips]
Units == {Unit(1, 1, 1, <<>>, 1, {}),
          Unit(2, 1, 6, <<Volume(TRUE, "beta", 1), Volume(FALSE, "beta", 1)>>, 0, {1}),
          Unit(2, 0, 0, <<Volume(TRUE, "", 4)>>, 1, {1, 2})}
Scale(cpu, memory, storage, endpoint, ip) ==
  [cpu |-> cpu, memory |-> memory, storage |-> storage, endpoint |-> endpoint, ip |-> ip]
Scales == {Scale(1, 1, [ephemeral |-> 1, beta |-> 2], 1, 1),
           Scale(0, 0, [ephemeral |-> 0, beta |-> 1], 0, 0),
           Scale(0, 1, [ephemeral |-> 0], 0, 2),
           Scale(0, 0, [ephemeral |-> 1], -1, 0)}
Unpriced ==
  LET u == Unit(1, 1, 1, <<>>, 1, {}) IN
  /\ strategy = "script" /\ scale = Scale(0, 0, [ephemeral |-> 1], -1, 0)
  /\ asked = [o1 |-> <<u>>, o2 |-> <<u, u>>] /\ most = [o1 |-> 1, o2 |-> 1]

\* The requests and nodes of the placement: architectures, volumes of both kinds,
\* memory in shared storage, gpu models with and without attributes, a group that
\* shares a node's fabric, confidential computing and classes that are not there.
NoModel  == "none" :> [ram |-> "", iface |-> ""]
AnyModel == "*" :> [ram |-> "", iface |-> ""]
PodUnit(count, arch, cpu, gpu, models, group, memory, storage) ==
  [count |-> count, arch |-> arch, cpu |-> cpu, gpu |-> gpu, models |-> models, group |-> group,
   memory |-> memory, storage |-> storage]
Ask(tee, fabric, units) == [tee |-> tee, fabric |-> fabric, units |-> units, optout |-> FALSE]
PlacedRequests == {
  Ask("none", "", <<PodUnit(2, "arm64", 2, 0, NoModel, None, 2,
                            <<Volume(FALSE, "", 1), Volume(TRUE, "beta", 2)>>)>>),
  Ask("none", "", <<PodUnit(1, "", 2, 1, AnyModel, None, 4, <<Volume(FALSE, "ram", 1)>>)>>),
  Ask("none", "", <<PodUnit(2, "", 1, 1, AnyModel, None, 1, <<>>)>>),
  Ask("none", "", <<PodUnit(2, "", 1, 1, "h100" :> [ram |-> "", iface |-> "sxm"], "g", 1, <<>>),
                    PodUnit(1, "", 1, 1, AnyModel, "g", 1, <<>>)>>),
  Ask("none", "roce", <<PodUnit(1, "", 1, 1, AnyModel, "g", 1, <<>>)>>),
  Ask("cpu", "", <<PodUnit(1, "", 1, 0, NoModel, None, 1, <<>>)>>),
  [Ask("cpu-gpu", "", <<PodUnit(1, "", 12, 1, AnyModel, None, 10, <<Volume(FALSE, "", 1)>>)>>)
     EXCEPT !.optout = TRUE],
  Ask("cpu-gpu", "", <<PodUnit(1, "", 12, 1, "a100" :> [ram |-> "80Gi", iface |-> ""], None, 10, <<>>)>>),
  Ask("none", "", <<PodUnit(1, "", 1, 0, NoModel, None, 1, <<Volume(TRUE, "", 1)>>)>>),
  Ask("none", "", <<PodUnit(1, "", 1, 0, NoModel, None, 1, <<Volume(TRUE, "gone", 1)>>)>>) }
Card(model, ram, iface) == [model |-> model, ram |-> ram, iface |-> iface]
Node(arch, cpu, gpu, cards, hca, fabric, memory, disk, classes) ==
  [arch |-> arch, cpu |-> cpu, gpu |-> gpu, cards |-> cards, hca |-> hca, fabric |-> fabric,
   memory |-> memory, disk |-> disk, classes |-> classes]
FreeNodes == <<
  Node("amd64", 12, 2, <<Card("a100", "80Gi", "pcie"), Card("a100", "80Gi", "pcie")>>, 2,
       "infiniband", 6, 1, {"beta"}),
  Node("arm64", 24, 1, <<Card("h100", "80Gi", "sxm5")>>, 1, "roce", 20, 2, {"beta", "gone"}),
  Node("", 24, 2, <<Card("h100", "80Gi", "sxm5"), Card("h100", "80Gi", "sxm4")>>, 2,
       "infiniband", 20, 2, {}) >>

A == INSTANCE ProviderAttributes WITH
  Auditors <- {"a"}, Callers <- {c1, c2, c3}, AuditorOf <- Auditor, Own <- None,
  MaxEntries <- 1, MaxPaChanges <- 1, MaxPaFaults <- 1, retry <- paRetry
P == INSTANCE Pricing WITH
  Orders <- {"o1", "o2"}, Units <- Units, Grows <- {<<"o1", "o2">>}, Scales <- Scales,
  Classes <- {"ephemeral", "beta"}, Mi <- 2, Gi <- 4, MaxDec <- 20, MinPrice <- 1,
  MaxPrice <- 3, RandomSteps <- 2, RandomShare <- 3, MaxAmounts <- {1, 3},
  ProcessLimit <- 1
L == INSTANCE Placement WITH
  Requests <- PlacedRequests, FreeNodes <- FreeNodes, FreeClasses <- [beta |-> 4],
  Level <- [cpu |-> 1, gpu |-> 1, memory |-> 2, storage |-> 1], Platform <- "snp",
  NoGroup <- None, MaxGrants <- 3

attributeVars == <<signed, offered, paLoop, paEvents, data, aged, waiting, fetching,
                   attr, fetchAttr, pushAttr, currAttr, newAttr, paRetry, missed, stale,
                   call, reqAttr, paChanges, paFaults>>
pricingVars == <<strategy, scale, asked, most, priced, slots>>
placementVars == <<client, plCluster, walk, grants>>

allVars == <<vars, attributeVars, pricingVars, placementVars, part>>

\* The components that do not run stay in one of their initial states.
MCInit ==
  /\ part \in Parts
  /\ Init
  /\ A!Init
  /\ P!Init /\ (part # "pricing" => Unpriced)
  /\ L!Init /\ (part # "placement" => client = "kube")

OrderStep ==
  /\ part = "order" /\ Next
  /\ UNCHANGED <<attributeVars, pricingVars, placementVars, part>>
Attributes ==
  /\ part = "attributes" /\ A!Next
  /\ UNCHANGED <<vars, pricingVars, placementVars, part>>
Price ==
  /\ part = "pricing" /\ P!Next
  /\ UNCHANGED <<vars, attributeVars, placementVars, part>>
Placement ==
  /\ part = "placement" /\ L!Next
  /\ UNCHANGED <<vars, attributeVars, pricingVars, part>>

MCNext == OrderStep \/ Attributes \/ Price \/ Placement

MCSpec == MCInit /\ [][MCNext]_allVars

\* The state of the component that runs.
runningVars == CASE part = "order" -> vars
                 [] part = "attributes" -> attributeVars
                 [] part = "pricing" -> pricingVars
                 [] part = "placement" -> placementVars

Runs(p) == part = p /\ UNCHANGED part

\* The fairness each component states for itself. As only one of them runs, one
\* conjunct serves a fair step of each.
MCFairSpec ==
  /\ MCSpec
  /\ WF_runningVars(\/ Runs("order") /\ Service
                    \/ Runs("attributes") /\ A!handleEvent
                    \/ Runs("pricing") /\ P!CalculatePrice("o1"))
  /\ WF_runningVars(\/ Runs("order") /\ Runner
                    \/ Runs("attributes") /\ A!tryFetchAttributes
                    \/ Runs("pricing") /\ P!CalculatePrice("o2"))
  /\ WF_runningVars(\/ Runs("order") /\ Loop
                    \/ Runs("attributes") /\ A!takeAttributes
                    \/ Runs("pricing") /\ P!takeSlot("o1"))
  /\ WF_runningVars(\/ Runs("order") /\ Cleanup
                    \/ Runs("attributes") /\ A!pushCurrent
                    \/ Runs("pricing") /\ P!takeSlot("o2"))
  /\ WF_runningVars(\/ Runs("attributes") /\ A!wait
                    \/ Runs("pricing") /\ P!scriptEnds("o1"))
  /\ WF_runningVars(\/ Runs("attributes") /\ A!fetchAttributes
                    \/ Runs("pricing") /\ P!scriptEnds("o2"))
  /\ WF_runningVars(Runs("attributes") /\ A!retryTimer)
  /\ WF_runningVars(Runs("attributes") /\ A!takeResult(c1))
  /\ WF_runningVars(Runs("attributes") /\ A!takeResult(c2))
  /\ WF_runningVars(Runs("attributes") /\ A!takeResult(c3))
  /\ WF_runningVars(Runs("attributes") /\ A!fetch(c1))
  /\ WF_runningVars(Runs("attributes") /\ A!fetch(c2))
  /\ WF_runningVars(Runs("attributes") /\ A!fetch(c3))
  /\ WF_runningVars(Runs("attributes") /\ A!callEnds(c1))
  /\ WF_runningVars(Runs("attributes") /\ A!callEnds(c2))
  /\ WF_runningVars(Runs("attributes") /\ A!callEnds(c3))
  /\ WF_runningVars(Runs("attributes") /\ A!processAttrReq(c1))
  /\ WF_runningVars(Runs("attributes") /\ A!processAttrReq(c2))
  /\ WF_runningVars(Runs("attributes") /\ A!processAttrReq(c3))

-----------------------------------------------------------------------------

\* With a bid timeout every monitor ends, whatever events it has missed, and a bid
\* that was left open is taken over after a start.
MonitorsEnd == EveryMonitorEnds /\ LeftBidIsFound

\* The attributes bids are checked with end up being those of the chain, unless a
\* change met a fetch under way, and every call for attributes returns.
AttributesFollow ==
  <>[](part = "attributes" => A!Followed) /\ []<>(part = "attributes" => A!Returned)

\* A price is never nothing, of two orders the one that asks for more costs no
\* less, a random price stays within what the order pays, and every order is
\* priced or refused.
PricedIsOwed == [](part = "pricing" => P!PricedIsOwed) /\ <>[](part = "pricing" => P!AllPriced)

\* What is granted can be scheduled: the pods of the granted requests fit, all
\* together, on nodes that have what each of them asks for.
GrantedIsSchedulable == part = "placement" => L!GrantedIsSchedulable
=============================================================================
