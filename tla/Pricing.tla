-------------------------------- MODULE Pricing --------------------------------
(* What a provider asks for an order (bidengine/pricing.go and
   bidengine/shellscript.go): a price from scales, a random price in a range
   made of the memory, or the answer of a script, of which no more than a
   limit run at once.  Amounts are integers: the prices of scales are counted
   in units of 1/Mi, those of the range in 1/(RandomSteps * RandomShare). *)
EXTENDS Integers, Sequences, FiniteSets, FiniteSetsExt

CONSTANTS
  Orders,          \* orders to price; a later one asks for all an earlier one does
  Grows,           \* orders <<o, p>>: p asks for what o does and one unit more
  Units,           \* resource units that an order is made of
  Scales,          \* configured scales
  Classes,         \* storage classes; "ephemeral" is one
  Mi, Gi,          \* bytes of a mebibyte and a gibibyte
  MaxDec,          \* the largest amount a decimal of the chain holds
  MinPrice, MaxPrice, RandomSteps, RandomShare,
  MaxAmounts,      \* what orders are ready to pay
  ProcessLimit

VARIABLES
  strategy,        \* "scale", "random", "script", or "refused" configuration
  scale,           \* the configured scales
  asked, most,     \* per order its units, and the price of its group
  priced,          \* per order what CalculatePrice is at, or its result
  slots            \* processLimit: scripts that may still be started

prVars == <<strategy, scale, asked, most, priced, slots>>

Ephemeral == "ephemeral"
Waiting == -10
Slot == -11
Script == -12
Invalid == -1
Zero == -2
NoClass == -3
TimedOut == -4
ScriptFailed == -5

Total(units, f(_)) == MapThenSumSet(LAMBDA i : f(units[i]), DOMAIN units)

-----------------------------------------------------------------------------
\* Scale pricing.
IsAnyZero(storage) == DOMAIN storage = {} \/ \E c \in DOMAIN storage : storage[c] = 0
IsAnyNegative(storage) == \E c \in DOMAIN storage : storage[c] < 0

MakeScalePricing(s) ==
  /\ ~(s.cpu = 0 /\ s.memory = 0 /\ IsAnyZero(s.storage) /\ s.endpoint = 0 /\ s.ip = 0)
  /\ ~(s.cpu < 0 \/ s.memory < 0 \/ IsAnyNegative(s.storage) \/ s.endpoint < 0 \/ s.ip < 0)

\* The class a volume is paid as: that of its attribute if it is persistent.
classOf(v) == IF v.persistent /\ v.class # "" THEN v.class ELSE Ephemeral

classTotal(units, c) ==
  Total(units, LAMBDA u : u.count * Total(u.storage, LAMBDA v :
    IF classOf(v) = c THEN v.size ELSE 0))

GetEndpointQuantityOfResourceGroup(units) ==
  Cardinality(UNION {units[i].ips : i \in DOMAIN units})

cpuTotal(units) == Total(units, LAMBDA u : u.count * u.cpu)

\* Mutant: the memory of the last unit replaces what was added up before.
memoryOnce(units) == IF Len(units) > 1 THEN units[Len(units)].memory
                     ELSE Total(units, LAMBDA u : u.count * u.memory)

memoryTotal(units) == Total(units, LAMBDA u : u.count * u.memory)

scalePrice(s, units) ==
  LET endpoints == Total(units, LAMBDA u : u.endpoints)
      cost == Mi * (cpuTotal(units) * s.cpu + endpoints * s.endpoint
                    + GetEndpointQuantityOfResourceGroup(units) * s.ip)
              + memoryTotal(units) * s.memory
              + MapThenSumSet(LAMBDA c : classTotal(units, c) * s.storage[c],
                              DOMAIN s.storage) IN
  IF \E i \in DOMAIN units, c \in Classes \ DOMAIN s.storage :
       \E j \in DOMAIN units[i].storage : classOf(units[i].storage[j]) = c
  THEN NoClass
  ELSE IF cost = 0 THEN Zero
  ELSE IF cost > MaxDec * Mi THEN Invalid ELSE cost

-----------------------------------------------------------------------------
\* Random pricing: from the memory a least and a greatest price, at least 1
\* each and the greatest within what the order pays.
calculatePriceRange(units, pays) ==
  LET mem == memoryTotal(units)
      cmin == (mem * MinPrice) \div Gi
      cmax == (mem * MaxPrice) \div Gi
      capped == IF cmax > pays THEN pays ELSE cmax IN
  <<IF cmin = 0 THEN 1 ELSE cmin, IF capped = 0 THEN 1 ELSE capped>>

randomPrices(units, pays) ==
  LET range == calculatePriceRange(units, pays)
      delta == (range[2] - range[1]) * RandomSteps
      steps == IF delta < 1 THEN 1 ELSE delta
      one == RandomSteps * RandomShare IN
  IF range[1] = range[2] THEN {range[2] * one}
  ELSE {range[1] * one + val : val \in 0..(steps - 1)}

-----------------------------------------------------------------------------
\* The requests: what the second order of a pair asks for includes what the
\* first one does.
Init ==
  /\ scale \in Scales
  /\ strategy \in {IF MakeScalePricing(scale) THEN "scale" ELSE "refused", "random", "script"}
  /\ asked \in [Orders -> {<<u>> : u \in Units} \cup {<<u, v>> : u, v \in Units}]
  /\ \A g \in Grows : \E u \in Units : asked[g[2]] = Append(asked[g[1]], u)
  /\ most \in [Orders -> MaxAmounts]
  /\ strategy = "random" \/ \A o, p \in Orders : most[o] = most[p]
  /\ priced = [o \in Orders |-> Waiting]
  /\ slots = ProcessLimit

scaleCalculatePrice(o) ==
  /\ strategy = "scale" /\ priced[o] = Waiting
  /\ priced' = [priced EXCEPT ![o] = scalePrice(scale, asked[o])]
  /\ UNCHANGED <<strategy, scale, asked, most, slots>>

randomCalculatePrice(o) ==
  /\ strategy = "random" /\ priced[o] = Waiting
  /\ \E p \in randomPrices(asked[o], most[o]) : priced' = [priced EXCEPT ![o] = p]
  /\ UNCHANGED <<strategy, scale, asked, most, slots>>

\* The script is given the order's resources, as the reservation adjusted
\* them when it did, and waits for a slot.
newDataForScript(o) ==
  /\ strategy = "script" /\ priced[o] = Waiting
  /\ priced' = [priced EXCEPT ![o] = Slot]
  /\ UNCHANGED <<strategy, scale, asked, most, slots>>

takeSlot(o) ==
  /\ priced[o] = Slot /\ slots > 0
  /\ slots' = slots - 1
  /\ priced' = [priced EXCEPT ![o] = Script]
  /\ UNCHANGED <<strategy, scale, asked, most>>

\* The script ends or is killed; whatever comes of it, the slot is returned.
scriptEnds(o) ==
  /\ priced[o] = Script
  /\ \E r \in {Mi, Invalid, Zero, TimedOut, ScriptFailed} :
       priced' = [priced EXCEPT ![o] = r]
  /\ slots' = slots + 1
  /\ UNCHANGED <<strategy, scale, asked, most>>

CalculatePrice(o) ==
  scaleCalculatePrice(o) \/ randomCalculatePrice(o) \/ newDataForScript(o)

Next == \E o \in Orders : CalculatePrice(o) \/ takeSlot(o) \/ scriptEnds(o)

\* Calls are served, and a script ends or is ended by its time limit.
Spec ==
  /\ Init /\ [][Next]_prVars
  /\ \A o \in Orders : WF_prVars(CalculatePrice(o)) /\ WF_prVars(takeSlot(o)) /\ WF_prVars(scriptEnds(o))

TypeOK ==
  /\ strategy \in {"scale", "random", "script", "refused"} /\ scale \in Scales
  /\ \A o \in Orders : priced[o] \in Int /\ asked[o] \in Seq(Units) /\ most[o] \in MaxAmounts
  /\ slots \in 0..ProcessLimit

\* A price is never nothing, and of two orders that differ by one unit the
\* larger one costs no less (CalculatePrice adds up without rounding, so that
\* no order is made cheap by asking for more); a random price stays within
\* what the order pays unless the least price is already above it.
PricedIsOwed ==
  /\ \A o \in Orders : priced[o] # 0
  /\ strategy = "scale" =>
       \A g \in Grows : priced[g[1]] > 0 /\ priced[g[2]] > 0 => priced[g[1]] <= priced[g[2]]
  /\ strategy = "random" =>
       \A o \in Orders :
         LET range == calculatePriceRange(asked[o], most[o]) IN
         priced[o] > 0 => \/ priced[o] <= range[2] * RandomSteps * RandomShare
                          \/ priced[o] = range[1] * RandomSteps * RandomShare

\* Every price asked for is given or refused.
AllPriced == \A o \in Orders : strategy = "refused" \/ priced[o] > Waiting
=============================================================================
