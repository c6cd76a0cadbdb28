------------------------------ MODULE Migrations ------------------------------
(* The migrations a provider runs when it starts with a new version
   (migrations/registry.go, state.go and ingress_to_httproute.go, and their use
   in cmd/provider-services/cmd/migrate_run.go).  A migration works through its
   objects one by one, the ingresses of the cluster for the one that exists, and
   a state file remembers the migrations that were applied and the version that
   last ran.  A version is a tuple of numbers and says whether it has a suffix. *)
EXTENDS Naturals, Sequences, FiniteSets, SequencesExt

CONSTANTS
  Migs,            \* the registered migrations, in the order of their names
  FromVersion,     \* per migration the last version that needs it
  Objects,         \* per migration the objects it turns over
  Releases,        \* versions of the provider, in the order they are installed
  NoVersion,
  MaxMgFaults

VARIABLES
  release,         \* index of the version installed
  mg,              \* "down", "check", "fresh", "run", "version", "up" or "failed"
  stateFile,       \* [applied, version]
  mgTodo,          \* migrations left of this start
  objsLeft,        \* objects left of the running migration
  turned,          \* per migration the objects turned over
  mgErrors,        \* this start met an error
  owed,            \* migrations some start found pending
  since,           \* the version of the first state file
  mgFaults

mgVars == <<release, mg, stateFile, mgTodo, objsLeft, turned, mgErrors, owed, since, mgFaults>>

part(v, i) == IF i > Len(v.parts) THEN 0 ELSE v.parts[i]

\* Mutant: versions are compared part by part, without an order of the parts.
somePartLess(v1, v2) == \E i \in 1..Len(v2.parts) : part(v1, i) < part(v2, i)

\* The first part that differs decides; a suffix is left out.
versionLessThan(v1, v2) ==
  LET len == IF Len(v1.parts) > Len(v2.parts) THEN Len(v1.parts) ELSE Len(v2.parts) IN
  \E i \in 1..len : /\ part(v1, i) < part(v2, i)
                    /\ \A j \in 1..(i - 1) : part(v1, j) = part(v2, j)

versionMatches(v, from) == versionLessThan(v, from) \/ v = from

GetPending ==
  SelectSeq(Migs, LAMBDA m : /\ m \notin stateFile.applied
                             /\ stateFile.version # NoVersion
                             /\ versionMatches(stateFile.version, FromVersion[m]))

Init ==
  /\ release \in DOMAIN Releases /\ mg = "down"
  /\ \E v \in {NoVersion} \cup {Releases[r] : r \in 1..release} :
       stateFile = [applied |-> {}, version |-> v] /\ since = v
  /\ mgTodo = <<>> /\ objsLeft = {} /\ mgErrors = FALSE /\ owed = {} /\ mgFaults = 0
  /\ turned = [m \in Range(Migs) |-> {}]

Fault == mgFaults < MaxMgFaults /\ mgFaults' = mgFaults + 1

-----------------------------------------------------------------------------
start ==
  /\ mg = "down"
  /\ mg' = "check" /\ mgErrors' = FALSE /\ objsLeft' = {} /\ mgTodo' = <<>>
  /\ UNCHANGED <<release, stateFile, turned, owed, since, mgFaults>>

\* A version that is not known yet makes a fresh install: every migration
\* counts as applied.  With nothing pending only the version is written.
runMigrations ==
  /\ mg = "check"
  /\ IF stateFile.version = NoVersion THEN mg' = "fresh" /\ mgTodo' = Migs /\ UNCHANGED owed
     ELSE /\ mgTodo' = GetPending /\ owed' = owed \cup Range(GetPending)
          /\ mg' = IF GetPending = <<>> THEN "version" ELSE "run"
  /\ objsLeft' = IF mgTodo' = <<>> THEN {} ELSE Objects[Head(mgTodo')]
  /\ UNCHANGED <<release, stateFile, turned, mgErrors, since, mgFaults>>

\* A failing write of the state file ends a fresh install.
markFresh ==
  /\ mg = "fresh"
  /\ \/ /\ stateFile' = [stateFile EXCEPT !.applied = @ \cup {Head(mgTodo)}]
        /\ mgTodo' = Tail(mgTodo) /\ mg' = IF Tail(mgTodo) = <<>> THEN "version" ELSE "fresh"
        /\ UNCHANGED mgFaults
     \/ Fault /\ mg' = "failed" /\ UNCHANGED <<stateFile, mgTodo>>
  /\ UNCHANGED <<release, objsLeft, turned, mgErrors, owed, since>>

nextMigration ==
  /\ mgTodo' = Tail(mgTodo)
  /\ mg' = IF Tail(mgTodo) = <<>> THEN "version" ELSE "run"
  /\ objsLeft' = IF Tail(mgTodo) = <<>> THEN {} ELSE Objects[Head(Tail(mgTodo))]

migrateIngress ==
  /\ mg = "run" /\ objsLeft # {}
  /\ \E o \in objsLeft :
       turned' = [turned EXCEPT ![Head(mgTodo)] = @ \cup {o}] /\ objsLeft' = objsLeft \ {o}
  /\ UNCHANGED <<release, mg, stateFile, mgTodo, mgErrors, owed, since, mgFaults>>

\* A migration that fails leaves the others to run.
migrationFails ==
  /\ mg = "run" /\ Fault /\ mgErrors' = TRUE
  /\ nextMigration
  /\ UNCHANGED <<release, stateFile, turned, owed, since>>

MarkApplied ==
  /\ mg = "run" /\ objsLeft = {}
  /\ \/ stateFile' = [stateFile EXCEPT !.applied = @ \cup {Head(mgTodo)}] /\ UNCHANGED <<mgErrors, mgFaults>>
     \/ Fault /\ mgErrors' = TRUE /\ UNCHANGED stateFile
  /\ nextMigration
  /\ UNCHANGED <<release, turned, owed, since>>

\* The version that runs now is written whatever came of the migrations; the
\* provider does not start when one failed.
SetProviderVersion ==
  /\ mg = "version"
  /\ \/ /\ stateFile' = [stateFile EXCEPT !.version = Releases[release]]
        /\ mg' = (IF mgErrors THEN "failed" ELSE "up") /\ UNCHANGED mgFaults
     \/ Fault /\ mg' = "failed" /\ UNCHANGED stateFile
  /\ UNCHANGED <<release, mgTodo, objsLeft, turned, mgErrors, owed, since>>

stop ==
  /\ mg \in {"up", "failed"} \/ (mg # "down" /\ mgFaults < MaxMgFaults)
  /\ mgFaults' = IF mg \in {"up", "failed"} THEN mgFaults ELSE mgFaults + 1
  /\ mg' = "down" /\ release' \in {r \in DOMAIN Releases : release <= r /\ r <= release + 1}
  /\ UNCHANGED <<stateFile, mgTodo, objsLeft, turned, mgErrors, owed, since>>

-----------------------------------------------------------------------------
Next ==
  \/ start \/ runMigrations \/ markFresh \/ migrateIngress \/ migrationFails
  \/ MarkApplied \/ SetProviderVersion \/ stop

Spec == Init /\ [][Next]_mgVars

TypeOK ==
  /\ release \in DOMAIN Releases
  /\ mg \in {"down", "check", "fresh", "run", "version", "up", "failed"}
  /\ stateFile.applied \subseteq Range(Migs)
  /\ stateFile.version \in {NoVersion} \cup Range(Releases)
  /\ owed \subseteq Range(Migs) /\ mgFaults \in 0..MaxMgFaults

\* The releases are installed in their order: a migration is needed by the
\* versions up to its own.
needs(v, m) == \E i, j \in DOMAIN Releases : i <= j /\ Releases[i] = v /\ Releases[j] = FromVersion[m]

\* A provider that runs has every migration behind it that its first version
\* needed, unless one failed in an earlier start, and none that it did not: what
\* was applied was run to its end, and no version is taken for a later one.  (A
\* first version with a suffix is left out: it equals no version without one.)
UpIsMigrated ==
  mg = "up" /\ since # NoVersion =>
    \A m \in Range(Migs) :
      /\ m \in stateFile.applied => turned[m] = Objects[m]
      /\ turned[m] # {} => needs(since, m)
      /\ mgFaults = 0 /\ needs(since, m) /\ ~since.suffix => m \in stateFile.applied

\* registry.go:139, "After successful execution, updates the provider version
\* and applied migrations in state": the version a migration still waits for is
\* not overtaken, so what a start left over is pending in the next.
LeftIsPending ==
  \A m \in owed : m \in stateFile.applied \/ m \in Range(GetPending)
=============================================================================
