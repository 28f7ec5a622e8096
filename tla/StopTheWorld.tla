---------------------------- MODULE StopTheWorld ----------------------------
(***************************************************************************)
(* What the safepoint protocol promises its clients, without epochs, locks *)
(* or condition variables: a collector has the heap to itself, and every   *)
(* requested collection is run or given up.                                *)
(***************************************************************************)
CONSTANT Mutator

VARIABLES
  access,   \* who uses the heap, and how
  wanted    \* threads whose collection has not run yet

vars == <<access, wanted>>

Uses == {"none", "mutator", "collector"}

Init ==
  /\ access = [m \in Mutator |-> "none"]
  /\ wanted = {}

Change(m, from, to) ==
  /\ access[m] = from
  /\ access' = [access EXCEPT ![m] = to]

NoCollector == \A m \in Mutator : access[m] # "collector"

\* A thread starts or resumes managed code.
Enter(m) ==
  /\ NoCollector
  /\ m \notin wanted
  /\ Change(m, "none", "mutator")
  /\ UNCHANGED wanted

\* A thread parks, calls foreign code or drops its handle.
Leave(m) ==
  /\ Change(m, "mutator", "none")
  /\ UNCHANGED wanted

\* A thread asks for a collection; it will run no managed code before it.
Request(m) ==
  /\ Change(m, "mutator", "none")
  /\ wanted' = wanted \cup {m}

\* The heap is handed to the collector once nobody else uses it.
Begin(m) ==
  /\ m \in wanted
  /\ \A o \in Mutator : access[o] = "none"
  /\ Change(m, "none", "collector")
  /\ UNCHANGED wanted

Finish(m) ==
  /\ Change(m, "collector", "none")
  /\ wanted' = wanted \ {m}

\* An earlier collection failed for good: the request is given up.
Abandon(m) ==
  /\ m \in wanted
  /\ access[m] = "none"
  /\ wanted' = wanted \ {m}
  /\ UNCHANGED access

Next == \E m \in Mutator :
  \/ Enter(m) \/ Leave(m) \/ Request(m)
  \/ Begin(m) \/ Finish(m) \/ Abandon(m)

\* A collection is not postponed for ever by threads that come and go.
Fairness == \A m \in Mutator :
  /\ SF_vars(Begin(m))
  /\ WF_vars(Finish(m))

Spec == Init /\ [][Next]_vars
FairSpec == Spec /\ Fairness
=============================================================================
