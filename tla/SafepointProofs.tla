--------------------------- MODULE SafepointProofs ---------------------------
(***************************************************************************)
(* Proofs about Safepoint for every set of threads and every MaxEpoch.     *)
(***************************************************************************)
EXTENDS Safepoint, TLAPS

\* The initial state has the declared types.
LEMMA TypeInit == Init => TypeOK
<1> SUFFICES ASSUME Init PROVE TypeOK
  OBVIOUS
<1>1. 0 \in Nat
  OBVIOUS
<1>2. /\ epoch \in Nat
      /\ last_epoch \in [Mutator -> Nat]
  BY <1>1, Zenon DEF Init
<1>3. /\ is_active \in [Mutator -> BOOLEAN]
      /\ acting \in [Mutator -> BOOLEAN]
      /\ native \in [Mutator -> BOOLEAN]
      /\ tlab \in [Mutator -> BOOLEAN]
      /\ rootsValid \in [Mutator -> BOOLEAN]
      /\ snapValid \in [Mutator -> BOOLEAN]
      /\ world_running \in BOOLEAN
      /\ coord_poisoned \in BOOLEAN
      /\ heap_poisoned \in BOOLEAN
  BY Zenon DEF Init
<1>4. /\ waiters \subseteq Mutator
      /\ registered \subseteq Mutator
      /\ others \subseteq Mutator
      /\ pending \subseteq Mutator
      /\ coord_mutex \in Mutator \cup {NoMutator}
      /\ heap_mutex \in Mutator \cup {NoMutator}
      /\ pc \in [Mutator -> Points]
  BY DEF Init, Points
<1>5. QED
  BY <1>2, <1>3, <1>4, Zenon DEF TypeOK

\* Every step of every thread keeps them.
LEMMA TypeStep == TypeOK /\ [Next]_vars => TypeOK'
<1> SUFFICES ASSUME TypeOK, [Next]_vars PROVE TypeOK'
  OBVIOUS
<1> USE SafepointAssumption DEF TypeOK, Points, Driving, Goto, NotifyAll, worldVars,
     lockVars, innerVars, dataVars, driverVars
<1>1. ASSUME NEW m \in Mutator, Lookup(m) PROVE TypeOK'
  BY <1>1 DEF Lookup
<1>2. ASSUME NEW m \in Mutator, Register(m) PROVE TypeOK'
  BY <1>2 DEF Register
<1>3. ASSUME NEW m \in Mutator, RegisterPanics(m) PROVE TypeOK'
  BY <1>3 DEF RegisterPanics
<1>4. ASSUME NEW m \in Mutator, Deactivate(m) PROVE TypeOK'
  BY <1>4 DEF Deactivate
<1>5. ASSUME NEW m \in Mutator, Deregister(m) PROVE TypeOK'
  BY <1>5 DEF Deregister
<1>6. ASSUME NEW m \in Mutator, Refill(m) \/ RefillPanics(m) PROVE TypeOK'
  BY <1>6 DEF Refill, RefillPanics
<1>7. ASSUME NEW m \in Mutator, Poll(m) PROVE TypeOK'
  BY <1>7 DEF Poll
<1>8. ASSUME NEW m \in Mutator, ParkPublish(m) PROVE TypeOK'
  BY <1>8 DEF ParkPublish, PublishRoots
<1>9. ASSUME NEW m \in Mutator, Park(m) PROVE TypeOK'
  BY <1>9 DEF Park, ParkTurn
<1>10. ASSUME NEW m \in Mutator, CopyBack(m) PROVE TypeOK'
  BY <1>10 DEF CopyBack
<1>11. ASSUME NEW m \in Mutator, EnterNative(m) PROVE TypeOK'
  BY <1>11 DEF EnterNative, PublishRoots
<1>12. ASSUME NEW m \in Mutator, AnnounceNative(m) PROVE TypeOK'
  BY <1>12 DEF AnnounceNative
<1>13. ASSUME NEW m \in Mutator, LeaveNative(m) \/ LeaveRetry(m) PROVE TypeOK'
  <2>1. LeaveTurn(m) /\ UNCHANGED <<worldVars, lockVars, registered,
                 is_active, acting, dataVars, driverVars>>
    BY <1>13 DEF LeaveNative, LeaveRetry
  <2>2. CASE world_running
    <3>1. last_epoch' \in [Mutator -> Nat] /\ pc' \in [Mutator -> Points]
      BY <2>1, <2>2 DEF LeaveTurn
    <3>2. native' \in [Mutator -> BOOLEAN] /\ waiters' \subseteq Mutator
      BY <2>1, <2>2, Zenon DEF LeaveTurn
    <3>3. QED
      BY <2>1, <3>1, <3>2, Zenon
  <2>3. CASE ~world_running
    BY <2>1, <2>3 DEF LeaveTurn
  <2>4. QED
    BY <2>2, <2>3
<1>14. ASSUME NEW m \in Mutator, StartDrive(m) PROVE TypeOK'
  BY <1>14 DEF StartDrive, PublishRoots
<1>15. ASSUME NEW m \in Mutator, ClaimCoordinator(m) PROVE TypeOK'
  BY <1>15 DEF ClaimCoordinator
<1>16. ASSUME NEW m \in Mutator, LockCoord(m) PROVE TypeOK'
  BY <1>16 DEF LockCoord
<1>17. ASSUME NEW m \in Mutator, StopWorld(m) PROVE TypeOK'
  <2>1. epoch + 1 \in Nat
    OBVIOUS
  <2>2. epoch' \in Nat /\ last_epoch' \in [Mutator -> Nat]
    BY <1>17, <2>1 DEF StopWorld
  <2>3. QED
    BY <1>17, <2>2, Zenon DEF StopWorld
<1>18. ASSUME NEW m \in Mutator, SnapshotRegistry(m) PROVE TypeOK'
  BY <1>18 DEF SnapshotRegistry
<1>19. ASSUME NEW m \in Mutator, AwaitArrivals(m) PROVE TypeOK'
  BY <1>19 DEF AwaitArrivals
<1>20. ASSUME NEW m \in Mutator, LockHeap(m) PROVE TypeOK'
  BY <1>20 DEF LockHeap
<1>21. ASSUME NEW m \in Mutator, Collect(m) PROVE TypeOK'
  BY <1>21 DEF Collect
<1>22. ASSUME NEW m \in Mutator, MidEvacOom(m) PROVE TypeOK'
  BY <1>22 DEF MidEvacOom
<1>23. ASSUME NEW m \in Mutator, Resume(m) PROVE TypeOK'
  BY <1>23 DEF Resume
<1>24. ASSUME NEW m \in Mutator, ReleaseCoord(m) PROVE TypeOK'
  BY <1>24 DEF ReleaseCoord
<1>25. ASSUME NEW m \in Mutator, SpuriousWake(m) PROVE TypeOK'
  BY <1>25 DEF SpuriousWake
<1>26. CASE UNCHANGED vars
  BY <1>26 DEF vars
<1>27. QED
  BY <1>1, <1>2, <1>3, <1>4, <1>5, <1>6, <1>7, <1>8, <1>9, <1>10, <1>11,
     <1>12, <1>13, <1>14, <1>15, <1>16, <1>17, <1>18, <1>19, <1>20, <1>21,
     <1>22, <1>23, <1>24, <1>25, <1>26
  DEF Next, OwnStep, ClientStep, DriveStep

\* The state of every mutator, lock and flag stays in its type, for any set
\* of threads and any number of collections.
THEOREM TypeCorrect == Spec => []TypeOK
BY TypeInit, TypeStep, PTL DEF Spec

-----------------------------------------------------------------------------
(* The inductive invariant.  What the wait loop relies on is spread over   *)
(* the whole life of a collection: who owns coord_mutex, what each flag of *)
(* a mutator says about where that mutator is, and which of them can still *)
(* change while the world is stopped.                                      *)

StopPoints == {"gathering", "awaiting", "stopped", "collecting", "resuming"}
GatheredPoints == {"awaiting", "stopped", "collecting"}
PassedPoints == {"stopped", "collecting"}

\* From the publication of the roots to the copy back.
PublishedPoints == {"arriving", "parked", "entering", "native", "leaving",
                    "claiming", "queueing", "copyback"} \cup Driving

\* Between the locking of coord_mutex and its release.
LockInv == \A m \in Mutator : pc[m] \in Driving => coord_mutex = m

StopInv ==
  /\ ~world_running => \E d \in Mutator : coord_mutex = d /\ pc[d] \in StopPoints
  /\ \A d \in Mutator : pc[d] \in StopPoints => ~world_running

HandleInv == \A m \in Mutator :
  /\ is_active[m] <=> pc[m] \notin {"out", "joining", "dropping"}
  /\ is_active[m] => m \in registered

FlagInv == \A m \in Mutator :
  /\ native[m] => pc[m] \in {"native", "leaving"}
  /\ acting[m] => \/ pc[m] \in {"queueing"} \cup (Driving \ {"releasing"})
                  \/ /\ coord_poisoned
                     /\ pc[m] \in {"unwind", "dropping", "out", "joining"}

PoisonInv == coord_poisoned => \A m \in Mutator : pc[m] \notin Driving

EpochInv == \A m \in Mutator :
  /\ last_epoch[m] =< epoch
  /\ ~world_running /\ last_epoch[m] = epoch =>
       pc[m] = "parked" \/ coord_mutex = m

GatherInv == \A d \in Mutator :
  /\ pc[d] \in GatheredPoints =>
       /\ \A m \in Mutator : is_active[m] => m \in others
       /\ \A m \in others \ pending : Arrived(m)
  /\ pc[d] \in PassedPoints => pending = {}

TlabInv == \A m \in Mutator : pc[m] \in PublishedPoints => ~tlab[m]

RootInv == ~heap_poisoned => \A m \in Mutator :
  /\ pc[m] \in {"run", "polled"} => rootsValid[m]
  /\ pc[m] \in PublishedPoints => snapValid[m]

IInv ==
  /\ TypeOK
  /\ LockInv
  /\ StopInv
  /\ HandleInv
  /\ FlagInv
  /\ PoisonInv
  /\ EpochInv
  /\ GatherInv
  /\ TlabInv
  /\ RootInv

-----------------------------------------------------------------------------
\* Nobody is registered and the world runs: the initial state.
LEMMA InvInit == Init => IInv
  BY TypeInit, SafepointAssumption DEF Init, IInv, LockInv, StopInv, HandleInv,
     FlagInv, PoisonInv, EpochInv, GatherInv, TlabInv, RootInv, StopPoints,
     GatheredPoints, PassedPoints, PublishedPoints, Driving

\* One step per action, and under it one per conjunct whose variables the
\* action writes; the QED steps cover the conjuncts that only lose cases.
LEMMA InvStep == IInv /\ [Next]_vars => IInv'
<1> SUFFICES ASSUME IInv, [Next]_vars PROVE IInv'
  OBVIOUS
<1> USE SafepointAssumption DEF TypeOK, Arrived, Driving, StopPoints,
     GatheredPoints, PassedPoints, PublishedPoints, Goto, NotifyAll,
     worldVars, lockVars, innerVars, dataVars, driverVars
<1>0. TypeOK'
  BY TypeStep DEF IInv
<1>1. ASSUME NEW m \in Mutator, Lookup(m) PROVE IInv'
  BY <1>0, <1>1 DEF Lookup, IInv, LockInv, StopInv, HandleInv, FlagInv,
     PoisonInv, EpochInv, GatherInv, TlabInv, RootInv
<1>2. ASSUME NEW m \in Mutator, Register(m) PROVE IInv'
  \* nobody drives: coord_mutex is free
  <2>1. world_running /\ \A d \in Mutator : pc[d] \notin Driving
    BY <1>0, <1>2 DEF Register, IInv, LockInv, StopInv
  <2>2. HandleInv'
    BY <1>0, <1>2 DEF Register, IInv, HandleInv
  <2>3. EpochInv' /\ GatherInv'
    BY <1>0, <1>2, <2>1, <2>2 DEF Register, IInv, EpochInv, GatherInv
  <2>4. TlabInv' /\ RootInv'
    BY <1>0, <1>2 DEF Register, IInv, TlabInv, RootInv
  <2>5. QED
    BY <1>0, <1>2, <2>1, <2>2, <2>3, <2>4 DEF Register, IInv, LockInv,
       StopInv, FlagInv, PoisonInv
<1>3. ASSUME NEW m \in Mutator, RegisterPanics(m) PROVE IInv'
  BY <1>0, <1>3 DEF RegisterPanics, IInv, LockInv, StopInv, HandleInv,
     FlagInv, PoisonInv, EpochInv, GatherInv, TlabInv, RootInv
<1>4. ASSUME NEW m \in Mutator, Deactivate(m) PROVE IInv'
  <2>1. HandleInv' /\ FlagInv'
    BY <1>0, <1>4 DEF Deactivate, IInv, HandleInv, FlagInv
  \* an arrival by dropping
  <2>2. GatherInv'
    BY <1>0, <1>4 DEF Deactivate, IInv, GatherInv
  <2>3. QED
    BY <1>0, <1>4, <2>1, <2>2 DEF Deactivate, IInv, LockInv, StopInv,
       PoisonInv, EpochInv, TlabInv, RootInv
<1>5. ASSUME NEW m \in Mutator, Deregister(m) PROVE IInv'
  <2>1. HandleInv' /\ FlagInv'
    BY <1>0, <1>5 DEF Deregister, IInv, HandleInv, FlagInv
  <2>2. QED
    BY <1>0, <1>5, <2>1 DEF Deregister, IInv, LockInv, StopInv, PoisonInv,
       EpochInv, GatherInv, TlabInv, RootInv
<1>6. ASSUME NEW m \in Mutator, Refill(m) PROVE IInv'
  \* only code that publishes no roots refills
  <2>1. TlabInv'
    BY <1>0, <1>6 DEF Refill, IInv, TlabInv
  <2>2. QED
    BY <1>0, <1>6, <2>1 DEF Refill, IInv, LockInv, StopInv, HandleInv,
       FlagInv, PoisonInv, EpochInv, GatherInv, RootInv
<1>7. ASSUME NEW m \in Mutator, RefillPanics(m) PROVE IInv'
  <2>1. HandleInv' /\ FlagInv'
    BY <1>0, <1>7 DEF RefillPanics, IInv, HandleInv, FlagInv
  <2>2. QED
    BY <1>0, <1>7, <2>1 DEF RefillPanics, IInv, LockInv, StopInv, PoisonInv,
       EpochInv, GatherInv, TlabInv, RootInv
<1>8. ASSUME NEW m \in Mutator, Poll(m) PROVE IInv'
  BY <1>0, <1>8 DEF Poll, IInv, LockInv, StopInv, HandleInv, FlagInv,
     PoisonInv, EpochInv, GatherInv, TlabInv, RootInv
<1>9. ASSUME NEW m \in Mutator, ParkPublish(m) PROVE IInv'
  <2>1. TlabInv' /\ RootInv'
    BY <1>0, <1>9 DEF ParkPublish, PublishRoots, IInv, TlabInv, RootInv
  <2>2. QED
    BY <1>0, <1>9, <2>1 DEF ParkPublish, PublishRoots, IInv, LockInv, StopInv,
       HandleInv, FlagInv, PoisonInv, EpochInv, GatherInv
<1>10. ASSUME NEW m \in Mutator, Park(m) PROVE IInv'
  \* the announcement of the epoch blocks
  <2>1. EpochInv'
    BY <1>0, <1>10 DEF Park, ParkTurn, Awake, IInv, EpochInv
  <2>2. GatherInv'
    BY <1>0, <1>10 DEF Park, ParkTurn, Awake, IInv, GatherInv, EpochInv
  <2>3. QED
    BY <1>0, <1>10, <2>1, <2>2 DEF Park, ParkTurn, Awake, IInv, LockInv,
       StopInv, HandleInv, FlagInv, PoisonInv, TlabInv, RootInv
<1>11. ASSUME NEW m \in Mutator, CopyBack(m) PROVE IInv'
  <2>1. RootInv'
    BY <1>0, <1>11 DEF CopyBack, IInv, RootInv
  <2>2. QED
    BY <1>0, <1>11, <2>1 DEF CopyBack, IInv, LockInv, StopInv, HandleInv,
       FlagInv, PoisonInv, EpochInv, GatherInv, TlabInv
<1>12. ASSUME NEW m \in Mutator, EnterNative(m) PROVE IInv'
  <2>1. TlabInv' /\ RootInv'
    BY <1>0, <1>12 DEF EnterNative, PublishRoots, IInv, TlabInv, RootInv
  <2>2. QED
    BY <1>0, <1>12, <2>1 DEF EnterNative, PublishRoots, IInv, LockInv,
       StopInv, HandleInv, FlagInv, PoisonInv, EpochInv, GatherInv
<1>13. ASSUME NEW m \in Mutator, AnnounceNative(m) PROVE IInv'
  <2>1. FlagInv'
    BY <1>0, <1>13 DEF AnnounceNative, IInv, FlagInv
  <2>2. GatherInv'
    BY <1>0, <1>13 DEF AnnounceNative, IInv, GatherInv
  <2>3. QED
    BY <1>0, <1>13, <2>1, <2>2 DEF AnnounceNative, IInv, LockInv, StopInv,
       HandleInv, PoisonInv, EpochInv, TlabInv, RootInv
<1>14. ASSUME NEW m \in Mutator, LeaveNative(m) PROVE IInv'
  <2>1. FlagInv' /\ EpochInv'
    BY <1>0, <1>14 DEF LeaveNative, LeaveTurn, IInv, FlagInv, EpochInv
  \* the flag is only cleared in a running world
  <2>2. GatherInv'
    BY <1>0, <1>14 DEF LeaveNative, LeaveTurn, IInv, GatherInv, StopInv
  <2>3. QED
    BY <1>0, <1>14, <2>1, <2>2 DEF LeaveNative, LeaveTurn, IInv, LockInv,
       StopInv, HandleInv, PoisonInv, TlabInv, RootInv
<1>15. ASSUME NEW m \in Mutator, LeaveRetry(m) PROVE IInv'
  <2>1. FlagInv' /\ EpochInv'
    BY <1>0, <1>15 DEF LeaveRetry, LeaveTurn, IInv, FlagInv, EpochInv
  <2>2. GatherInv'
    BY <1>0, <1>15 DEF LeaveRetry, LeaveTurn, IInv, GatherInv, StopInv
  <2>3. QED
    BY <1>0, <1>15, <2>1, <2>2 DEF LeaveRetry, LeaveTurn, IInv, LockInv,
       StopInv, HandleInv, PoisonInv, TlabInv, RootInv
<1>16. ASSUME NEW m \in Mutator, StartDrive(m) PROVE IInv'
  <2>1. TlabInv' /\ RootInv'
    BY <1>0, <1>16 DEF StartDrive, PublishRoots, IInv, TlabInv, RootInv
  <2>2. QED
    BY <1>0, <1>16, <2>1 DEF StartDrive, PublishRoots, IInv, LockInv, StopInv,
       HandleInv, FlagInv, PoisonInv, EpochInv, GatherInv
<1>17. ASSUME NEW m \in Mutator, ClaimCoordinator(m) PROVE IInv'
  <2>1. FlagInv'
    BY <1>0, <1>17 DEF ClaimCoordinator, IInv, FlagInv
  <2>2. GatherInv'
    BY <1>0, <1>17 DEF ClaimCoordinator, IInv, GatherInv
  <2>3. QED
    BY <1>0, <1>17, <2>1, <2>2 DEF ClaimCoordinator, IInv, LockInv, StopInv,
       HandleInv, PoisonInv, EpochInv, TlabInv, RootInv
<1>18. ASSUME NEW m \in Mutator, LockCoord(m) PROVE IInv'
  <2>1. LockInv' /\ StopInv'
    BY <1>0, <1>18 DEF LockCoord, IInv, LockInv, StopInv
  <2>2. FlagInv' /\ PoisonInv'
    BY <1>0, <1>18 DEF LockCoord, IInv, FlagInv, PoisonInv
  <2>3. QED
    BY <1>0, <1>18, <2>1, <2>2 DEF LockCoord, IInv, HandleInv, EpochInv,
       GatherInv, TlabInv, RootInv
<1>19. ASSUME NEW m \in Mutator, StopWorld(m) PROVE IInv'
  \* one driver at a time
  <2>1. world_running
    BY <1>0, <1>19 DEF StopWorld, IInv, LockInv, StopInv
  <2>2. LockInv' /\ StopInv'
    BY <1>0, <1>19, <2>1 DEF StopWorld, IInv, LockInv, StopInv
  \* the new epoch is announced by nobody
  <2>3. EpochInv'
    BY <1>0, <1>19, <2>1, <2>2 DEF StopWorld, IInv, EpochInv, LockInv
  <2>4. GatherInv'
    BY <1>0, <1>19, <2>1, <2>2, <2>3 DEF StopWorld, IInv, GatherInv, LockInv,
       StopInv
  <2>5. QED
    BY <1>0, <1>19, <2>1, <2>2, <2>3, <2>4 DEF StopWorld, IInv, HandleInv,
       FlagInv, PoisonInv, TlabInv, RootInv
<1>20. ASSUME NEW m \in Mutator, SnapshotRegistry(m) PROVE IInv'
  \* every active mutator is registered
  <2>1. GatherInv'
    BY <1>0, <1>20 DEF SnapshotRegistry, IInv, GatherInv, HandleInv, LockInv
  <2>2. QED
    BY <1>0, <1>20, <2>1 DEF SnapshotRegistry, IInv, LockInv, StopInv,
       HandleInv, FlagInv, PoisonInv, EpochInv, TlabInv, RootInv
<1>21. ASSUME NEW m \in Mutator, AwaitArrivals(m) PROVE IInv'
  <2>1. GatherInv'
    BY <1>0, <1>21 DEF AwaitArrivals, IInv, GatherInv, LockInv
  <2>2. QED
    BY <1>0, <1>21, <2>1 DEF AwaitArrivals, IInv, LockInv, StopInv, HandleInv,
       FlagInv, PoisonInv, EpochInv, TlabInv, RootInv
<1>22. ASSUME NEW m \in Mutator, LockHeap(m) PROVE IInv'
  <2>1. GatherInv'
    BY <1>0, <1>22 DEF LockHeap, IInv, GatherInv
  <2>2. QED
    BY <1>0, <1>22, <2>1 DEF LockHeap, IInv, LockInv, StopInv, HandleInv,
       FlagInv, PoisonInv, EpochInv, TlabInv, RootInv
<1>23. ASSUME NEW m \in Mutator, Collect(m) PROVE IInv'
  <2>1. \A o \in Mutator : is_active[o] => o \in others
    BY <1>0, <1>23 DEF Collect, Visited, IInv, GatherInv
  \* everybody has arrived
  <2>2. \A o \in Mutator : pc[o] \notin {"run", "polled"}
    BY <1>0, <1>23, <2>1 DEF Collect, Visited, IInv, LockInv, StopInv,
       HandleInv, FlagInv, PoisonInv, EpochInv, GatherInv
  <2>3. RootInv'
    BY <1>0, <1>23, <2>1, <2>2 DEF Collect, Visited, IInv, RootInv, HandleInv
  <2>4. QED
    BY <1>0, <1>23, <2>1, <2>2, <2>3 DEF Collect, Visited, IInv, LockInv,
       StopInv, HandleInv, FlagInv, PoisonInv, EpochInv, GatherInv, TlabInv
<1>24. ASSUME NEW m \in Mutator, MidEvacOom(m) PROVE IInv'
  <2>1. RootInv'
    BY <1>0, <1>24 DEF MidEvacOom, IInv, RootInv
  <2>2. QED
    BY <1>0, <1>24, <2>1 DEF MidEvacOom, IInv, LockInv, StopInv, HandleInv,
       FlagInv, PoisonInv, EpochInv, GatherInv, TlabInv
<1>25. ASSUME NEW m \in Mutator, Resume(m) PROVE IInv'
  <2>1. StopInv'
    BY <1>0, <1>25 DEF Resume, IInv, StopInv, LockInv
  <2>2. FlagInv'
    BY <1>0, <1>25 DEF Resume, IInv, FlagInv
  <2>3. EpochInv' /\ GatherInv'
    BY <1>0, <1>25 DEF Resume, IInv, EpochInv, GatherInv, LockInv
  <2>4. QED
    BY <1>0, <1>25, <2>1, <2>2, <2>3 DEF Resume, IInv, LockInv, HandleInv,
       PoisonInv, TlabInv, RootInv
<1>26. ASSUME NEW m \in Mutator, ReleaseCoord(m) PROVE IInv'
  \* ResumeGuard ran
  <2>1. world_running
    BY <1>0, <1>26 DEF ReleaseCoord, IInv, LockInv, StopInv
  <2>2. LockInv' /\ StopInv'
    BY <1>0, <1>26, <2>1 DEF ReleaseCoord, IInv, LockInv, StopInv
  <2>3. FlagInv' /\ PoisonInv'
    BY <1>0, <1>26 DEF ReleaseCoord, IInv, FlagInv, PoisonInv, LockInv
  <2>4. EpochInv' /\ GatherInv'
    BY <1>0, <1>26, <2>1, <2>2, <2>3 DEF ReleaseCoord, IInv, EpochInv,
       GatherInv, LockInv
  <2>5. RootInv'
    BY <1>0, <1>26 DEF ReleaseCoord, IInv, RootInv
  <2>6. QED
    BY <1>0, <1>26, <2>1, <2>2, <2>3, <2>4, <2>5 DEF ReleaseCoord, IInv,
       HandleInv, TlabInv
<1>27. ASSUME NEW m \in Mutator, SpuriousWake(m) PROVE IInv'
  BY <1>0, <1>27 DEF SpuriousWake, IInv, LockInv, StopInv, HandleInv, FlagInv,
     PoisonInv, EpochInv, GatherInv, TlabInv, RootInv
<1>28. CASE UNCHANGED vars
  BY <1>0, <1>28 DEF vars, IInv, LockInv, StopInv, HandleInv, FlagInv,
     PoisonInv, EpochInv, GatherInv, TlabInv, RootInv
<1>29. QED
  BY <1>1, <1>2, <1>3, <1>4, <1>5, <1>6, <1>7, <1>8, <1>9, <1>10, <1>11,
     <1>12, <1>13, <1>14, <1>15, <1>16, <1>17, <1>18, <1>19, <1>20, <1>21,
     <1>22, <1>23, <1>24, <1>25, <1>26, <1>27, <1>28
  DEF Next, OwnStep, ClientStep, DriveStep

\* The strengthened invariant holds in every reachable state.
LEMMA Invariance == Spec => []IInv
BY InvInit, InvStep, PTL DEF Spec

-----------------------------------------------------------------------------
(* What the drivers and the mutators rely on.                              *)

\* Past the wait loop of drive_collect, every active mutator but the driver
\* blocks, is in native code or queues for coord_mutex.
LEMMA WaitLoopStopsWorld ==
  ASSUME IInv, NEW d \in Mutator, pc[d] \in PassedPoints,
         NEW m \in Mutator \ {d}, is_active[m]
  PROVE  Quiescent(m)
<1> USE DEF IInv, TypeOK, Driving, PassedPoints, GatheredPoints
<1>1. coord_mutex = d /\ pc[m] \notin Driving
  BY DEF LockInv
<1>2. ~world_running /\ ~coord_poisoned
  BY DEF StopInv, StopPoints, PoisonInv
<1>3. Arrived(m)
  BY DEF GatherInv
<1>4. CASE acting[m]
  BY <1>1, <1>2, <1>4 DEF FlagInv, Quiescent
<1>5. CASE native[m]
  BY <1>5 DEF FlagInv, Quiescent
<1>6. CASE last_epoch[m] >= epoch
  BY <1>1, <1>2, <1>6 DEF EpochInv, Quiescent
<1>7. QED
  BY <1>3, <1>4, <1>5, <1>6 DEF Arrived

\* No thread runs managed code, polls or copies roots back while another one
\* collects, whichever exemption of the wait loop let it pass.
THEOREM StopsTheWorld == Spec => []WorldStopped
<1>1. IInv => WorldStopped
  BY WaitLoopStopsWorld DEF WorldStopped, PassedPoints
<1>2. QED
  BY <1>1, Invariance, PTL

\* The registry snapshot of drive_collect holds every mutator that is active
\* when the collection runs: registration waits for coord_mutex.
THEOREM MissesNobody == Spec => []NobodyMissed
<1>1. IInv => NobodyMissed
  BY DEF IInv, GatherInv, GatheredPoints, NobodyMissed
<1>2. QED
  BY <1>1, Invariance, PTL

\* A collection finds no open TLAB: every way of arriving flushes first.
THEOREM FlushesTlabs == Spec => []TlabsFlushed
<1>1. ASSUME IInv, NEW d \in Mutator, pc[d] = "collecting",
             NEW m \in Mutator, is_active[m]
      PROVE  ~tlab[m]
  <2>1. CASE m = d
    BY <1>1, <2>1 DEF IInv, TlabInv, PublishedPoints, Driving
  <2>2. CASE m # d
    <3>1. Quiescent(m)
      BY <1>1, <2>2, WaitLoopStopsWorld DEF PassedPoints
    <3>2. QED
      BY <1>1, <3>1 DEF IInv, TlabInv, PublishedPoints, Quiescent
  <2>3. QED
    BY <2>1, <2>2
<1>2. IInv => TlabsFlushed
  BY <1>1 DEF TlabsFlushed
<1>3. QED
  BY <1>2, Invariance, PTL

\* Managed code sees current addresses after any number of collections it
\* parked, called, queued or drove through, until one of them fails.
THEOREM KeepsRootsCurrent == Spec => []RootsCurrent
<1>1. IInv => RootsCurrent
  BY DEF IInv, RootInv, RootsCurrent
<1>2. QED
  BY <1>1, Invariance, PTL

\* A stopped world is owned by the holder of coord_mutex, which still has
\* ResumeGuard ahead of it.
THEOREM StoppedIsDriven == Spec => []StoppedHasDriver
<1>1. IInv => StoppedHasDriver
  BY DEF IInv, StopInv, StopPoints, StoppedHasDriver
<1>2. QED
  BY <1>1, Invariance, PTL

\* While the world stays stopped no step takes an arrival back, so the wait
\* loop may pass each mutator once, in slot order.
LEMMA ArrivalStep ==
  ASSUME IInv, [Next]_vars, ~world_running, ~world_running',
         NEW m \in Mutator, Arrived(m)
  PROVE  Arrived(m)'
<1> USE SafepointAssumption DEF IInv, TypeOK, Arrived, Goto, worldVars,
        innerVars
<1>1. ASSUME NEW a \in Mutator,
             \/ Lookup(a) \/ RegisterPanics(a) \/ Deregister(a) \/ Refill(a)
             \/ RefillPanics(a) \/ Poll(a) \/ ParkPublish(a) \/ CopyBack(a)
             \/ EnterNative(a) \/ StartDrive(a) \/ LockCoord(a)
             \/ SnapshotRegistry(a) \/ AwaitArrivals(a) \/ LockHeap(a)
             \/ Collect(a) \/ MidEvacOom(a) \/ ReleaseCoord(a)
             \/ SpuriousWake(a)
      PROVE  UNCHANGED <<worldVars, innerVars>>
  BY <1>1 DEF Lookup, RegisterPanics, Deregister, Refill, RefillPanics, Poll,
     ParkPublish, CopyBack, EnterNative, StartDrive, LockCoord,
     SnapshotRegistry, AwaitArrivals, LockHeap, Collect, MidEvacOom,
     ReleaseCoord, SpuriousWake
<1>2. ASSUME UNCHANGED <<worldVars, innerVars>> PROVE Arrived(m)'
  BY <1>2
<1>3. ASSUME NEW a \in Mutator, Register(a) PROVE FALSE
  BY <1>3 DEF Register, StopInv
<1>4. ASSUME NEW a \in Mutator,
             Deactivate(a) \/ AnnounceNative(a) \/ ClaimCoordinator(a)
      PROVE  Arrived(m)'
  BY <1>4 DEF Deactivate, AnnounceNative, ClaimCoordinator
<1>5. ASSUME NEW a \in Mutator, Park(a) PROVE Arrived(m)'
  \* it announces the epoch in force
  BY <1>5 DEF Park, ParkTurn
<1>6. ASSUME NEW a \in Mutator, LeaveNative(a) \/ LeaveRetry(a)
      PROVE  Arrived(m)'
  \* it waits and keeps the flag
  BY <1>6 DEF LeaveNative, LeaveRetry, LeaveTurn
<1>7. ASSUME NEW a \in Mutator, StopWorld(a) PROVE FALSE
  \* the driver of the stopped world holds coord_mutex
  BY <1>7 DEF StopWorld, LockInv, StopInv, Driving, StopPoints
<1>8. ASSUME NEW a \in Mutator, Resume(a) PROVE FALSE
  BY <1>8 DEF Resume
<1>9. CASE UNCHANGED vars
  BY <1>2, <1>9 DEF vars
<1>10. QED
  BY <1>1, <1>2, <1>3, <1>4, <1>5, <1>6, <1>7, <1>8, <1>9
  DEF Next, OwnStep, ClientStep, DriveStep

\* Nobody who has arrived at a stopped world leaves it before ResumeGuard.
THEOREM ArrivalsAreFinal == Spec => ArrivalIsFinal
<1>1. IInv /\ [Next]_vars =>
        [ ~world_running /\ ~world_running' =>
            \A m \in Mutator : Arrived(m) => Arrived(m)' ]_vars
  BY ArrivalStep
<1>2. QED
  BY <1>1, Invariance, PTL DEF Spec, ArrivalIsFinal

-----------------------------------------------------------------------------
(* The safety half of the refinement: every step of Safepoint is a step of *)
(* StopTheWorld under the mapping of Safepoint, or leaves it alone.  The   *)
(* liveness half of ImplementsStopTheWorld is left to TLC.                 *)

Acc == [m \in Mutator |-> AccessOf(m)]
Wan == {m \in Mutator : pc[m] \in Wanting}

\* A step that moves one thread changes the mapped state at that thread only.
LEMMA MappedStep ==
  ASSUME TypeOK, NEW m \in Mutator, NEW to \in Points, Goto(m, to)
  PROVE  /\ Acc' = [Acc EXCEPT ![m] = AccessOf(m)']
         /\ Wan' = IF to \in Wanting THEN Wan \cup {m} ELSE Wan \ {m}
         /\ AccessOf(m)' = IF to = "collecting" THEN "collector"
                           ELSE IF to \in {"run", "polled", "copyback"}
                                  THEN "mutator" ELSE "none"
  BY DEF TypeOK, Goto, Acc, Wan, AccessOf, Wanting

\* Nobody collects while coord_mutex is free or the world runs.
LEMMA NobodyCollects ==
  ASSUME IInv, coord_mutex = NoMutator \/ world_running
  PROVE  \A o \in Mutator : pc[o] # "collecting"
  BY SafepointAssumption DEF IInv, LockInv, StopInv, StopPoints, Driving

\* The steps that neither take nor give up the heap.
LEMMA StutterSteps ==
  ASSUME IInv, NEW m \in Mutator,
         \/ Lookup(m) \/ RegisterPanics(m) \/ Deregister(m) \/ Refill(m)
         \/ Poll(m) \/ AnnounceNative(m) \/ ClaimCoordinator(m)
         \/ StopWorld(m) \/ SnapshotRegistry(m) \/ AwaitArrivals(m)
         \/ Resume(m) \/ SpuriousWake(m) \/ CopyBack(m)
  PROVE  UNCHANGED <<Acc, Wan>>
<1> USE DEF IInv, TypeOK, Goto, Acc, Wan, AccessOf, Wanting, Points
<1>1. CASE Refill(m) \/ SpuriousWake(m)
  BY <1>1 DEF Refill, SpuriousWake
<1>2. CASE Lookup(m) \/ RegisterPanics(m) \/ Deregister(m) \/ Poll(m)
           \/ CopyBack(m)
  BY <1>2 DEF Lookup, RegisterPanics, Deregister, Poll, CopyBack
<1>3. CASE AnnounceNative(m) \/ ClaimCoordinator(m) \/ StopWorld(m)
           \/ SnapshotRegistry(m) \/ Resume(m)
  BY <1>3 DEF AnnounceNative, ClaimCoordinator, StopWorld, SnapshotRegistry,
     Resume
<1>4. CASE AwaitArrivals(m)
  BY <1>4 DEF AwaitArrivals
<1>5. QED
  BY <1>1, <1>2, <1>3, <1>4

\* Registration, the end of a park, of a native call and of a collection:
\* a thread starts or resumes managed code, and nobody collects.
LEMMA EnterSteps ==
  ASSUME IInv, TypeOK', NEW m \in Mutator,
         \/ Register(m) \/ Park(m) \/ LeaveNative(m) \/ LeaveRetry(m)
  PROVE  Abstract!Enter(m) \/ UNCHANGED <<Acc, Wan>>
<1> USE DEF IInv, Points
<1>1. CASE world_running \/ coord_mutex = NoMutator
  <2>1. \A o \in Mutator : AccessOf(o) # "collector"
    BY <1>1, NobodyCollects DEF AccessOf
  <2>2. Goto(m, "run") \/ Goto(m, "copyback")
    BY <1>1, SafepointAssumption DEF Register, Park, ParkTurn, LeaveNative, LeaveRetry, LeaveTurn,
       StopInv, StopPoints
  <2>3. pc[m] \in {"joining", "arriving", "parked", "native", "leaving"}
    BY DEF Register, Park, LeaveNative, LeaveRetry
  <2>4. Acc[m] = "none" /\ m \notin Wan
    BY <2>3 DEF Acc, Wan, AccessOf, Wanting
  <2>5. Acc' = [Acc EXCEPT ![m] = "mutator"] /\ Wan' = Wan
    <3>1. PICK to \in {"run", "copyback"} : Goto(m, to)
      BY <2>2
    <3>2. to \in Points /\ to \notin Wanting
      BY DEF Wanting
    <3>3. /\ Acc' = [Acc EXCEPT ![m] = AccessOf(m)']
          /\ AccessOf(m)' = "mutator"
          /\ Wan' = Wan \ {m}
      BY <3>1, <3>2, MappedStep
    <3>4. QED
      BY <2>4, <3>3
  <2>6. QED
    BY <2>1, <2>4, <2>5
    DEF Abstract!Enter, Abstract!Change, Abstract!NoCollector, Acc, Wan
<1>2. CASE ~world_running /\ ~Register(m)
  BY <1>2 DEF Park, ParkTurn, LeaveNative, LeaveRetry, LeaveTurn, Goto,
     TypeOK, Acc, Wan, AccessOf, Wanting
<1>3. QED
  BY <1>1, <1>2 DEF Register

\* A thread leaves managed code, to ask for a collection or for its own sake.
LEMMA LeaveSteps ==
  ASSUME IInv, NEW m \in Mutator,
         \/ Deactivate(m) \/ RefillPanics(m) \/ ParkPublish(m)
         \/ EnterNative(m) \/ StartDrive(m)
  PROVE  \/ Abstract!Leave(m) \/ Abstract!Request(m)
         \/ UNCHANGED <<Acc, Wan>>
<1> DEFINE targets == {"dropping", "unwind", "arriving", "entering"}
<1>1. TypeOK
  BY DEF IInv
<1>2. PICK to \in targets \cup {"claiming"} : Goto(m, to)
  BY DEF Deactivate, RefillPanics, ParkPublish, EnterNative, StartDrive
<1>3. pc[m] \in {"run", "polled", "unwind"}
  BY DEF Deactivate, RefillPanics, ParkPublish, EnterNative, StartDrive
<1>4. /\ Acc' = [Acc EXCEPT ![m] = "none"]
      /\ Wan' = IF to \in Wanting THEN Wan \cup {m} ELSE Wan \ {m}
  BY <1>1, <1>2, MappedStep DEF Points
<1>5. m \notin Wan /\ (to \in Wanting <=> to = "claiming")
  BY <1>2, <1>3 DEF Wan, Wanting
<1>6. CASE pc[m] = "unwind"
  <2>1. to # "claiming" /\ Acc[m] = "none"
    BY <1>1, <1>2, <1>6 DEF Deactivate, RefillPanics, ParkPublish,
       EnterNative, StartDrive, Goto, TypeOK, Acc, AccessOf
  <2>2. QED
    BY <1>4, <1>5, <2>1 DEF Acc
<1>7. CASE pc[m] # "unwind"
  <2>1. Acc[m] = "mutator"
    BY <1>3, <1>7 DEF Acc, AccessOf
  <2>2. QED
    BY <1>4, <1>5, <2>1 DEF Abstract!Leave, Abstract!Request,
       Abstract!Change, Acc, Wan
<1>8. QED
  BY <1>6, <1>7

\* Locking the heap hands it to the collector: every other thread is out.
LEMMA LockHeapStep ==
  ASSUME IInv, NEW d \in Mutator, LockHeap(d)
  PROVE  Abstract!Begin(d) \/ Abstract!Abandon(d)
<1>1. TypeOK /\ pc[d] = "stopped"
  BY DEF IInv, LockHeap
<1>2. ASSUME NEW m \in Mutator PROVE Acc[m] = "none"
  <2>1. CASE m = d
    BY <1>1, <2>1 DEF Acc, AccessOf
  <2>2. CASE m # d /\ is_active[m]
    <3>1. Quiescent(m)
      BY <1>1, <2>2, WaitLoopStopsWorld DEF PassedPoints
    <3>2. QED
      BY <3>1 DEF Quiescent, Acc, AccessOf
  <2>3. CASE ~is_active[m]
    BY <2>3 DEF IInv, HandleInv, Acc, AccessOf
  <2>4. QED
    BY <2>1, <2>2, <2>3
<1>3. d \in Wan
  BY <1>1 DEF Wan, Wanting
<1>4. CASE heap_poisoned
  <2>1. Acc' = [Acc EXCEPT ![d] = "none"] /\ Wan' = Wan \ {d}
    <3>1. Goto(d, "resuming")
      BY <1>4 DEF LockHeap
    <3>2. QED
      BY <1>1, <3>1, MappedStep DEF Points, Driving, Wanting
  <2>2. QED
    BY <1>2, <1>3, <2>1 DEF Abstract!Abandon, Acc, Wan
<1>5. CASE ~heap_poisoned
  <2>1. Acc' = [Acc EXCEPT ![d] = "collector"] /\ Wan' = Wan
    <3>1. Goto(d, "collecting")
      BY <1>5 DEF LockHeap
    <3>2. QED
      BY <1>1, <1>3, <3>1, MappedStep DEF Points, Driving, Wanting
  <2>2. QED
    BY <1>2, <1>3, <2>1 DEF Abstract!Begin, Abstract!Change, Acc, Wan
<1>6. QED
  BY <1>4, <1>5

\* A collection gives the heap back, also when it fails.
LEMMA CollectStep ==
  ASSUME IInv, NEW d \in Mutator, Collect(d) \/ MidEvacOom(d)
  PROVE  Abstract!Finish(d)
<1>1. TypeOK /\ pc[d] = "collecting" /\ Goto(d, "resuming")
  BY DEF IInv, Collect, MidEvacOom
<1>2. Acc[d] = "collector"
  BY <1>1 DEF Acc, AccessOf
<1>3. Acc' = [Acc EXCEPT ![d] = "none"] /\ Wan' = Wan \ {d}
  BY <1>1, MappedStep DEF Points, Driving, Wanting
<1>4. QED
  BY <1>2, <1>3 DEF Abstract!Finish, Abstract!Change, Acc, Wan

\* coord_mutex is given up, or found poisoned.
LEMMA CoordStep ==
  ASSUME IInv, NEW d \in Mutator, LockCoord(d) \/ ReleaseCoord(d)
  PROVE  \/ Abstract!Enter(d) \/ Abstract!Abandon(d)
         \/ UNCHANGED <<Acc, Wan>>
<1>1. TypeOK
  BY DEF IInv
<1>2. CASE LockCoord(d) /\ ~coord_poisoned
  BY <1>1, <1>2 DEF LockCoord, Goto, TypeOK, Acc, Wan, AccessOf, Wanting
<1>3. CASE LockCoord(d) /\ coord_poisoned
  <2>1. Goto(d, "unwind") /\ Acc[d] = "none" /\ d \in Wan
    BY <1>3 DEF LockCoord, Acc, Wan, AccessOf, Wanting
  <2>2. Acc' = [Acc EXCEPT ![d] = "none"] /\ Wan' = Wan \ {d}
    BY <1>1, <2>1, MappedStep DEF Points, Wanting
  <2>3. QED
    BY <2>1, <2>2 DEF Abstract!Abandon, Acc, Wan
<1>4. CASE ReleaseCoord(d) /\ heap_poisoned
  BY <1>1, <1>4 DEF ReleaseCoord, Goto, TypeOK, Acc, Wan, AccessOf, Wanting
<1>5. CASE ReleaseCoord(d) /\ ~heap_poisoned
  <2>1. Goto(d, "copyback") /\ Acc[d] = "none" /\ d \notin Wan
    BY <1>5 DEF ReleaseCoord, Acc, Wan, AccessOf, Wanting
  <2>2. Acc' = [Acc EXCEPT ![d] = "mutator"] /\ Wan' = Wan
    BY <1>1, <2>1, MappedStep DEF Points, Wanting
  <2>3. \A o \in Mutator : Acc[o] # "collector"
    BY <1>1, <1>5 DEF ReleaseCoord, IInv, LockInv, Driving, Acc, AccessOf
  <2>4. QED
    BY <2>1, <2>2, <2>3 DEF Abstract!Enter, Abstract!Change,
       Abstract!NoCollector, Acc, Wan
<1>6. QED
  BY <1>2, <1>3, <1>4, <1>5

\* Every behaviour of the protocol is one of StopTheWorld: managed code and
\* the collector exclude each other, and a thread that asked for a collection
\* runs no managed code before it has been run or given up.
THEOREM Implements == Spec => Abstract!Spec
<1>1. Init => Abstract!Init
  BY DEF Init, Abstract!Init, AccessOf, Wanting
<1>2. IInv /\ TypeOK' /\ [Next]_vars => [Abstract!Next]_(Abstract!vars)
  <2> SUFFICES ASSUME IInv, TypeOK', [Next]_vars
               PROVE  Abstract!Next \/ UNCHANGED <<Acc, Wan>>
    BY DEF Abstract!vars, Acc, Wan
  <2>1. ASSUME NEW m \in Mutator, OwnStep(m) \/ ClientStep(m)
        PROVE  Abstract!Next \/ UNCHANGED <<Acc, Wan>>
    BY <2>1, StutterSteps, EnterSteps, LeaveSteps, LockHeapStep, CollectStep,
       CoordStep, Zenon
    DEF OwnStep, ClientStep, DriveStep, Abstract!Next
  <2>2. CASE UNCHANGED vars
    BY <2>2 DEF vars, Acc, Wan, AccessOf
  <2>3. QED
    BY <2>1, <2>2 DEF Next
<1>3. IInv => TypeOK
  BY DEF IInv
<1>4. QED
  BY <1>1, <1>2, <1>3, Invariance, PTL DEF Spec, Abstract!Spec
=============================================================================
