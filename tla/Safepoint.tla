------------------------------ MODULE Safepoint ------------------------------
(***************************************************************************)
(* The cooperative stop-the-world protocol of page_heap/mutator.rs and     *)
(* page_heap/shared.rs: mutators register, allocate from thread-local      *)
(* buffers, poll, park, cross into native code and drop; any of them may   *)
(* drive a collection, which must own the heap alone.                      *)
(*                                                                         *)
(* A critical section of park_mutex is one step, because nothing that is   *)
(* written inside one is read outside it except the epoch.  park_cv is the *)
(* set `waiters'; a notify_all empties it, and a waiter runs again only    *)
(* when it has left the set (by a notify, a spurious wake-up or the        *)
(* driver's wait_timeout).  Root addresses are abstracted to one bit per   *)
(* copy of a root set: does it still name where the objects are now?       *)
(***************************************************************************)
EXTENDS Naturals, FiniteSets

CONSTANTS
  Mutator,      \* threads that may hold a Mutator handle
  NoMutator,    \* "the lock is free"
  MaxEpoch,     \* bound: collections driven in a behaviour
  OomPossible   \* may a collection fail in mid-evacuation?

ASSUME SafepointAssumption ==
  /\ NoMutator \notin Mutator
  /\ MaxEpoch \in Nat
  /\ OomPossible \in BOOLEAN

VARIABLES
  epoch,           \* Safepoint::epoch
  world_running,   \* Safepoint::world_running
  waiters,         \* threads blocked on Safepoint::park_cv
  coord_mutex,     \* holder of SharedHeap::coord_mutex
  heap_mutex,      \* holder of GcCoordinator::heap, beyond one step
  coord_poisoned,  \* a thread panicked while holding coord_mutex
  heap_poisoned,   \* ... and heap
  registered,      \* registry slots that are Some
  last_epoch, is_active, acting, native,  \* MutatorInner, per mutator
  tlab,            \* does the mutator hold a TLAB into some page?
  rootsValid,      \* are the caller's root words current addresses?
  snapValid,       \* are the words in roots_snapshot?
  others,          \* the driver's registry snapshot
  pending,         \* mutators its wait loop has still to pass
  pc

lockVars == <<coord_mutex, heap_mutex, coord_poisoned, heap_poisoned>>
worldVars == <<epoch, world_running>>
innerVars == <<last_epoch, is_active, acting, native>>
dataVars == <<tlab, rootsValid, snapValid>>
driverVars == <<others, pending>>
vars == <<worldVars, waiters, lockVars, registered, innerVars, dataVars,
          driverVars, pc>>

(* Program points.  The last group is drive_collect while it holds        *)
(* coord_mutex.                                                           *)
Driving == {"stopping", "gathering", "awaiting", "stopped", "collecting",
            "resuming", "releasing"}
Points == {"out", "joining", "run", "polled", "arriving", "parked",
           "entering", "native", "leaving", "claiming", "queueing",
           "copyback", "unwind", "dropping"} \cup Driving

Goto(m, point) == pc' = [pc EXCEPT ![m] = point]
NotifyAll == waiters' = {}
Awake(m) == m \notin waiters

Init ==
  /\ epoch = 0
  /\ world_running = TRUE
  /\ waiters = {}
  /\ coord_mutex = NoMutator
  /\ heap_mutex = NoMutator
  /\ coord_poisoned = FALSE
  /\ heap_poisoned = FALSE
  /\ registered = {}
  /\ last_epoch = [m \in Mutator |-> 0]
  /\ is_active = [m \in Mutator |-> FALSE]
  /\ acting = [m \in Mutator |-> FALSE]
  /\ native = [m \in Mutator |-> FALSE]
  /\ tlab = [m \in Mutator |-> FALSE]
  /\ rootsValid = [m \in Mutator |-> TRUE]
  /\ snapValid = [m \in Mutator |-> TRUE]
  /\ others = {}
  /\ pending = {}
  /\ pc = [m \in Mutator |-> "out"]

-----------------------------------------------------------------------------
(* Registration and drop.                                                  *)

\* register_mutator, first half: cache the handles under the heap lock.
\* A poisoned lock panics in the caller, which never becomes a mutator.
Lookup(m) ==
  /\ pc[m] = "out"
  /\ heap_mutex = NoMutator
  /\ ~heap_poisoned
  /\ Goto(m, "joining")
  /\ UNCHANGED <<worldVars, waiters, lockVars, registered, innerVars,
                 dataVars, driverVars>>

\* Mutant of Register: registration does not wait for coord_mutex.
RegisterUnserialized(m) ==
  /\ pc[m] = "joining"
  /\ registered' = registered \cup {m}
  /\ last_epoch' = [last_epoch EXCEPT ![m] = epoch]
  /\ is_active' = [is_active EXCEPT ![m] = TRUE]
  /\ Goto(m, "run")
  /\ UNCHANGED <<worldVars, waiters, lockVars, acting, native, dataVars,
                 driverVars>>

\* register_mutator, second half: a fresh MutatorInner at the current epoch,
\* entered in the registry under coord_mutex.
Register(m) ==
  /\ pc[m] = "joining"
  /\ coord_mutex = NoMutator
  /\ ~coord_poisoned
  /\ registered' = registered \cup {m}
  /\ last_epoch' = [last_epoch EXCEPT ![m] = epoch]
  /\ is_active' = [is_active EXCEPT ![m] = TRUE]
  /\ acting' = [acting EXCEPT ![m] = FALSE]
  /\ native' = [native EXCEPT ![m] = FALSE]
  /\ tlab' = [tlab EXCEPT ![m] = FALSE]
  /\ rootsValid' = [rootsValid EXCEPT ![m] = TRUE]
  /\ snapValid' = [snapValid EXCEPT ![m] = TRUE]
  /\ Goto(m, "run")
  /\ UNCHANGED <<worldVars, waiters, lockVars, driverVars>>

\* coord_mutex.lock().unwrap() panics in register_mutator.
RegisterPanics(m) ==
  /\ pc[m] = "joining"
  /\ coord_poisoned
  /\ Goto(m, "out")
  /\ UNCHANGED <<worldVars, waiters, lockVars, registered, innerVars,
                 dataVars, driverVars>>

\* Drop for Mutator, by choice or while unwinding a panic.
Deactivate(m) ==
  /\ pc[m] \in {"run", "unwind"}
  /\ is_active' = [is_active EXCEPT ![m] = FALSE]
  /\ NotifyAll
  /\ Goto(m, "dropping")
  /\ UNCHANGED <<worldVars, lockVars, registered, last_epoch, acting, native,
                 dataVars, driverVars>>

Deregister(m) ==
  /\ pc[m] = "dropping"
  /\ registered' = registered \ {m}
  /\ Goto(m, "out")
  /\ UNCHANGED <<worldVars, waiters, lockVars, innerVars, dataVars,
                 driverVars>>

-----------------------------------------------------------------------------
(* Allocation.  A bump inside the TLAB changes nothing the protocol sees;  *)
(* a refill takes the heap lock once, and panics when it is poisoned.      *)

Refill(m) ==
  /\ pc[m] = "run"
  /\ ~tlab[m]
  /\ heap_mutex = NoMutator
  /\ ~heap_poisoned
  /\ tlab' = [tlab EXCEPT ![m] = TRUE]
  /\ UNCHANGED <<worldVars, waiters, lockVars, registered, innerVars,
                 rootsValid, snapValid, driverVars, pc>>

RefillPanics(m) ==
  /\ pc[m] = "run"
  /\ ~tlab[m]
  /\ heap_poisoned
  /\ Goto(m, "unwind")
  /\ UNCHANGED <<worldVars, waiters, lockVars, registered, innerVars,
                 dataVars, driverVars>>

-----------------------------------------------------------------------------
(* Safepoint poll and park.                                                *)

\* poll_safepoint: the two unlocked loads; equal epochs return at once.
Poll(m) ==
  /\ pc[m] = "run"
  /\ last_epoch[m] # epoch
  /\ Goto(m, "polled")
  /\ UNCHANGED <<worldVars, waiters, lockVars, registered, innerVars,
                 dataVars, driverVars>>

\* Mutant of PublishRoots: the TLABs stay open across the announcement.
PublishWithoutFlush(m) ==
  /\ snapValid' = [snapValid EXCEPT ![m] = rootsValid[m]]
  /\ UNCHANGED <<tlab, rootsValid>>

\* Store the root words in roots_snapshot and flush_tlabs: the common first
\* move of park, enter_native and drive_collect.
PublishRoots(m) ==
  /\ snapValid' = [snapValid EXCEPT ![m] = rootsValid[m]]
  /\ tlab' = [tlab EXCEPT ![m] = FALSE]
  /\ UNCHANGED rootsValid

ParkPublish(m) ==
  /\ pc[m] = "polled"
  /\ PublishRoots(m)
  /\ Goto(m, "arriving")
  /\ UNCHANGED <<worldVars, waiters, lockVars, registered, innerVars,
                 driverVars>>

\* Mutant of ParkTurn: a straggler does not re-arm at a newer epoch.
ParkTurnNoRearm(m) ==
  /\ last_epoch' = [last_epoch EXCEPT ![m] = IF pc[m] = "arriving" THEN epoch
                                                                  ELSE @]
  /\ IF world_running
       THEN UNCHANGED waiters /\ Goto(m, "copyback")
       ELSE waiters' = waiters \cup {m} /\ Goto(m, "parked")

\* One turn of park's loop, up to the break or the wait: re-arm last_epoch
\* at the epoch in force and announce it if it moved.
ParkTurn(m) ==
  LET woken == IF last_epoch[m] # epoch THEN {} ELSE waiters IN
  /\ last_epoch' = [last_epoch EXCEPT ![m] = epoch]
  /\ IF world_running
       THEN waiters' = woken /\ Goto(m, "copyback")
       ELSE waiters' = woken \cup {m} /\ Goto(m, "parked")

Park(m) ==
  /\ \/ pc[m] = "arriving"
     \/ pc[m] = "parked" /\ Awake(m)
  /\ ParkTurn(m)
  /\ UNCHANGED <<worldVars, lockVars, registered, is_active, acting, native,
                 dataVars, driverVars>>

\* The tail of park, leave_native and drive_collect: copy the collector's
\* addresses back into the caller's slots.
CopyBack(m) ==
  /\ pc[m] = "copyback"
  /\ rootsValid' = [rootsValid EXCEPT ![m] = snapValid[m]]
  /\ Goto(m, "run")
  /\ UNCHANGED <<worldVars, waiters, lockVars, registered, innerVars, tlab,
                 snapValid, driverVars>>

-----------------------------------------------------------------------------
(* Native calls.                                                           *)

EnterNative(m) ==
  /\ pc[m] = "run"
  /\ PublishRoots(m)
  /\ Goto(m, "entering")
  /\ UNCHANGED <<worldVars, waiters, lockVars, registered, innerVars,
                 driverVars>>

AnnounceNative(m) ==
  /\ pc[m] = "entering"
  /\ native' = [native EXCEPT ![m] = TRUE]
  /\ NotifyAll
  /\ Goto(m, "native")
  /\ UNCHANGED <<worldVars, lockVars, registered, last_epoch, is_active,
                 acting, dataVars, driverVars>>

\* Mutant of LeaveTurn: the flag is cleared without waiting for the world.
LeaveTurnAtOnce(m) ==
  /\ native' = [native EXCEPT ![m] = FALSE]
  /\ Goto(m, "copyback")
  /\ UNCHANGED <<last_epoch, waiters>>

\* leave_native: wait out a stopped world, then adopt the current epoch.
LeaveTurn(m) ==
  IF world_running
    THEN /\ last_epoch' = [last_epoch EXCEPT ![m] = epoch]
         /\ native' = [native EXCEPT ![m] = FALSE]
         /\ Goto(m, "copyback")
         /\ UNCHANGED waiters
    ELSE /\ waiters' = waiters \cup {m}
         /\ Goto(m, "leaving")
         /\ UNCHANGED <<last_epoch, native>>

LeaveNative(m) ==
  /\ pc[m] = "native"
  /\ LeaveTurn(m)
  /\ UNCHANGED <<worldVars, lockVars, registered, is_active, acting,
                 dataVars, driverVars>>

LeaveRetry(m) ==
  /\ pc[m] = "leaving"
  /\ Awake(m)
  /\ LeaveTurn(m)
  /\ UNCHANGED <<worldVars, lockVars, registered, is_active, acting,
                 dataVars, driverVars>>

-----------------------------------------------------------------------------
(* drive_collect, the body of Mutator::collect_minor and collect_full.     *)

\* Drives begun and not yet counted by the epoch; only bounds the model.
Requested == {m \in Mutator : pc[m] \in {"claiming", "queueing", "stopping"}}

StartDrive(m) ==
  /\ pc[m] = "run"
  /\ epoch + Cardinality(Requested) < MaxEpoch
  /\ PublishRoots(m)
  /\ Goto(m, "claiming")
  /\ UNCHANGED <<worldVars, waiters, lockVars, registered, innerVars,
                 driverVars>>

\* Mutant of ClaimCoordinator: the flag is stored without a notify.
ClaimSilently(m) ==
  /\ pc[m] = "claiming"
  /\ acting' = [acting EXCEPT ![m] = TRUE]
  /\ Goto(m, "queueing")
  /\ UNCHANGED <<worldVars, waiters, lockVars, registered, last_epoch,
                 is_active, native, dataVars, driverVars>>

ClaimCoordinator(m) ==
  /\ pc[m] = "claiming"
  /\ acting' = [acting EXCEPT ![m] = TRUE]
  /\ NotifyAll
  /\ Goto(m, "queueing")
  /\ UNCHANGED <<worldVars, lockVars, registered, last_epoch, is_active,
                 native, dataVars, driverVars>>

LockCoord(m) ==
  /\ pc[m] = "queueing"
  /\ coord_mutex = NoMutator
  /\ IF coord_poisoned
       THEN Goto(m, "unwind") /\ UNCHANGED coord_mutex
       ELSE Goto(m, "stopping") /\ coord_mutex' = m
  /\ UNCHANGED <<worldVars, waiters, heap_mutex, coord_poisoned,
                 heap_poisoned, registered, innerVars, dataVars, driverVars>>

\* Epoch bump and world stop in one critical section of park_mutex.
StopWorld(m) ==
  /\ pc[m] = "stopping"
  /\ epoch' = epoch + 1
  /\ last_epoch' = [last_epoch EXCEPT ![m] = epoch + 1]
  /\ world_running' = FALSE
  /\ Goto(m, "gathering")
  /\ UNCHANGED <<waiters, lockVars, registered, is_active, acting, native,
                 dataVars, driverVars>>

\* Mutant of SnapshotRegistry: empty slots are not filtered out.
SnapshotWithHoles(m) ==
  /\ pc[m] = "gathering"
  /\ others' = registered \cup {NoMutator}
  /\ pending' = registered
  /\ Goto(m, "awaiting")
  /\ UNCHANGED <<worldVars, waiters, lockVars, registered, innerVars,
                 dataVars>>

SnapshotRegistry(m) ==
  /\ pc[m] = "gathering"
  /\ others' = registered
  /\ pending' = registered
  /\ Goto(m, "awaiting")
  /\ UNCHANGED <<worldVars, waiters, lockVars, registered, innerVars,
                 dataVars>>

\* Mutant of Arrived: a mutator parked for the previous epoch counts.
ArrivedLastTime(m) ==
  \/ ~is_active[m] \/ acting[m] \/ native[m]
  \/ last_epoch[m] + 1 >= epoch

\* The wait predicate of the driver, negated.  `epoch' is the driver's
\* target: it bumped it and holds coord_mutex.
Arrived(m) ==
  \/ ~is_active[m]
  \/ acting[m]
  \/ native[m]
  \/ last_epoch[m] >= epoch

\* The driver passes mutators in slot order until one is missing and never
\* looks back: those it has passed may be any of the arrived.
AwaitArrivals(m) ==
  /\ pc[m] = "awaiting"
  /\ Awake(m)
  /\ LET late == {o \in pending : ~Arrived(o)} IN
       \/ /\ late = {}
          /\ pending' = {}
          /\ Goto(m, "stopped")
          /\ UNCHANGED waiters
       \/ /\ late # {}
          /\ \E passed \in SUBSET (pending \ late) :
               pending' = pending \ passed
          /\ waiters' = waiters \cup {m}
          /\ UNCHANGED pc
  /\ UNCHANGED <<worldVars, lockVars, registered, innerVars, dataVars,
                 others>>

LockHeap(m) ==
  /\ pc[m] = "stopped"
  /\ heap_mutex = NoMutator
  /\ IF heap_poisoned
       THEN Goto(m, "resuming") /\ UNCHANGED heap_mutex
       ELSE Goto(m, "collecting") /\ heap_mutex' = m
  /\ UNCHANGED <<worldVars, waiters, coord_mutex, coord_poisoned,
                 heap_poisoned, registered, innerVars, dataVars, driverVars>>

\* Mutant of Visited: threads that are not waited for are not visited.
VisitedParked == {o \in others : is_active[o] /\ ~native[o]}

\* The collection: every object moves, and only the words it visits -- the
\* snapshots of the mutators in `others' that are active -- are forwarded.
Visited == {o \in others : is_active[o]}

Collect(m) ==
  /\ pc[m] = "collecting"
  /\ rootsValid' = [o \in Mutator |-> FALSE]
  /\ snapValid' = [o \in Mutator |-> o \in Visited /\ snapValid[o]]
  /\ heap_mutex' = NoMutator
  /\ Goto(m, "resuming")
  /\ UNCHANGED <<worldVars, waiters, coord_mutex, coord_poisoned,
                 heap_poisoned, registered, innerVars, tlab, driverVars>>

\* Mutant of MidEvacOom: the panic unwinds past a missing ResumeGuard.
MidEvacOomUnguarded(m) ==
  /\ OomPossible
  /\ pc[m] = "collecting"
  /\ heap_mutex' = NoMutator
  /\ heap_poisoned' = TRUE
  /\ Goto(m, "releasing")
  /\ UNCHANGED <<worldVars, waiters, coord_mutex, coord_poisoned, registered,
                 innerVars, dataVars, driverVars>>

\* phase 1 finds no free page and panics: the heap guard is dropped while
\* unwinding, so the lock is poisoned and objects are left half forwarded.
MidEvacOom(m) ==
  /\ OomPossible
  /\ pc[m] = "collecting"
  /\ rootsValid' = [o \in Mutator |-> FALSE]
  /\ snapValid' = [o \in Mutator |-> FALSE]
  /\ heap_mutex' = NoMutator
  /\ heap_poisoned' = TRUE
  /\ Goto(m, "resuming")
  /\ UNCHANGED <<worldVars, waiters, coord_mutex, coord_poisoned, registered,
                 innerVars, tlab, driverVars>>

\* ResumeGuard::drop, on return and on unwind alike.
Resume(m) ==
  /\ pc[m] = "resuming"
  /\ world_running' = TRUE
  /\ acting' = [acting EXCEPT ![m] = FALSE]
  /\ NotifyAll
  /\ Goto(m, "releasing")
  /\ UNCHANGED <<epoch, lockVars, registered, last_epoch, is_active, native,
                 dataVars, driverVars>>

\* The coord_mutex guard goes last; dropped by a panic, it is poisoned.
ReleaseCoord(m) ==
  /\ pc[m] = "releasing"
  /\ coord_mutex' = NoMutator
  /\ coord_poisoned' = heap_poisoned
  /\ Goto(m, IF heap_poisoned THEN "unwind" ELSE "copyback")
  /\ others' = {}
  /\ UNCHANGED <<worldVars, waiters, heap_mutex, heap_poisoned, registered,
                 innerVars, dataVars, pending>>

-----------------------------------------------------------------------------
\* Condvar wake-ups nobody sent: spurious ones, and the driver's timeout.
SpuriousWake(m) ==
  /\ m \in waiters
  /\ waiters' = waiters \ {m}
  /\ UNCHANGED <<worldVars, lockVars, registered, innerVars, dataVars,
                 driverVars, pc>>

DriveStep(m) ==
  \/ ClaimCoordinator(m) \/ LockCoord(m) \/ StopWorld(m)
  \/ SnapshotRegistry(m) \/ AwaitArrivals(m) \/ LockHeap(m)
  \/ Collect(m) \/ MidEvacOom(m) \/ Resume(m) \/ ReleaseCoord(m)

\* Steps a thread takes without being asked: the rest of what it began.
OwnStep(m) ==
  \/ Register(m) \/ RegisterPanics(m) \/ Deregister(m)
  \/ Poll(m) \/ ParkPublish(m) \/ Park(m) \/ CopyBack(m)
  \/ AnnounceNative(m) \/ LeaveRetry(m) \/ DriveStep(m)
  \/ pc[m] = "unwind" /\ Deactivate(m)

\* Steps the client program chooses to take, or its environment takes.
ClientStep(m) ==
  \/ Lookup(m) \/ Refill(m) \/ RefillPanics(m) \/ EnterNative(m)
  \/ LeaveNative(m) \/ StartDrive(m) \/ SpuriousWake(m)
  \/ pc[m] = "run" /\ Deactivate(m)

Next == \E m \in Mutator : OwnStep(m) \/ ClientStep(m)

\* Every thread keeps running; nobody is obliged to allocate, to return from
\* native code, to collect or to drop, and no wake-up comes unasked.
Fairness == \A m \in Mutator : WF_vars(OwnStep(m))

Spec == Init /\ [][Next]_vars
FairSpec == Spec /\ Fairness

-----------------------------------------------------------------------------
(* Properties.                                                             *)

\* The state stays in its types (the fields of Safepoint, SharedHeap and
\* MutatorInner, and the program points of the methods of Mutator).
TypeOK ==
  /\ epoch \in Nat
  /\ world_running \in BOOLEAN
  /\ waiters \subseteq Mutator
  /\ coord_mutex \in Mutator \cup {NoMutator}
  /\ heap_mutex \in Mutator \cup {NoMutator}
  /\ coord_poisoned \in BOOLEAN
  /\ heap_poisoned \in BOOLEAN
  /\ registered \subseteq Mutator
  /\ last_epoch \in [Mutator -> Nat]
  /\ is_active \in [Mutator -> BOOLEAN]
  /\ acting \in [Mutator -> BOOLEAN]
  /\ native \in [Mutator -> BOOLEAN]
  /\ tlab \in [Mutator -> BOOLEAN]
  /\ rootsValid \in [Mutator -> BOOLEAN]
  /\ snapValid \in [Mutator -> BOOLEAN]
  /\ others \subseteq Mutator
  /\ pending \subseteq Mutator
  /\ pc \in [Mutator -> Points]

\* Where an active mutator may be while another thread owns the heap: blocked
\* in park, in or just out of native code, or queueing to drive.
Quiescent(m) == pc[m] \in {"parked", "native", "leaving", "queueing"}

\* While the driver collects, every other active mutator is quiescent: none
\* runs managed code, polls, publishes or copies roots (drive_collect's wait
\* loop, with the exemptions it makes, really stops the world).
WorldStopped ==
  \A d \in Mutator : pc[d] = "collecting" =>
    \A m \in Mutator \ {d} : is_active[m] => Quiescent(m)

\* ... and every active mutator is among those whose snapshot it visits:
\* nobody registers between the registry snapshot and the collection.
NobodyMissed ==
  \A d \in Mutator : pc[d] = "collecting" =>
    \A m \in Mutator : is_active[m] => m \in others

\* ... and no active mutator still holds a TLAB into a page that the
\* collection may move or release (flush_tlabs before every announcement).
TlabsFlushed ==
  \A d \in Mutator : pc[d] = "collecting" =>
    \A m \in Mutator : is_active[m] => ~tlab[m]

\* A mutator that runs managed code holds current addresses only, whatever
\* collections it slept, called or queued through -- until one of them fails
\* half way, which leaves the heap in an indeterminate state.
RootsCurrent ==
  ~heap_poisoned =>
    \A m \in Mutator : pc[m] \in {"run", "polled"} => rootsValid[m]

\* A stopped world has a thread that is bound to resume it: the holder of
\* coord_mutex, between the stop and ResumeGuard, also after an OOM panic.
StoppedHasDriver ==
  ~world_running =>
    \E d \in Mutator :
      /\ coord_mutex = d
      /\ pc[d] \in {"gathering", "awaiting", "stopped", "collecting",
                    "resuming"}

\* The driver's wait loop passes each mutator once and never re-checks it.
\* That is sound because an arrival is final for as long as the world is
\* stopped: no step of anybody takes one back.
ArrivalIsFinal ==
  [][ ~world_running /\ ~world_running' =>
        \A m \in Mutator : Arrived(m) => Arrived(m)' ]_vars

\* Every collection that is begun ends, in the driver or by unwinding it.  No
\* fairness on SpuriousWake: the wait_timeout of the driver is not needed
\* ("a diagnostic backstop only", shared.rs).
DriveEnds ==
  \A m \in Mutator : pc[m] = "claiming" ~> pc[m] \in {"copyback", "unwind"}

\* Whoever was stopped, parked or on its way out of native code, runs again.
StoppedRunsAgain ==
  \A m \in Mutator : pc[m] \in {"parked", "leaving"} ~> pc[m] = "run"

-----------------------------------------------------------------------------
(* Refinement.                                                             *)

AccessOf(m) ==
  IF pc[m] = "collecting" THEN "collector"
  ELSE IF pc[m] \in {"run", "polled", "copyback"} THEN "mutator" ELSE "none"

Wanting == {"claiming", "queueing", "stopping", "gathering", "awaiting",
            "stopped", "collecting"}

Abstract == INSTANCE StopTheWorld WITH
  access <- [m \in Mutator |-> AccessOf(m)],
  wanted <- {m \in Mutator : pc[m] \in Wanting}

\* The protocol keeps the promise of StopTheWorld: managed code and the
\* collector never overlap, and every drive_collect runs or unwinds.
ImplementsStopTheWorld == Abstract!FairSpec
=============================================================================
