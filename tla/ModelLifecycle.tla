---------------------------- MODULE ModelLifecycle ----------------------------
(***************************************************************************)
(* Load, reload and retirement of one stateful model version               *)
(* (StatefulModelInstance::loadModel, reloadModel, retireModel,            *)
(* cleanupFailedLoad, loadModelImpl) and its registration with the         *)
(* process-wide reaper.  All of them run under the instance's loading      *)
(* mutex, so each is one atomic step here.                                 *)
(*                                                                         *)
(* SequenceManagers are numbered in creation order.  loadModelImpl creates *)
(* a new one and the instance keeps only the current one; the reaper's     *)
(* registry holds a non-owning reference (spec.md 9), so a registered      *)
(* manager that is no longer the instance's current one has been freed.    *)
(* The base class ModelInstance is not in this repository: its load and    *)
(* reload either succeed (the version becomes AVAILABLE) or fail after     *)
(* loadModelImpl, and then cleanupFailedLoad drops the new manager.        *)
(***************************************************************************)
EXTENDS Naturals

CONSTANTS
    MaxManagers,    \* bound: SequenceManagers created over a behaviour
    RetireKinds     \* the isPermanent values retireModel is called with

VARIABLES
    mstate,          \* the version's state, as far as this module reads it
    autoCleanup,     \* autoCleanupEnabled
    manager,         \* the instance's sequenceManager (0: none)
    created,         \* SequenceManagers created so far
    registry,        \* the manager registered for cleanup (0: none)
    cleaner          \* the reaper's thread: NotStarted, Running or Joined

vars == <<mstate, autoCleanup, manager, created, registry, cleaner>>

States == {"NEW", "AVAILABLE", "FAILED", "RETIRED"}

Init ==
    /\ mstate = "NEW"
    /\ autoCleanup = FALSE
    /\ manager = 0
    /\ created = 0
    /\ registry = 0
    /\ cleaner = "NotStarted"

(***************************************************************************)
(* GlobalSequencesViewer: registering and unregistering are idempotent;    *)
(* registering a version that is already registered leaves the existing    *)
(* registration in place.                                                  *)
(***************************************************************************)
RegisteredAfter(m) == IF registry = 0 THEN m ELSE registry

(***************************************************************************)
(* loadOVCompiledModel: when the config asks for it, the low-latency pass  *)
(* runs first, and an exception from it fails the load with INTERNAL_ERROR *)
(* before the base class loads the compiled model, which may fail too.     *)
(***************************************************************************)
LoadOVCompiledModel(lowLatency, passThrows, baseOk) ==
    IF lowLatency /\ passThrows THEN FALSE ELSE baseOk

\* The outcomes of a base load or reload: every config and every runtime.
LoadOutcomes ==
    {LoadOVCompiledModel(l, p, b) : l \in BOOLEAN, p \in BOOLEAN, b \in BOOLEAN}

(***************************************************************************)
(* ModelInstance::loadModel / reloadModel with loadModelImpl: a new        *)
(* manager is created; on failure cleanupFailedLoad drops it.              *)
(***************************************************************************)
BaseLoad(ok) ==
    /\ created < MaxManagers
    /\ created' = created + 1
    /\ manager' = IF ok THEN created + 1 ELSE 0
    /\ mstate' = IF ok THEN "AVAILABLE" ELSE "FAILED"
    /\ UNCHANGED cleaner

(***************************************************************************)
(* loadModel: autoCleanupEnabled is taken from the config first; after a   *)
(* successful load the manager is registered if cleanup is on.             *)
(***************************************************************************)
LoadModel ==
    /\ mstate = "NEW"
    /\ \E cleanup \in BOOLEAN, ok \in LoadOutcomes :
          /\ autoCleanup' = cleanup
          /\ BaseLoad(ok)
          /\ registry' = IF ok /\ cleanup THEN RegisteredAfter(manager')
                         ELSE registry

(***************************************************************************)
(* reloadModel: unregister first if cleanup is on and the version is       *)
(* AVAILABLE; a failed base reload returns at once (autoCleanupEnabled     *)
(* keeps its old value); otherwise take the new config's flag and          *)
(* register the new manager if it is on.                                   *)
(***************************************************************************)
\* Variant: the old manager is not unregistered before the reload.
ReloadModelNoUnregister ==
    /\ mstate # "NEW"
    /\ \E cleanup \in BOOLEAN, ok \in LoadOutcomes :
          /\ BaseLoad(ok)
          /\ autoCleanup' = IF ok THEN cleanup ELSE autoCleanup
          /\ registry' = IF ok /\ cleanup THEN RegisteredAfter(manager')
                         ELSE registry

ReloadModel ==
    /\ mstate # "NEW"
    /\ \E cleanup \in BOOLEAN, ok \in LoadOutcomes :
          LET unregistered == IF autoCleanup /\ mstate = "AVAILABLE"
                              THEN 0 ELSE registry
          IN  /\ BaseLoad(ok)
              /\ autoCleanup' = IF ok THEN cleanup ELSE autoCleanup
              /\ registry' = IF ok /\ cleanup
                             THEN IF unregistered = 0 THEN manager'
                                  ELSE unregistered
                             ELSE unregistered

\* Variant: retirement never unregisters.
RetireModelNoUnregister ==
    /\ mstate \in {"AVAILABLE", "FAILED"}
    /\ \E isPermanent \in RetireKinds :
          /\ mstate' = "RETIRED"
          /\ manager' = 0
          /\ UNCHANGED <<autoCleanup, created, registry, cleaner>>

(***************************************************************************)
(* retireModel: only a permanent retirement unregisters; the manager is    *)
(* dropped in both cases.                                                  *)
(***************************************************************************)
RetireModel ==
    /\ mstate \in {"AVAILABLE", "FAILED"}
    /\ \E isPermanent \in RetireKinds :
          /\ registry' = IF isPermanent /\ autoCleanup THEN 0 ELSE registry
          /\ mstate' = "RETIRED"
          /\ manager' = 0
          /\ UNCHANGED <<autoCleanup, created, cleaner>>

(***************************************************************************)
(* The reaper's thread has an explicit lifecycle (spec.md 9): the server   *)
(* creates it at start and stops and joins it at stop.  Models load and    *)
(* retire independently of it; the reaper walks its registry only while   *)
(* the thread runs (the sweep itself is StatefulPipeline's ReaperSweep).   *)
(***************************************************************************)
StartCleaner ==
    /\ cleaner = "NotStarted"
    /\ cleaner' = "Running"
    /\ UNCHANGED <<mstate, autoCleanup, manager, created, registry>>

StopCleaner ==
    /\ cleaner = "Running"
    /\ cleaner' = "Joined"
    /\ UNCHANGED <<mstate, autoCleanup, manager, created, registry>>

Next == \/ LoadModel \/ ReloadModel \/ RetireModel
        \/ StartCleaner \/ StopCleaner

Spec == Init /\ [][Next]_vars

(***************************************************************************)
(* The reaper only ever walks a live manager: while its thread runs,       *)
(* whatever is registered for cleanup is the instance's current            *)
(* SequenceManager (spec.md 9: a manager is unregistered before it is      *)
(* retired, because the reaper's reference does not keep it alive).        *)
(***************************************************************************)
ReaperTargetsLiveManager ==
    cleaner = "Running" /\ registry # 0 => registry = manager

(***************************************************************************)
(* An AVAILABLE version with idleSequenceCleanup on has its current        *)
(* manager registered, so its idle sequences are reaped (spec.md 4.D).     *)
(***************************************************************************)
CleanupRegistered ==
    mstate = "AVAILABLE" /\ autoCleanup => registry = manager
=============================================================================
