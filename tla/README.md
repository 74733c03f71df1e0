# TLA+ models of the stateful inference pipeline

This directory models `src/src/statefulmodelinstance.cpp`, the stateful-model
part of the model server, together with the collaborators it drives. The
SequenceManager, the Sequences it owns, the idle reaper and the handle pool are
not in `src/`. They are modelled from `spec.md` (sections 4.A–4.D), and
`PROJECT.json` marks those definitions `spec_modelled`.

## 1. Inventory

| Component | Where | State | Operations |
|---|---|---|---|
| StatefulInferencePipeline | `infer`, `preInferenceProcessing`, `postInferenceProcessing` (lines 198–334) | per request: control, id, the Sequence it holds, its handle's state | validate → lock manager → processRequestedSpec → lock Sequence, unlock manager → take handle → load/reset state → deserialize, infer, serialize → save/reset state → unlock Sequence → (END) re-lock manager, remove |
| SpecialInputExtractor | `extractSequenceId`, `extractSequenceControlInput`, `validateSpecialKeys`, `validate` (34–74, 150–196) | none (pure) | shape and value checks, then the control/id cross-field rule |
| SequenceManager (spec 4.C) | not in src | map id → Sequence, maxSequenceNumber, mutex | processRequestedSpec (START/CONTINUE/END), getSequence, removeSequence, removeIdleSequences |
| Sequence (spec 4.B) | not in src | memory state map, idle flag, mutex | getMemoryState, updateMemoryState, setIdle |
| IdleReaper (spec 4.D, 9) | not in src | set of registered managers, its thread | register/unregister, periodic sweep, thread start and stop/join |
| InferHandlePool (spec 4.A) | `ExecutingStreamIdGuard`, not in src | free handles | scoped acquire from a queue of idle handles, released (appended) on every return of `infer`; each handle keeps its memory state between requests |
| Model lifecycle | `loadModel`, `reloadModel`, `retireModel`, `cleanupFailedLoad`, `loadModelImpl` (76–132) | autoCleanupEnabled, sequenceManager, version state | load, reload, retire; each creates or drops the manager and registers or unregisters it with the reaper |
| Low-latency transform | `loadOVCompiledModel` (134–148) | `performLowLatencyTransformation` (set from the config in `loadModelImpl`) | graph pass when configured; an exception → INTERNAL_ERROR, the load fails |

**How they interact.** Requests run on their own threads. `infer` locks the
manager's mutex and calls processRequestedSpec. Still holding the manager, it
locks the target Sequence's mutex. Only then does it unlock the manager. It
takes a handle from the pool, which may block. It then works on the Sequence's
state and unlocks the Sequence. An END re-locks the manager to remove the
sequence.

The reaper runs on its own timer thread. It competes with requests for the
manager mutex and removes Sequences without taking their mutex. The lifecycle
operations run under the instance's loading mutex. They replace the manager
and register it with the reaper or unregister it.

**What is hard.**
- Three locks are taken in a fixed order: manager, then Sequence, then handle. END breaks that order: it re-locks the manager while still holding its handle.
- END releases the Sequence and re-locks the manager in two separate steps.
- The reaper removes Sequences that a request may still hold.
- A request can fail part-way, after its Sequence was created.
- A reload or retirement can leave the reaper holding a stale reference to a manager.

**Correctness properties per component.**
- Pipeline:
  - Two requests for one sequence never interleave between load and save.
  - A Sequence is never erased while a request holds it.
  - With at most nireq + 1 requests in flight, they never block in a cycle; with nireq + 2 they can.
  - A sequence whose START failed can still be continued or ended.
  - END removes the sequence it ran on, never one a later START created.
  - With at most nireq + 1 requests in flight, every accepted request eventually returns.
  - Abstractly, the saved states follow the per-sequence state machine of spec 4.F.
- SequenceManager: the population never exceeds maxSequenceNumber (part of the refinement: `Start` of `SequenceLifecycle` has the bound).
- Reaper: orphaned sequences are eventually removed; a Sequence is never erased under a request (violated: `reaper_race`).
- Extractor: its statuses follow spec 4.E.
- Lifecycle: the reaper only walks the live manager, and an available cleanup-enabled version is registered.

## 2. Modules

| Module | Models | State ↔ code |
|---|---|---|
| `SequenceManager` | spec 4.B–4.D | `sequences` is the manager's map from id to a Sequence object. `memory`, `idle` and `seqOwner` are per object. `mgrOwner` is the manager mutex. Objects are never reused, so a request that still refers to an erased Sequence works on a dead object. |
| `StatefulPipeline` (EXTENDS `SequenceManager`) | `infer` and its helpers, the pool, the reaper sweep | `pc[t]` is where thread t is in `infer`. `req[t]` holds the control, the id, the object, the state it loaded and the handle it holds (`h`, 0 for none). `idleHandles` is the queue of idle handles (taken at the head, released at the tail) and `hstate[h]` the memory state in handle h's slots, which survives from one request to the next. One action per stretch of code between blocking points: `Receive` (validate), `ProcessSpec` (218–225), `LockSequence` (227–228), `AcquireHandle` (231), `PreInference` (240–244, its state change `PreInferenceProcessing` 294–312, its early returns `PreInferenceOk`), `RunInference` (248–273), `PostInference` (275–284, its state change `PostInferenceProcessing` 314–334); `ReleaseHandle` is the guard's destructor, on every return, `EndSequence` (284–291). `ReaperSweep` is the reaper. |
| `SequenceLifecycle` | spec 4.F state machine, 8.4, 8.8 | The abstract specification. `store` maps each live id to its saved state. The actions are `Start`, `Save` (the state one step further), `End` and `Sweep` (the reaper removes any set of sequences in one step). `StatefulPipeline` instantiates it with `store <- [id \in Live |-> memory[sequences[id]]]`, and `ImplementsLifecycle` is its `Spec`. |
| `SpecialInputs` | extractors and `validateSpecialKeys` | `request` is one request from a bounded domain. `Validate` computes the code's result. `SpecValidate` is the reference definition written from spec 4.E. |
| `ModelLifecycle` | load/reload/retire | `manager` is the current SequenceManager (numbered). `registry` is what the reaper holds. `LoadOVCompiledModel` is the low-latency pass: a load fails when the pass is on and throws, or when the base load fails. `LoadOutcomes` collects these outcomes. `cleaner` is the reaper's thread (`StartCleaner` at server start, `StopCleaner` stops and joins it); the reaper walks its registry only while it runs. The sweep itself is `StatefulPipeline`'s `ReaperSweep`. |
| `MC_StatefulPipeline`, `MC_SpecialInputs` | TLC instances | thread and handle model values and symmetry; the shape set |

The hidden state is abstracted to the number of inference steps folded into
it. A START resets it to 0, and inference adds one. That is enough to tell
whether a save builds on the state that was loaded. `NoState` stands for an
empty MemoryStateMap. The model is stateful, so a handle always has at least
one slot, and loading from an empty map fails.

## 3. Runs

| Run | Expect | Shows |
|---|---|---|
| `pipeline_safety` | pass | 3 threads, 2 handles, ids {1,2}, maxSequenceNumber 1, 4 requests, all control values (3 is invalid), reaper on. Checks `TypeOK`, `NoInterleavedStateUpdate`, `HandlesExclusive` (on every return path each handle is either idle exactly once or held by exactly one request: never shared, never lost, never released twice) and `NoDeadlockWithinCapacity`. Three threads with two handles is nireq + 1 requests in flight, the most the lock order tolerates: the wait cycle of `handle_deadlock` needs every handle held plus two more requests, and the run shows no other cycle exists. Symmetry over threads and handles. |
| `lifecycle_refinement` | pass | 2 threads, 2 handles, ids {1,2}, maxSequenceNumber 2, 4 requests, reaper on. The pipeline implements `SequenceLifecycle` (`ImplementsLifecycle`). The races still happen here, but under the mapping they are invisible: a request that lost its Sequence saves into an erased object. What they break is shown by the per-request properties below. Because handles keep their slots between requests, the mapping also catches a START that does not reset its handle (a sequence would start from another's state). Symmetry over threads and handles. |
| `reaper_liveness` | pass | Under fairness, with 2 threads, 1 handle and 3 requests: `OrphansReaped` (every sequence is eventually reaped once traffic stops) and `RequestsCompleteWithinCapacity` (every accepted request returns). Two threads with one handle is again nireq + 1: the boundary below the deadlock of `handle_deadlock`, where any other blocking (such as an END that kept its Sequence locked) would show. |
| `end_race` | violation | END vs CONTINUE of one id: the END erases the Sequence the CONTINUE has just locked (code bug, line 283). |
| `reaper_race` | violation | Two sweeps during one request erase its Sequence (spec gap, spec 4.D). |
| `handle_deadlock` | violation | 1 handle, 3 threads (nireq + 2), checking `NoDeadlock`: END holds the handle waiting for the manager; the manager holder waits for a Sequence; that Sequence's holder waits for the handle (code bug, line 231). |
| `double_end` | violation | 2 threads, one id. Two ENDs both resolve the sequence. The first removes it, then a START recreates the id, and the second END's `removeSequence(sequenceId)` erases the new sequence (code bug, line 286). |
| `failed_start` | violation | A failed START leaves a sequence whose CONTINUE/END always fail with INTERNAL_ERROR (divergence from spec 4.F). |
| `special_inputs` | pass | All 4753 well-typed requests validate exactly as spec 4.E says. |
| `special_inputs_dtype` | violation | A proto whose dtype contradicts the value field it fills is accepted (the code never reads dtype). |
| `lifecycle` | pass | With permanent retirements, the registration always names the live manager, and a cleanup-enabled available version is registered. |
| `lifecycle_retire` | violation | A non-permanent retirement leaves a freed manager registered (divergence from spec 9). |

**Bounds.** Every counterexample above needs at most 3 threads and 4
requests.
- The END race needs 2 threads and 3 requests: START, END and CONTINUE.
- The deadlock needs nireq + 2 threads: 3 threads with 1 handle, 4 requests. The passing deadlock and completion runs sit exactly at nireq + 1 threads, so they check the largest load the code tolerates, not a load chosen to miss the bug.
- The stale END needs 2 threads and 4 requests: START, END, END and a new START.
- A lost save, seen through the refinement, needs START and two CONTINUEs; the refinement run has room for two live sequences, so STARTs, saves and sweeps of different ids interleave.
- A lost update needs START and two CONTINUEs.

So the pass bounds reach the cases each property is about, within the stated capacity. The mutant of each
property (in `PROJECT.json`) confirms this: TLC finds each mutant's bug under
the same cfg. `MaxObjects` ≥ `MaxRequests`, so a START never runs out of
objects.

**Fairness.** Each thread and the reaper is weakly fair (`FairSpec`). Threads
are OS threads, and the reaper is a periodic timer. The number of requests is
bounded, so a thread blocked on a mutex or on the pool sees it free
continuously once the others are done. Weak fairness is therefore enough, and
no strong fairness on std::mutex is assumed.

**Deadlock checking.** `CHECK_DEADLOCK FALSE` is set only where the server
legitimately goes quiet once its bounded requests are served (no reaper), or
where a bounded history ends (lifecycle, one-shot validation). Real deadlocks
of in-flight requests are checked by the `NoDeadlock` invariant (and its
capacity-bounded form `NoDeadlockWithinCapacity`).

## 4. Not modelled

- Real time and the sweep interval: a sweep may happen at any step.
- FIFO order of the requests waiting for a handle: which waiter gets a released handle is left free, a superset of FIFO service, so the safety results hold for FIFO.
- Metrics, timers and logging.
- Tensor (de)serialization and generic input validation, beyond their failure outcomes.
- The low-latency graph rewrite itself. Only whether it runs and whether it throws is modelled.
- A reload or retirement while `infer` is in flight. Whether one can happen is decided by `ModelInstance` and `ModelInstanceUnloadGuard`, which are not in src. `infer` runs under the `ModelInstanceUnloadGuard` its caller holds, so the model assumes, with spec.md 4.F, that a request runs against one manager.
- The response's `sequence_id` (spec 8.6) apart from when it is written: the model keeps the id the request was served under, and writing it is a copy. What matters about it, that a failed START with id 0 never returns its fresh id, is a hazard covered by `OrphansReaped` (cleanup on) and `failed_start` (cleanup off).
- The reaper's two-interval rule as a separate property: the idle flag is the only record of it, so a history counter of sweeps would restate the flag. What can go wrong with it in this code is `reaper_race`.
- The gtest `metrics_flow_test.cpp`, which tests counters of code not in this repository.
- In-flight requests during retirement. ModelInstanceUnloadGuard, which is not in src, keeps the instance alive while they run.

## 5. Plan

Done:
1. `SequenceManager` and `StatefulPipeline`: the core request path, with safety and liveness runs, and the races and failures as violation runs.
2. `SpecialInputs`, checked against the spec's reference definition.
3. `ModelLifecycle`: registration with the reaper, and the low-latency pass as a load failure.
4. `SequenceLifecycle` and the refinement `ImplementsLifecycle`.
5. `EndRemovesResolvedSequence` (the double-END / re-START race) and `RequestsCompleteWithinCapacity`.
6. The handle pool as a queue of handles that keep their memory state (`HandlesExclusive`, and a START that does not reset its handle caught by the refinement).
7. The reaper thread's start and stop; deadlock freedom and completion stated for the pool capacity they hold at.

Next:
8. A fixed-pipeline variant: END removes the sequence before releasing it, or re-checks it. This would show the violation runs pass once the bugs are fixed.
9. Per-request responses in the abstract specification, so that a CONTINUE answered OK after its Sequence was erased becomes a refinement violation instead of being invisible.
