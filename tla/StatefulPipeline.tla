--------------------------- MODULE StatefulPipeline ---------------------------
(***************************************************************************)
(* StatefulModelInstance::infer (src/src/statefulmodelinstance.cpp) run by *)
(* a set of request threads against one SequenceManager, one pool of      *)
(* inference handles and the idle-sequence reaper.  Each step of a thread  *)
(* is one stretch of infer() between two blocking points or two accesses   *)
(* to shared state; pc names the point the thread is at.                   *)
(*                                                                         *)
(* A request carries the two special inputs already extracted (their      *)
(* tensor parsing is the SpecialInputs module); the model's hidden state   *)
(* is abstracted to the number of inference steps folded into it, so a    *)
(* handle's state after inference is the state loaded into it plus one.   *)
(***************************************************************************)
EXTENDS SequenceManager, Sequences

LOCAL INSTANCE SequencesExt

CONSTANTS
    Threads,         \* the request-serving threads
    RawControls,     \* sequence_control_input values clients send (uint32)
    Handles,         \* the nireq inference handles of the pool
    MaxRequests,     \* bound: requests received over a behaviour
    CleanupEnabled   \* idleSequenceCleanup: the manager is registered
                     \* with the reaper

ASSUME /\ NoOwner \notin Threads
       /\ RawControls \subseteq Nat
       /\ Handles # {} /\ 0 \notin Handles
       /\ MaxRequests \in Nat
       /\ CleanupEnabled \in BOOLEAN
       /\ MaxObjects >= MaxRequests  \* a START never runs out of objects

VARIABLES
    pc,          \* pc[t]: where thread t is in infer()
    req,         \* req[t]: the request thread t serves
    idleHandles, \* the pool's queue of idle handles, taken from the head
    hstate,      \* hstate[h]: the memory state in handle h's slots
    received     \* requests received so far

pool == <<idleHandles, hstate>>

vars == <<managerVars, pc, req, pool, received>>

PCs == {"Idle", "LockMgr", "LockSeq", "GetHandle", "PreInfer", "Run",
        "Post", "RelockMgr"}

\* The points at which a thread holds its Sequence's mutex.
HoldingSeq == {"GetHandle", "PreInfer", "Run", "Post"}

\* The points at which a thread holds an inference handle.
HoldingHandle == {"PreInfer", "Run", "Post", "RelockMgr"}

NoRequest == [ctl |-> 0, id |-> 0, obj |-> 0, loaded |-> NoState, h |-> 0]

TypeOK ==
    /\ ManagerTypeOK
    /\ seqOwner \in [Objects -> Threads \cup {NoOwner}]
    /\ mgrOwner \in Threads \cup {NoOwner}
    /\ pc \in [Threads -> PCs]
    /\ req \in [Threads -> [ctl : RawControls, id : {0} \cup IdSpace,
                            obj : {0} \cup Objects,
                            loaded : {NoState} \cup Nat, h : {0} \cup Handles]]
    /\ idleHandles \in Seq(Handles)
    /\ Len(idleHandles) <= Cardinality(Handles)
    /\ hstate \in [Handles -> Nat]
    /\ received \in 0..MaxRequests

Init ==
    /\ ManagerInit
    /\ pc = [t \in Threads |-> "Idle"]
    /\ req = [t \in Threads |-> NoRequest]
    /\ idleHandles = SetToSeq(Handles)
    /\ hstate = [h \in Handles |-> 0]   \* the model's default state
    /\ received = 0

Goto(t, p) == pc' = [pc EXCEPT ![t] = p]

(***************************************************************************)
(* validateSpecialKeys: the control input must be START, CONTINUE or END,  *)
(* and CONTINUE and END need a non-zero id.                                *)
(***************************************************************************)
ValidSpecialKeys(ctl, id) ==
    /\ ctl \in {SEQUENCE_END, NO_CONTROL_INPUT, SEQUENCE_START}
    /\ ctl \in {SEQUENCE_END, NO_CONTROL_INPUT} => id # 0

(***************************************************************************)
(* infer() up to validate(): a request arrives and is validated.  The      *)
(* generic input validation (request_validation_utils::validate) may       *)
(* refuse it whatever its special inputs are.  Refused requests change     *)
(* nothing.                                                                *)
(***************************************************************************)
Receive(t) ==
    /\ pc[t] = "Idle"
    /\ received < MaxRequests
    /\ received' = received + 1
    /\ \E ctl \in RawControls, id \in {0} \cup IdSpace :
          \/ /\ ValidSpecialKeys(ctl, id)
             /\ req' = [req EXCEPT ![t] = [NoRequest EXCEPT !.ctl = ctl,
                                                            !.id = id]]
             /\ Goto(t, "LockMgr")
          \/ /\ ~ValidSpecialKeys(ctl, id)
             /\ UNCHANGED <<pc, req>>
          \/ /\ ValidSpecialKeys(ctl, id)   \* generic validation fails
             /\ UNCHANGED <<pc, req>>
    /\ UNCHANGED <<managerVars, pool>>

(***************************************************************************)
(* Lock the manager, processRequestedSpec, look the Sequence up (which     *)
(* clears its idle flag) and keep the manager locked while waiting for the *)
(* Sequence.  A refused spec returns with the manager unlocked by the      *)
(* unique_lock's destructor.  The sequenceExists check that follows        *)
(* (INTERNAL_ERROR) cannot fail: the manager is still locked.              *)
(***************************************************************************)
ProcessSpec(t) ==
    /\ pc[t] = "LockMgr"
    /\ mgrOwner = NoOwner
    /\ LET r == req[t] IN
       \/ /\ r.ctl = SEQUENCE_START
          /\ \E id \in AcceptedIds(r.ctl, r.id) :
                /\ CreateSequence(id)
                /\ req' = [req EXCEPT ![t].id = id, ![t].obj = created + 1]
          /\ mgrOwner' = t
          /\ Goto(t, "LockSeq")
       \/ /\ r.ctl # SEQUENCE_START
          /\ r.id \in AcceptedIds(r.ctl, r.id)
          /\ Touch(sequences[r.id])
          /\ req' = [req EXCEPT ![t].obj = sequences[r.id]]
          /\ mgrOwner' = t
          /\ Goto(t, "LockSeq")
          /\ UNCHANGED <<sequences, created, memory>>
       \/ /\ AcceptedIds(r.ctl, r.id) = {}
          /\ Goto(t, "Idle")
          /\ UNCHANGED <<sequences, created, memory, idle, mgrOwner, req>>
    /\ UNCHANGED <<seqOwner, pool, received>>

(***************************************************************************)
(* Lock the Sequence's mutex, then unlock the manager's.                   *)
(***************************************************************************)
\* Variant: the Sequence's mutex not waited for.
LockSequenceUnguarded(t) ==
    /\ pc[t] = "LockSeq"
    /\ seqOwner' = [seqOwner EXCEPT ![req[t].obj] = t]
    /\ mgrOwner' = NoOwner
    /\ Goto(t, "GetHandle")
    /\ UNCHANGED <<sequences, created, memory, idle, req, pool,
                   received>>

LockSequence(t) ==
    /\ pc[t] = "LockSeq"
    /\ seqOwner[req[t].obj] = NoOwner
    /\ seqOwner' = [seqOwner EXCEPT ![req[t].obj] = t]
    /\ mgrOwner' = NoOwner
    /\ Goto(t, "GetHandle")
    /\ UNCHANGED <<sequences, created, memory, idle, req, pool,
                   received>>

(***************************************************************************)
(* ExecutingStreamIdGuard: wait until the pool's queue of idle handles is  *)
(* not empty and take the handle at its head; the guard's destructor puts  *)
(* it back at the tail when infer() returns.                               *)
(***************************************************************************)
AcquireHandle(t) ==
    /\ pc[t] = "GetHandle"
    /\ idleHandles # <<>>
    /\ req' = [req EXCEPT ![t].h = Head(idleHandles)]
    /\ idleHandles' = Tail(idleHandles)
    /\ Goto(t, "PreInfer")
    /\ UNCHANGED <<managerVars, hstate, received>>

ReleaseHandle(t) == idleHandles' = Append(idleHandles, req[t].h)

(***************************************************************************)
(* Returning from infer() while holding the Sequence and a handle: the     *)
(* guards release the handle and the Sequence's mutex.                     *)
(***************************************************************************)
\* Variant: an early return that never gives its handle back.
ReturnHoldingLeak(t) ==
    /\ UNCHANGED idleHandles
    /\ seqOwner' = [seqOwner EXCEPT ![req[t].obj] = NoOwner]
    /\ Goto(t, "Idle")

ReturnHolding(t) ==
    /\ ReleaseHandle(t)
    /\ seqOwner' = [seqOwner EXCEPT ![req[t].obj] = NoOwner]
    /\ Goto(t, "Idle")

(***************************************************************************)
(* preInferenceProcessing: START resets every slot of the handle to the    *)
(* model's default; CONTINUE and END copy the Sequence's saved state into  *)
(* the slots, and return INTERNAL_ERROR when the Sequence lacks a slot the *)
(* handle exposes (the model is stateful, so it exposes at least one).     *)
(***************************************************************************)
PreInferenceOk(t) ==
    req[t].ctl = SEQUENCE_START \/ memory[req[t].obj] # NoState

\* Variant: START leaves the handle's slots as the last request left them.
PreInferenceNoReset(t) ==
    hstate' = IF req[t].ctl = SEQUENCE_START THEN hstate
              ELSE [hstate EXCEPT ![req[t].h] = memory[req[t].obj]]

PreInferenceProcessing(t) ==
    hstate' = [hstate EXCEPT ![req[t].h] =
                  IF req[t].ctl = SEQUENCE_START THEN 0
                  ELSE memory[req[t].obj]]

(***************************************************************************)
(* The call of preInferenceProcessing in infer(); a failure returns.       *)
(* loaded records the Sequence's state at this moment (a history field,    *)
(* read only by NoInterleavedStateUpdate).                                 *)
(***************************************************************************)
PreInference(t) ==
    /\ pc[t] = "PreInfer"
    /\ \/ /\ PreInferenceOk(t)
          /\ PreInferenceProcessing(t)
          /\ req' = [req EXCEPT ![t].loaded = memory[req[t].obj]]
          /\ Goto(t, "Run")
          /\ UNCHANGED <<seqOwner, idleHandles>>
       \/ /\ ~PreInferenceOk(t)
          /\ ReturnHolding(t)
          /\ UNCHANGED <<req, hstate>>
    /\ UNCHANGED <<sequences, created, memory, idle, mgrOwner, received>>

(***************************************************************************)
(* Deserialize the inputs into the handle, run one inference step on it,   *)
(* serialize its outputs.  Each can fail, and infer() returns: after a     *)
(* failed deserialization the slots hold what was loaded, after a failed   *)
(* serialization the step has advanced them.                               *)
(***************************************************************************)
RunInference(t) ==
    /\ pc[t] = "Run"
    /\ LET h == req[t].h IN
       \/ /\ hstate' = [hstate EXCEPT ![h] = @ + 1]
          /\ Goto(t, "Post")
          /\ UNCHANGED <<seqOwner, idleHandles>>
       \/ /\ \E s \in {hstate[h], hstate[h] + 1} :
                hstate' = [hstate EXCEPT ![h] = s]
          /\ ReturnHolding(t)
    /\ UNCHANGED <<sequences, created, memory, idle, mgrOwner, req, received>>

(***************************************************************************)
(* postInferenceProcessing: END resets the handle's slots, the others save *)
(* them into the Sequence (updateMemoryState); it always returns OK.       *)
(***************************************************************************)
PostInferenceProcessing(t) ==
    LET h == req[t].h IN
    IF req[t].ctl = SEQUENCE_END
    THEN /\ hstate' = [hstate EXCEPT ![h] = 0]
         /\ UNCHANGED memory
    ELSE /\ memory' = [memory EXCEPT ![req[t].obj] = hstate[h]]
         /\ UNCHANGED hstate

(***************************************************************************)
(* The call of postInferenceProcessing and the unlock of the Sequence.     *)
(* START and CONTINUE then return (handing the handle back); END goes on   *)
(* to re-lock the manager, still holding its handle.                       *)
(***************************************************************************)
\* Variant: END hands its handle back before re-locking the manager,
\* and again when it returns.
PostInferenceReleaseTwice(t) ==
    /\ pc[t] = "Post"
    /\ PostInferenceProcessing(t)
    /\ seqOwner' = [seqOwner EXCEPT ![req[t].obj] = NoOwner]
    /\ ReleaseHandle(t)
    /\ Goto(t, IF req[t].ctl = SEQUENCE_END THEN "RelockMgr" ELSE "Idle")
    /\ UNCHANGED <<sequences, created, idle, mgrOwner, req, received>>

\* Variant: END keeps the Sequence locked while it re-locks the manager.
PostInferenceKeepSeqLock(t) ==
    /\ pc[t] = "Post"
    /\ PostInferenceProcessing(t)
    /\ IF req[t].ctl = SEQUENCE_END
       THEN /\ Goto(t, "RelockMgr")
            /\ UNCHANGED <<seqOwner, idleHandles>>
       ELSE /\ Goto(t, "Idle")
            /\ seqOwner' = [seqOwner EXCEPT ![req[t].obj] = NoOwner]
            /\ ReleaseHandle(t)
    /\ UNCHANGED <<sequences, created, idle, mgrOwner, req, received>>

PostInference(t) ==
    /\ pc[t] = "Post"
    /\ PostInferenceProcessing(t)
    /\ seqOwner' = [seqOwner EXCEPT ![req[t].obj] = NoOwner]
    /\ IF req[t].ctl = SEQUENCE_END
       THEN /\ Goto(t, "RelockMgr")
            /\ UNCHANGED idleHandles
       ELSE /\ Goto(t, "Idle")
            /\ ReleaseHandle(t)
    /\ UNCHANGED <<sequences, created, idle, mgrOwner, req, received>>

(***************************************************************************)
(* END: lock the manager again and remove the sequence; returning releases *)
(* the manager and the handle.                                             *)
(***************************************************************************)
EndSequence(t) ==
    /\ pc[t] = "RelockMgr"
    /\ mgrOwner = NoOwner
    /\ RemoveSequence(req[t].id)
    /\ ReleaseHandle(t)
    /\ Goto(t, "Idle")
    /\ UNCHANGED <<created, memory, idle, seqOwner, mgrOwner, req, hstate,
                   received>>

(***************************************************************************)
(* The reaper's periodic sweep of this manager.                            *)
(***************************************************************************)
ReaperSweep ==
    /\ CleanupEnabled
    /\ mgrOwner = NoOwner
    /\ RemoveIdleSequences
    /\ UNCHANGED <<created, memory, seqOwner, mgrOwner, pc, req, pool,
                   received>>

Step(t) ==
    \/ Receive(t)
    \/ ProcessSpec(t)
    \/ LockSequence(t)
    \/ AcquireHandle(t)
    \/ PreInference(t)
    \/ RunInference(t)
    \/ PostInference(t)
    \/ EndSequence(t)

Next == (\E t \in Threads : Step(t)) \/ ReaperSweep

(***************************************************************************)
(* Threads are OS threads and the reaper a timer thread: each keeps making *)
(* progress while it can.  A free mutex or handle stays free until someone *)
(* takes it, and the number of requests is bounded, so weak fairness is    *)
(* enough for a blocked thread to get its turn.                            *)
(***************************************************************************)
Fairness ==
    /\ \A t \in Threads : WF_vars(Step(t))
    /\ WF_vars(ReaperSweep)

Spec == Init /\ [][Next]_vars

FairSpec == Spec /\ Fairness

-----------------------------------------------------------------------------
(***************************************************************************)
(* Properties                                                              *)
(***************************************************************************)

Busy(t) == pc[t] # "Idle"

(***************************************************************************)
(* Requests for one sequence are serialized by its mutex (spec.md 8.2 and  *)
(* 8.8): from the moment a request has loaded a Sequence's state into its  *)
(* handle until it saves the result back in postInferenceProcessing, no    *)
(* other request has saved into that Sequence, so the state it saves       *)
(* extends the state it loaded.                                            *)
(***************************************************************************)
NoInterleavedStateUpdate ==
    \A t \in Threads :
        pc[t] \in {"Run", "Post"} => memory[req[t].obj] = req[t].loaded

\* The requests holding handle h.
Holders(h) == {t \in Threads : pc[t] \in HoldingHandle /\ req[t].h = h}

(***************************************************************************)
(* Handles are never shared and never lost (spec.md 4.A): whatever path    *)
(* infer() returns on, including END's detour through the manager, every   *)
(* handle of the pool is either once in the idle queue or held by exactly  *)
(* one request.                                                            *)
(***************************************************************************)
HandlesExclusive ==
    \A h \in Handles :
        Cardinality(Holders(h))
          + Cardinality({i \in DOMAIN idleHandles : idleHandles[i] = h}) = 1

(***************************************************************************)
(* infer() takes the manager's mutex, a Sequence's mutex and a pool handle *)
(* in that order: while some request is in flight, one of the in-flight    *)
(* requests can always take its next step.                                 *)
(***************************************************************************)
NoDeadlock ==
    (\E t \in Threads : Busy(t)) => \E t \in Threads : Busy(t) /\ ENABLED Step(t)

(***************************************************************************)
(* The wait cycle of handle_deadlock (END holding a handle at line 285,    *)
(* the manager holder waiting at 227 for a Sequence whose holder waits at  *)
(* 231 for a handle) needs every handle held and two more requests in      *)
(* flight.  With at most nireq + 1 requests in flight the lock order of    *)
(* infer() admits no other cycle: in-flight requests never all block.      *)
(***************************************************************************)
WithinPoolCapacity == Cardinality(Threads) <= Cardinality(Handles) + 1

NoDeadlockWithinCapacity == WithinPoolCapacity => NoDeadlock

(***************************************************************************)
(* A Sequence is never erased from the manager while a request holds its   *)
(* mutex and works on it (the precondition of removeSequence, spec.md 4.C, *)
(* and the reaper's promise of spec.md 4.D).                               *)
(***************************************************************************)
SequenceAliveWhileHeld ==
    \A t \in Threads :
        pc[t] \in HoldingSeq =>
            /\ req[t].id \in Live
            /\ sequences[req[t].id] = req[t].obj

(***************************************************************************)
(* A START that fails after createSequence leaves a sequence the client    *)
(* may retry CONTINUE on or END (spec.md 4.F, failure semantics): every    *)
(* live sequence whose START is over holds a saved state that              *)
(* preInferenceProcessing can load.                                        *)
(***************************************************************************)
StartedSequenceUsable ==
    \A id \in Live :
        memory[sequences[id]] = NoState =>
            \E t \in Threads : /\ req[t].obj = sequences[id]
                               /\ req[t].ctl = SEQUENCE_START
                               /\ Busy(t)

(***************************************************************************)
(* With idleSequenceCleanup on, once traffic stops every sequence is       *)
(* eventually reaped, including those a failed request left behind.        *)
(***************************************************************************)
OrphansReaped == <>[](Live = {})

(***************************************************************************)
(* Every request that infer() has accepted eventually returns, with its    *)
(* locks and its handle given back: the manager, Sequence and handle waits *)
(* of spec.md 5 (a)-(c) never block a request forever while the threads   *)
(* and the reaper keep running.                                            *)
(***************************************************************************)
RequestsComplete == \A t \in Threads : Busy(t) ~> ~Busy(t)

(***************************************************************************)
(* Every accepted request returns whenever at most nireq + 1 requests can  *)
(* be in flight (beyond that, handle_deadlock shows the code can block).   *)
(***************************************************************************)
RequestsCompleteWithinCapacity == WithinPoolCapacity => RequestsComplete

(***************************************************************************)
(* END removes the sequence it ran on (spec.md 4.F step 10): when the END  *)
(* re-locks the manager and calls removeSequence(sequenceId), the id still *)
(* names the Sequence whose mutex it held, or no sequence at all; an END   *)
(* never erases a Sequence some other request created in the meantime.    *)
(***************************************************************************)
EndRemovesResolvedSequence ==
    [][\A t \in Threads :
          /\ pc[t] = "RelockMgr"
          /\ pc'[t] = "Idle"
          /\ req[t].id \in Live
          => sequences[req[t].id] = req[t].obj]_vars

(***************************************************************************)
(* The pipeline implements the per-sequence state machine of spec.md 4.F   *)
(* (module SequenceLifecycle): under the mapping that sends each live id   *)
(* to the state saved in the Sequence the manager holds under it, every    *)
(* step of infer() and of the reaper is a START, a save that extends the   *)
(* previous save, a removal, or leaves the mapped state unchanged.  Saves  *)
(* into an erased Sequence are invisible under this mapping.               *)
(***************************************************************************)
Lifecycle == INSTANCE SequenceLifecycle
                 WITH store <- [id \in Live |-> memory[sequences[id]]]

ImplementsLifecycle == Lifecycle!Spec
=============================================================================
