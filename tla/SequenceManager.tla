--------------------------- MODULE SequenceManager ---------------------------
(***************************************************************************)
(* The SequenceManager of one stateful model version and the Sequences it  *)
(* owns (spec.md 4.B, 4.C, 4.D).  Their code is not in this repository's  *)
(* src/, so the operators here are modelled from the specification; the   *)
(* pipeline module (StatefulPipeline) calls them exactly where             *)
(* statefulmodelinstance.cpp calls the manager.                            *)
(*                                                                         *)
(* A Sequence is an object with its own identity: the manager's map sends  *)
(* a sequence id to the object currently stored under it.  Objects are     *)
(* numbered 1..MaxObjects in creation order and are never reused, so a    *)
(* request that still holds a reference to an erased Sequence keeps       *)
(* reading and writing that dead object and nobody else sees it (the       *)
(* freed map node is not handed out again).                                *)
(***************************************************************************)
EXTENDS Naturals, FiniteSets, Functions, TLC

CONSTANTS
    IdSpace,            \* the non-zero sequence ids the model uses
    MaxSequenceNumber,  \* maxSequenceNumber of the model config
    MaxObjects,         \* bound: Sequence objects created over a behaviour
    NoState,            \* memory state of a Sequence nobody has saved into
    NoOwner             \* owner of a mutex nobody holds

ASSUME /\ IdSpace \subseteq (Nat \ {0}) /\ IdSpace # {}
       /\ MaxSequenceNumber \in Nat \ {0}
       /\ MaxObjects \in Nat

VARIABLES
    sequences,  \* the manager's map: sequence id -> Sequence object
    created,    \* number of Sequence objects created so far
    memory,     \* memory[o]: the MemoryStateMap of object o, abstracted
                \* to NoState (no slot saved) or the number of inference
                \* steps folded into the saved state
    idle,       \* idle[o]: the reaper's idle flag of object o
    seqOwner,   \* seqOwner[o]: the holder of object o's mutex
    mgrOwner    \* the holder of the manager's mutex

managerVars == <<sequences, created, memory, idle, seqOwner, mgrOwner>>

Objects == 1..MaxObjects

Live == DOMAIN sequences

Population == Cardinality(Live)

ManagerTypeOK ==
    /\ Live \subseteq IdSpace
    /\ sequences \in [Live -> Objects]
    /\ created \in 0..MaxObjects
    /\ memory \in [Objects -> {NoState} \cup Nat]
    /\ idle \in [Objects -> BOOLEAN]

ManagerInit ==
    /\ sequences = <<>>
    /\ created = 0
    /\ memory = [o \in Objects |-> NoState]
    /\ idle = [o \in Objects |-> FALSE]
    /\ seqOwner = [o \in Objects |-> NoOwner]
    /\ mgrOwner = NoOwner

(***************************************************************************)
(* createSequence: START is refused when the population is already at the  *)
(* bound (MAX_SEQUENCES_REACHED) or when a client-chosen id is in use      *)
(* (SEQUENCE_ALREADY_EXISTS).  A START with id 0 takes a fresh unused id;  *)
(* the choice of id is the implementation's, so it is free here.           *)
(***************************************************************************)
HasRoom == Population < MaxSequenceNumber

StartIds(requested) ==
    IF requested = 0 THEN IdSpace \ Live ELSE {requested} \ Live

CreateSequence(id) ==
    /\ created < MaxObjects
    /\ sequences' = sequences @@ (id :> created + 1)
    /\ created' = created + 1
    /\ idle' = [idle EXCEPT ![created + 1] = FALSE]
    /\ UNCHANGED memory

(***************************************************************************)
(* processRequestedSpec, for the requests it accepts: START creates the    *)
(* Sequence, CONTINUE and END require it to exist.  The caller holds the   *)
(* manager's mutex.  The result is the id the request proceeds with.       *)
(***************************************************************************)
SEQUENCE_START == 1
NO_CONTROL_INPUT == 0
SEQUENCE_END == 2

AcceptedIds(ctl, requested) ==
    IF ctl = SEQUENCE_START
    THEN IF HasRoom THEN StartIds(requested) ELSE {}
    ELSE {requested} \cap Live

(***************************************************************************)
(* getSequence hands the Sequence to a request and clears its idle flag,   *)
(* under the manager's mutex (spec.md 4.D).                                *)
(***************************************************************************)
Touch(o) == idle' = [idle EXCEPT ![o] = FALSE]

(***************************************************************************)
(* removeSequence(id): erases whatever object the map holds under id.      *)
(***************************************************************************)
RemoveSequence(id) ==
    sequences' = Restrict(sequences, Live \ {id})

(***************************************************************************)
(* One reaper sweep over this manager, under its mutex and never taking a  *)
(* Sequence's mutex: erase the Sequences still marked idle, then mark all  *)
(* the remaining ones idle.                                                *)
(***************************************************************************)
\* Variant: the sweep erases idle Sequences but never marks the others.
RemoveIdleSequencesNoMark ==
    LET survivors == {id \in Live : ~idle[sequences[id]]}
    IN  /\ sequences' = Restrict(sequences, survivors)
        /\ UNCHANGED idle

RemoveIdleSequences ==
    LET survivors == {id \in Live : ~idle[sequences[id]]}
        kept      == {sequences[id] : id \in survivors}
    IN  /\ sequences' = Restrict(sequences, survivors)
        /\ idle' = [o \in Objects |-> IF o \in kept THEN TRUE ELSE idle[o]]
=============================================================================
