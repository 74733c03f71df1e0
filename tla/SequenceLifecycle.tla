-------------------------- MODULE SequenceLifecycle --------------------------
(***************************************************************************)
(* What the stateful pipeline promises about its sequences, with no        *)
(* threads, locks or handles (spec.md 4.F, state machine per sequence, and *)
(* 8.4, 8.8).  A sequence is Absent or Live; a Live sequence holds the     *)
(* saved memory state, abstracted as in SequenceManager to NoState or the  *)
(* number of inference steps folded into it.                              *)
(*                                                                         *)
(*   Absent --START--> Live with no saved state                           *)
(*   Live --a request's save--> Live with the state one step further       *)
(*   Live --END--> Absent                                                  *)
(*   Live --reaper--> Absent, for any number of sequences in one sweep     *)
(*                                                                         *)
(* Each save extends the state left by the previous one (8.8), so no       *)
(* update is lost or applied twice, and at most MaxSequenceNumber          *)
(* sequences are Live at once (8.4).                                       *)
(***************************************************************************)
EXTENDS Naturals, FiniteSets, Functions, TLC

CONSTANTS
    IdSpace,            \* the non-zero sequence ids
    MaxSequenceNumber,  \* maxSequenceNumber of the model config
    NoState             \* a Live sequence nobody has saved into yet

VARIABLE store          \* Live id -> its saved state; Absent ids are not
                        \* in the domain

LiveIds == DOMAIN store

\* The state a request leaves after loading s and running one step: START
\* starts from the model's default, so its first save is one step.
Succ(s) == IF s = NoState THEN 1 ELSE s + 1

Init == store = <<>>

Start(id) ==
    /\ id \notin LiveIds
    /\ Cardinality(LiveIds) < MaxSequenceNumber
    /\ store' = store @@ (id :> NoState)

Save(id) ==
    /\ id \in LiveIds
    /\ store' = [store EXCEPT ![id] = Succ(@)]

End(id) ==
    /\ id \in LiveIds
    /\ store' = Restrict(store, LiveIds \ {id})

Sweep(dead) ==
    /\ dead # {}
    /\ store' = Restrict(store, LiveIds \ dead)

Next ==
    \/ \E id \in IdSpace : Start(id) \/ Save(id) \/ End(id)
    \/ \E dead \in SUBSET LiveIds : Sweep(dead)

Spec == Init /\ [][Next]_store
=============================================================================
