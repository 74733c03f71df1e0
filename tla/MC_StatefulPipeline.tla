------------------------- MODULE MC_StatefulPipeline -------------------------
(***************************************************************************)
(* Instantiates StatefulPipeline for TLC.  The threads and the handles of  *)
(* the pool are model values and interchangeable, so the safety runs check *)
(* them up to symmetry.                                                    *)
(***************************************************************************)
EXTENDS StatefulPipeline

CONSTANTS t1, t2, t3, h1, h2

MC_Threads == {t1, t2, t3}

MC_TwoThreads == {t1, t2}

MC_OneThread == {t1}

MC_OneHandle == {h1}

MC_TwoHandles == {h1, h2}

MC_Symmetry == Permutations(MC_Threads) \cup Permutations(MC_TwoHandles)

MC_TwoThreadSymmetry ==
    Permutations(MC_TwoThreads) \cup Permutations(MC_TwoHandles)
=============================================================================
