--------------------------- MODULE MCCommandStore ---------------------------
(***************************************************************************)
(* CommandStore for TLC.  The workers are interchangeable.  Artifacts and  *)
(* dependencies decide nothing about commands; states that have any are    *)
(* checked but not explored further.                                       *)
(***************************************************************************)
EXTENDS CommandStore, TLC

WorkerSymmetry == Permutations(Worker)

PlainTasks ==
    /\ artifacts = {}
    /\ \A t \in TaskId : tasks[t].blocks = {}
=============================================================================
