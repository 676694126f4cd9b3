----------------------------- MODULE MCCoreLibrary -----------------------------
(***************************************************************************)
(* Instances of CoreLibrary: those of MCCalculations and                   *)
(* MCOrderSubmission, and two threads that get sessions.                   *)
(***************************************************************************)
EXTENDS CoreLibrary, MCCalculations, MCOrderSubmission

CONSTANTS daemon, poller

MCThreads == {daemon, poller}

Interchangeable == Permutations(Threads)

=============================================================================
