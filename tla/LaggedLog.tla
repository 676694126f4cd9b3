------------------------------ MODULE LaggedLog ------------------------------
(***************************************************************************)
(* What a reader of the stream cache may rely on: the writer's events      *)
(* become durable in the order they were written, at most MaxLag of them   *)
(* are missing at any time, and only those are lost when the writer goes   *)
(* away.                                                                   *)
(***************************************************************************)
EXTENDS Integers

CONSTANT MaxLag

VARIABLES written, durable

vars == <<written, durable>>

Init == written = 0 /\ durable = 0

\* An event is written; it and those before it may become durable at once.
Write ==
  /\ written' = written + 1
  /\ durable' \in {durable, written'}
  /\ written' - durable' <= MaxLag

Persist == durable' = written /\ UNCHANGED written

\* The writer goes away, and what was not durable with it.
Lose == written' = durable /\ UNCHANGED durable

Next == Write \/ Persist \/ Lose

Spec == Init /\ [][Next]_vars

=============================================================================
