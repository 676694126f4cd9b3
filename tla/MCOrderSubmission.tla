-------------------------- MODULE MCOrderSubmission --------------------------
(***************************************************************************)
(* Instances of OrderSubmission on an account of ten units of buying power. *)
(***************************************************************************)
EXTENDS OrderSubmission

CONSTANTS c1, c2

TwoCallers == {c1, c2}

MCConsumes == {-4, -1, 2, 3}

=============================================================================
