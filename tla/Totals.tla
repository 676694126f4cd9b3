-------------------------------- MODULE Totals --------------------------------
(***************************************************************************)
(* Python's sum() of a list of numbers.                                    *)
(***************************************************************************)
EXTENDS Integers, SequencesExt

Total(amounts) == FoldLeft(LAMBDA a, b : a + b, 0, amounts)

=============================================================================
