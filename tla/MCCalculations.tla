---------------------------- MODULE MCCalculations ----------------------------
(***************************************************************************)
(* Instances of Calculations.                                              *)
(***************************************************************************)
EXTENDS Calculations, TLC

\* The types "C" and "P", and one of both letters with a contract size of its own.
MCKinds ==
  {[letters |-> {"C"}, scale |-> 1], [letters |-> {"P"}, scale |-> 1],
   [letters |-> {"C", "P"}, scale |-> 2]}

\* Three rungs; the last only deliberately.
MCLadder == <<"careful", "bold", "wild">>

\* "width" is in every strategy of the base, "delta" in one only.
MCBaseConfig ==
  [top     |-> ("contracts" :> 1) @@ ("stop" :> 1),
   entries |-> ("condor" :> (("width" :> 1) @@ ("delta" :> 1)))
               @@ ("calendar" :> ("width" :> 1))]

\* A flat overlay; one with overrides, of an entry the base lacks too; and one
\* with a field the base lacks.
MCRegistry ==
  ("careful" :> [top |-> "stop" :> 2, entries |-> Absent, overrides |-> <<>>])
  @@ ("bold" :> [top |-> "contracts" :> 2, entries |-> Absent,
                 overrides |-> ("condor" :> ("width" :> 2))
                               @@ ("spread" :> ("width" :> 2))])
  @@ ("wild" :> [top |-> <<>>, entries |-> Absent,
                 overrides |-> ("condor" :> ("delta" :> 3))
                               @@ ("calendar" :> ("delta" :> 3))])

MCTags     == {Absent, "  ", "careful", " careful ", "bold"}
MCStripped ==
  ("  " :> "") @@ ("careful" :> "careful") @@ (" careful " :> "careful")
  @@ ("bold" :> "bold")

\* A fair leg, a wide one that meets the cap, a worthless wing and a crossed one.
MCQuotes ==
  {[bid |-> 100, ask |-> 113], [bid |-> 5, ask |-> 60], [bid |-> 0, ask |-> 3],
   [bid |-> 21, ask |-> 20]}

=============================================================================
