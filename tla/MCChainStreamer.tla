--------------------------- MODULE MCChainStreamer ---------------------------
(***************************************************************************)
(* Small instances of ChainStreamer: one underlying with a chain of three  *)
(* strikes, or a shorter one, and a window of a strike on each side or of  *)
(* the nearest strike alone.                                               *)
(***************************************************************************)
EXTENDS ChainStreamer

CONSTANTS SPX

MCUnderlyings == {SPX}
MCStrikes     == 1..4
OneChain      == {1..3}
TwoChains     == {1..3, 2..3}
MCPrices      == 1..3
TwoKinds      == <<"Quote", "Trade">>
ThreeKinds    == <<"Quote", "Summary", "Trade">>

\* Options inside the chain, and one the windows can never reach.
InnerLeg == {<<SPX, 1>>}
InnerLegs == {<<SPX, 1>>, <<SPX, 2>>}
OuterLeg == {<<SPX, 4>>}

=============================================================================
