--------------------------- MODULE MCStreamerFaults ---------------------------
(***************************************************************************)
(* StreamerFaults on the instances of MCChainStreamer.                     *)
(***************************************************************************)
EXTENDS MCChainStreamer, StreamerFaults

=============================================================================
