---------------------------- MODULE MCStreamDaemon ----------------------------
(***************************************************************************)
(* Instances of StreamDaemon with two listeners and one underlying.        *)
(***************************************************************************)
EXTENDS StreamDaemon

CONSTANTS trade, quote, spx

MCListeners  == {trade, quote}
MCRefreshers == {spx}

=============================================================================
