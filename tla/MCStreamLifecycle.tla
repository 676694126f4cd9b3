-------------------------- MODULE MCStreamLifecycle --------------------------
(***************************************************************************)
(* Instances of StreamLifecycle with two listeners and one underlying.     *)
(***************************************************************************)
EXTENDS StreamLifecycle

CONSTANTS trade, quote, spx

MCListeners  == {trade, quote}
MCRefreshers == {spx}

=============================================================================
