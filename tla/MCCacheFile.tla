------------------------------ MODULE MCCacheFile ------------------------------
(***************************************************************************)
(* Instances of CacheFile: the daemon's one column, and a process of a     *)
(* newer version with two.                                                 *)
(***************************************************************************)
EXTENDS CacheFile

CONSTANTS tool, underlyingSymbol, newer

MCOpeners == {Daemon, tool}
MCColumns == {underlyingSymbol, newer}
MCRowWriters == {tool}
NoRowWriters == {}
MCLists   ==
  [p \in MCOpeners |-> IF p = Daemon THEN <<underlyingSymbol>>
                                     ELSE <<underlyingSymbol, newer>>]

=============================================================================
