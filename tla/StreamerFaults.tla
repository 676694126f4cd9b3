---------------------------- MODULE StreamerFaults ----------------------------
(***************************************************************************)
(* What a failed call costs.  ChainStreamer remembers of a failed call only *)
(* that there was one; here a history variable keeps what matters of it:   *)
(* whether it took effect on the feed behind the books, or stopped the     *)
(* update of a window half way.                                            *)
(***************************************************************************)
EXTENDS ChainStreamer

VARIABLE marks    \* what failed calls have left behind, a subset of Marks

\* A poll's call that took effect and raised, and an update that was cut short.
Marks ==
  [what : {"added", "removed"}, kind : Kinds]
    \cup [what : {"cut"}, underlying : Underlyings]

Raised(k, phase) ==
  apply.phase = phase /\ wire'[k] # wire[k] /\ ApplyFault(k)

NewMarks ==
  {[what |-> "added", kind |-> k] : k \in {k \in Kinds : Raised(k, "next")}}
    \cup {[what |-> "removed", kind |-> k] : k \in {k \in Kinds : Raised(k, "unsub")}}
    \cup {[what |-> "cut", underlying |-> u] :
            u \in {u \in Underlyings : RefresherFault(u)}}

MarkedInit == Init /\ marks = {}
MarkedNext == Next /\ marks' = marks \cup NewMarks
MarkedSpec == MarkedInit /\ [][MarkedNext]_<<vars, marks>> /\ Fairness

Added(k)   == [what |-> "added", kind |-> k] \in marks
Removed(k) == [what |-> "removed", kind |-> k] \in marks
Cut(u)     == [what |-> "cut", underlying |-> u] \in marks

-----------------------------------------------------------------------------
(* Properties *)

\* The last update was for the price, give or take window_refresh_pts.  (Without
\* a chain there are no updates.)
CenterOnPrice(u) ==
  \/ price[u] = None
  \/ conn = "up" /\ refresher[u].phase = "off"
  \/ /\ refresher[u].phase = "idle"
     /\ centers[u] # None
     /\ price[u] = centers[u] \/ Abs(price[u] - centers[u]) < RefreshPts

WindowOnCenter(u) == centers[u] # None => windowSyms[u] = WindowAt(u, centers[u])

\* Whatever ticks arrive during an update and whatever calls fail, the updates
\* catch up with the price, and the window with them; only where a call of an
\* update failed, the window may stay that of an earlier center.
WindowFollowsPrice ==
  \A u \in Underlyings :
    []<>(CenterOnPrice(u) /\ (WindowOnCenter(u) \/ Cut(u)))

\* The legs' claim to a symbol, in the books of the polls.
Booked(s, k) == s \in apply.want[k] \cup subscribed[k]

\* A window update unsubscribes what the polls believe subscribed.
Stolen(s, k) ==
  Booked(s, k) /\ \E u \in Underlyings : refresher[u].phase = "unsub" /\ s \in refresher[u].rem

\* Windows and legs both claim a symbol, and each spares it for the other.
Shared(s, k) ==
  s \in WindowUnion \cup apply.keep /\ (Booked(s, k) \/ s \in legs)

\* A leg opened while the engine runs is subscribed, a leg closed unsubscribed,
\* unless the consumer changes its mind first; a call that fails is made again
\* by the next poll.  All that breaks it is what windows do to the legs they
\* pass over, and calls that raise after they took effect: a leg stays unfed for
\* good only if it was taken off the feed behind the books of the polls, and a
\* closed one stays behind only if windows and legs had shared it, or it was put
\* on the feed behind the books.
LegsFollowed ==
  \A s \in LegSymbols, k \in LegKinds :
    /\ <>[](s \in legs /\ s \notin wire[k]) => <>(Stolen(s, k) \/ Removed(k))
    /\ <>[](s \notin legs /\ s \in wire[k]) =>
         \/ <>[](s \in WindowUnion)
         \/ <>(Shared(s, k) \/ Added(k) \/ \E u \in Underlyings : Cut(u))

=============================================================================
