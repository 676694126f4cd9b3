--------------------------- MODULE StreamLifecycle ---------------------------
(***************************************************************************)
(* The life of one ChainStreamer.run(): boot, connect, the task group of   *)
(* _run_stream, backoff, and the end, with stop() (or a signal) and an     *)
(* external cancellation arriving at any moment.                           *)
(*                                                                         *)
(* asyncio.TaskGroup is modelled by its documented rules: a task that      *)
(* raises aborts the group, a task that returns or that ends in            *)
(* CancelledError merely leaves it, and the group returns when it is       *)
(* empty.  Aborting is one step: the cancelled tasks run no code that      *)
(* matters here.  What the tasks do is in ChainStreamer and CacheWriter.   *)
(***************************************************************************)
EXTENDS Integers, FiniteSets

CONSTANTS
  Listeners,      \* _listen_trade, _listen_quote, _listen_greeks, _listen_summary
  Refreshers,     \* one _symbol_refresher per underlying
  MaxReconnects,  \* bound on reconnect_count
  MaxCancels      \* bound on external cancellations

Watch  == "watch_stop"
Timers == {"poll_subscriptions", "flush_status"}
Tasks  == Listeners \cup Refreshers \cup Timers \cup {Watch}

ASSUME TasksAssumption ==
  /\ Listeners \cap (Refreshers \cup Timers \cup {Watch}) = {}
  /\ Refreshers \cap (Timers \cup {Watch}) = {}
  /\ MaxReconnects \in Nat /\ MaxCancels \in Nat

VARIABLES
  pc,              \* where run_async is
  stateSet,        \* self.state is the _State of this run
  stopEvent,       \* state.stop_event is set
  tasks,           \* the tasks of the group still running
  delay,           \* the local `delay` of run_async, in seconds
  reconnectCount,  \* state.reconnect_count
  cancels          \* external cancellations so far

stops == <<stateSet, stopEvent>>
pace  == <<delay, reconnectCount>>
vars  == <<pc, stops, tasks, pace, cancels>>

-----------------------------------------------------------------------------
(* Reconnect delays *)

ReconnectBase == 2
ReconnectMax  == 60

\* Mutant: the cap is forgotten.
UncappedDelay(d) == d * 2
NextDelay(d) == IF d * 2 > ReconnectMax THEN ReconnectMax ELSE d * 2

\* The delay before the (n+1)-th reconnect.
BackoffAt(n) ==
  IF n >= 5 THEN 60 ELSE <<2, 4, 8, 16, 32>>[n + 1]

Init ==
  /\ pc = "boot"
  /\ stateSet = FALSE
  /\ stopEvent = FALSE
  /\ tasks = {}
  /\ delay = ReconnectBase
  /\ reconnectCount = 0
  /\ cancels = 0

-----------------------------------------------------------------------------
(* stop() and the signal handler *)

\* Without a state there is nothing to set, and a stop asked for is lost.
Stop ==
  /\ stateSet
  /\ stopEvent' = TRUE
  /\ UNCHANGED <<pc, stateSet, tasks, pace, cancels>>

-----------------------------------------------------------------------------
(* run_async *)

\* streamcache.connect and the new _State.
Boot ==
  /\ pc = "boot"
  /\ pc' = "loop"
  /\ stateSet' = TRUE
  /\ UNCHANGED <<stopEvent, tasks, pace, cancels>>

\* The cache cannot be opened: run() raises.
BootFails ==
  /\ pc = "boot"
  /\ pc' = "raised"
  /\ UNCHANGED <<stops, tasks, pace, cancels>>

\* The head of the loop.
Loop ==
  /\ pc = "loop"
  /\ pc' = IF stopEvent THEN "ended" ELSE "connecting"
  /\ UNCHANGED <<stops, tasks, pace, cancels>>

\* The session, the WebSocket and the initial subscriptions went through.
Connected ==
  /\ pc = "connecting"
  /\ pc' = "streaming"
  /\ tasks' = Tasks
  /\ UNCHANGED <<stops, pace, cancels>>

\* `except Exception`: break out of the loop, or sleep.
AfterException == IF stopEvent THEN "ended" ELSE "backoff"

\* Connecting fails; or the feed breaks under a listener, or a refresher fails to
\* read the cache, and the group is aborted; or closing the WebSocket behind an
\* empty group raises.
StreamFails ==
  /\ \/ pc = "connecting"
     \/ pc = "streaming" /\ (tasks = {} \/ tasks \cap (Listeners \cup Refreshers) # {})
  /\ reconnectCount < MaxReconnects
  /\ pc' = AfterException
  /\ tasks' = {}
  /\ UNCHANGED <<stops, pace, cancels>>

\* Every task has left the group: _run_stream returns.
StreamReturns ==
  /\ pc = "streaming"
  /\ tasks = {}
  /\ pc' = "loop"
  /\ delay' = ReconnectBase
  /\ UNCHANGED <<stops, tasks, reconnectCount, cancels>>

\* The sleep is not interrupted by a stop.
BackoffEnds ==
  /\ pc = "backoff"
  /\ pc' = "loop"
  /\ delay' = NextDelay(delay)
  /\ reconnectCount' = reconnectCount + 1
  /\ UNCHANGED <<stops, tasks, cancels>>

\* The task of run_async is cancelled from outside.  `except CancelledError`
\* covers _run_stream, and reconnects at once; a cancelled sleep in the other
\* handler escapes, the cache left open.
Cancel ==
  /\ cancels < MaxCancels
  /\ cancels' = cancels + 1
  /\ \/ /\ pc \in {"connecting", "streaming"}
        /\ pc' = IF stopEvent THEN "ended" ELSE "loop"
     \/ pc = "backoff" /\ pc' = "raised"
  /\ tasks' = {}
  /\ UNCHANGED <<stops, pace>>

-----------------------------------------------------------------------------
(* Tasks of the group *)

Leaves(t) ==
  /\ pc = "streaming"
  /\ t \in tasks
  /\ tasks' = tasks \ {t}
  /\ UNCHANGED <<pc, stops, pace, cancels>>

\* Mutant: the group is left to _watch_stop, whose CancelledError aborts nothing.
WatchLeaves(t) == t = Watch /\ stopEvent /\ Leaves(t)

\* _watch_stop, and the loops that sleep and look at stop_event.
TimerLeaves(t) == t \notin Listeners /\ stopEvent /\ Leaves(t)

\* A refresher whose chain fetch failed gives up at any time.
RefresherGivesUp(t) == t \in Refreshers /\ Leaves(t)

\* A listener looks at stop_event when the feed delivers its next event.
ListenerLeaves(t) == t \in Listeners /\ stopEvent /\ Leaves(t)

\* The feed's iterator ends: the listener returns, and the others go on.
ListenerRunsOut(t) == t \in Listeners /\ Leaves(t)

Next ==
  \/ Stop
  \/ Boot \/ BootFails
  \/ Loop \/ Connected \/ StreamFails \/ StreamReturns
  \/ BackoffEnds
  \/ Cancel
  \/ \E t \in Tasks :
       \/ TimerLeaves(t) \/ RefresherGivesUp(t)
       \/ ListenerLeaves(t) \/ ListenerRunsOut(t)

Spec == Init /\ [][Next]_vars

\* The event loop runs what is ready, sleeps end, and connecting either works
\* or raises.
EngineFairness ==
  /\ WF_vars(Boot \/ BootFails)
  /\ WF_vars(Loop)
  /\ WF_vars(Connected \/ (pc = "connecting" /\ StreamFails))
  /\ WF_vars(StreamReturns)
  /\ WF_vars(BackoffEnds)
  /\ \A t \in Tasks : WF_vars(TimerLeaves(t))

FairSpec == Spec /\ EngineFairness

\* A market that trades: every listener gets a next event, sooner or later.
BusyFeedSpec == FairSpec /\ \A t \in Listeners : WF_vars(ListenerLeaves(t))

-----------------------------------------------------------------------------
(* Properties *)

\* The type invariant.
TypeOK ==
  /\ pc \in {"boot", "loop", "connecting", "streaming", "backoff", "ended",
             "raised"}
  /\ stateSet \in BOOLEAN /\ stopEvent \in BOOLEAN
  /\ tasks \in SUBSET Tasks
  /\ delay \in ReconnectBase..ReconnectMax
  /\ reconnectCount \in 0..MaxReconnects
  /\ cancels \in 0..MaxCancels

\* The length of every backoff is fixed by the number of reconnects since the
\* engine started: neither a connection that stayed up nor a cancellation
\* resets it, because _run_stream only returns (the one reset) once stopped.
BackoffLaw == pc = "backoff" => delay = BackoffAt(reconnectCount)

\* "`run()` blocks with reconnect/backoff until `stop()` (or SIGTERM/SIGINT if
\* `install_signals`)": an accepted stop ends the run.  It does if the feed
\* still delivers, after whatever is left of a sleep it fell into (no sleep is
\* interrupted); on a quiet feed the listeners never look at the stop event.
StopEndsRun == stopEvent ~> pc \in {"ended", "raised"}

=============================================================================
