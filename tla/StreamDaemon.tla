----------------------------- MODULE StreamDaemon -----------------------------
(***************************************************************************)
(* The streaming daemon: the run loop of StreamLifecycle together with the *)
(* stream cache of CacheWriter that it writes.                             *)
(*                                                                         *)
(* CacheWriter alone lets every handler run at any time.  Here a listener  *)
(* writes, and a flusher commits, only while its task is in the task group *)
(* of a connection that is up; during an outage nobody commits, and what   *)
(* the last batch left open waits for the next connection.  The process    *)
(* may die at any moment, and be started again.                            *)
(***************************************************************************)
EXTENDS StreamLifecycle

CONSTANTS
  MaxPending, MaxEvents, MaxFaults, MaxStarts    \* see CacheWriter

VARIABLES
  engine, written, durable, pendingWrites, lastEvent, statusRow,
  statusDurable, faults, starts                  \* see CacheWriter

Cache == INSTANCE CacheWriter

cacheVars  ==
  <<engine, written, durable, pendingWrites, lastEvent, statusRow,
    statusDurable, faults, starts>>
daemonVars == <<vars, cacheVars>>

DaemonInit == Init /\ Cache!Init

-----------------------------------------------------------------------------
(* The run loop, and what each of its steps does to the cache *)

\* streamcache.connect and the new _State.
BootDaemon == Boot /\ Cache!Start

\* _run_stream opens with an upsert_status, and the first subscriptions end
\* with one.  The connection counts as up when they went through.
ConnectedDaemon == Connected /\ Cache!OtherCommit /\ UNCHANGED faults

\* An attempt to connect ends early: before those commits, after one, or
\* because one raised.
Attempt == Cache!OtherCommit \/ UNCHANGED cacheVars

StreamFailsDaemon ==
  /\ StreamFails
  /\ IF pc = "connecting" THEN Attempt ELSE UNCHANGED cacheVars

CancelDaemon ==
  /\ Cancel
  /\ IF pc = "connecting" THEN Attempt ELSE UNCHANGED cacheVars

\* What only moves the loop.
LoopDaemon == Loop /\ UNCHANGED cacheVars
StreamReturnsDaemon == StreamReturns /\ UNCHANGED cacheVars
BackoffEndsDaemon == BackoffEnds /\ UNCHANGED cacheVars

\* conn.close() after the loop, without a commit.
Close == pc = "ended" /\ Cache!End /\ UNCHANGED vars

\* The process dies.
Dies ==
  /\ Cache!End
  /\ pc' = "raised" /\ tasks' = {}
  /\ UNCHANGED <<stops, pace, cancels>>

\* A new process: nothing but the file survives.
Restart ==
  /\ engine = "off"
  /\ pc \in {"ended", "raised"}
  /\ starts < MaxStarts
  /\ pc' = "boot"
  /\ stateSet' = FALSE /\ stopEvent' = FALSE
  /\ tasks' = {}
  /\ delay' = ReconnectBase /\ reconnectCount' = 0
  /\ UNCHANGED <<cancels, cacheVars>>

-----------------------------------------------------------------------------
(* The tasks of the group, and what they write *)

\* A listener that sees the stop leaves before it writes.
ListenerWrites ==
  /\ pc = "streaming" /\ ~stopEvent
  /\ tasks \cap Listeners # {}
  /\ Cache!WriteBatched \/ Cache!WriteCommits \/ Cache!WriteCommitRaises
  /\ UNCHANGED vars

\* _flush_status, and the upsert of last_event_at that ends a poll.
Flushes(t) ==
  /\ pc = "streaming"
  /\ t \in tasks \cap Timers
  /\ Cache!Flush
  /\ UNCHANGED vars

\* The other upserts of a poll, and those of a refresher.
Upserts(t) ==
  /\ pc = "streaming"
  /\ t \in tasks \cap ({"poll_subscriptions"} \cup Refreshers)
  /\ Cache!OtherCommit
  /\ UNCHANGED vars

TimerLeavesDaemon(t)    == TimerLeaves(t) /\ UNCHANGED cacheVars
ListenerLeavesDaemon(t) == ListenerLeaves(t) /\ UNCHANGED cacheVars

DaemonNext ==
  \/ Stop /\ UNCHANGED cacheVars
  \/ BootDaemon
  \/ BootFails /\ UNCHANGED cacheVars
  \/ LoopDaemon \/ ConnectedDaemon \/ StreamFailsDaemon
  \/ StreamReturnsDaemon \/ BackoffEndsDaemon \/ CancelDaemon
  \/ Close \/ Dies \/ Restart
  \/ ListenerWrites
  \/ \E t \in Tasks :
       \/ TimerLeavesDaemon(t) \/ ListenerLeavesDaemon(t)
       \/ (RefresherGivesUp(t) \/ ListenerRunsOut(t)) /\ UNCHANGED cacheVars
       \/ Flushes(t) \/ Upserts(t)

DaemonSpec == DaemonInit /\ [][DaemonNext]_daemonVars

\* StreamLifecycle!EngineFairness, of the joint actions; the flusher and the
\* poll go on while they are in the group, and close() ends.
DaemonFairness ==
  /\ WF_daemonVars(BootDaemon \/ (BootFails /\ UNCHANGED cacheVars))
  /\ WF_daemonVars(LoopDaemon)
  /\ WF_daemonVars(ConnectedDaemon \/ (pc = "connecting" /\ StreamFailsDaemon))
  /\ WF_daemonVars(StreamReturnsDaemon)
  /\ WF_daemonVars(BackoffEndsDaemon)
  /\ WF_daemonVars(Close)
  /\ \A t \in Tasks : WF_daemonVars(TimerLeavesDaemon(t))
  /\ WF_daemonVars(Flushes("flush_status"))
  /\ WF_daemonVars(Upserts("poll_subscriptions"))

\* On a market that trades (see BusyFeedSpec).
BusyDaemonSpec ==
  /\ DaemonSpec
  /\ DaemonFairness
  /\ \A t \in Listeners : WF_daemonVars(ListenerLeavesDaemon(t))

-----------------------------------------------------------------------------
(* Properties *)

\* What the listeners wrote reaches the readers, or is given up by a close,
\* however outages, backoffs, failed commits and a stop fall between the
\* batches: the tail of a batch that an outage leaves open is committed by the
\* next connection, and on a feed with nothing new by the flusher or the poll.
\* Only a run_async that a cancellation threw out of its backoff may keep the
\* transaction open, for as long as the process lives.
RowsBecomeDurable == []<>(written = durable \/ pc = "raised")

=============================================================================
