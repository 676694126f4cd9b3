----------------------------- MODULE CacheWriter -----------------------------
(***************************************************************************)
(* How the events of the streamer reach the SQLite cache: the batched      *)
(* commits of _maybe_commit, the status upserts, which commit on the same  *)
(* connection, and the end of the process, clean or not.                   *)
(*                                                                         *)
(* Listeners and the status flusher run on one event loop and do not await *)
(* inside a write, so each handler is one action.  Events are counted, not *)
(* named: `written` is how many have been executed, `durable` how many a   *)
(* reader (or the next process) sees.                                      *)
(***************************************************************************)
EXTENDS Integers

CONSTANTS
  MaxPending,    \* _COMMIT_BATCH_MAX_PENDING
  MaxEvents,     \* bound on events written
  MaxFaults,     \* bound on commits that raise
  MaxStarts      \* bound on starts of the engine

ASSUME BoundsAssumption ==
  /\ MaxPending \in Nat \ {0}
  /\ MaxEvents \in Nat /\ MaxFaults \in Nat /\ MaxStarts \in Nat

VARIABLES
  engine,        \* "on" while run_async has its connection open, else "off"
  written,       \* events executed on the connection, or durable
  durable,       \* events committed
  pendingWrites, \* state.pending_writes
  lastEvent,     \* the event state.last_event_at is of, 0 for None
  statusRow,     \* the event stream_status.last_event_at is of, on the connection
  statusDurable, \* the same, committed
  faults,        \* commits that have raised
  starts         \* starts of the engine

files == <<written, durable, statusRow, statusDurable>>
vars  == <<engine, files, pendingWrites, lastEvent, faults, starts>>

Init ==
  /\ engine = "off"
  /\ written = 0 /\ durable = 0
  /\ pendingWrites = 0
  /\ lastEvent = 0
  /\ statusRow = 0 /\ statusDurable = 0
  /\ faults = 0 /\ starts = 0

-----------------------------------------------------------------------------
(* The connection *)

\* Mutant: the status has a connection of its own.
CommitStatusAlone(w, s) == durable' = durable /\ statusDurable' = s

\* A commit makes everything executed on the connection durable.
Commit(w, s) == durable' = w /\ statusDurable' = s

\* The commit raises because the database is locked: the transaction stays open.
\* (On an I/O error or a full disk SQLite may roll it back: not modelled.)
CommitRaises ==
  /\ faults < MaxFaults
  /\ faults' = faults + 1
  /\ UNCHANGED <<durable, statusDurable>>

\* run_async: connect, and a new _State.
Start ==
  /\ engine = "off"
  /\ starts < MaxStarts
  /\ engine' = "on"
  /\ starts' = starts + 1
  /\ pendingWrites' = 0 /\ lastEvent' = 0
  /\ UNCHANGED <<files, faults>>

\* conn.close(), or the process dies: the open transaction is rolled back.
End ==
  /\ engine = "on"
  /\ engine' = "off"
  /\ written' = durable
  /\ statusRow' = statusDurable
  /\ UNCHANGED <<durable, statusDurable, pendingWrites, lastEvent, faults,
                 starts>>

-----------------------------------------------------------------------------
(* Listeners *)

\* Mutant: the batch is one too long.
BatchOverrun == pendingWrites > MaxPending
BatchFull    == pendingWrites + 1 >= MaxPending

\* _maybe_commit decides to wait: the batch is not full, and the half second is
\* not over.  The clock is not modelled: the half second may be over at any
\* event.
WriteBatched ==
  /\ engine = "on"
  /\ written < MaxEvents
  /\ ~BatchFull
  /\ written' = written + 1
  /\ pendingWrites' = pendingWrites + 1
  /\ lastEvent' = written + 1
  /\ UNCHANGED <<engine, durable, statusRow, statusDurable, faults, starts>>

WriteCommits ==
  /\ engine = "on"
  /\ written < MaxEvents
  /\ written' = written + 1
  /\ Commit(written + 1, statusRow)
  /\ pendingWrites' = 0
  /\ lastEvent' = written + 1
  /\ UNCHANGED <<engine, statusRow, faults, starts>>

\* The commit raises: the event is written, but _touch is skipped.
WriteCommitRaises ==
  /\ engine = "on"
  /\ written < MaxEvents
  /\ written' = written + 1
  /\ CommitRaises
  /\ pendingWrites' = pendingWrites + 1
  /\ UNCHANGED <<engine, statusRow, lastEvent, starts>>

-----------------------------------------------------------------------------
(* upsert_status: it executes and commits, and leaves pending_writes alone *)

\* Mutant: the upsert is left to the next commit of the listeners.
UpsertUncommitted(s) ==
  /\ engine = "on"
  /\ statusRow' = s
  /\ UNCHANGED <<engine, written, durable, statusDurable, pendingWrites,
                 lastEvent, faults, starts>>

UpsertStatus(s) ==
  /\ engine = "on"
  /\ statusRow' = s
  /\ \/ Commit(written, s) /\ UNCHANGED faults
     \/ CommitRaises
  /\ UNCHANGED <<engine, written, pendingWrites, lastEvent, starts>>

\* _flush_status, every five seconds once an event has been touched.
Flush == lastEvent # 0 /\ UpsertStatus(lastEvent)

\* The other commits: the upserts of a poll, a window update or a connection,
\* and write_chain, leave last_event_at alone.
OtherCommit == UpsertStatus(statusRow)

Next ==
  \/ Start \/ End
  \/ WriteBatched \/ WriteCommits \/ WriteCommitRaises
  \/ Flush \/ OtherCommit

Spec == Init /\ [][Next]_vars

-----------------------------------------------------------------------------
(* Properties *)

\* The type invariant.
TypeOK ==
  /\ engine \in {"off", "on"}
  /\ written \in 0..MaxEvents /\ durable \in 0..MaxEvents
  /\ pendingWrites \in 0..(MaxPending + MaxFaults)
  /\ lastEvent \in 0..MaxEvents
  /\ statusRow \in 0..MaxEvents /\ statusDurable \in 0..MaxEvents
  /\ faults \in 0..MaxFaults /\ starts \in 0..MaxStarts

\* What a crash, or the close() that ends run_async, can lose: fewer events
\* than a batch, and one more for each commit that failed.  The counter may
\* overstate it (a status upsert commits without resetting pending_writes),
\* never understate it.
LossBounded ==
  /\ engine = "on" => written - durable <= pendingWrites
  /\ engine = "off" => written = durable
  /\ pendingWrites < MaxPending + faults

\* A reader never sees a status row that claims an event the cache lacks, in
\* this or an earlier run of the engine.
StatusHonest ==
  /\ statusDurable <= durable
  /\ statusRow <= written

\* To a reader the cache is a log that lags by less than a batch and a failed
\* commit each.
Log == INSTANCE LaggedLog WITH MaxLag <- MaxPending + MaxFaults - 1

IsLaggedLog == Log!Spec

=============================================================================
