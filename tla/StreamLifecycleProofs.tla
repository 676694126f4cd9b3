------------------------ MODULE StreamLifecycleProofs ------------------------
(***************************************************************************)
(* Theorems about StreamLifecycle, for every set of listeners and          *)
(* refreshers and any number of reconnects and cancellations, and about    *)
(* StreamDaemon, where the process may die and start again.                *)
(***************************************************************************)
EXTENDS StreamDaemon, TLAPS

USE TasksAssumption

\* Doubling and capping walks through the table of delays.
LEMMA DelayTable ==
  ASSUME NEW n \in Nat
  PROVE  NextDelay(BackoffAt(n)) = BackoffAt(n + 1)
<1>1. CASE n >= 5
  BY <1>1 DEF NextDelay, BackoffAt, ReconnectMax
<1>2. CASE n \in {0, 1, 2, 3, 4}
  BY <1>2 DEF NextDelay, BackoffAt, ReconnectMax
<1>. QED
  BY <1>1, <1>2

\* A counted reconnect is one the bound allows.
WithinBound == pc = "backoff" => reconnectCount < MaxReconnects

LEMMA TypeStep ==
  ASSUME TypeOK, WithinBound, [Next]_vars
  PROVE  TypeOK' /\ WithinBound'
<1>. USE DEF TypeOK, WithinBound, stops, pace, ReconnectBase, ReconnectMax
<1>1. CASE Stop
  BY <1>1 DEF Stop
<1>2. CASE Boot \/ BootFails \/ Loop \/ Connected
  BY <1>2 DEF Boot, BootFails, Loop, Connected
<1>3. CASE StreamFails
  BY <1>3 DEF StreamFails, AfterException
<1>4. CASE StreamReturns
  BY <1>4 DEF StreamReturns
<1>5. CASE BackoffEnds
  BY <1>5 DEF BackoffEnds, NextDelay
<1>6. CASE Cancel
  BY <1>6 DEF Cancel
<1>7. ASSUME NEW t \in Tasks, Leaves(t)
      PROVE  TypeOK' /\ WithinBound'
  BY <1>7 DEF Leaves
<1>8. CASE UNCHANGED vars
  BY <1>8 DEF vars
<1>. QED
  BY <1>1, <1>2, <1>3, <1>4, <1>5, <1>6, <1>7, <1>8
  DEF Next, TimerLeaves, RefresherGivesUp, ListenerLeaves, ListenerRunsOut

\* Every variable stays within its type; the delay, within its limits.
THEOREM TypeCorrect == Spec => []TypeOK
<1>1. Init => WithinBound
  BY DEF Init, WithinBound
<1>2. Init => delay \in ReconnectBase..ReconnectMax
  BY DEF Init, ReconnectBase, ReconnectMax
<1>3. Init => reconnectCount \in 0..MaxReconnects /\ cancels \in 0..MaxCancels
  BY DEF Init
<1>4. Init => TypeOK
  BY <1>2, <1>3 DEF Init, TypeOK
<1>. QED
  BY <1>1, <1>4, TypeStep, PTL DEF Spec

-----------------------------------------------------------------------------
(* BackoffLaw needs to know what happens between two sleeps: the delay walks *)
(* the table as long as no stop is accepted, and _run_stream cannot return   *)
(* before one is, because the timers are still in the group.                 *)

DelayInStep ==
  /\ ~stopEvent \/ pc = "backoff" => delay = BackoffAt(reconnectCount)
  /\ ~stopEvent /\ pc = "streaming" => Timers \subseteq tasks

LEMMA DelayStep ==
  ASSUME TypeOK, DelayInStep, [Next]_vars
  PROVE  DelayInStep'
<1>. USE DEF TypeOK, DelayInStep, stops, pace
<1>1. CASE Stop
  BY <1>1 DEF Stop
<1>2. CASE Boot \/ BootFails \/ Loop
  BY <1>2 DEF Boot, BootFails, Loop
<1>3. CASE Connected
  BY <1>3 DEF Connected, Tasks
<1>4. CASE StreamFails
  BY <1>4 DEF StreamFails, AfterException
<1>5. CASE StreamReturns
  BY <1>5 DEF StreamReturns, Timers
<1>6. CASE BackoffEnds
  BY <1>6, DelayTable DEF BackoffEnds
<1>7. CASE Cancel
  BY <1>7 DEF Cancel
<1>8. ASSUME NEW t \in Tasks, \/ TimerLeaves(t) \/ RefresherGivesUp(t)
             \/ ListenerLeaves(t) \/ ListenerRunsOut(t)
      PROVE  DelayInStep'
  <2>1. Timers \cap (Listeners \cup Refreshers) = {}
    BY DEF Timers
  <2>. QED
    BY <1>8, <2>1 DEF TimerLeaves, RefresherGivesUp, ListenerLeaves, ListenerRunsOut, Leaves
<1>9. CASE UNCHANGED vars
  BY <1>9 DEF vars
<1>. QED
  BY <1>1, <1>2, <1>3, <1>4, <1>5, <1>6, <1>7, <1>8, <1>9 DEF Next

\* Every backoff sleeps 2, 4, 8, 16, 32 and then 60 seconds, by the reconnects
\* since the engine started, however long the connections between them lasted.
THEOREM BackoffIsLaw == Spec => []BackoffLaw
<1>1. Init => DelayInStep
  BY DEF Init, DelayInStep, BackoffAt, ReconnectBase
<1>2. DelayInStep => BackoffLaw
  BY DEF DelayInStep, BackoffLaw
<1>. QED
  BY <1>1, <1>2, DelayStep, TypeCorrect, PTL DEF Spec

-----------------------------------------------------------------------------
(* The daemon: its steps are those of the run loop, of a task that writes,   *)
(* and the end and the start of a process.                                   *)

LEMMA DaemonStep ==
  ASSUME [DaemonNext]_daemonVars
  PROVE  [Next]_vars \/ Dies \/ Restart
<1>1. CASE UNCHANGED daemonVars
  BY <1>1 DEF daemonVars
<1>2. ASSUME NEW t \in Tasks,
             \/ TimerLeavesDaemon(t) \/ ListenerLeavesDaemon(t)
             \/ (RefresherGivesUp(t) \/ ListenerRunsOut(t)) /\ UNCHANGED cacheVars
             \/ Flushes(t) \/ Upserts(t)
      PROVE  [Next]_vars
  BY <1>2 DEF TimerLeavesDaemon, ListenerLeavesDaemon, Flushes, Upserts, Next
<1>. QED
  BY <1>1, <1>2
  DEF DaemonNext, BootDaemon, LoopDaemon, ConnectedDaemon, StreamFailsDaemon,
      StreamReturnsDaemon, BackoffEndsDaemon, CancelDaemon, Close,
      ListenerWrites, Next

LEMMA ProcessStep ==
  ASSUME TypeOK, WithinBound, DelayInStep, Dies \/ Restart
  PROVE  TypeOK' /\ WithinBound' /\ DelayInStep'
<1>. USE DEF TypeOK, WithinBound, DelayInStep, stops, pace
<1>1. CASE Dies
  BY <1>1 DEF Dies
<1>2. CASE Restart
  <2>1. BackoffAt(0) = 2
    BY DEF BackoffAt
  <2>2. delay' = 2 /\ delay' \in ReconnectBase..ReconnectMax
    BY <1>2 DEF Restart, ReconnectBase, ReconnectMax
  <2>3. reconnectCount' = 0 /\ reconnectCount' \in 0..MaxReconnects
    BY <1>2 DEF Restart
  <2>. QED
    BY <1>2, <2>1, <2>2, <2>3 DEF Restart
<1>. QED
  BY <1>1, <1>2

\* The backoffs of the daemon follow the schedule, and a new process starts it
\* afresh.
THEOREM DaemonBackoffIsLaw == DaemonSpec => [](TypeOK /\ BackoffLaw)
<1>. DEFINE Inv == TypeOK /\ WithinBound /\ DelayInStep
<1>1. DaemonInit => Inv
  <2>. SUFFICES ASSUME DaemonInit PROVE Inv
    OBVIOUS
  <2>. USE DEF DaemonInit, Init, ReconnectBase, ReconnectMax
  <2>0. /\ delay \in ReconnectBase..ReconnectMax
        /\ reconnectCount \in 0..MaxReconnects /\ cancels \in 0..MaxCancels
    OBVIOUS
  <2>1. TypeOK /\ WithinBound
    BY <2>0 DEF TypeOK, WithinBound
  <2>2. DelayInStep
    BY DEF DelayInStep, BackoffAt
  <2>. QED
    BY <2>1, <2>2
<1>2. Inv /\ [DaemonNext]_daemonVars => Inv'
  BY DaemonStep, TypeStep, DelayStep, ProcessStep
<1>3. Inv => TypeOK /\ BackoffLaw
  BY DEF DelayInStep, BackoffLaw
<1>. QED
  BY <1>1, <1>2, <1>3, PTL DEF DaemonSpec

\* What the daemon does to its file is what CacheWriter allows: the tasks, the
\* loop and the end of the process only choose when.
THEOREM DaemonIsWriter == DaemonSpec => Cache!Spec
<1>1. DaemonInit => Cache!Init
  BY DEF DaemonInit
<1>2. [DaemonNext]_daemonVars => [Cache!Next]_Cache!vars
  BY DEF DaemonNext, daemonVars, cacheVars, Cache!Next, Cache!vars, Cache!files,
     BootDaemon, ConnectedDaemon, Attempt, StreamFailsDaemon, CancelDaemon,
     LoopDaemon, StreamReturnsDaemon, BackoffEndsDaemon, Close, Dies, Restart,
     ListenerWrites, Flushes, Upserts, TimerLeavesDaemon, ListenerLeavesDaemon
<1>. QED
  BY <1>1, <1>2, PTL DEF DaemonSpec, Cache!Spec

=============================================================================
