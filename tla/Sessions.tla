------------------------------ MODULE Sessions -------------------------------
(***************************************************************************)
(* cherrypick.core.auth: threads that call get_session and reset_session   *)
(* on one SessionManager, in either caching mode, while an operator writes *)
(* and deletes the secrets in the OS keyring.  Nothing is locked, and every *)
(* keyring read, the call of the session factory and the assignment to the *)
(* cache are steps of their own.                                           *)
(*                                                                         *)
(* A secret is "set", "blank" (an empty string) or "absent".  A get_session *)
(* that finds a session in the cache returns it and changes nothing, so    *)
(* only the misses are actions.                                            *)
(***************************************************************************)
EXTENDS Integers, Sequences

CONSTANTS
  Threads,
  Services,        \* keyring services: the primary is 1, the legacy ones follow
  MaxResets,       \* bound on resets
  MaxWrites,       \* bound on secrets stored
  MaxWithdrawals,  \* bound on secrets deleted or blanked
  MaxFaults        \* bound on keyring reads and factory calls that raise

ASSUME SessionsAssumption ==
  /\ Services \in Nat \ {0}
  /\ {"process", "nobody"} \cap Threads = {}
  /\ MaxResets \in Nat /\ MaxWrites \in Nat /\ MaxWithdrawals \in Nat
  /\ MaxFaults \in Nat

VARIABLES
  threadLocal,  \* the flag the manager was constructed with
  keyring,      \* [service -> [secret -> its value]]
  cache,        \* [slot -> the session cached there]
  task,         \* [thread -> the get_session it is in]
  builds,       \* [thread -> sessions the factory has returned to it]
  resets,       \* [slot -> resets of that slot]
  left          \* [budget -> what remains of it]

sessionVars == <<threadLocal, keyring, cache, task, builds, resets, left>>

Secrets == {"client_secret", "refresh_token"}
Values  == {"set", "blank", "absent"}

Budgets == {"resets", "writes", "withdrawals", "faults"}

\* The reads of a get_session that misses: missing_secrets() first, then the
\* two values.
Reads == <<"client_secret", "refresh_token", "client_secret", "refresh_token">>

Slots == Threads \cup {"process"}

\* Mutant: every thread shares the slot of the process.
SlotShared(t) == "process"

\* Where _get_cached and _set_cached look.
Slot(t) == IF threadLocal THEN t ELSE "process"

\* A session, by the thread whose event loop it is bound to and the resets its
\* slot had seen when get_session missed.
NoSession == [by |-> "nobody", epoch |-> 0]
Sessions  == {NoSession} \cup [by : Threads, epoch : Nat]

NoTask == [phase |-> "idle", read |-> 1, service |-> 1, missing |-> FALSE,
           args |-> {}, epoch |-> 0]

SessionInit ==
  /\ threadLocal \in BOOLEAN
  /\ keyring \in [1..Services -> [Secrets -> Values]]
  /\ cache = [s \in Slots |-> NoSession]
  /\ task = [t \in Threads |-> NoTask]
  /\ builds = [t \in Threads |-> 0]
  /\ resets = [s \in Slots |-> 0]
  /\ left = [resets |-> MaxResets, writes |-> MaxWrites,
             withdrawals |-> MaxWithdrawals, faults |-> MaxFaults]

Spend(budget) ==
  /\ left[budget] > 0
  /\ left' = [left EXCEPT ![budget] = @ - 1]

Become(t, new) == task' = [task EXCEPT ![t] = new]

-----------------------------------------------------------------------------
(* SessionManager.get_session *)

\* The cache holds no session for this thread.
Miss(t) ==
  /\ task[t].phase = "idle"
  /\ cache[Slot(t)] = NoSession
  /\ Become(t, [NoTask EXCEPT !.phase = "read", !.epoch = resets[Slot(t)]])
  /\ UNCHANGED <<threadLocal, keyring, cache, builds, resets, left>>

\* Mutant: a secret that is blank counts as present.
UsableIfPresent(value) == value # "absent"

\* The truth value of a secret: None and "" are missing.
Usable(value) == value = "set"

\* A get_session r once get_secret has a value, or none is left to try.  After
\* the second read missing_secrets() is known, and a missing secret raises
\* CredentialError.
Found(r, value) ==
  LET missing == r.missing \/ ~Usable(value) IN
  IF r.read = 1 THEN
    [r EXCEPT !.read = 2, !.service = 1, !.missing = missing]
  ELSE IF r.read = 2 THEN
    IF missing THEN NoTask ELSE [r EXCEPT !.read = 3, !.service = 1]
  ELSE IF r.read = 3 THEN
    [r EXCEPT !.read = 4, !.service = 1, !.args = {value}]
  ELSE
    [r EXCEPT !.phase = "build", !.args = @ \cup {value}]

\* Mutant: one service too many is tried.
NotHereTooFar(r) ==
  IF r.service <= Services
    THEN [r EXCEPT !.service = @ + 1]
    ELSE Found(r, "absent")

\* The service has no such entry: get_secret tries the next one, if any.
NotHere(r) ==
  IF r.service < Services
    THEN [r EXCEPT !.service = @ + 1]
    ELSE Found(r, "absent")

\* One keyring.get_password.
ReadSecret(t) ==
  LET r == task[t]
      value == keyring[r.service][Reads[r.read]]
  IN
  /\ r.phase = "read"
  /\ Become(t, IF value = "absent" THEN NotHere(r) ELSE Found(r, value))
  /\ UNCHANGED <<threadLocal, keyring, cache, builds, resets, left>>

\* It raises, and get_session with it; only a KeyringError of a legacy service is
\* taken for a miss.
ReadRaises(t) ==
  /\ task[t].phase = "read"
  /\ Spend("faults")
  /\ \/ Become(t, NoTask)
     \/ task[t].service > 1 /\ Become(t, NotHere(task[t]))
  /\ UNCHANGED <<threadLocal, keyring, cache, builds, resets>>

\* The factory returns a session, not cached yet.
Build(t) ==
  /\ task[t].phase = "build"
  /\ builds' = [builds EXCEPT ![t] = @ + 1]
  /\ Become(t, [task[t] EXCEPT !.phase = "store"])
  /\ UNCHANGED <<threadLocal, keyring, cache, resets, left>>

BuildRaises(t) ==
  /\ task[t].phase = "build"
  /\ Spend("faults")
  /\ Become(t, NoTask)
  /\ UNCHANGED <<threadLocal, keyring, cache, builds, resets>>

\* Mutant: get_session returns the session it built and does not cache it.
StoreForgotten(t) ==
  /\ task[t].phase = "store"
  /\ Become(t, NoTask)
  /\ UNCHANGED <<threadLocal, keyring, cache, builds, resets, left>>

\* _set_cached, and get_session returns.
Store(t) ==
  /\ task[t].phase = "store"
  /\ cache' = [cache EXCEPT ![Slot(t)] = [by |-> t, epoch |-> task[t].epoch]]
  /\ Become(t, NoTask)
  /\ UNCHANGED <<threadLocal, keyring, builds, resets, left>>

-----------------------------------------------------------------------------
(* SessionManager.reset_session *)

Reset(t) ==
  /\ task[t].phase = "idle"
  /\ Spend("resets")
  /\ cache' = [cache EXCEPT ![Slot(t)] = NoSession]
  /\ resets' = [resets EXCEPT ![Slot(t)] = @ + 1]
  /\ UNCHANGED <<threadLocal, keyring, task, builds>>

-----------------------------------------------------------------------------
(* CredentialStore.set_secret and delete_secret: only the primary is written *)

SetSecret(k) ==
  /\ Spend("writes")
  /\ keyring' = [keyring EXCEPT ![1][k] = "set"]
  /\ UNCHANGED <<threadLocal, cache, task, builds, resets>>

\* set_secret(k, ""), or delete_secret(k): a legacy value shows again.
WithdrawSecret(k) ==
  /\ Spend("withdrawals")
  /\ \E value \in {"blank", "absent"} :
       keyring' = [keyring EXCEPT ![1][k] = value]
  /\ UNCHANGED <<threadLocal, cache, task, builds, resets>>

SessionNext ==
  \/ \E t \in Threads :
       \/ Miss(t) \/ ReadSecret(t) \/ ReadRaises(t)
       \/ Build(t) \/ BuildRaises(t) \/ Store(t)
       \/ Reset(t)
  \/ \E k \in Secrets : SetSecret(k) \/ WithdrawSecret(k)

SessionSpec == SessionInit /\ [][SessionNext]_sessionVars

-----------------------------------------------------------------------------
(* Properties *)

Tasks ==
  [phase : {"idle", "read", "build", "store"}, read : 1..4, service : 1..Services,
   missing : BOOLEAN, args : SUBSET Values, epoch : Nat]

\* The type invariant.
SessionTypeOK ==
  /\ threadLocal \in BOOLEAN
  /\ keyring \in [1..Services -> [Secrets -> Values]]
  /\ cache \in [Slots -> Sessions]
  /\ task \in [Threads -> Tasks]
  /\ builds \in [Threads -> Nat]
  /\ resets \in [Slots -> Nat]
  /\ left \in [Budgets -> Nat]

\* However the threads race, a thread authenticates at most once, and once more
\* for every reset of the slot it uses.
BuildsBounded == \A t \in Threads : builds[t] <= resets[Slot(t)] + 1

\* With thread-local sessions a thread only ever gets a session it built itself,
\* bound to its own event loop, and built after its latest reset.
OwnSession ==
  threadLocal =>
    \A t \in Threads :
      cache[Slot(t)] # NoSession =>
        cache[Slot(t)] = [by |-> t, epoch |-> resets[Slot(t)]]

\* The factory is handed two usable secrets whatever the operator stores while
\* the reads go on and whichever service answers them, as long as no secret is
\* withdrawn and no read fails.  (A legacy read that fails after the check is
\* taken for a miss, and hands None to the factory.)
NeverBlind ==
  left.withdrawals = MaxWithdrawals /\ left.faults = MaxFaults =>
    \A t \in Threads : task[t].phase = "build" => task[t].args = {"set"}

=============================================================================
