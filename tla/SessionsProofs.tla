--------------------------- MODULE SessionsProofs ----------------------------
(***************************************************************************)
(* Theorems about Sessions, for any threads, keyring services and bounds,  *)
(* in both caching modes.                                                  *)
(***************************************************************************)
EXTENDS Sessions, TLAPS

USE SessionsAssumption

LEMMA SlotIsSlot ==
  ASSUME NEW t \in Threads
  PROVE  Slot(t) \in Slots
BY DEF Slot, Slots

LEMMA SpendTyped ==
  ASSUME left \in [Budgets -> Nat], NEW b \in Budgets, Spend(b)
  PROVE  left' \in [Budgets -> Nat]
BY DEF Spend

LEMMA IdleTyped == NoTask \in Tasks
BY DEF NoTask, Tasks

\* What a read makes of a get_session: it fails, reads on, or is ready to build,
\* and remembers the resets it started from.
Onward(r, new) ==
  /\ new \in Tasks
  /\ new.phase \in {"idle", "read", "build"}
  /\ new.phase # "idle" => new.epoch = r.epoch

LEMMA FoundGoesOn ==
  ASSUME NEW r \in Tasks, NEW value \in Values, r.phase = "read"
  PROVE  Onward(r, Found(r, value))
<1>. DEFINE missing == r.missing \/ ~Usable(value)
<1>1. 1 \in 1..Services
  OBVIOUS
<1>2. missing \in BOOLEAN
  BY DEF Usable, Tasks
<1>3. CASE r.read = 1
  <2>. DEFINE new == [r EXCEPT !.read = 2, !.service = 1, !.missing = missing]
  <2>1. new \in Tasks
    BY <1>1, <1>2, 2 \in 1..4, Zenon DEF Tasks
  <2>2. new.phase = r.phase /\ new.epoch = r.epoch
    BY Zenon DEF Tasks
  <2>3. Found(r, value) = new
    BY <1>3, Zenon DEF Found
  <2>. QED
    BY <2>1, <2>2, <2>3 DEF Onward
<1>4. CASE r.read = 2
  <2>. DEFINE new == [r EXCEPT !.read = 3, !.service = 1]
  <2>1. new \in Tasks /\ new.phase = r.phase /\ new.epoch = r.epoch
    BY <1>1, 3 \in 1..4, Zenon DEF Tasks
  <2>2. Found(r, value) = NoTask \/ Found(r, value) = new
    BY <1>4 DEF Found
  <2>3. NoTask.phase = "idle"
    BY DEF NoTask
  <2>. QED
    BY <2>1, <2>2, <2>3, IdleTyped DEF Onward
<1>5. CASE r.read = 3
  <2>. DEFINE new == [r EXCEPT !.read = 4, !.service = 1, !.args = {value}]
  <2>1. new \in Tasks /\ new.phase = r.phase /\ new.epoch = r.epoch
    BY <1>1, 4 \in 1..4, Zenon DEF Tasks
  <2>2. Found(r, value) = new
    BY <1>5 DEF Found
  <2>. QED
    BY <2>1, <2>2 DEF Onward
<1>6. CASE r.read \notin {1, 2, 3}
  BY <1>6 DEF Found, Tasks, Onward
<1>. QED
  BY <1>3, <1>4, <1>5, <1>6

LEMMA NotHereGoesOn ==
  ASSUME NEW r \in Tasks, r.phase = "read"
  PROVE  Onward(r, NotHere(r))
<1>1. CASE r.service < Services
  <2>1. r.service + 1 \in 1..Services
    BY <1>1 DEF Tasks
  <2>. QED
    BY <1>1, <2>1 DEF NotHere, Tasks, Onward
<1>2. CASE ~(r.service < Services)
  BY <1>2, FoundGoesOn DEF NotHere, Values
<1>. QED
  BY <1>1, <1>2

\* The steps that only read.
Reading(t) == ReadSecret(t) \/ ReadRaises(t)

LEMMA ReadingGoesOn ==
  ASSUME SessionTypeOK, NEW t \in Threads, Reading(t)
  PROVE  /\ task[t].phase = "read"
         /\ \E new : Onward(task[t], new) /\ Become(t, new)
         /\ left' \in [Budgets -> Nat]
         /\ UNCHANGED <<threadLocal, keyring, cache, builds, resets>>
<1>. DEFINE r == task[t]
<1>1. r \in Tasks
  BY DEF SessionTypeOK
<1>2. CASE ReadSecret(t)
  <2>. DEFINE value == keyring[r.service][Reads[r.read]]
  <2>1. Reads[r.read] \in Secrets
    BY <1>1 DEF Tasks, Reads, Secrets
  <2>2. value \in Values
    BY <1>1, <2>1 DEF SessionTypeOK, Tasks
  <2>3. Onward(r, NotHere(r)) /\ Onward(r, Found(r, value))
    BY <1>1, <1>2, <2>2, FoundGoesOn, NotHereGoesOn DEF ReadSecret
  <2>. QED
    BY <1>2, <2>3 DEF ReadSecret, SessionTypeOK
<1>3. CASE ReadRaises(t)
  <2>1. Onward(r, NotHere(r)) /\ Onward(r, NoTask)
    BY <1>1, <1>3, NotHereGoesOn, IdleTyped DEF ReadRaises, Onward, NoTask
  <2>2. left' \in [Budgets -> Nat]
    BY <1>3, SpendTyped DEF ReadRaises, SessionTypeOK, Budgets
  <2>. QED
    BY <1>3, <2>1, <2>2 DEF ReadRaises
<1>. QED
  BY <1>2, <1>3 DEF Reading

-----------------------------------------------------------------------------
(* The type invariant *)

LEMMA TypeInit == SessionInit => SessionTypeOK
BY IdleTyped DEF SessionInit, SessionTypeOK, Slots, Sessions, NoSession, Budgets

LEMMA TypeStep ==
  ASSUME SessionTypeOK, [SessionNext]_sessionVars
  PROVE  SessionTypeOK'
<1>1. ASSUME NEW t \in Threads, Miss(t)
      PROVE  SessionTypeOK'
  <2>1. resets[Slot(t)] \in Nat
    BY SlotIsSlot DEF SessionTypeOK
  <2>2. [NoTask EXCEPT !.phase = "read", !.epoch = resets[Slot(t)]] \in Tasks
    BY <2>1, IdleTyped DEF Tasks
  <2>. QED
    BY <1>1, <2>2 DEF Miss, Become, SessionTypeOK
<1>2. ASSUME NEW t \in Threads, Reading(t)
      PROVE  SessionTypeOK'
  <2>1. PICK new : Onward(task[t], new) /\ Become(t, new)
    BY <1>2, ReadingGoesOn
  <2>. QED
    BY <1>2, <2>1, ReadingGoesOn DEF SessionTypeOK, Become, Onward
<1>3. ASSUME NEW t \in Threads, Build(t)
      PROVE  SessionTypeOK'
  <2>1. [task[t] EXCEPT !.phase = "store"] \in Tasks
    BY DEF SessionTypeOK, Tasks
  <2>. QED
    BY <1>3, <2>1 DEF Build, Become, SessionTypeOK
<1>4. ASSUME NEW t \in Threads, BuildRaises(t)
      PROVE  SessionTypeOK'
  BY <1>4, SpendTyped, IdleTyped DEF BuildRaises, Become, SessionTypeOK, Budgets
<1>5. ASSUME NEW t \in Threads, Store(t)
      PROVE  SessionTypeOK'
  <2>1. [by |-> t, epoch |-> task[t].epoch] \in Sessions
    BY DEF SessionTypeOK, Tasks, Sessions
  <2>. QED
    BY <1>5, <2>1, SlotIsSlot, IdleTyped DEF Store, Become, SessionTypeOK
<1>6. ASSUME NEW t \in Threads, Reset(t)
      PROVE  SessionTypeOK'
  BY <1>6, SpendTyped, SlotIsSlot DEF Reset, SessionTypeOK, Budgets, Sessions
<1>7. ASSUME NEW k \in Secrets, SetSecret(k) \/ WithdrawSecret(k)
      PROVE  SessionTypeOK'
  <2>1. left' \in [Budgets -> Nat]
    BY <1>7, SpendTyped DEF SetSecret, WithdrawSecret, SessionTypeOK, Budgets
  <2>2. \E value \in Values : keyring' = [keyring EXCEPT ![1][k] = value]
    BY <1>7 DEF SetSecret, WithdrawSecret, Values
  <2>3. keyring' \in [1..Services -> [Secrets -> Values]]
    BY <2>2 DEF SessionTypeOK
  <2>. QED
    BY <1>7, <2>1, <2>3 DEF SetSecret, WithdrawSecret, SessionTypeOK
<1>8. CASE UNCHANGED sessionVars
  BY <1>8 DEF sessionVars, SessionTypeOK
<1>. QED
  BY <1>1, <1>2, <1>3, <1>4, <1>5, <1>6, <1>7, <1>8 DEF SessionNext, Reading

\* Every state is well typed.
THEOREM TypeCorrect == SessionSpec => []SessionTypeOK
BY TypeInit, TypeStep, PTL DEF SessionSpec

-----------------------------------------------------------------------------
(* Builds are bounded *)

\* A get_session that has not built yet, or a thread that must build to get a
\* session, has spent no build on the current epoch of its slot.
Unspent(t) ==
  \/ task[t].phase \in {"read", "build"}
  \/ task[t].phase = "idle" /\ cache[Slot(t)] = NoSession

BuildsAt(t) ==
  /\ builds[t] <= resets[Slot(t)] + 1
  /\ Unspent(t) => builds[t] <= resets[Slot(t)]

BuildsInv == \A t \in Threads : BuildsAt(t)

LEMMA NotNoSession ==
  ASSUME NEW t \in Threads, NEW n
  PROVE  [by |-> t, epoch |-> n] # NoSession
BY DEF NoSession

\* The steps of one get_session that leave every count and cache alone.
LEMMA QuietKeepsBuilds ==
  ASSUME SessionTypeOK, BuildsInv, NEW t \in Threads, NEW new, Become(t, new),
         new.phase \in {"read", "build", "idle"}, Unspent(t),
         UNCHANGED <<threadLocal, cache, builds, resets>>
  PROVE  BuildsInv'
<1>. SUFFICES ASSUME NEW u \in Threads PROVE BuildsAt(u)'
  BY DEF BuildsInv
<1>1. Slot(u)' = Slot(u)
  BY DEF Slot
<1>2. BuildsAt(u)
  BY DEF BuildsInv
<1>3. CASE u = t
  BY <1>1, <1>2, <1>3 DEF BuildsAt
<1>4. CASE u # t
  <2>1. task'[u] = task[u]
    BY <1>4 DEF Become, SessionTypeOK
  <2>. QED
    BY <1>1, <1>2, <2>1 DEF BuildsAt, Unspent
<1>. QED
  BY <1>3, <1>4

LEMMA BuildsStep ==
  ASSUME SessionTypeOK, BuildsInv, [SessionNext]_sessionVars
  PROVE  BuildsInv'
<1>1. ASSUME NEW t \in Threads, Miss(t)
      PROVE  BuildsInv'
  <2>. DEFINE new == [NoTask EXCEPT !.phase = "read", !.epoch = resets[Slot(t)]]
  <2>1. new.phase = "read"
    BY Zenon DEF NoTask
  <2>2. Become(t, new) /\ UNCHANGED <<threadLocal, cache, builds, resets>>
    BY <1>1 DEF Miss
  <2>3. Unspent(t)
    BY <1>1 DEF Miss, Unspent
  <2>. HIDE DEF new
  <2>. QED
    BY <2>1, <2>2, <2>3, QuietKeepsBuilds
<1>2. ASSUME NEW t \in Threads, Reading(t)
      PROVE  BuildsInv'
  BY <1>2, ReadingGoesOn, QuietKeepsBuilds DEF Onward, Unspent
<1>3. ASSUME NEW t \in Threads, BuildRaises(t)
      PROVE  BuildsInv'
  BY <1>3, QuietKeepsBuilds DEF BuildRaises, Unspent, NoTask
<1>4. ASSUME NEW t \in Threads, Build(t)
      PROVE  BuildsInv'
  <2>. SUFFICES ASSUME NEW u \in Threads PROVE BuildsAt(u)'
    BY DEF BuildsInv
  <2>1. BuildsAt(u) /\ Slot(u)' = Slot(u)
    BY <1>4 DEF BuildsInv, Build, Slot
  <2>2. builds[u] \in Nat /\ resets[Slot(u)] \in Nat
    BY SlotIsSlot DEF SessionTypeOK
  <2>3. CASE u = t
    <3>1. builds'[u] = builds[u] + 1 /\ task'[u].phase = "store"
      BY <1>4, <2>3 DEF Build, Become, SessionTypeOK, Tasks
    <3>2. builds[u] <= resets[Slot(u)]
      BY <1>4, <2>1, <2>3 DEF Build, BuildsAt, Unspent
    <3>. QED
      BY <1>4, <2>1, <2>2, <3>1, <3>2 DEF BuildsAt, Unspent, Build
  <2>4. CASE u # t
    <3>1. task'[u] = task[u] /\ builds'[u] = builds[u]
      BY <1>4, <2>4 DEF Build, Become, SessionTypeOK
    <3>. QED
      BY <1>4, <2>1, <3>1 DEF BuildsAt, Unspent, Build
  <2>. QED
    BY <2>3, <2>4
<1>5. ASSUME NEW t \in Threads, Store(t)
      PROVE  BuildsInv'
  <2>. SUFFICES ASSUME NEW u \in Threads PROVE BuildsAt(u)'
    BY DEF BuildsInv
  <2>1. BuildsAt(u) /\ Slot(u)' = Slot(u)
    BY <1>5 DEF BuildsInv, Store, Slot
  <2>2. Slot(u) \in Slots
    BY SlotIsSlot
  <2>3. CASE Slot(u) = Slot(t)
    <3>1. cache'[Slot(u)] # NoSession
      BY <1>5, <2>2, <2>3, NotNoSession DEF Store, SessionTypeOK
    <3>2. u = t \/ task'[u] = task[u]
      BY <1>5 DEF Store, Become, SessionTypeOK
    <3>3. Unspent(u)' => Unspent(u)
      BY <1>5, <2>1, <3>1, <3>2 DEF Unspent, Store, Become, SessionTypeOK, NoTask
    <3>. QED
      BY <1>5, <2>1, <3>3 DEF BuildsAt, Store
  <2>4. CASE Slot(u) # Slot(t)
    <3>1. cache'[Slot(u)] = cache[Slot(u)] /\ task'[u] = task[u]
      BY <1>5, <2>2, <2>4 DEF Store, Become, SessionTypeOK
    <3>. QED
      BY <1>5, <2>1, <3>1 DEF BuildsAt, Unspent, Store
  <2>. QED
    BY <2>3, <2>4
<1>6. ASSUME NEW t \in Threads, Reset(t)
      PROVE  BuildsInv'
  <2>. SUFFICES ASSUME NEW u \in Threads PROVE BuildsAt(u)'
    BY DEF BuildsInv
  <2>1. BuildsAt(u) /\ Slot(u)' = Slot(u)
    BY <1>6 DEF BuildsInv, Reset, Slot
  <2>2. builds[u] \in Nat /\ Slot(u) \in Slots /\ resets[Slot(u)] \in Nat
    BY SlotIsSlot DEF SessionTypeOK
  <2>3. CASE Slot(u) = Slot(t)
    <3>1. resets'[Slot(u)] = resets[Slot(u)] + 1 /\ builds'[u] = builds[u]
      BY <1>6, <2>2, <2>3 DEF Reset, SessionTypeOK
    <3>. QED
      BY <2>1, <2>2, <3>1 DEF BuildsAt
  <2>4. CASE Slot(u) # Slot(t)
    <3>1. /\ resets'[Slot(u)] = resets[Slot(u)] /\ cache'[Slot(u)] = cache[Slot(u)]
          /\ builds' = builds /\ task' = task
      BY <1>6, <2>2, <2>4 DEF Reset, SessionTypeOK
    <3>. QED
      BY <2>1, <3>1 DEF BuildsAt, Unspent
  <2>. QED
    BY <2>3, <2>4
<1>7. ASSUME NEW k \in Secrets, SetSecret(k) \/ WithdrawSecret(k)
      PROVE  BuildsInv'
  BY <1>7 DEF SetSecret, WithdrawSecret, BuildsInv, BuildsAt, Unspent, Slot
<1>8. CASE UNCHANGED sessionVars
  BY <1>8 DEF sessionVars, BuildsInv, BuildsAt, Unspent, Slot
<1>. QED
  BY <1>1, <1>2, <1>3, <1>4, <1>5, <1>6, <1>7, <1>8 DEF SessionNext, Reading

LEMMA BuildsInit == SessionInit => BuildsInv
<1>. SUFFICES ASSUME SessionInit, NEW t \in Threads PROVE BuildsAt(t)
  BY DEF BuildsInv
<1>1. resets[Slot(t)] = 0 /\ builds[t] = 0
  BY SlotIsSlot DEF SessionInit
<1>. QED
  BY <1>1 DEF BuildsAt

LEMMA BuildsInvBounds == SessionTypeOK /\ BuildsInv => BuildsBounded
BY DEF BuildsInv, BuildsAt, BuildsBounded

\* Any number of threads, whatever the mode, the keyring and the faults: a
\* thread authenticates at most once per epoch of its slot.
THEOREM BuildsAreBounded == SessionSpec => []BuildsBounded
<1>1. SessionTypeOK /\ BuildsInv /\ [SessionNext]_sessionVars => BuildsInv'
  BY BuildsStep
<1>. QED
  BY <1>1, TypeCorrect, BuildsInit, BuildsInvBounds, PTL DEF SessionSpec

-----------------------------------------------------------------------------
(* A thread's own session *)

\* With thread-local sessions nobody else resets or fills the slot of a thread,
\* so a get_session under way is of the current epoch.
OwnAt(t) ==
  /\ task[t].phase # "idle" => task[t].epoch = resets[t]
  /\ cache[t] # NoSession => cache[t] = [by |-> t, epoch |-> resets[t]]

OwnInv == threadLocal => \A t \in Threads : OwnAt(t)

LEMMA OwnInit == SessionInit => OwnInv
<1>. SUFFICES ASSUME SessionInit, NEW t \in Threads PROVE OwnAt(t)
  BY DEF OwnInv
<1>1. task[t].phase = "idle"
  BY DEF SessionInit, NoTask
<1>2. cache[t] = NoSession
  BY DEF SessionInit, Slots
<1>. QED
  BY <1>1, <1>2 DEF OwnAt

\* The steps of one get_session that leave the resets and caches alone.
LEMMA QuietKeepsOwn ==
  ASSUME SessionTypeOK, OwnInv, NEW t \in Threads, NEW new, Become(t, new),
         \/ new.phase = "idle"
         \/ new.epoch = resets[Slot(t)]
         \/ task[t].phase # "idle" /\ new.epoch = task[t].epoch,
         UNCHANGED <<threadLocal, cache, resets>>
  PROVE  OwnInv'
<1>. SUFFICES ASSUME threadLocal, NEW u \in Threads PROVE OwnAt(u)'
  BY DEF OwnInv
<1>1. OwnAt(u) /\ Slot(t) = t
  BY DEF OwnInv, Slot
<1>2. CASE u = t
  BY <1>1, <1>2 DEF OwnAt, Become, SessionTypeOK
<1>3. CASE u # t
  BY <1>1, <1>3 DEF OwnAt, Become, SessionTypeOK
<1>. QED
  BY <1>2, <1>3

LEMMA OwnStep ==
  ASSUME SessionTypeOK, OwnInv, [SessionNext]_sessionVars
  PROVE  OwnInv'
<1>1. ASSUME NEW t \in Threads, Miss(t)
      PROVE  OwnInv'
  <2>. DEFINE new == [NoTask EXCEPT !.phase = "read", !.epoch = resets[Slot(t)]]
  <2>1. new.epoch = resets[Slot(t)]
    BY Zenon DEF NoTask
  <2>2. Become(t, new) /\ UNCHANGED <<threadLocal, cache, resets>>
    BY <1>1 DEF Miss
  <2>. HIDE DEF new
  <2>. QED
    BY <2>1, <2>2, QuietKeepsOwn
<1>2. ASSUME NEW t \in Threads, Reading(t)
      PROVE  OwnInv'
  BY <1>2, ReadingGoesOn, QuietKeepsOwn DEF Onward
<1>3. ASSUME NEW t \in Threads, BuildRaises(t)
      PROVE  OwnInv'
  BY <1>3, QuietKeepsOwn DEF BuildRaises, NoTask
<1>4. ASSUME NEW t \in Threads, Build(t)
      PROVE  OwnInv'
  <2>. DEFINE new == [task[t] EXCEPT !.phase = "store"]
  <2>1. new.epoch = task[t].epoch
    BY DEF SessionTypeOK, Tasks
  <2>2. Become(t, new) /\ UNCHANGED <<threadLocal, cache, resets>>
        /\ task[t].phase # "idle"
    BY <1>4 DEF Build
  <2>. HIDE DEF new
  <2>. QED
    BY <2>1, <2>2, QuietKeepsOwn
<1>5. ASSUME NEW t \in Threads, Store(t)
      PROVE  OwnInv'
  <2>. SUFFICES ASSUME threadLocal, NEW u \in Threads PROVE OwnAt(u)'
    BY <1>5 DEF OwnInv, Store
  <2>1. OwnAt(u) /\ OwnAt(t) /\ Slot(t) = t /\ t \in Slots /\ u \in Slots
    BY DEF OwnInv, Slot, Slots
  <2>2. CASE u = t
    <3>1. cache'[u] = [by |-> u, epoch |-> resets[u]]
      BY <1>5, <2>1, <2>2 DEF Store, SessionTypeOK, OwnAt
    <3>2. task'[u].phase = "idle" /\ resets' = resets
      BY <1>5, <2>2 DEF Store, Become, SessionTypeOK, NoTask
    <3>. QED
      BY <3>1, <3>2 DEF OwnAt
  <2>3. CASE u # t
    BY <1>5, <2>1, <2>3 DEF Store, Become, SessionTypeOK, OwnAt
  <2>. QED
    BY <2>2, <2>3
<1>6. ASSUME NEW t \in Threads, Reset(t)
      PROVE  OwnInv'
  <2>. SUFFICES ASSUME threadLocal, NEW u \in Threads PROVE OwnAt(u)'
    BY <1>6 DEF OwnInv, Reset
  <2>1. OwnAt(u) /\ Slot(t) = t /\ t \in Slots /\ u \in Slots
    BY DEF OwnInv, Slot, Slots
  <2>2. CASE u = t
    BY <1>6, <2>1, <2>2 DEF Reset, SessionTypeOK, OwnAt
  <2>3. CASE u # t
    BY <1>6, <2>1, <2>3 DEF Reset, SessionTypeOK, OwnAt
  <2>. QED
    BY <2>2, <2>3
<1>7. ASSUME NEW k \in Secrets, SetSecret(k) \/ WithdrawSecret(k)
      PROVE  OwnInv'
  BY <1>7 DEF SetSecret, WithdrawSecret, OwnInv, OwnAt
<1>8. CASE UNCHANGED sessionVars
  BY <1>8 DEF sessionVars, OwnInv, OwnAt
<1>. QED
  BY <1>1, <1>2, <1>3, <1>4, <1>5, <1>6, <1>7, <1>8 DEF SessionNext, Reading

\* With thread-local sessions a thread never gets a session another thread
\* built, nor one from before its latest reset.
THEOREM SessionsAreOwn == SessionSpec => []OwnSession
<1>1. SessionTypeOK /\ OwnInv /\ [SessionNext]_sessionVars => OwnInv'
  BY OwnStep
<1>2. OwnInv => OwnSession
  BY DEF OwnInv, OwnAt, OwnSession, Slot
<1>. QED
  BY <1>1, <1>2, TypeCorrect, OwnInit, PTL DEF SessionSpec

-----------------------------------------------------------------------------
(* The factory is never handed a missing secret.  The writes of the operator *)
(* go to the primary service and only ever make a secret usable, so what a   *)
(* get_session has read stays true of the keyring in the form that matters   *)
(* to its next read.                                                         *)

First  == "client_secret"
Second == "refresh_token"

\* Trying the services of a keyring from s on, get_secret finds the secret set.
SetFrom(ring, k, s) ==
  \E n \in s..Services :
    /\ ring[n][k] = "set"
    /\ \A j \in s..(n - 1) : ring[j][k] = "absent"

\* The services before s had no such entry; the primary may have got one since.
PassedOver(ring, k, s) ==
  \A j \in 1..(s - 1) :
    ring[j][k] = "absent" \/ (j = 1 /\ ring[j][k] = "set")

\* What the reads so far have shown of the keyring.
Sight(ring, r) ==
  /\ r.phase = "read" =>
       /\ r.read = 1 => PassedOver(ring, First, r.service)
       /\ r.read = 2 =>
            /\ PassedOver(ring, Second, r.service)
            /\ r.missing \/ SetFrom(ring, First, 1)
       /\ r.read = 3 =>
            SetFrom(ring, First, r.service) /\ SetFrom(ring, Second, 1)
       /\ r.read = 4 => SetFrom(ring, Second, r.service) /\ r.args = {"set"}
  /\ r.phase = "build" => r.args = {"set"}

Untroubled == left.withdrawals = MaxWithdrawals /\ left.faults = MaxFaults

SightInv ==
  /\ left.withdrawals <= MaxWithdrawals /\ left.faults <= MaxFaults
  /\ Untroubled => \A t \in Threads : Sight(keyring, task[t])

Keyrings == [1..Services -> [Secrets -> Values]]

LEMMA SetAfterPassing ==
  ASSUME NEW ring \in Keyrings, NEW k \in Secrets, NEW s \in 1..Services,
         PassedOver(ring, k, s), ring[s][k] = "set"
  PROVE  SetFrom(ring, k, 1)
<1>1. CASE s > 1 /\ ring[1][k] = "set"
  BY <1>1 DEF SetFrom
<1>2. CASE s = 1 \/ ring[1][k] # "set"
  BY <1>2 DEF SetFrom, PassedOver
<1>. QED
  BY <1>1, <1>2

LEMMA SetIsFound ==
  ASSUME NEW ring \in Keyrings, NEW k \in Secrets, NEW s \in 1..Services,
         SetFrom(ring, k, s)
  PROVE  /\ ring[s][k] # "absent" => ring[s][k] = "set"
         /\ ring[s][k] = "absent" => s < Services /\ SetFrom(ring, k, s + 1)
<1>1. PICK n \in s..Services :
        ring[n][k] = "set" /\ \A j \in s..(n - 1) : ring[j][k] = "absent"
  BY DEF SetFrom
<1>2. CASE n = s
  BY <1>1, <1>2
<1>3. CASE n # s
  <2>1. ring[s][k] = "absent"
    BY <1>1, <1>3
  <2>2. n \in (s + 1)..Services /\ s < Services
    BY <1>3
  <2>. QED
    BY <1>1, <2>1, <2>2 DEF SetFrom
<1>. QED
  BY <1>2, <1>3

\* What a value that is found, or the lack of one, shows.
LEMMA FoundShows ==
  ASSUME NEW ring \in Keyrings, NEW r \in Tasks, r.phase = "read", Sight(ring, r),
         ring[r.service][Reads[r.read]] # "absent"
  PROVE  Sight(ring, Found(r, ring[r.service][Reads[r.read]]))
<1>. DEFINE value == ring[r.service][Reads[r.read]]
            missing == r.missing \/ ~Usable(value)
<1>1. /\ r.service \in 1..Services /\ First \in Secrets /\ Second \in Secrets
      /\ missing \in BOOLEAN
  BY DEF Tasks, First, Second, Secrets, Usable
<1>2. PassedOver(ring, Second, 1)
  BY DEF PassedOver
<1>3. CASE r.read = 1
  <2>1. value = ring[r.service][First] /\ PassedOver(ring, First, r.service)
    BY <1>3 DEF Reads, First, Sight
  <2>2. missing \/ SetFrom(ring, First, 1)
    BY <1>1, <2>1, SetAfterPassing DEF Usable
  <2>. DEFINE new == [r EXCEPT !.read = 2, !.service = 1, !.missing = missing]
  <2>3. /\ new.phase = "read" /\ new.read = 2 /\ new.service = 1
        /\ new.missing = missing
    BY Zenon DEF Tasks
  <2>4. Found(r, value) = new
    BY <1>3, Zenon DEF Found
  <2>. HIDE DEF new, value, missing
  <2>. QED
    BY <1>2, <2>2, <2>3, <2>4 DEF Sight, value
<1>4. CASE r.read = 2
  <2>1. /\ value = ring[r.service][Second] /\ PassedOver(ring, Second, r.service)
        /\ r.missing \/ SetFrom(ring, First, 1)
    BY <1>4 DEF Reads, Second, Sight
  <2>2. missing \/ (SetFrom(ring, First, 1) /\ SetFrom(ring, Second, 1))
    BY <1>1, <2>1, SetAfterPassing DEF Usable
  <2>. DEFINE new == [r EXCEPT !.read = 3, !.service = 1]
  <2>3. new.phase = "read" /\ new.read = 3 /\ new.service = 1
    BY DEF Tasks
  <2>4. Found(r, value) = IF missing THEN NoTask ELSE new
    BY <1>4 DEF Found
  <2>5. NoTask.phase = "idle"
    BY DEF NoTask
  <2>. HIDE DEF new, value, missing
  <2>. QED
    BY <2>2, <2>3, <2>4, <2>5 DEF Sight, value
<1>5. CASE r.read = 3
  <2>1. value = ring[r.service][First] /\ SetFrom(ring, First, r.service)
        /\ SetFrom(ring, Second, 1)
    BY <1>5 DEF Reads, First, Sight
  <2>2. value = "set"
    BY <1>1, <2>1, SetIsFound
  <2>. DEFINE new == [r EXCEPT !.read = 4, !.service = 1, !.args = {value}]
  <2>3. new.phase = "read" /\ new.read = 4 /\ new.service = 1 /\ new.args = {"set"}
    BY <2>2 DEF Tasks
  <2>4. Found(r, value) = new
    BY <1>5 DEF Found
  <2>. HIDE DEF new, value
  <2>. QED
    BY <2>1, <2>3, <2>4 DEF Sight, value
<1>6. CASE r.read \notin {1, 2, 3}
  <2>1. r.read = 4
    BY <1>6 DEF Tasks
  <2>2. value = ring[r.service][Second] /\ SetFrom(ring, Second, r.service)
        /\ r.args = {"set"}
    BY <2>1 DEF Reads, Second, Sight
  <2>3. value = "set"
    BY <1>1, <2>2, SetIsFound
  <2>. DEFINE new == [r EXCEPT !.phase = "build", !.args = @ \cup {value}]
  <2>4. new.phase = "build" /\ new.args = {"set"}
    BY <2>2, <2>3 DEF Tasks
  <2>5. Found(r, value) = new
    BY <1>6 DEF Found
  <2>. HIDE DEF new, value
  <2>. QED
    BY <2>4, <2>5 DEF Sight, value
<1>. QED
  BY <1>3, <1>4, <1>5, <1>6

LEMMA NotHereShows ==
  ASSUME NEW ring \in Keyrings, NEW r \in Tasks, r.phase = "read", Sight(ring, r),
         ring[r.service][Reads[r.read]] = "absent"
  PROVE  Sight(ring, NotHere(r))
<1>1. /\ r.service \in 1..Services /\ First \in Secrets /\ Second \in Secrets
      /\ r.read \in 1..4
  BY DEF Tasks, First, Second, Secrets
<1>2. CASE r.service < Services
  <2>. DEFINE new == [r EXCEPT !.service = @ + 1]
  <2>1. /\ new.phase = "read" /\ new.read = r.read /\ new.service = r.service + 1
        /\ new.missing = r.missing /\ new.args = r.args
    BY DEF Tasks
  <2>2. NotHere(r) = new
    BY <1>2 DEF NotHere
  <2>. HIDE DEF new
  <2>3. CASE r.read \in {1, 2}
    <3>. DEFINE k == Reads[r.read]
    <3>1. k = IF r.read = 1 THEN First ELSE Second
      BY <2>3 DEF Reads, First, Second
    <3>2. PassedOver(ring, k, r.service)
      BY <2>3, <3>1 DEF Sight
    <3>3. PassedOver(ring, k, r.service + 1)
      BY <1>1, <3>2 DEF PassedOver
    <3>. HIDE DEF k
    <3>. QED
      BY <2>1, <2>2, <2>3, <3>1, <3>3 DEF Sight
  <2>4. CASE r.read \in {3, 4}
    <3>. DEFINE k == Reads[r.read]
    <3>1. k = IF r.read = 3 THEN First ELSE Second
      BY <2>4 DEF Reads, First, Second
    <3>2. SetFrom(ring, k, r.service)
      BY <2>4, <3>1 DEF Sight
    <3>3. SetFrom(ring, k, r.service + 1)
      BY <1>1, <3>1, <3>2, SetIsFound
    <3>. HIDE DEF k
    <3>. QED
      BY <2>1, <2>2, <2>4, <3>1, <3>3 DEF Sight
  <2>. QED
    BY <1>1, <2>3, <2>4
<1>3. CASE ~(r.service < Services)
  <2>1. NotHere(r) = Found(r, "absent") /\ r.service = Services
    BY <1>1, <1>3 DEF NotHere
  <2>2. PassedOver(ring, Second, 1)
    BY DEF PassedOver
  <2>3. CASE r.read = 1
    <3>. DEFINE new == [r EXCEPT !.read = 2, !.service = 1, !.missing = TRUE]
    <3>1. Found(r, "absent") = new
      BY <2>3 DEF Found, Usable, Tasks
    <3>2. new.phase = "read" /\ new.read = 2 /\ new.service = 1 /\ new.missing
      BY DEF Tasks
    <3>. HIDE DEF new
    <3>. QED
      BY <2>1, <2>2, <3>1, <3>2 DEF Sight
  <2>4. CASE r.read = 2
    BY <2>1, <2>4 DEF Found, Usable, NoTask, Sight
  <2>5. CASE r.read = 3
    <3>1. SetFrom(ring, First, r.service) /\ Reads[r.read] = First
      BY <2>5 DEF Sight, Reads, First
    <3>. QED
      BY <1>1, <1>3, <3>1, SetIsFound
  <2>6. CASE r.read = 4
    <3>1. SetFrom(ring, Second, r.service) /\ Reads[r.read] = Second
      BY <2>6 DEF Sight, Reads, Second
    <3>. QED
      BY <1>1, <1>3, <3>1, SetIsFound
  <2>. QED
    BY <1>1, <2>3, <2>4, <2>5, <2>6
<1>. QED
  BY <1>2, <1>3

\* A secret that is stored takes nothing away.
LEMMA StoredSecretShows ==
  ASSUME NEW ring \in Keyrings, NEW k \in Secrets, NEW r \in Tasks, Sight(ring, r)
  PROVE  Sight([ring EXCEPT ![1][k] = "set"], r)
<1>. DEFINE new == [ring EXCEPT ![1][k] = "set"]
<1>1. \A j \in 1..Services, l \in Secrets :
        \/ new[j][l] = ring[j][l]
        \/ j = 1 /\ new[j][l] = "set"
  BY DEF Keyrings
<1>. HIDE DEF new
<1>2. ASSUME NEW l \in Secrets, NEW s \in 1..Services, PassedOver(ring, l, s)
      PROVE  PassedOver(new, l, s)
  BY <1>1, <1>2 DEF PassedOver
<1>3. ASSUME NEW l \in Secrets, NEW s \in 1..Services, SetFrom(ring, l, s)
      PROVE  SetFrom(new, l, s)
  <2>1. PICK n \in s..Services :
          ring[n][l] = "set" /\ \A j \in s..(n - 1) : ring[j][l] = "absent"
    BY <1>3 DEF SetFrom
  <2>2. CASE s = 1 /\ new[1][l] = "set"
    BY <2>2 DEF SetFrom
  <2>3. CASE ~(s = 1 /\ new[1][l] = "set")
    <3>1. new[n][l] = "set"
      BY <1>1, <2>1
    <3>2. \A j \in s..(n - 1) : new[j][l] = "absent"
      BY <1>1, <2>1, <2>3
    <3>. QED
      BY <3>1, <3>2 DEF SetFrom
  <2>. QED
    BY <2>2, <2>3
<1>4. /\ r.service \in 1..Services /\ 1 \in 1..Services
      /\ First \in Secrets /\ Second \in Secrets
  BY DEF Tasks, First, Second, Secrets
<1>. QED
  BY <1>2, <1>3, <1>4 DEF Sight, new

-----------------------------------------------------------------------------
(* Every step *)

LEMMA SightInit == SessionInit => SightInv
<1>. SUFFICES ASSUME SessionInit PROVE SightInv
  OBVIOUS
<1>1. NoTask.phase = "idle"
  BY DEF NoTask
<1>2. \A t \in Threads : task[t].phase = "idle"
  BY <1>1 DEF SessionInit
<1>. QED
  BY <1>2 DEF SessionInit, SightInv, Sight

\* The steps of a get_session that leave the keyring and the bounds alone.
LEMMA TaskKeepsSight ==
  ASSUME SessionTypeOK, SightInv, NEW t \in Threads, NEW new, Become(t, new),
         Sight(keyring, task[t]) => Sight(keyring, new),
         UNCHANGED <<keyring, left>>
  PROVE  SightInv'
<1>1. \A u \in Threads : task'[u] = IF u = t THEN new ELSE task[u]
  BY DEF Become, SessionTypeOK
<1>. QED
  BY <1>1 DEF SightInv, Untroubled

\* A fault or a withdrawal ends what is claimed.
LEMMA TroubleKeepsSight ==
  ASSUME SessionTypeOK, SightInv, Spend("faults") \/ Spend("withdrawals")
  PROVE  SightInv'
<1>1. left.faults \in Nat /\ left.withdrawals \in Nat
  BY DEF SessionTypeOK, Budgets
<1>2. \/ left'.faults = left.faults - 1 /\ left'.withdrawals = left.withdrawals
      \/ left'.withdrawals = left.withdrawals - 1 /\ left'.faults = left.faults
  BY DEF Spend, SessionTypeOK, Budgets
<1>. QED
  BY <1>1, <1>2 DEF SightInv, Untroubled

LEMMA SightStep ==
  ASSUME SessionTypeOK, SightInv, [SessionNext]_sessionVars
  PROVE  SightInv'
<1>0. keyring \in Keyrings
  BY DEF SessionTypeOK, Keyrings
<1>1. ASSUME NEW t \in Threads, Miss(t)
      PROVE  SightInv'
  <2>. DEFINE new == [NoTask EXCEPT !.phase = "read", !.epoch = resets[Slot(t)]]
  <2>1. new.phase = "read" /\ new.read = 1 /\ new.service = 1
    BY DEF NoTask
  <2>2. Sight(keyring, new)
    BY <2>1 DEF Sight, PassedOver
  <2>3. Become(t, new) /\ UNCHANGED <<keyring, left>>
    BY <1>1 DEF Miss
  <2>. HIDE DEF new
  <2>. QED
    BY <2>2, <2>3, TaskKeepsSight
<1>2. ASSUME NEW t \in Threads, ReadSecret(t)
      PROVE  SightInv'
  <2>. DEFINE value == keyring[task[t].service][Reads[task[t].read]]
              new == IF value = "absent" THEN NotHere(task[t]) ELSE Found(task[t], value)
  <2>1. /\ task[t].phase = "read" /\ Become(t, new) /\ UNCHANGED <<keyring, left>>
    BY <1>2 DEF ReadSecret
  <2>2. task[t] \in Tasks
    BY DEF SessionTypeOK
  <2>3. Sight(keyring, task[t]) => Sight(keyring, new)
    BY <1>0, <2>1, <2>2, NotHereShows, FoundShows
  <2>. HIDE DEF new
  <2>. QED
    BY <2>1, <2>3, TaskKeepsSight
<1>3. ASSUME NEW t \in Threads, Build(t)
      PROVE  SightInv'
  <2>. DEFINE new == [task[t] EXCEPT !.phase = "store"]
  <2>1. new.phase = "store"
    BY DEF SessionTypeOK, Tasks
  <2>2. Sight(keyring, new)
    BY <2>1 DEF Sight
  <2>3. Become(t, new) /\ UNCHANGED <<keyring, left>>
    BY <1>3 DEF Build
  <2>. HIDE DEF new
  <2>. QED
    BY <2>2, <2>3, TaskKeepsSight
<1>4. ASSUME NEW t \in Threads, ReadRaises(t) \/ BuildRaises(t)
      PROVE  SightInv'
  BY <1>4, TroubleKeepsSight DEF ReadRaises, BuildRaises
<1>5. ASSUME NEW t \in Threads, Store(t)
      PROVE  SightInv'
  <2>1. Sight(keyring, NoTask)
    BY DEF NoTask, Sight
  <2>. QED
    BY <1>5, <2>1, TaskKeepsSight DEF Store
<1>6. ASSUME NEW t \in Threads, Reset(t)
      PROVE  SightInv'
  <2>1. /\ left'.faults = left.faults /\ left'.withdrawals = left.withdrawals
        /\ UNCHANGED <<keyring, task>>
    BY <1>6 DEF Reset, Spend, SessionTypeOK, Budgets
  <2>. QED
    BY <2>1 DEF SightInv, Untroubled
<1>7. ASSUME NEW k \in Secrets, SetSecret(k)
      PROVE  SightInv'
  <2>1. /\ left'.faults = left.faults /\ left'.withdrawals = left.withdrawals
        /\ keyring' = [keyring EXCEPT ![1][k] = "set"] /\ task' = task
    BY <1>7 DEF SetSecret, Spend, SessionTypeOK, Budgets
  <2>2. ASSUME NEW t \in Threads, Sight(keyring, task[t])
        PROVE  Sight(keyring', task'[t])
    <3>1. task[t] \in Tasks
      BY DEF SessionTypeOK
    <3>. QED
      BY <1>0, <2>1, <2>2, <3>1, StoredSecretShows
  <2>. QED
    BY <2>1, <2>2 DEF SightInv, Untroubled
<1>8. ASSUME NEW k \in Secrets, WithdrawSecret(k)
      PROVE  SightInv'
  BY <1>8, TroubleKeepsSight DEF WithdrawSecret
<1>9. CASE UNCHANGED sessionVars
  BY <1>9 DEF sessionVars, SightInv, Untroubled
<1>. QED
  BY <1>1, <1>2, <1>3, <1>4, <1>5, <1>6, <1>7, <1>8, <1>9 DEF SessionNext

\* Whatever is stored while the reads go on, by however many threads and over
\* however many services: unless a secret was withdrawn or a call failed, a
\* session is built from two secrets that are set.
THEOREM FactoryNotBlind == SessionSpec => []NeverBlind
<1>1. SessionTypeOK /\ SightInv /\ [SessionNext]_sessionVars => SightInv'
  BY SightStep
<1>2. SightInv => NeverBlind
  BY DEF SightInv, Untroubled, Sight, NeverBlind
<1>. QED
  BY <1>1, <1>2, TypeCorrect, SightInit, PTL DEF SessionSpec

=============================================================================
