---------------------------- MODULE CacheFileProofs ----------------------------
(***************************************************************************)
(* Theorems about CacheWriter, for every batch size and every number of    *)
(* events, failed commits and restarts; then about CacheFile, for any      *)
(* processes and lists of columns: what a returned startup may rely on,    *)
(* and that sharing the file takes nothing away from the writer's          *)
(* promises.                                                               *)
(***************************************************************************)
EXTENDS CacheFile, TLAPS

USE BoundsAssumption

-----------------------------------------------------------------------------
(* The writer *)

\* What every step preserves: types, order of the two files, and the bounds.
Consistent ==
  /\ TypeOK
  /\ LossBounded
  /\ StatusHonest
  /\ durable <= written
  /\ engine = "on" => lastEvent <= written /\ pendingWrites <= written

LEMMA ConsistentInit == Init => Consistent
  BY DEF Init, Consistent, TypeOK, LossBounded, StatusHonest

LEMMA UpsertKeepsConsistent ==
  ASSUME Consistent, NEW s \in 0..written, UpsertStatus(s)
  PROVE  Consistent'
<1>. USE DEF Consistent, TypeOK, LossBounded, StatusHonest
<1>1. CASE Commit(written, s) /\ UNCHANGED faults
  BY <1>1 DEF UpsertStatus, Commit
<1>2. CASE CommitRaises
  BY <1>2 DEF UpsertStatus, CommitRaises
<1>. QED
  BY <1>1, <1>2 DEF UpsertStatus

LEMMA ConsistentStep ==
  ASSUME Consistent, [Next]_vars
  PROVE  Consistent'
<1>. USE DEF Consistent, TypeOK, LossBounded, StatusHonest, files
<1>1. CASE Start
  BY <1>1 DEF Start
<1>2. CASE End
  BY <1>2 DEF End
<1>3. CASE WriteBatched
  BY <1>3 DEF WriteBatched, BatchFull
<1>4. CASE WriteCommits
  BY <1>4 DEF WriteCommits, Commit
<1>5. CASE WriteCommitRaises
  BY <1>5 DEF WriteCommitRaises, CommitRaises
<1>6. CASE Flush
  BY <1>6, UpsertKeepsConsistent DEF Flush, UpsertStatus
<1>7. CASE OtherCommit
  BY <1>7, UpsertKeepsConsistent DEF OtherCommit
<1>8. CASE UNCHANGED vars
  BY <1>8 DEF vars
<1>. QED
  BY <1>1, <1>2, <1>3, <1>4, <1>5, <1>6, <1>7, <1>8 DEF Next

LEMMA AlwaysConsistent == Spec => []Consistent
  BY ConsistentInit, ConsistentStep, PTL DEF Spec

\* Every variable stays within its type.
THEOREM TypeCorrect == Spec => []TypeOK
<1>1. Consistent => TypeOK
  BY DEF Consistent
<1>. QED
  BY <1>1, AlwaysConsistent, PTL

\* A crash loses less than a batch, and one event more per failed commit.
THEOREM LossIsBounded == Spec => []LossBounded
<1>1. Consistent => LossBounded
  BY DEF Consistent
<1>. QED
  BY <1>1, AlwaysConsistent, PTL

\* The status row never runs ahead of the rows it describes.
THEOREM StatusIsHonest == Spec => []StatusHonest
<1>1. Consistent => StatusHonest
  BY DEF Consistent
<1>. QED
  BY <1>1, AlwaysConsistent, PTL

-----------------------------------------------------------------------------
(* Refinement: a write that commits is Write, an upsert that commits Persist, *)
(* the end of the engine Lose, and everything else stutters.                  *)

LEMMA StepsOfALaggedLog ==
  ASSUME Consistent, Consistent', [Next]_vars
  PROVE  [Log!Next]_(Log!vars)
<1>. USE DEF Log!Next, Log!vars, Log!Write, Log!Persist, Log!Lose, files
<1>. USE DEF Consistent, TypeOK, LossBounded
<1>1. CASE Start
  BY <1>1 DEF Start
<1>2. CASE End
  BY <1>2 DEF End
<1>3. CASE WriteBatched
  BY <1>3 DEF WriteBatched
<1>4. CASE WriteCommits
  BY <1>4 DEF WriteCommits, Commit
<1>5. CASE WriteCommitRaises
  BY <1>5 DEF WriteCommitRaises, CommitRaises
<1>6. ASSUME NEW s, UpsertStatus(s)
      PROVE  [Log!Next]_(Log!vars)
  BY <1>6 DEF UpsertStatus, Commit, CommitRaises
<1>7. CASE UNCHANGED vars
  BY <1>7 DEF vars
<1>. QED
  BY <1>1, <1>2, <1>3, <1>4, <1>5, <1>6, <1>7 DEF Next, Flush, OtherCommit

\* The writer implements the lagged log its readers may rely on.
THEOREM WriterIsLaggedLog == Spec => IsLaggedLog
<1>1. Init => Log!Init
  BY DEF Init, Log!Init
<1>. QED
  BY <1>1, StepsOfALaggedLog, AlwaysConsistent, PTL DEF Spec, IsLaggedLog, Log!Spec

-----------------------------------------------------------------------------
(* The shared file *)

\* Columns are uncommitted only during the startup that added them.
OpenTransaction ==
  uncommitted # {} =>
    /\ holder \in Openers
    /\ stage[holder] \in {"check", "alter"}

\* A startup sees every column it has passed, and what it has added.
PassedVisible ==
  \A p \in Openers : stage[p] \in {"check", "alter", "done"} =>
    \A i \in 1..Len(Lists[p]) :
      i < next[p] => Lists[p][i] \in Schema!Visible(p)

AddedVisible == \A p \in Openers : added[p] \subseteq Schema!Visible(p)

AddedOnce ==
  \A p, q \in Openers : p # q => added[p] \cap added[q] = {}

\* Where each stage is in its list.
InPlace ==
  \A p \in Openers :
    /\ stage[p] = "alter" => next[p] <= Len(Lists[p])
    /\ stage[p] = "done" => next[p] > Len(Lists[p])

EngineStarted == engine = "on" => stage[Daemon] = "done"

SchemaInv ==
  /\ SchemaTypeOK
  /\ OpenTransaction /\ PassedVisible /\ AddedVisible /\ AddedOnce
  /\ InPlace /\ EngineStarted

\* The list of a process is a sequence of columns.
LEMMA ListsAreColumns ==
  ASSUME NEW p \in Openers
  PROVE  /\ Len(Lists[p]) \in Nat
         /\ \A i \in 1..Len(Lists[p]) : Lists[p][i] \in Columns
<1>1. Lists[p] \in Seq(Columns)
  BY OpenersAssumption
<1>. QED
  BY <1>1

LEMMA InitSchema == FileInit => SchemaInv
<1>. SUFFICES ASSUME FileInit PROVE SchemaInv
  OBVIOUS
<1>. USE DEF FileInit, Init, Schema!Init
<1>1. SchemaTypeOK
  BY OpenersAssumption DEF SchemaTypeOK, Schema!SchemaTypeOK
<1>2. OpenTransaction /\ AddedVisible /\ AddedOnce /\ InPlace /\ EngineStarted
  BY DEF OpenTransaction, AddedVisible, AddedOnce, InPlace, EngineStarted
<1>3. PassedVisible
  BY DEF PassedVisible
<1>. QED
  BY <1>1, <1>2, <1>3 DEF SchemaInv

-----------------------------------------------------------------------------
(* One lemma per action of a startup *)

LEMMA OpenKeeps ==
  ASSUME SchemaInv, NEW p \in Openers, SchemaOpen(p)
  PROVE  SchemaInv'
<1>. USE ListsAreColumns, OpenersAssumption
     DEF SchemaInv, SchemaTypeOK, Schema!SchemaTypeOK, SchemaOpen, Schema!Open
<1>1. SchemaTypeOK'
  OBVIOUS
<1>2. OpenTransaction'
  BY DEF OpenTransaction
<1>3. PassedVisible'
  BY DEF PassedVisible, OpenTransaction, Schema!Visible
<1>4. AddedVisible'
  BY DEF AddedVisible, OpenTransaction, Schema!Visible
<1>5. AddedOnce' /\ InPlace'
  BY DEF AddedOnce, InPlace
<1>6. EngineStarted'
  BY DEF EngineStarted, vars
<1>. QED
  BY <1>1, <1>2, <1>3, <1>4, <1>5, <1>6

LEMMA CheckKeeps ==
  ASSUME SchemaInv, NEW p \in Openers, Schema!Check(p), UNCHANGED vars
  PROVE  SchemaInv'
<1>. USE ListsAreColumns
     DEF SchemaInv, SchemaTypeOK, Schema!SchemaTypeOK, Schema!Check
<1>1. SchemaTypeOK'
  <2>1. next' \in [Openers -> Nat \ {0}]
    <3>1. next[p] + 1 \in Nat \ {0}
      OBVIOUS
    <3>. QED
      BY <3>1
  <2>2. stage' \in [Openers -> {"out", "check", "alter", "done", "failed"}]
    OBVIOUS
  <2>. QED
    BY <2>1, <2>2
<1>2. OpenTransaction'
  BY OpenersAssumption DEF OpenTransaction
<1>3. PassedVisible'
  BY DEF PassedVisible, Schema!Visible
<1>4. AddedVisible' /\ AddedOnce'
  BY DEF AddedVisible, AddedOnce, Schema!Visible
<1>5. InPlace'
  BY DEF InPlace
<1>6. EngineStarted'
  BY OpenersAssumption DEF EngineStarted, vars
<1>. QED
  BY <1>1, <1>2, <1>3, <1>4, <1>5, <1>6

LEMMA AlterKeeps ==
  ASSUME SchemaInv, NEW p \in Openers, Schema!Alter(p), UNCHANGED vars
  PROVE  SchemaInv'
<1>. USE ListsAreColumns, OpenersAssumption
     DEF SchemaInv, SchemaTypeOK, Schema!SchemaTypeOK, Schema!Alter
<1>0. Lists[p][next[p]] \in Columns
  BY DEF InPlace
<1>1. SchemaTypeOK'
  BY <1>0
<1>2. OpenTransaction'
  BY DEF OpenTransaction
<1>3. PassedVisible'
  BY DEF PassedVisible, Schema!Visible
<1>4. AddedVisible'
  BY DEF AddedVisible, Schema!Visible
<1>5. AddedOnce'
  BY DEF AddedVisible, AddedOnce, Schema!Visible
<1>6. InPlace'
  BY DEF InPlace
<1>7. EngineStarted'
  BY DEF EngineStarted, vars
<1>. QED
  BY <1>1, <1>2, <1>3, <1>4, <1>5, <1>6, <1>7

LEMMA FinishKeeps ==
  ASSUME SchemaInv, NEW p \in Openers, Schema!Finish(p), UNCHANGED vars
  PROVE  SchemaInv'
<1>. USE ListsAreColumns, OpenersAssumption
     DEF SchemaInv, SchemaTypeOK, Schema!SchemaTypeOK, Schema!Finish
<1>1. SchemaTypeOK'
  OBVIOUS
<1>2. OpenTransaction'
  BY DEF OpenTransaction
<1>3. PassedVisible'
  BY DEF PassedVisible, Schema!Visible
<1>4. AddedVisible' /\ AddedOnce'
  BY DEF AddedVisible, AddedOnce, Schema!Visible
<1>5. InPlace'
  BY DEF InPlace
<1>6. EngineStarted'
  BY DEF EngineStarted, vars
<1>. QED
  BY <1>1, <1>2, <1>3, <1>4, <1>5, <1>6

\* p fails or ends; no engine runs on its connection.
LEMMA LeaveKeeps ==
  ASSUME SchemaInv, NEW p \in Openers, NEW s \in {"out", "failed"},
         Schema!Leave(p, s), deaths' \in 0..MaxDeaths,
         engine' = "on" => engine = "on" /\ p # Daemon
  PROVE  SchemaInv'
<1>. USE ListsAreColumns, OpenersAssumption
     DEF SchemaInv, SchemaTypeOK, Schema!SchemaTypeOK, Schema!Leave,
         Schema!Rollback
<1>1. SchemaTypeOK'
  OBVIOUS
<1>2. OpenTransaction'
  BY DEF OpenTransaction
<1>3. PassedVisible'
  BY DEF PassedVisible, Schema!Visible
<1>4. AddedVisible' /\ AddedOnce'
  BY DEF AddedVisible, AddedOnce, Schema!Visible
<1>5. InPlace'
  BY DEF InPlace
<1>6. EngineStarted'
  BY DEF EngineStarted
<1>. QED
  BY <1>1, <1>2, <1>3, <1>4, <1>5, <1>6

-----------------------------------------------------------------------------
(* The writer's steps touch only the lock *)

LEMMA LockKeeps ==
  ASSUME SchemaInv, stage[Daemon] = "done",
         holder \in {NoOne, Daemon}, holder' \in {NoOne, Daemon},
         UNCHANGED <<file, uncommitted, stage, next, added, deaths>>
  PROVE  SchemaInv'
<1>. USE OpenersAssumption DEF SchemaInv, SchemaTypeOK, Schema!SchemaTypeOK
<1>0. uncommitted = {}
  BY DEF OpenTransaction
<1>1. SchemaTypeOK' /\ OpenTransaction' /\ InPlace' /\ AddedOnce'
  BY <1>0 DEF OpenTransaction, InPlace, AddedOnce
<1>2. \A p \in Openers : Schema!Visible(p)' = Schema!Visible(p)
  BY <1>0 DEF Schema!Visible
<1>3. PassedVisible' /\ AddedVisible'
  BY <1>2 DEF PassedVisible, AddedVisible
<1>4. EngineStarted'
  BY DEF EngineStarted
<1>. QED
  BY <1>1, <1>3, <1>4

LEMMA WriterSteps ==
  ASSUME ListenerWrites \/ FlusherWrites \/ OtherWrites
  PROVE  /\ engine = "on" /\ engine' = "on"
         /\ holder \in {NoOne, Daemon} /\ holder' \in {NoOne, Daemon}
         /\ UNCHANGED <<file, uncommitted, stage, next, added, deaths>>
BY DEF ListenerWrites, FlusherWrites, OtherWrites, Locking, WriteBatched,
       WriteCommits, WriteCommitRaises, Flush, OtherCommit, UpsertStatus

LEMMA SchemaStepKeeps == SchemaInv /\ [FileNext]_fileVars => SchemaInv'
<1>. SUFFICES ASSUME SchemaInv, [FileNext]_fileVars
              PROVE  SchemaInv'
  OBVIOUS
<1>. USE OpenersAssumption
<1>1. CASE OpenDaemon
  BY <1>1 DEF OpenDaemon, schemaVars, SchemaInv, SchemaTypeOK,
     Schema!SchemaTypeOK, OpenTransaction, PassedVisible, AddedVisible,
     AddedOnce, InPlace, EngineStarted, Schema!Visible
<1>2. CASE CloseDaemon
  <2>1. engine' = "off" /\ deaths' \in 0..MaxDeaths
    BY <1>2 DEF CloseDaemon, End, SchemaInv, SchemaTypeOK, Schema!SchemaTypeOK
  <2>. QED
    BY <1>2, <2>1, LeaveKeeps DEF CloseDaemon
<1>3. CASE ListenerWrites \/ FlusherWrites \/ OtherWrites
  BY <1>3, WriterSteps, LockKeeps DEF SchemaInv, EngineStarted
<1>4. ASSUME NEW p \in Openers, SchemaOpen(p)
      PROVE  SchemaInv'
  BY <1>4, OpenKeeps
<1>5. ASSUME NEW p \in Openers, SchemaStep(p)
      PROVE  SchemaInv'
  <2>1. CASE Schema!AlterRaises(p)
    <3>1. engine = "on" => p # Daemon
      BY <2>1 DEF Schema!AlterRaises, SchemaInv, EngineStarted, SchemaTypeOK,
         Schema!SchemaTypeOK
    <3>2. UNCHANGED <<engine, deaths>>
      BY <1>5, <2>1 DEF SchemaStep, Schema!AlterRaises, vars
    <3>3. deaths' \in 0..MaxDeaths
      BY <3>2 DEF SchemaInv, SchemaTypeOK, Schema!SchemaTypeOK
    <3>4. engine' = "on" => engine = "on" /\ p # Daemon
      BY <3>1, <3>2
    <3>. QED
      BY <2>1, <3>3, <3>4, LeaveKeeps DEF Schema!AlterRaises
  <2>. QED
    BY <1>5, <2>1, CheckKeeps, AlterKeeps, FinishKeeps
    DEF SchemaStep, Schema!Step
<1>6. ASSUME NEW p \in Openers, SchemaDie(p)
      PROVE  SchemaInv'
  <2>1. deaths' \in 0..MaxDeaths
    BY <1>6 DEF SchemaDie, Schema!Die, SchemaInv, SchemaTypeOK,
       Schema!SchemaTypeOK
  <2>2. engine' = "on" => engine = "on" /\ p # Daemon
    BY <1>6 DEF SchemaDie, vars
  <2>. QED
    BY <1>6, <2>1, <2>2, LeaveKeeps DEF SchemaDie, Schema!Die
<1>7. CASE UNCHANGED fileVars
  BY <1>7 DEF fileVars, schemaVars, vars, SchemaInv, SchemaTypeOK,
     Schema!SchemaTypeOK, OpenTransaction, PassedVisible, AddedVisible,
     AddedOnce, InPlace, EngineStarted, Schema!Visible
<1>. QED
  BY <1>1, <1>2, <1>3, <1>4, <1>5, <1>6, <1>7 DEF FileNext

LEMMA SchemaInvariant == FileSpec => []SchemaInv
BY InitSchema, SchemaStepKeeps, PTL DEF FileSpec

-----------------------------------------------------------------------------
(* Theorems *)

\* A startup that returned has its columns in the file for good, whatever
\* races, locks, failures and deaths came before, and reported as added only
\* what no other startup reports.
THEOREM StartupsComplete == FileSpec => []DoneMeansComplete
<1>1. SchemaInv => DoneMeansComplete
  <2>. SUFFICES ASSUME SchemaInv, NEW p \in Openers, stage[p] = "done"
                PROVE  /\ Schema!Wanted(p) \subseteq file
                       /\ added[p] \subseteq file
                       /\ \A q \in Openers \ {p} : added[p] \cap added[q] = {}
    BY DEF DoneMeansComplete, Schema!DoneMeansComplete
  <2>. USE DEF SchemaInv
  <2>1. Schema!Visible(p) = file
    BY DEF OpenTransaction, Schema!Visible
  <2>2. Schema!Wanted(p) \subseteq file
    BY <2>1, ListsAreColumns
    DEF Schema!Wanted, PassedVisible, InPlace, SchemaTypeOK,
        Schema!SchemaTypeOK
  <2>3. added[p] \subseteq file
    BY <2>1 DEF AddedVisible
  <2>. QED
    BY <2>2, <2>3 DEF AddedOnce
<1>. QED
  BY <1>1, SchemaInvariant, PTL

\* The writer on the shared file is a CacheWriter: other processes only delay
\* it.  So the theorems above hold of it.
THEOREM FileIsWriter == FileSpec => Spec
<1>1. FileInit => Init
  BY DEF FileInit
<1>2. [FileNext]_fileVars => [Next]_vars
  BY DEF FileNext, fileVars, Next, OpenDaemon, CloseDaemon, ListenerWrites,
     FlusherWrites, OtherWrites, Locking, SchemaOpen, SchemaStep, SchemaDie
<1>. QED
  BY <1>1, <1>2, PTL DEF FileSpec, Spec

\* In particular, what the end of the writer's process loses is bounded.
THEOREM FileLossBounded == FileSpec => []LossBounded
BY FileIsWriter, LossIsBounded, PTL

=============================================================================
