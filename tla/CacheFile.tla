------------------------------- MODULE CacheFile -------------------------------
(***************************************************************************)
(* The SQLite file of the daemon over its whole life: processes migrate    *)
(* it, and one of them, once its streamcache.connect has returned, writes  *)
(* events to it as in CacheWriter.  The write lock is what they share: an  *)
(* open batch of the writer keeps the others out, and a migrating process  *)
(* with an open transaction keeps the writer out.                          *)
(***************************************************************************)
EXTENDS CacheWriter, Sequences

CONSTANTS
  Openers, Columns, Lists, RowWriters, NoOne, MaxDeaths,  \* see Migrations
  Daemon                                 \* the opener that writes events

ASSUME OpenersAssumption ==
  /\ Daemon \in Openers /\ NoOne \notin Openers
  /\ Lists \in [Openers -> Seq(Columns)]
  /\ MaxDeaths \in Nat

VARIABLES
  file, uncommitted, holder, stage, next, added, deaths    \* see Migrations

Schema == INSTANCE Migrations

schemaVars == <<file, uncommitted, holder, stage, next, added, deaths>>
fileVars   == <<vars, schemaVars>>

FileInit == Init /\ Schema!Init

\* run_async: its connect has returned.
OpenDaemon ==
  /\ Start
  /\ stage[Daemon] = "done"
  /\ UNCHANGED schemaVars

\* The writer's connection goes, and what it had open.
CloseDaemon == End /\ Schema!Leave(Daemon, "out") /\ UNCHANGED deaths

\* Every write of the events, or of the status, either commits or leaves the
\* transaction open.  While another process holds the lock its execute raises
\* and nothing changes.
Committed ==
  /\ durable' = written' /\ statusDurable' = statusRow'
  /\ faults' = faults

Locking(Write) ==
  /\ holder \in {NoOne, Daemon}
  /\ Write
  /\ holder' = IF Committed THEN NoOne ELSE Daemon
  /\ UNCHANGED <<file, uncommitted, stage, next, added, deaths>>

ListenerWrites == Locking(WriteBatched \/ WriteCommits \/ WriteCommitRaises)
FlusherWrites  == Locking(Flush)
OtherWrites    == Locking(OtherCommit)

\* While the engine is on, the daemon's startup is over.
SchemaStep(p) == Schema!Step(p) /\ UNCHANGED vars
SchemaOpen(p) == Schema!Open(p) /\ UNCHANGED vars
SchemaDie(p)  ==
  /\ p # Daemon \/ engine = "off"
  /\ Schema!Die(p)
  /\ UNCHANGED vars

FileNext ==
  \/ OpenDaemon \/ CloseDaemon
  \/ ListenerWrites \/ FlusherWrites \/ OtherWrites
  \/ \E p \in Openers : SchemaOpen(p) \/ SchemaStep(p) \/ SchemaDie(p)

FileSpec == FileInit /\ [][FileNext]_fileVars

\* The writer's timers as in CacheWriter.  A startup that was begun goes on;
\* whether one that failed is begun again is up to whoever wants the process.
FileFairness ==
  /\ WF_fileVars(FlusherWrites) /\ WF_fileVars(OtherWrites)
  /\ \A p \in Openers : WF_fileVars(SchemaStep(p))

FairFileSpec == FileSpec /\ FileFairness

-----------------------------------------------------------------------------
(* Properties *)

SchemaTypeOK      == Schema!SchemaTypeOK
DoneMeansComplete == Schema!DoneMeansComplete

\* "Idempotently add missing columns. [...] Safe to run on every startup": a
\* startup fails only because somebody keeps the file locked.
StartupSafe ==
  [][\A p \in Openers :
       stage[p] # "failed" /\ stage'[p] = "failed" => holder \notin {NoOne, p}]_fileVars

\* A process whose startup fails may be started again, or not.  Either way its
\* failures come to an end: those that race to add the same columns cannot go on
\* knocking each other out, and neither a process that died half way nor an open
\* batch, once the feed is silent, stands in the way of the others for good.
FailuresEnd ==
  \A p \in Openers :
    []<>(stage[p] = "failed") => <>[](stage[p] = "failed")

=============================================================================
