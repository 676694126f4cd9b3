------------------------------ MODULE Migrations ------------------------------
(***************************************************************************)
(* Processes that open one SQLite file and add the columns it lacks:       *)
(* apply_additive_migrations of cherrypick.core.db, and the same steps for *)
(* one column in streamcache.connect.                                      *)
(*                                                                         *)
(* Nothing holds the file between the look at table_info and the ALTER.    *)
(* An ALTER commits by itself, as the sqlite3 module begins a transaction  *)
(* only for rows, unless the caller has written rows on the connection     *)
(* before: then it holds the write lock, and the ALTERs wait for the       *)
(* commit at the end.  A startup that raises loses its connection and what *)
(* it had not committed.                                                   *)
(***************************************************************************)
EXTENDS Integers, Sequences

CONSTANTS
  Openers,     \* processes, each with its own connection
  Columns,     \* columns a migration may add
  Lists,       \* the columns each process asks for, in order
  RowWriters,  \* the processes that may write rows before they migrate
  NoOne,       \* the holder of a free write lock
  MaxDeaths    \* bound on processes that end

Wanted(p) == {Lists[p][i] : i \in 1..Len(Lists[p])}

VARIABLES
  file,         \* the columns of the file
  uncommitted,  \* those added in the transaction of the holder
  holder,       \* who has the write lock across steps
  stage,        \* where each startup is
  next,         \* the migration it is at
  added,        \* the local `added`, as a set
  deaths        \* processes that have ended

locals == <<stage, next, added>>
vars   == <<file, uncommitted, holder, locals, deaths>>

\* Any older version may have made the file.
Init ==
  /\ file \in SUBSET Columns
  /\ uncommitted = {} /\ holder = NoOne
  /\ stage = [p \in Openers |-> "out"]
  /\ next  = [p \in Openers |-> 1]
  /\ added = [p \in Openers |-> {}]
  /\ deaths = 0

\* What table_info shows on p's connection.
Visible(p) == file \cup (IF holder = p THEN uncommitted ELSE {})

\* The connection goes away, and its transaction with it.
Rollback(p) ==
  IF holder = p THEN holder' = NoOne /\ uncommitted' = {}
                ELSE UNCHANGED <<holder, uncommitted>>

\* p leaves its startup for stage s.
Leave(p, s) ==
  /\ Rollback(p)
  /\ stage' = [stage EXCEPT ![p] = s]
  /\ added' = [added EXCEPT ![p] = {}]
  /\ UNCHANGED <<file, next>>

-----------------------------------------------------------------------------

\* connect; a caller may go on to write rows before it migrates.
Open(p) ==
  /\ stage[p] \in {"out", "failed"}
  /\ stage' = [stage EXCEPT ![p] = "check"]
  /\ next' = [next EXCEPT ![p] = 1]
  /\ \/ UNCHANGED holder
     \/ p \in RowWriters /\ holder = NoOne /\ holder' = p
  /\ UNCHANGED <<file, uncommitted, added, deaths>>

\* Mutant: the migration is not looked up first.
CheckNothing(p) ==
  /\ stage[p] = "check"
  /\ next[p] <= Len(Lists[p])
  /\ stage' = [stage EXCEPT ![p] = "alter"]
  /\ UNCHANGED <<file, uncommitted, holder, next, added, deaths>>

\* Is the next column there?
Check(p) ==
  /\ stage[p] = "check"
  /\ next[p] <= Len(Lists[p])
  /\ IF Lists[p][next[p]] \in Visible(p)
     THEN next' = [next EXCEPT ![p] = @ + 1] /\ UNCHANGED stage
     ELSE stage' = [stage EXCEPT ![p] = "alter"] /\ UNCHANGED next
  /\ UNCHANGED <<file, uncommitted, holder, added, deaths>>

\* ALTER TABLE ... ADD COLUMN goes through.
Alter(p) ==
  /\ stage[p] = "alter"
  /\ holder \in {NoOne, p}
  /\ Lists[p][next[p]] \notin Visible(p)
  /\ IF holder = p
     THEN uncommitted' = uncommitted \cup {Lists[p][next[p]]} /\ UNCHANGED file
     ELSE file' = file \cup {Lists[p][next[p]]} /\ UNCHANGED uncommitted
  /\ added' = [added EXCEPT ![p] = @ \cup {Lists[p][next[p]]}]
  /\ next' = [next EXCEPT ![p] = @ + 1]
  /\ stage' = [stage EXCEPT ![p] = "check"]
  /\ UNCHANGED <<holder, deaths>>

\* It raises: another process was faster ("duplicate column name"), or keeps
\* the file locked for longer than SQLite waits.
AlterRaises(p) ==
  /\ stage[p] = "alter"
  /\ \/ Lists[p][next[p]] \in Visible(p)
     \/ holder \notin {NoOne, p}
  /\ Leave(p, "failed")
  /\ UNCHANGED deaths

\* Mutant: the commit at the end is forgotten.
FinishUncommitted(p) ==
  /\ stage[p] = "check"
  /\ next[p] > Len(Lists[p])
  /\ stage' = [stage EXCEPT ![p] = "done"]
  /\ UNCHANGED <<file, uncommitted, holder, next, added, deaths>>

\* The commit at the end, and `return added`.
Finish(p) ==
  /\ stage[p] = "check"
  /\ next[p] > Len(Lists[p])
  /\ IF holder = p
     THEN file' = file \cup uncommitted /\ uncommitted' = {} /\ holder' = NoOne
     ELSE UNCHANGED <<file, uncommitted, holder>>
  /\ stage' = [stage EXCEPT ![p] = "done"]
  /\ UNCHANGED <<next, added, deaths>>

\* The process ends, in its startup or later.
Die(p) ==
  /\ deaths < MaxDeaths
  /\ stage[p] # "out"
  /\ deaths' = deaths + 1
  /\ Leave(p, "out")

Step(p) == Check(p) \/ Alter(p) \/ AlterRaises(p) \/ Finish(p)

Next == \E p \in Openers : Open(p) \/ Step(p) \/ Die(p)

Spec == Init /\ [][Next]_vars

-----------------------------------------------------------------------------
(* Properties *)

\* The type invariant.
SchemaTypeOK ==
  /\ file \in SUBSET Columns /\ uncommitted \in SUBSET Columns
  /\ holder \in Openers \cup {NoOne}
  /\ stage \in [Openers -> {"out", "check", "alter", "done", "failed"}]
  /\ next \in [Openers -> Nat \ {0}]
  /\ added \in [Openers -> SUBSET Columns]
  /\ deaths \in 0..MaxDeaths

\* A startup that returned may rely on its columns, whoever else migrated the
\* file meanwhile and however they ended; and of two startups at most one
\* reports to have added a column.
DoneMeansComplete ==
  \A p \in Openers : stage[p] = "done" =>
    /\ Wanted(p) \subseteq file
    /\ added[p] \subseteq file
    /\ \A q \in Openers \ {p} : added[p] \cap added[q] = {}

=============================================================================
