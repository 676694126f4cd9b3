------------------------------- MODULE Profiles -------------------------------
(***************************************************************************)
(* cherrypick.core.profiles over the life of a consumer that trades under  *)
(* a named risk profile: trades are tagged with the profile that opened    *)
(* them, the log is compared by tag, the advisor may recommend the next    *)
(* rung of the ladder, and whoever follows it (or chooses a profile        *)
(* deliberately) merges that profile onto the base configuration.          *)
(*                                                                         *)
(* A configuration has top-level values and one namespace of entries with  *)
(* fields (strategies), which a profile overrides field by field.          *)
(***************************************************************************)
EXTENDS Integers, Sequences, FiniteSets

CONSTANTS
  Ladder,          \* rungs, most conservative first, as profile names
  DeliberateOnly,  \* rungs that are never recommended
  Registry,        \* load_profiles: the definition of each profile
  BaseConfig,      \* the configuration on disk
  Absent,          \* a key that a dictionary lacks; Python's None
  Untagged,        \* the tag of rows without a profile
  Tags,            \* values of the tag column
  Stripped,        \* what str(value).strip() makes of each but Absent
  Blank,           \* the empty string
  MinSample, MinWinPct, MinDays,   \* PROMOTION_RULE
  MaxRows, LastDay                 \* bounds on the log

VARIABLES
  base,     \* the base configuration in memory
  config,   \* the merged configuration that is traded
  rung,     \* index of the current profile in Ladder
  advised,  \* the last change followed a recommendation
  rows,     \* the trade log: tag, win, day
  today     \* the session

vars == <<base, config, rung, advised, rows, today>>

-----------------------------------------------------------------------------
(* merge_profile *)

\* {**old, **new}.
Overlay(new, old) ==
  [k \in DOMAIN new \cup DOMAIN old |-> IF k \in DOMAIN new THEN new[k] ELSE old[k]]

\* A profile may replace the namespace as a top-level key; its overrides go
\* onto whatever is there then.
Target(b, p) == IF p.entries = Absent THEN b.entries ELSE p.entries

\* Mutant: an entry with overrides loses its other fields.
MergedEntryReplaced(old, overrides) == overrides
MergedEntry(old, overrides)         == Overlay(overrides, old)

\* Entries the namespace lacks are skipped.
Merge(b, p) ==
  [top     |-> Overlay(p.top, b.top),
   entries |->
     [e \in DOMAIN Target(b, p) |->
        IF e \in DOMAIN p.overrides
        THEN MergedEntry(Target(b, p)[e], p.overrides[e])
        ELSE Target(b, p)[e]]]

\* Every top-level override is a key of the base.  The consumer modelled here asks
\* for this with validate=True; by default a merge checks nothing.
Validates(b, p) == DOMAIN p.top \subseteq DOMAIN b.top

\* Mutant: the namespace is merged in place.
BaseShared(b, p) == [b EXCEPT !.entries = Merge(b, p).entries]

\* What a merge makes of the base: it works on copies.
BaseAfter(b, p) == b

-----------------------------------------------------------------------------
(* attribution_tag, compare_profiles and the reading of a group *)

AttributionTag(value) ==
  IF value = Absent \/ Stripped[value] = Blank THEN Untagged
  ELSE Stripped[value]

\* The rows of a group, by their places in the log.
Group(tag) == {i \in DOMAIN rows : AttributionTag(rows[i].tag) = tag}

\* The summary is the consumer's: trades, wins and distinct sessions.
Reading(group) ==
  [sample |-> Cardinality(group),
   wins   |-> Cardinality({i \in group : rows[i].win}),
   days   |-> Cardinality({rows[i].day : i \in group})]

-----------------------------------------------------------------------------
(* recommend_promotion *)

\* A profile without trades has no win rate, which fails the check.
Passes(reading) ==
  /\ reading.sample >= MinSample
  /\ reading.sample > 0 /\ 100 * reading.wins >= MinWinPct * reading.sample
  /\ reading.days >= MinDays

\* Mutant: the current rung is looked up among the deliberate ones.
GraduatesFrom(reading) ==
  /\ rung < Len(Ladder)
  /\ Ladder[rung] \notin DeliberateOnly
  /\ Passes(reading)

\* recommendation = "graduate:<next>".
Graduates(reading) ==
  /\ rung < Len(Ladder)
  /\ Ladder[rung + 1] \notin DeliberateOnly
  /\ Passes(reading)

-----------------------------------------------------------------------------

Init ==
  /\ Validates(BaseConfig, Registry[Ladder[1]])
  /\ base = BaseConfig
  /\ rung = 1
  /\ config = Merge(BaseConfig, Registry[Ladder[1]])
  /\ advised = FALSE
  /\ rows = <<>> /\ today = 1

\* A trade ends.  Shadow books log theirs too, under any tag.
Trade(tag, win) ==
  /\ Len(rows) < MaxRows
  /\ rows' = Append(rows, [tag |-> tag, win |-> win, day |-> today])
  /\ UNCHANGED <<base, config, rung, advised, today>>

NextSession ==
  /\ today < LastDay
  /\ today' = today + 1
  /\ UNCHANGED <<base, config, rung, advised, rows>>

\* select_profile and merge_profile, unless the validation raises.
SwitchTo(n) ==
  LET p == Registry[Ladder[n]] IN
  /\ Validates(base, p)
  /\ config' = Merge(base, p)
  /\ base' = BaseAfter(base, p)
  /\ rung' = n
  /\ UNCHANGED <<rows, today>>

\* The recommendation is followed.
Promote ==
  /\ Graduates(Reading(Group(Ladder[rung])))
  /\ SwitchTo(rung + 1)
  /\ advised' = TRUE

\* A human chooses.
Choose(n) == n # rung /\ SwitchTo(n) /\ advised' = FALSE

Next ==
  \/ \E tag \in Tags, win \in BOOLEAN : Trade(tag, win)
  \/ NextSession
  \/ Promote
  \/ \E n \in 1..Len(Ladder) : Choose(n)

-----------------------------------------------------------------------------
(* Properties *)

\* Whatever profiles were active before, the traded configuration is the one on
\* disk with the overrides of the current profile and nothing else: no merge
\* leaks into the base, and no field is lost.
SwitchLeavesNothing ==
  LET p == Registry[Ladder[rung]] IN
  /\ \A k \in DOMAIN config.top :
       config.top[k] = IF k \in DOMAIN p.top THEN p.top[k] ELSE BaseConfig.top[k]
  /\ DOMAIN config.top = DOMAIN BaseConfig.top
  /\ p.entries = Absent =>
       /\ DOMAIN config.entries = DOMAIN BaseConfig.entries
       /\ \A e \in DOMAIN config.entries :
            LET o == IF e \in DOMAIN p.overrides THEN p.overrides[e] ELSE <<>> IN
            /\ DOMAIN config.entries[e] = DOMAIN o \cup DOMAIN BaseConfig.entries[e]
            /\ \A f \in DOMAIN config.entries[e] :
                 config.entries[e][f] =
                   IF f \in DOMAIN o THEN o[f] ELSE BaseConfig.entries[e][f]

\* Following the advisor, risk climbs one rung at a time, never onto a rung
\* kept for deliberate choice, and only on the trades of the profile that is
\* left: enough of them, won often enough, over enough sessions, whatever other
\* books wrote into the log and however their tags were padded.
Own == {i \in DOMAIN rows :
          rows[i].tag # Absent /\ Stripped[rows[i].tag] = Ladder[rung]}

ClimbsEarned ==
  [][advised' /\ rung' # rung =>
       /\ rung' = rung + 1
       /\ Ladder[rung'] \notin DeliberateOnly
       /\ Cardinality(Own) >= MinSample
       /\ 100 * Cardinality({i \in Own : rows[i].win})
            >= MinWinPct * Cardinality(Own)
       /\ Cardinality({rows[i].day : i \in Own}) >= MinDays]_vars

=============================================================================
