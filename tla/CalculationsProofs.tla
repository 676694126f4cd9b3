-------------------------- MODULE CalculationsProofs --------------------------
(***************************************************************************)
(* Theorems about Calculations: the calendar as it is asked here, the      *)
(* profiles for any ladder, registry and log, the gamma exposure of any    *)
(* chain, the fees of any order.                                           *)
(***************************************************************************)
EXTENDS Calculations, Totals, MarketCalendarProofs, WellFoundedInduction, TLAPS

-----------------------------------------------------------------------------
(* The calendar *)

\* What Calculations asks of its calendar is what MarketCalendar allows.
LEMMA CalendarIsAsked == CalcSpec => Spec
<1>1. CalcInit => Init
  <2>1. AtRest => Init
    BY DaysAreTyped DEF AtRest, Init, Days, DaysTyped
  <2>. QED
    BY <2>1 DEF CalcInit
<1>2. [CalcNext]_calcVars => [Next]_vars
  BY DEF CalcNext, AskCalendar, AskGex, AskProfiles, AskFees, calcVars, vars
<1>. QED
  BY <1>1, <1>2, PTL DEF CalcSpec, Spec

\* Asked beside the other calculations, the calendar keeps every property it has on
\* its own (calendar.py): loops pass no trading day by, end within four days and stay
\* near the years asked about, holidays close on weekdays, and Easter is Easter.
THEOREM CalendarHolds ==
  CalcSpec => [](NothingSkipped /\ ShortClosures /\ TypeOK /\ EveryHolidayCloses
                   /\ EasterFollowsFullMoon)
BY CalendarIsAsked, WalksSkipNothing, WalksEndSoon, WalksStayNear, HolidaysAlwaysClose,
   EasterAlwaysFollows, PTL

-----------------------------------------------------------------------------
(* Induction.  The provers instantiate no operator parameter, so the steps are *)
(* over sets of numbers, by the least element of what is left.              *)

Less == {p \in Nat \X Nat : p[1] < p[2]}

LEMMA LessIsWellFounded == IsWellFoundedOn(Less, Nat)
<1>1. OpToRel(<, Nat) = Less
  BY Zenon DEF OpToRel, Less
<1>. QED
  BY <1>1, NatLessThanWellFounded, Zenon

LEMMA SetInduction ==
  ASSUME NEW T, 0 \in T, \A n \in Nat : n \in T => n + 1 \in T
  PROVE  \A n \in Nat : n \in T
<1>. DEFINE B == Nat \ T
<1>1. SUFFICES ASSUME B # {} PROVE FALSE
  OBVIOUS
<1>2. PICK m \in B : \A n \in B : ~(<<n, m>> \in Less)
  BY <1>1, LessIsWellFounded, WFMin
<1>3. m # 0 /\ m - 1 \in Nat
  BY <1>2
<1>4. m - 1 \in B
  BY <1>2, <1>3
<1>5. <<m - 1, m>> \in Less
  BY <1>2, <1>3 DEF Less
<1>. QED
  BY <1>2, <1>4, <1>5

LEMMA MaxIsLargest ==
  ASSUME NEW n \in Nat, NEW s \in SUBSET (1..n), s # {}
  PROVE  Max(s) \in s /\ \A x \in s : x <= Max(s)
<1>. DEFINE B == {k \in Nat : n - k \in s}
<1>1. B \subseteq Nat /\ B # {}
  <2>1. PICK x \in s : x \in 1..n
    OBVIOUS
  <2>2. n - x \in Nat /\ n - (n - x) = x
    BY <2>1
  <2>. QED
    BY <2>1, <2>2
<1>2. PICK m \in B : \A k \in B : ~(<<k, m>> \in Less)
  BY <1>1, LessIsWellFounded, WFMin
<1>3. \A x \in s : x <= n - m
  <2>1. SUFFICES ASSUME NEW x \in s, ~(x <= n - m) PROVE FALSE
    OBVIOUS
  <2>2. n - x \in Nat /\ n - (n - x) = x /\ n - x < m
    BY <1>2, <2>1
  <2>. QED
    BY <1>2, <2>2 DEF Less
<1>4. \E x \in s : \A y \in s : x >= y
  <2>1. n - m \in s
    BY <1>2
  <2>2. \A y \in s : n - m >= y
    BY <1>2, <1>3
  <2>. QED
    BY <2>1, <2>2
<1>5. Max(s) \in s /\ \A y \in s : Max(s) >= y
  BY <1>4 DEF Max
<1>. QED
  BY <1>5

LEMMA MaxOfInterval ==
  ASSUME NEW n \in Nat
  PROVE  Max(1..(n + 1)) = n + 1 /\ (1..(n + 1)) \ {n + 1} = 1..n
<1>1. 1..(n + 1) \in SUBSET (1..(n + 1)) /\ n + 1 \in 1..(n + 1) /\ n + 1 \in Nat
  OBVIOUS
<1>2. Max(1..(n + 1)) \in 1..(n + 1) /\ n + 1 <= Max(1..(n + 1))
  BY <1>1, MaxIsLargest
<1>. QED
  BY <1>2

-----------------------------------------------------------------------------
(* Sums *)

\* What FoldLeft iterates, over the sets of the indices 1..n.
Iterates(h, a, n) ==
  h = [s \in SUBSET (1..n) |-> IF s = {} THEN 0 ELSE h[s \ {Max(s)}] + a[Max(s)]]

LEMMA IterationExists ==
  ASSUME NEW a
  PROVE  \A n \in Nat : \E h : Iterates(h, a, n)
<1>. DEFINE T == {n \in Nat : \E h : Iterates(h, a, n)}
<1>1. 0 \in T
  <2>. DEFINE h == [s \in SUBSET (1..0) |-> 0]
  <2>1. \A s \in SUBSET (1..0) : s = {}
    OBVIOUS
  <2>2. Iterates(h, a, 0)
    BY <2>1 DEF Iterates
  <2>. QED
    BY <2>2
<1>2. ASSUME NEW n \in Nat, n \in T PROVE n + 1 \in T
  <2>1. PICK h : Iterates(h, a, n)
    BY <1>2
  <2>. DEFINE g == [s \in SUBSET (1..(n + 1)) |->
                      IF n + 1 \in s THEN h[s \ {n + 1}] + a[n + 1] ELSE h[s]]
  <2>2. ASSUME NEW s \in SUBSET (1..(n + 1))
        PROVE  g[s] = IF s = {} THEN 0 ELSE g[s \ {Max(s)}] + a[Max(s)]
    <3>1. CASE n + 1 \in s
      <4>1. Max(s) = n + 1
        <5>1. Max(s) \in s /\ n + 1 <= Max(s)
          BY <3>1, MaxIsLargest, n + 1 \in Nat
        <5>2. Max(s) \in 1..(n + 1)
          BY <5>1
        <5>. HIDE DEF g
        <5>. QED
          BY <5>1, <5>2
      <4>2. /\ s \ {n + 1} \in SUBSET (1..(n + 1)) /\ n + 1 \notin s \ {n + 1}
            /\ s # {}
        BY <3>1
      <4>. QED
        BY <3>1, <4>1, <4>2
    <3>2. CASE n + 1 \notin s
      <4>1. s \in SUBSET (1..n)
        BY <3>2
      <4>2. h[s] = IF s = {} THEN 0 ELSE h[s \ {Max(s)}] + a[Max(s)]
        BY <2>1, <4>1 DEF Iterates
      <4>3. s \ {Max(s)} \in SUBSET (1..(n + 1)) /\ n + 1 \notin s \ {Max(s)}
        BY <3>2
      <4>. QED
        BY <3>2, <4>2, <4>3
    <3>. QED
      BY <3>1, <3>2
  <2>3. Iterates(g, a, n + 1)
    BY <2>2 DEF Iterates
  <2>. QED
    BY <2>3
<1>3. \A n \in Nat : n \in T
  BY <1>1, <1>2, SetInduction
<1>. QED
  BY <1>3

\* A sequence of partial sums of a.
Sums(p, a, n) ==
  p[0] = 0 /\ \A k \in Nat : k < n => p[k + 1] = p[k] + a[k + 1]

LEMMA TotalIsLastSum ==
  ASSUME NEW a, NEW n \in Nat, DOMAIN a = 1..n, NEW p, Sums(p, a, n)
  PROVE  Total(a) = p[n]
<1>. DEFINE h == CHOOSE h : Iterates(h, a, n)
<1>1. Iterates(h, a, n)
  BY IterationExists
<1>2. Total(a) = h[1..n]
  BY DEF Total, FoldLeft, MapThenFoldSet, Iterates
<1>. HIDE DEF h
<1>. DEFINE T == {k \in Nat : k <= n => h[1..k] = p[k]}
<1>3. 0 \in T
  <2>1. 1..0 = {} /\ {} \in SUBSET (1..n)
    OBVIOUS
  <2>2. h[{}] = 0
    BY <1>1, <2>1 DEF Iterates
  <2>. QED
    BY <2>1, <2>2 DEF Sums
<1>4. ASSUME NEW k \in Nat, k \in T PROVE k + 1 \in T
  <2>1. SUFFICES ASSUME k < n PROVE h[1..(k + 1)] = p[k + 1]
    OBVIOUS
  <2>2. 1..(k + 1) \in SUBSET (1..n) /\ 1..(k + 1) # {}
    BY <2>1
  <2>3. h[1..(k + 1)] = h[1..k] + a[k + 1]
    <3>1. PICK s \in SUBSET (1..n) : s = 1..(k + 1)
      BY <2>2
    <3>2. s # {} /\ Max(s) = k + 1 /\ s \ {k + 1} = 1..k
      BY <2>2, <3>1, MaxOfInterval
    <3>3. h[s] = h[s \ {Max(s)}] + a[Max(s)]
      BY <1>1, <3>2 DEF Iterates
    <3>. QED
      BY <3>1, <3>2, <3>3
  <2>. QED
    BY <1>4, <2>1, <2>3 DEF Sums
<1>5. n \in T
  BY <1>3, <1>4, SetInduction
<1>. QED
  BY <1>2, <1>5

LEMMA SumsExist ==
  ASSUME NEW n \in Nat, NEW a \in [1..n -> Int]
  PROVE  \E p \in [0..n -> Int] : Sums(p, a, n)
<1>. DEFINE h == CHOOSE h : Iterates(h, a, n)
            p == [k \in 0..n |-> h[1..k]]
<1>1. Iterates(h, a, n)
  BY IterationExists
<1>. HIDE DEF h
<1>2. h[{}] = 0 /\ 1..0 = {}
  <2>1. {} \in SUBSET (1..n) /\ 1..0 = {}
    OBVIOUS
  <2>. QED
    BY <1>1, <2>1 DEF Iterates
<1>3. ASSUME NEW k \in Nat, k < n
      PROVE  h[1..(k + 1)] = h[1..k] + a[k + 1]
  <2>1. PICK s \in SUBSET (1..n) : s = 1..(k + 1) /\ k + 1 \in s
    BY <1>3
  <2>2. s # {} /\ Max(s) = k + 1 /\ s \ {k + 1} = 1..k
    BY <2>1, MaxOfInterval
  <2>3. h[s] = h[s \ {Max(s)}] + a[Max(s)]
    BY <1>1, <2>2 DEF Iterates
  <2>. QED
    BY <2>1, <2>2, <2>3
<1>. DEFINE T == {k \in Nat : k <= n => h[1..k] \in Int}
<1>4. \A k \in Nat : k \in T
  <2>1. 0 \in T
    BY <1>2
  <2>2. ASSUME NEW k \in Nat, k \in T PROVE k + 1 \in T
    <3>1. SUFFICES ASSUME k < n PROVE h[1..(k + 1)] \in Int
      OBVIOUS
    <3>2. a[k + 1] \in Int /\ h[1..k] \in Int
      BY <2>2, <3>1
    <3>. QED
      BY <1>3, <3>1, <3>2
  <2>. HIDE DEF T
  <2>. QED
    BY <2>1, <2>2, SetInduction
<1>5. p \in [0..n -> Int]
  BY <1>4
<1>6. Sums(p, a, n)
  BY <1>2, <1>3 DEF Sums
<1>. QED
  BY <1>5, <1>6

\* The sum of a part of a list is the difference of two of its partial sums.
LEMMA TotalOfPart ==
  ASSUME NEW n \in Nat, NEW a \in [1..n -> Int], NEW p \in [0..n -> Int], Sums(p, a, n),
         NEW i \in 0..n, NEW j \in i..n,
         NEW b, DOMAIN b = 1..(j - i), \A k \in 1..(j - i) : b[k] = a[i + k]
  PROVE  Total(b) = p[j] - p[i]
<1>. DEFINE q == [k \in 0..(j - i) |-> p[i + k] - p[i]]
<1>1. j - i \in Nat
  OBVIOUS
<1>2. q[0] = 0
  OBVIOUS
<1>3. ASSUME NEW k \in Nat, k < j - i PROVE q[k + 1] = q[k] + b[k + 1]
  <2>1. i + k \in Nat /\ i + k < n /\ k \in 0..(j - i) /\ k + 1 \in 0..(j - i)
    BY <1>3
  <2>2. p[i + k + 1] = p[i + k] + a[i + k + 1]
    BY <2>1 DEF Sums
  <2>3. b[k + 1] = a[i + k + 1] /\ i + (k + 1) = i + k + 1
    BY <1>3
  <2>4. i + k + 1 \in 1..n /\ i + k \in 0..n /\ i + k + 1 \in 0..n
    BY <2>1
  <2>5. p[i + k] \in Int /\ p[i + k + 1] \in Int /\ p[i] \in Int /\ a[i + k + 1] \in Int
    BY <2>4
  <2>6. q[k] = p[i + k] - p[i] /\ q[k + 1] = p[i + k + 1] - p[i]
    BY <2>1, <2>3
  <2>. HIDE DEF q
  <2>. QED
    BY <2>2, <2>3, <2>5, <2>6
<1>4. Sums(q, b, j - i)
  BY <1>2, <1>3 DEF Sums
<1>. HIDE DEF q
<1>5. Total(b) = q[j - i]
  BY <1>1, <1>4, TotalIsLastSum
<1>. QED
  BY <1>5 DEF q

-----------------------------------------------------------------------------
(* Profiles *)

\* What every switch restores: the base on disk, and the merge of one profile onto it.
ProfileInv ==
  LET p == Registry[Ladder[rung]] IN
  /\ base = BaseConfig
  /\ rung \in 1..Len(Ladder)
  /\ Risk!Validates(BaseConfig, p)
  /\ config = Risk!Merge(BaseConfig, p)

LEMMA ProfileInvInit == CalcInit => ProfileInv
BY LadderAssumption DEF CalcInit, Risk!Init, ProfileInv

LEMMA ProfileInvStep ==
  ASSUME ProfileInv, [CalcNext]_calcVars
  PROVE  ProfileInv'
<1>1. ASSUME NEW n \in 1..Len(Ladder), Risk!SwitchTo(n)
      PROVE  ProfileInv'
  BY <1>1 DEF ProfileInv, Risk!SwitchTo, Risk!BaseAfter
<1>2. CASE UNCHANGED <<base, config, rung>>
  BY <1>2 DEF ProfileInv
<1>3. CASE AskProfiles
  <2>1. CASE \E tag \in Tags, win \in BOOLEAN : Risk!Trade(tag, win)
    BY <1>2, <2>1 DEF Risk!Trade
  <2>2. CASE Risk!NextSession
    BY <1>2, <2>2 DEF Risk!NextSession
  <2>3. CASE Risk!Promote
    <3>1. rung < Len(Ladder) /\ Risk!SwitchTo(rung + 1)
      BY <2>3 DEF Risk!Promote, Risk!Graduates
    <3>2. rung + 1 \in 1..Len(Ladder)
      BY <3>1, LadderAssumption DEF ProfileInv
    <3>. QED
      BY <1>1, <3>1, <3>2, Zenon
  <2>4. CASE \E n \in 1..Len(Ladder) : Risk!Choose(n)
    BY <1>1, <2>4, Zenon DEF Risk!Choose
  <2>. QED
    BY <1>3, <2>1, <2>2, <2>3, <2>4 DEF AskProfiles, Risk!Next
<1>4. CASE AskCalendar \/ AskGex \/ AskFees \/ UNCHANGED calcVars
  BY <1>2, <1>4 DEF AskCalendar, AskGex, AskFees, riskVars, calcVars
<1>. QED
  BY <1>3, <1>4 DEF CalcNext

LEMMA ProfileInvHolds == CalcSpec => []ProfileInv
BY ProfileInvInit, ProfileInvStep, PTL DEF CalcSpec

\* The merge of a profile that validates has the keys of the base, each with the
\* profile's value where it has one; and so have the entries and their fields.
LEMMA MergeIsOverride ==
  ASSUME NEW b, NEW p, Risk!Validates(b, p)
  PROVE  LET c == Risk!Merge(b, p) IN
         /\ DOMAIN c.top = DOMAIN b.top
         /\ \A k \in DOMAIN c.top :
              c.top[k] = IF k \in DOMAIN p.top THEN p.top[k] ELSE b.top[k]
         /\ p.entries = Absent =>
              /\ DOMAIN c.entries = DOMAIN b.entries
              /\ \A e \in DOMAIN c.entries :
                   c.entries[e] = IF e \in DOMAIN p.overrides
                                  THEN Risk!Overlay(p.overrides[e], b.entries[e]) ELSE b.entries[e]
<1>1. Risk!Merge(b, p).top = Risk!Overlay(p.top, b.top)
  BY DEF Risk!Merge
<1>2. p.entries = Absent => Risk!Target(b, p) = b.entries
  BY DEF Risk!Target
<1>3. Risk!Merge(b, p).entries =
        [e \in DOMAIN Risk!Target(b, p) |->
           IF e \in DOMAIN p.overrides
           THEN Risk!Overlay(p.overrides[e], Risk!Target(b, p)[e])
           ELSE Risk!Target(b, p)[e]]
  BY DEF Risk!Merge, Risk!MergedEntry
<1>. QED
  BY <1>1, <1>2, <1>3 DEF Risk!Validates, Risk!Overlay

\* Whatever profiles were active before, and whoever chose them, the traded
\* configuration is the one on disk with the current profile's overrides.
THEOREM SwitchesForget == CalcSpec => []SwitchLeavesNothing
<1>1. ASSUME ProfileInv PROVE SwitchLeavesNothing
  <2>. DEFINE p == Registry[Ladder[rung]]
  <2>1. config = Risk!Merge(BaseConfig, p) /\ Risk!Validates(BaseConfig, p)
    BY <1>1 DEF ProfileInv
  <2>. HIDE DEF p
  <2>2. /\ DOMAIN config.top = DOMAIN BaseConfig.top
        /\ \A k \in DOMAIN config.top :
             config.top[k] = IF k \in DOMAIN p.top THEN p.top[k] ELSE BaseConfig.top[k]
        /\ p.entries = Absent =>
             /\ DOMAIN config.entries = DOMAIN BaseConfig.entries
             /\ \A e \in DOMAIN config.entries :
                  config.entries[e] = IF e \in DOMAIN p.overrides
                                      THEN Risk!Overlay(p.overrides[e], BaseConfig.entries[e])
                                      ELSE BaseConfig.entries[e]
    BY <2>1, MergeIsOverride
  <2>3. DOMAIN <<>> = {}
    OBVIOUS
  <2>4. ASSUME p.entries = Absent, NEW e \in DOMAIN config.entries
        PROVE  LET o == IF e \in DOMAIN p.overrides THEN p.overrides[e] ELSE <<>> IN
               /\ DOMAIN config.entries[e] = DOMAIN o \cup DOMAIN BaseConfig.entries[e]
               /\ \A f \in DOMAIN config.entries[e] :
                    config.entries[e][f] =
                      IF f \in DOMAIN o THEN o[f] ELSE BaseConfig.entries[e][f]
    <3>1. config.entries[e] = IF e \in DOMAIN p.overrides
                              THEN Risk!Overlay(p.overrides[e], BaseConfig.entries[e])
                              ELSE BaseConfig.entries[e]
      BY <2>2, <2>4
    <3>2. CASE e \in DOMAIN p.overrides
      <4>1. PICK c, o, d : c = Risk!Overlay(o, d) /\ c = config.entries[e]
                           /\ o = p.overrides[e] /\ d = BaseConfig.entries[e]
        BY <3>1, <3>2
      <4>2. /\ DOMAIN c = DOMAIN o \cup DOMAIN d
            /\ \A f \in DOMAIN c : c[f] = IF f \in DOMAIN o THEN o[f] ELSE d[f]
        BY <4>1 DEF Risk!Overlay
      <4>. QED
        BY <3>2, <4>1, <4>2
    <3>3. CASE e \notin DOMAIN p.overrides
      BY <2>3, <3>1, <3>3
    <3>. QED
      BY <3>2, <3>3
  <2>5. p.entries = Absent =>
          /\ DOMAIN config.entries = DOMAIN BaseConfig.entries
          /\ \A e \in DOMAIN config.entries :
               LET o == IF e \in DOMAIN p.overrides THEN p.overrides[e] ELSE <<>> IN
               /\ DOMAIN config.entries[e] = DOMAIN o \cup DOMAIN BaseConfig.entries[e]
               /\ \A f \in DOMAIN config.entries[e] :
                    config.entries[e][f] =
                      IF f \in DOMAIN o THEN o[f] ELSE BaseConfig.entries[e][f]
    BY <2>2, <2>4, Zenon
  <2>. QED
    BY <2>2, <2>5, Zenon DEF p, SwitchLeavesNothing, Risk!SwitchLeavesNothing
<1>. QED
  BY <1>1, ProfileInvHolds, PTL

\* A recommendation that is followed rests on the trades of the profile that is left,
\* and on them alone: for any tags, padding and log, any ladder and thresholds
\* (attribution_tag, compare_profiles, recommend_promotion).
THEOREM ClimbsAreEarned == CalcSpec => ClimbsEarned
<1>. DEFINE Earned ==
              advised' /\ rung' # rung =>
                /\ rung' = rung + 1
                /\ Ladder[rung'] \notin DeliberateOnly
                /\ Risk!Cardinality(Risk!Own) >= MinSample
                /\ 100 * Risk!Cardinality({i \in Risk!Own : rows[i].win})
                     >= MinWinPct * Risk!Cardinality(Risk!Own)
                /\ Risk!Cardinality({rows[i].day : i \in Risk!Own}) >= MinDays
<1>1. ASSUME ProfileInv, [CalcNext]_calcVars PROVE [Earned]_(Risk!vars)
  <2>1. CASE Risk!Promote
    <3>1. Ladder[rung] # Untagged
      BY <1>1, TagAssumption DEF ProfileInv
    <3>2. Risk!Graduates(Risk!Reading(Risk!Group(Ladder[rung]))) /\ Risk!SwitchTo(rung + 1)
      BY <2>1 DEF Risk!Promote
    <3>3. Ladder[rung] # Blank
      <4>1. Risk!Cardinality({}) = 0
        BY FS_EmptySet DEF Cardinality, Risk!Cardinality
      <4>2. Risk!Group(Ladder[rung]) # {}
        <5>1. Risk!Reading(Risk!Group(Ladder[rung])).sample > 0
          BY <3>2 DEF Risk!Graduates, Risk!Passes
        <5>2. Risk!Reading(Risk!Group(Ladder[rung])).sample
                = Risk!Cardinality(Risk!Group(Ladder[rung]))
          BY DEF Risk!Reading
        <5>. QED
          BY <4>1, <5>1, <5>2
      <4>. QED
        BY <3>1, <4>2 DEF Risk!Group, Risk!AttributionTag
    <3>4. Risk!Group(Ladder[rung]) = Risk!Own
      BY <3>1, <3>3 DEF Risk!Group, Risk!Own, Risk!AttributionTag
    <3>5. rung' = rung + 1 /\ Ladder[rung'] \notin DeliberateOnly
      BY <3>2 DEF Risk!Graduates, Risk!SwitchTo
    <3>6. /\ Risk!Cardinality(Risk!Own) >= MinSample
          /\ 100 * Risk!Cardinality({i \in Risk!Own : rows[i].win})
               >= MinWinPct * Risk!Cardinality(Risk!Own)
          /\ Risk!Cardinality({rows[i].day : i \in Risk!Own}) >= MinDays
      BY <3>2, <3>4 DEF Risk!Graduates, Risk!Passes, Risk!Reading
    <3>. QED
      BY <3>5, <3>6
  <2>2. CASE \E n \in 1..Len(Ladder) : Risk!Choose(n)
    <3>1. ~advised'
      BY <2>2 DEF Risk!Choose
    <3>. QED
      BY <3>1
  <2>3. CASE (\E tag \in Tags, win \in BOOLEAN : Risk!Trade(tag, win)) \/ Risk!NextSession
    <3>1. rung' = rung
      BY <2>3 DEF Risk!Trade, Risk!NextSession
    <3>. QED
      BY <3>1
  <2>4. CASE AskCalendar \/ AskGex \/ AskFees \/ UNCHANGED calcVars
    <3>1. UNCHANGED Risk!vars
      BY <2>4 DEF AskCalendar, AskGex, AskFees, riskVars, calcVars, Risk!vars
    <3>. QED
      BY <3>1
  <2>. QED
    BY <1>1, <2>1, <2>2, <2>3, <2>4 DEF CalcNext, AskProfiles, Risk!Next
<1>. QED
  BY <1>1, ProfileInvHolds, PTL DEF CalcSpec, ClimbsEarned, Risk!ClimbsEarned

-----------------------------------------------------------------------------
(* Fees *)

LEMMA SameTotal == ASSUME NEW a PROVE Cost!Total(a) = Total(a)
BY DEF Total, FoldLeft, MapThenFoldSet, Max,
       Cost!Total, Cost!FoldLeft, Cost!MapThenFoldSet, Cost!Max

LEMMA RoundCentIsNear ==
  ASSUME NEW x \in Int
  PROVE  /\ Cost!RoundCent(x) \in Int
         /\ x - 500 <= 1000 * Cost!RoundCent(x) /\ 1000 * Cost!RoundCent(x) <= x + 500
<1>1. PICK q \in Int, r \in 0..999 : q = x \div 1000 /\ r = x % 1000 /\ x = 1000 * q + r
  OBVIOUS
<1>2. Cost!RoundCent(x) = IF 2 * r < 1000 \/ (2 * r = 1000 /\ q % 2 = 0) THEN q ELSE q + 1
  BY <1>1 DEF Cost!RoundCent, Cost!Cent
<1>. QED
  BY <1>1, <1>2

\* Rounding the parts and rounding the whole differ by a cent at most.
LEMMA RoundedParts ==
  ASSUME NEW x \in Int, NEW y \in Int, NEW z \in Int
  PROVE  /\ x = y + z => Cost!Near(Cost!RoundCent(x), Cost!RoundCent(y) + Cost!RoundCent(z))
         /\ x <= y + z =>
              Cost!RoundCent(x) <= Cost!RoundCent(y) + Cost!RoundCent(z) + 1
<1>. DEFINE a == Cost!RoundCent(x)   b == Cost!RoundCent(y)   c == Cost!RoundCent(z)
<1>1. /\ a \in Int /\ x - 500 <= 1000 * a /\ 1000 * a <= x + 500
      /\ b \in Int /\ y - 500 <= 1000 * b /\ 1000 * b <= y + 500
      /\ c \in Int /\ z - 500 <= 1000 * c /\ 1000 * c <= z + 500
  BY RoundCentIsNear
<1>. HIDE DEF a, b, c
<1>2. x = y + z => a - (b + c) \in -1..1
  BY <1>1
<1>3. x <= y + z => a <= b + c + 1
  BY <1>1
<1>. QED
  BY <1>2, <1>3 DEF a, b, c, Cost!Near

\* What an order costs before rounding.
Slips(legs) == [i \in DOMAIN legs |-> Cost!SlipOf(legs[i])]
Unrounded(legs, n, rate) ==
  Len(legs) * Cost!LowerOf(n * rate, Cost!CapPerLeg)
    + Len(legs) * n * Cost!PassThroughRate + n * Total(Slips(legs))

LEMMA TotalIsUnrounded ==
  ASSUME NEW legs, NEW n, NEW rate
  PROVE  Cost!ApplyCosts(legs, n, rate).total = Cost!RoundCent(Unrounded(legs, n, rate))
<1>1. Cost!Slippage(legs, n) = n * Total(Slips(legs))
  BY SameTotal DEF Cost!Slippage, Slips
<1>. QED
  BY <1>1 DEF Cost!ApplyCosts, Cost!Commission, Cost!PassThrough, Unrounded

LEMMA SlipsTyped ==
  ASSUME NEW legs \in Seq(Quotes)
  PROVE  /\ Len(legs) \in Nat /\ DOMAIN Slips(legs) = 1..Len(legs)
         /\ Slips(legs) \in [1..Len(legs) -> Int]
<1>1. ASSUME NEW i \in 1..Len(legs) PROVE Cost!SlipOf(legs[i]) \in Int
  <2>1. legs[i] \in Quotes
    OBVIOUS
  <2>2. PICK b \in Int, a \in Int : legs[i].bid = b /\ legs[i].ask = a
    BY <2>1, FeesAssumption
  <2>. QED
    BY <2>2 DEF Cost!SlipOf, Cost!LowerOf, Cost!UpperOf, Cost!Cent
<1>. QED
  BY <1>1 DEF Slips

\* The slippage of an order is that of its parts.
LEMMA SlipsOfParts ==
  ASSUME NEW legs \in Seq(Quotes), NEW i \in 1..Len(legs)
  PROVE  LET f == SubSeq(legs, 1, i)   g == SubSeq(legs, i + 1, Len(legs)) IN
         /\ f \in Seq(Quotes) /\ Len(f) = i
         /\ g \in Seq(Quotes) /\ Len(g) = Len(legs) - i
         /\ Total(Slips(f)) \in Int /\ Total(Slips(g)) \in Int
         /\ Total(Slips(legs)) = Total(Slips(f)) + Total(Slips(g))
<1>. DEFINE f == SubSeq(legs, 1, i)   g == SubSeq(legs, i + 1, Len(legs))
            n == Len(legs)   a == Slips(legs)
<1>1. /\ n \in Nat /\ a \in [1..n -> Int] /\ DOMAIN a = 1..n
  BY SlipsTyped
<1>2. /\ f \in Seq(Quotes) /\ Len(f) = i /\ \A k \in 1..i : f[k] = legs[k]
  BY <1>1
<1>3. /\ g \in Seq(Quotes) /\ Len(g) = n - i
      /\ \A k \in 1..(n - i) : g[k] = legs[i + k]
  BY <1>1
<1>4. PICK p \in [0..n -> Int] : Sums(p, a, n)
  BY <1>1, SumsExist
<1>5. /\ p[0] \in Int /\ p[i] \in Int /\ p[n] \in Int /\ 0 \in 0..n /\ i \in 0..n /\ n \in 0..n
      /\ n \in i..n /\ i \in 0..i
  BY <1>1, <1>4
<1>6. Total(Slips(f)) = p[i] - p[0]
  <2>1. DOMAIN Slips(f) = 1..(i - 0)
    BY <1>2, SlipsTyped
  <2>2. \A k \in 1..(i - 0) : Slips(f)[k] = a[0 + k]
    BY <1>1, <1>2, <2>1 DEF Slips
  <2>3. 0 \in 0..n /\ i \in 0..n
    BY <1>5
  <2>. HIDE DEF f, a, n
  <2>. QED
    BY <1>1, <1>4, <1>5, <2>1, <2>2, <2>3, TotalOfPart
<1>7. Total(Slips(g)) = p[n] - p[i]
  <2>1. DOMAIN Slips(g) = 1..(n - i)
    BY <1>3, SlipsTyped
  <2>2. \A k \in 1..(n - i) : Slips(g)[k] = a[i + k]
    <3>1. SUFFICES ASSUME NEW k \in 1..(n - i) PROVE Slips(g)[k] = a[i + k]
      OBVIOUS
    <3>2. k \in DOMAIN g /\ i + k \in DOMAIN legs /\ g[k] = legs[i + k]
      BY <1>1, <1>3, <3>1
    <3>. QED
      BY <3>2 DEF Slips
  <2>. HIDE DEF g, a, n
  <2>. QED
    BY <1>1, <1>4, <1>5, <2>1, <2>2, TotalOfPart
<1>8. Total(a) = p[n]
  BY <1>1, <1>4, TotalIsLastSum
<1>. HIDE DEF f, g, a, n
<1>9. /\ Total(Slips(f)) \in Int /\ Total(Slips(g)) \in Int
      /\ Total(a) = Total(Slips(f)) + Total(Slips(g))
  <2>1. p[0] = 0
    BY <1>4 DEF Sums
  <2>. QED
    BY <1>5, <1>6, <1>7, <1>8, <2>1
<1>. QED
  BY <1>2, <1>3, <1>9 DEF f, g, a, n

LEMMA Products ==
  ASSUME NEW n \in Nat, NEW x \in Int, NEW y \in Int
  PROVE  n * x \in Int /\ n * (x + y) = n * x + n * y /\ (x <= y => n * x <= n * y)
OBVIOUS

Rates == {Cost!CommissionOpen, Cost!CommissionClose}

LEMMA RatesTyped ==
  /\ \A rate \in Rates : rate \in Nat
  /\ Cost!CapPerLeg \in Nat /\ Cost!PassThroughRate \in Nat
BY DEF Rates, Cost!CommissionOpen, Cost!CommissionClose, Cost!CapPerLeg,
       Cost!PassThroughRate, Cost!Cent

\* Before rounding, an order costs what its legs cost in two orders: the cap is
\* per leg, so that it is met by the same legs.
LEMMA CutByLegs ==
  ASSUME NEW legs \in Seq(Quotes), NEW n \in Nat, NEW rate \in Rates,
         NEW i \in 1..Len(legs)
  PROVE  LET f == SubSeq(legs, 1, i)   g == SubSeq(legs, i + 1, Len(legs)) IN
         /\ Unrounded(legs, n, rate) \in Int
         /\ Unrounded(f, n, rate) \in Int /\ Unrounded(g, n, rate) \in Int
         /\ Unrounded(legs, n, rate) = Unrounded(f, n, rate) + Unrounded(g, n, rate)
<1>. DEFINE f == SubSeq(legs, 1, i)   g == SubSeq(legs, i + 1, Len(legs))
            x == Cost!LowerOf(n * rate, Cost!CapPerLeg)
            p == Cost!PassThroughRate
            s == Total(Slips(f))   t == Total(Slips(g))
<1>1. /\ Len(f) = i /\ Len(g) = Len(legs) - i /\ s \in Int /\ t \in Int
      /\ Total(Slips(legs)) = s + t /\ Len(legs) \in Nat
  BY SlipsOfParts, SlipsTyped
<1>2. x \in Int /\ p \in Nat
  <2>1. rate \in Nat /\ n * rate \in Int
    BY RatesTyped
  <2>. QED
    BY <2>1, RatesTyped DEF Cost!LowerOf
<1>3. /\ Unrounded(f, n, rate) = i * x + i * n * p + n * s
      /\ Unrounded(g, n, rate) = (Len(legs) - i) * x + (Len(legs) - i) * n * p + n * t
      /\ Unrounded(legs, n, rate) = Len(legs) * x + Len(legs) * n * p + n * (s + t)
  BY <1>1 DEF Unrounded
<1>. HIDE DEF f, g, x, p, s, t
<1>4. PICK l \in Nat, k \in Nat, j \in Nat : l = Len(legs) /\ k = i /\ j = l - i /\ l = k + j
  BY <1>1
<1>5. /\ l * x = k * x + j * x /\ l * x \in Int /\ k * x \in Int /\ j * x \in Int
      /\ n * (s + t) = n * s + n * t /\ n * s \in Int /\ n * t \in Int
  BY <1>1, <1>2, <1>4
<1>6. l * n * p = k * n * p + j * n * p /\ k * n * p \in Int /\ j * n * p \in Int
  BY <1>2, <1>4
<1>7. /\ Unrounded(f, n, rate) = k * x + k * n * p + n * s
      /\ Unrounded(g, n, rate) = j * x + j * n * p + n * t
      /\ Unrounded(legs, n, rate) = l * x + l * n * p + n * (s + t)
  BY <1>3, <1>4
<1>8. PICK a1 \in Int, a2 \in Int, b1 \in Int, b2 \in Int, c1 \in Int, c2 \in Int :
        /\ a1 = k * x /\ a2 = j * x /\ b1 = k * n * p /\ b2 = j * n * p
        /\ c1 = n * s /\ c2 = n * t
  BY <1>5, <1>6
<1>9. /\ Unrounded(f, n, rate) = a1 + b1 + c1
      /\ Unrounded(g, n, rate) = a2 + b2 + c2
      /\ Unrounded(legs, n, rate) = (a1 + a2) + (b1 + b2) + (c1 + c2)
  <2>1. l * x = a1 + a2 /\ l * n * p = b1 + b2 /\ n * (s + t) = c1 + c2
    BY <1>5, <1>6, <1>8
  <2>. QED
    BY <1>7, <1>8, <2>1
<1>10. /\ Unrounded(legs, n, rate) \in Int
       /\ Unrounded(f, n, rate) \in Int /\ Unrounded(g, n, rate) \in Int
       /\ Unrounded(legs, n, rate) = Unrounded(f, n, rate) + Unrounded(g, n, rate)
  <2>1. /\ a1 \in Int /\ a2 \in Int /\ b1 \in Int /\ b2 \in Int
        /\ c1 \in Int /\ c2 \in Int
    BY <1>8
  <2>2. /\ a1 + b1 + c1 \in Int /\ a2 + b2 + c2 \in Int
        /\ (a1 + a2) + (b1 + b2) + (c1 + c2) \in Int
        /\ (a1 + a2) + (b1 + b2) + (c1 + c2) = (a1 + b1 + c1) + (a2 + b2 + c2)
    BY <2>1
  <2>. QED
    BY <1>9, <2>2, Zenon
<1>. QED
  BY <1>10 DEF f, g

\* Contracts bought apart meet the cap later.
LEMMA CutByContracts ==
  ASSUME NEW legs \in Seq(Quotes), NEW m \in Nat, NEW k \in Nat, NEW rate \in Rates
  PROVE  /\ Unrounded(legs, m + k, rate) \in Int
         /\ Unrounded(legs, m, rate) \in Int /\ Unrounded(legs, k, rate) \in Int
         /\ Unrounded(legs, m + k, rate) <= Unrounded(legs, m, rate) + Unrounded(legs, k, rate)
<1>. DEFINE X(n) == Cost!LowerOf(n * rate, Cost!CapPerLeg)
            p == Cost!PassThroughRate
            s == Total(Slips(legs))
            l == Len(legs)
<1>1. l \in Nat /\ s \in Int
  <2>1. l \in Nat /\ Slips(legs) \in [1..l -> Int] /\ DOMAIN Slips(legs) = 1..l
    BY SlipsTyped
  <2>2. PICK q \in [0..l -> Int] : Sums(q, Slips(legs), l)
    BY <2>1, SumsExist
  <2>3. s = q[l] /\ l \in 0..l
    BY <2>1, <2>2, TotalIsLastSum
  <2>. QED
    BY <2>1, <2>2, <2>3
<1>2. /\ X(m) \in Int /\ X(k) \in Int /\ X(m + k) \in Int /\ p \in Nat
      /\ X(m + k) <= X(m) + X(k)
  <2>1. rate \in Nat /\ Cost!CapPerLeg \in Nat /\ p \in Nat
    BY RatesTyped
  <2>2. PICK a \in Nat, b \in Nat : a = m * rate /\ b = k * rate /\ (m + k) * rate = a + b
    BY <2>1
  <2>. QED
    BY <2>1, <2>2 DEF Cost!LowerOf
<1>3. \A n \in Nat : Unrounded(legs, n, rate) = l * X(n) + l * n * p + n * s
  BY DEF Unrounded
<1>. HIDE DEF X, p, s, l
<1>4. /\ l * X(m) \in Int /\ l * X(k) \in Int /\ l * X(m + k) \in Int
      /\ l * X(m + k) <= l * X(m) + l * X(k)
  <2>1. PICK y \in Int, z \in Int, w \in Int : y = X(m) /\ z = X(k) /\ w = X(m + k)
    BY <1>2
  <2>2. y + z \in Int /\ w <= y + z
    BY <1>2, <2>1
  <2>3. /\ l * y \in Int /\ l * z \in Int /\ l * w \in Int
        /\ l * (y + z) = l * y + l * z /\ l * w <= l * (y + z)
    BY <1>1, <2>2, Products
  <2>. QED
    BY <2>1, <2>3
<1>5. /\ (m + k) * s = m * s + k * s /\ m * s \in Int /\ k * s \in Int
      /\ l * (m + k) * p = l * m * p + l * k * p /\ l * m * p \in Int /\ l * k * p \in Int
  BY <1>1, <1>2
<1>6. PICK a1 \in Int, a2 \in Int, a3 \in Int, b1 \in Int, b2 \in Int, c1 \in Int, c2 \in Int :
        /\ a1 = l * X(m) /\ a2 = l * X(k) /\ a3 = l * X(m + k)
        /\ b1 = l * m * p /\ b2 = l * k * p /\ c1 = m * s /\ c2 = k * s
  BY <1>4, <1>5
<1>7. /\ Unrounded(legs, m, rate) = a1 + b1 + c1
      /\ Unrounded(legs, k, rate) = a2 + b2 + c2
      /\ Unrounded(legs, m + k, rate) = a3 + (b1 + b2) + (c1 + c2)
      /\ a3 <= a1 + a2
  <2>1. m + k \in Nat
    OBVIOUS
  <2>2. Unrounded(legs, m + k, rate) = l * X(m + k) + l * (m + k) * p + (m + k) * s
    BY <1>3, <2>1
  <2>3. /\ Unrounded(legs, m, rate) = l * X(m) + l * m * p + m * s
        /\ Unrounded(legs, k, rate) = l * X(k) + l * k * p + k * s
    BY <1>3
  <2>4. l * (m + k) * p = b1 + b2 /\ (m + k) * s = c1 + c2
    BY <1>5, <1>6
  <2>. QED
    BY <1>4, <1>6, <2>2, <2>3, <2>4
<1>8. /\ a1 \in Int /\ a2 \in Int /\ a3 \in Int /\ b1 \in Int /\ b2 \in Int
      /\ c1 \in Int /\ c2 \in Int
  BY <1>6
<1>9. a3 <= a1 + a2
  BY <1>7
<1>10. /\ a1 + b1 + c1 \in Int /\ a2 + b2 + c2 \in Int
       /\ a3 + (b1 + b2) + (c1 + c2) \in Int
       /\ a3 + (b1 + b2) + (c1 + c2) <= (a1 + b1 + c1) + (a2 + b2 + c2)
  BY <1>8, <1>9
<1>. QED
  BY <1>7, <1>10, Zenon

\* A condor costs what its two sides cost apart.
LEMMA CondorBySides ==
  ASSUME NEW s \in Cost!Symbols, NEW n \in Nat, NEW rate \in Rates
  PROVE  Cost!Near(Cost!IcFee(s, n, 4, 2, rate), 2 * Cost!IcFee(s, n, 2, 1, rate))
<1>. DEFINE r == rate + Cost!ClearingFee + Cost!Orf + Cost!IndexExchangeFee(s)
            t == Cost!Taf
            u == 2 * n * r + 1 * n * t
<1>1. r \in Int /\ t \in Int
  <2>1. Cost!IndexExchangeFee(s) \in Int
    BY DEF Cost!IndexExchangeFee, Cost!Symbols, Cost!Cent
  <2>. QED
    BY <2>1, RatesTyped DEF Cost!ClearingFee, Cost!Orf, Cost!Taf, Cost!Cent
<1>2. /\ Cost!IcFee(s, n, 4, 2, rate) = Cost!RoundCent(4 * n * r + 2 * n * t)
      /\ Cost!IcFee(s, n, 2, 1, rate) = Cost!RoundCent(u)
  BY DEF Cost!IcFee
<1>. HIDE DEF r, t
<1>3. u \in Int /\ 4 * n * r + 2 * n * t = u + u
  BY <1>1
<1>. HIDE DEF u
<1>4. PICK w \in Int : w = u + u
  BY <1>3
<1>5. Cost!Near(Cost!RoundCent(w), Cost!RoundCent(u) + Cost!RoundCent(u))
  BY <1>3, <1>4, RoundedParts
<1>6. 2 * Cost!RoundCent(u) = Cost!RoundCent(u) + Cost!RoundCent(u)
  <2>1. Cost!RoundCent(u) \in Int
    BY <1>3, RoundCentIsNear
  <2>. QED
    BY <2>1
<1>. QED
  BY <1>2, <1>3, <1>4, <1>5, <1>6

\* What an index condor costs to open, in MEICAgent's cents.
LEMMA CondorConstants ==
  Cost!OpenFeeTable = [SPX |-> 689, XSP |-> 449, NDX |-> 549, RUT |-> 521, DEFAULT |-> 449]
<1>1. /\ Cost!RoundCent(688658) = 689 /\ Cost!RoundCent(448658) = 449
      /\ Cost!RoundCent(548658) = 549 /\ Cost!RoundCent(520658) = 521
  BY DEF Cost!RoundCent, Cost!Cent
<1>2. \A s \in Cost!Symbols :
        Cost!OpenFeeTable[s] = Cost!RoundCent(448658 + 4 * Cost!IndexExchangeFee(s))
  <2>1. ASSUME NEW s \in Cost!Symbols PROVE Cost!IndexExchangeFee(s) \in Int
    BY DEF Cost!IndexExchangeFee, Cost!Symbols, Cost!Cent
  <2>2. ASSUME NEW x \in Int
        PROVE  4 * 1 * (Cost!CommissionOpen + Cost!ClearingFee + Cost!Orf + x) + 2 * 1 * Cost!Taf
                 = 448658 + 4 * x
    BY DEF Cost!CommissionOpen, Cost!ClearingFee, Cost!Orf, Cost!Taf, Cost!Cent
  <2>. QED
    BY <2>1, <2>2 DEF Cost!OpenFeeTable, Cost!IcFee
<1>3. /\ Cost!IndexExchangeFee("SPX") = 60000 /\ Cost!IndexExchangeFee("NDX") = 25000
      /\ Cost!IndexExchangeFee("RUT") = 18000 /\ Cost!IndexExchangeFee("XSP") = 0
      /\ Cost!IndexExchangeFee("DEFAULT") = 0
  BY DEF Cost!IndexExchangeFee, Cost!Cent
<1>4. Cost!Symbols = {"SPX", "XSP", "NDX", "RUT", "DEFAULT"}
  BY DEF Cost!Symbols
<1>5. /\ Cost!OpenFeeTable["SPX"] = 689 /\ Cost!OpenFeeTable["XSP"] = 449
      /\ Cost!OpenFeeTable["NDX"] = 549 /\ Cost!OpenFeeTable["RUT"] = 521
      /\ Cost!OpenFeeTable["DEFAULT"] = 449
  BY <1>1, <1>2, <1>3, <1>4
<1>. QED
  BY <1>4, <1>5 DEF Cost!OpenFeeTable

-----------------------------------------------------------------------------
(* The order that is asked about *)

FeesInv == quotes \in Seq(Quotes) /\ quantity \in Nat

\* Inductive: legs are appended one at a time, and none is taken away.
LEMMA FeesInvHolds == CalcSpec => []FeesInv
<1>1. CalcInit => FeesInv
  <2>1. <<>> \in Seq(Quotes) /\ 1 \in Nat /\ Quantities \subseteq Nat
    BY FeesAssumption
  <2>. QED
    BY <2>1 DEF CalcInit, Cost!Init, FeesInv
<1>2. FeesInv /\ [CalcNext]_calcVars => FeesInv'
  <2>. SUFFICES ASSUME FeesInv, [CalcNext]_calcVars PROVE FeesInv'
    OBVIOUS
  <2>1. CASE AskFees
    BY <2>1 DEF AskFees, Cost!Next, Cost!AddLeg, FeesInv
  <2>2. CASE AskCalendar \/ AskGex \/ AskProfiles
    BY <2>2 DEF AskCalendar, AskGex, AskProfiles, costVars, FeesInv
  <2>3. CASE UNCHANGED calcVars
    BY <2>3 DEF calcVars, costVars, FeesInv
  <2>. QED
    BY <2>1, <2>2, <2>3 DEF CalcNext
<1>. QED
  BY <1>1, <1>2, PTL DEF CalcSpec

\* However an order of any legs, quotes and contracts is cut, its parts cost what
\* it costs, but for the rounding of each to a cent (apply_entry_costs,
\* apply_exit_costs, ic_open_fee, ic_close_fee).
THEOREM CutsAlwaysCostTheSame == CalcSpec => []CutsCostTheSame
<1>1. ASSUME FeesInv PROVE CutsCostTheSame
  <2>1. quotes \in Seq(Quotes) /\ quantity \in Nat
    BY <1>1 DEF FeesInv
  <2>2. ASSUME NEW rate \in Rates, NEW i \in 1..Len(quotes)
        PROVE  Cost!Near(Cost!ApplyCosts(quotes, quantity, rate).total,
                         Cost!ApplyCosts(SubSeq(quotes, 1, i), quantity, rate).total
                           + Cost!ApplyCosts(SubSeq(quotes, i + 1, Len(quotes)),
                                             quantity, rate).total)
    <3>. DEFINE f == SubSeq(quotes, 1, i)   g == SubSeq(quotes, i + 1, Len(quotes))
    <3>1. PICK x \in Int, y \in Int, z \in Int :
            /\ x = Unrounded(quotes, quantity, rate)
            /\ y = Unrounded(f, quantity, rate) /\ z = Unrounded(g, quantity, rate)
            /\ x = y + z
      <4>1. /\ Unrounded(quotes, quantity, rate) \in Int
            /\ Unrounded(f, quantity, rate) \in Int /\ Unrounded(g, quantity, rate) \in Int
            /\ Unrounded(quotes, quantity, rate)
                 = Unrounded(f, quantity, rate) + Unrounded(g, quantity, rate)
        BY <2>1, CutByLegs
      <4>. HIDE DEF f, g
      <4>. QED
        BY <4>1
    <3>. HIDE DEF f, g
    <3>2. Cost!Near(Cost!RoundCent(x), Cost!RoundCent(y) + Cost!RoundCent(z))
      BY <3>1, RoundedParts
    <3>3. Cost!Near(Cost!ApplyCosts(quotes, quantity, rate).total,
                    Cost!ApplyCosts(f, quantity, rate).total
                      + Cost!ApplyCosts(g, quantity, rate).total)
      BY <3>1, <3>2, TotalIsUnrounded
    <3>. QED
      BY <3>3 DEF f, g
  <2>3. ASSUME NEW rate \in Rates, NEW n \in 1..(quantity - 1)
        PROVE  Cost!ApplyCosts(quotes, quantity, rate).total
                 <= Cost!ApplyCosts(quotes, n, rate).total
                      + Cost!ApplyCosts(quotes, quantity - n, rate).total + 1
    <3>1. PICK m \in Nat, k \in Nat : m = n /\ k = quantity - n /\ quantity = m + k
      BY <2>1
    <3>2. PICK x \in Int, y \in Int, z \in Int :
            /\ x = Unrounded(quotes, m + k, rate)
            /\ y = Unrounded(quotes, m, rate) /\ z = Unrounded(quotes, k, rate)
            /\ x <= y + z
      BY <2>1, CutByContracts
    <3>3. Cost!RoundCent(x) <= Cost!RoundCent(y) + Cost!RoundCent(z) + 1
      BY <3>2, RoundedParts
    <3>. QED
      BY <3>1, <3>2, <3>3, TotalIsUnrounded
  <2>4. ASSUME NEW s \in Cost!Symbols, NEW rate \in Rates
        PROVE  Cost!Near(Cost!IcFee(s, quantity, 4, 2, rate),
                         2 * Cost!IcFee(s, quantity, 2, 1, rate))
    BY <2>1, CondorBySides
  <2>. HIDE DEF Rates
  <2>. QED
    BY <2>2, <2>3, <2>4, CondorConstants DEF CutsCostTheSame, Cost!CutsCostTheSame, Rates
<1>. QED
  BY <1>1, FeesInvHolds, PTL

-----------------------------------------------------------------------------
(* round(), as the gamma exposure engines use it *)

LEMMA Monotone ==
  ASSUME NEW a \in Int, NEW b \in Int, NEW d \in Int, d > 0
  PROVE  /\ a <= b => a * d <= b * d
         /\ a * d < b * d => a < b
         /\ a * d \in Int
OBVIOUS

LEMMA Quotient ==
  ASSUME NEW x \in Int, NEW d \in Int, d > 0
  PROVE  /\ x \div d \in Int
         /\ (x \div d) * d <= x /\ x < (x \div d) * d + d
OBVIOUS

LEMMA QuotientIs ==
  ASSUME NEW x \in Int, NEW d \in Int, d > 0,
         NEW q \in Int, q * d <= x, x < q * d + d
  PROVE  x \div d = q
<1>1. PICK r \in Int : r = x \div d /\ r * d <= x /\ x < r * d + d
  BY Quotient
<1>2. q * d \in Int /\ r * d \in Int /\ (q + 1) * d = q * d + d /\ (r + 1) * d = r * d + d
  OBVIOUS
<1>3. q * d < (r + 1) * d /\ r * d < (q + 1) * d
  BY <1>1, <1>2
<1>4. q < r + 1 /\ r < q + 1
  BY <1>3, Monotone
<1>. QED
  BY <1>1, <1>4

\* Rounded(q, rest, d): what RoundDiv makes of quotient and remainder.
Rounded(q, rest, d) ==
  IF 2 * rest < d \/ (2 * rest = d /\ q % 2 = 0) THEN q ELSE q + 1

LEMMA RoundDivIs ==
  ASSUME NEW x \in Int, NEW d \in Int, d > 0
  PROVE  /\ Gex!RoundDiv(x, d) = Rounded(x \div d, x - (x \div d) * d, d)
         /\ Gex!RoundDiv(-x, -d) = Gex!RoundDiv(x, d)
<1>. DEFINE q == x \div d
<1>1. q \in Int /\ q * d \in Int /\ q * (-d) = -(q * d)
  BY Quotient
<1>2. -(-x) = x /\ -(-d) = d /\ -d < 0 /\ ~(-d > 0)
  OBVIOUS
<1>3. Gex!RoundDiv(x, d) = Rounded(q, x - q * d, d)
  BY DEF Gex!RoundDiv, Rounded
<1>4. Gex!RoundDiv(-x, -d) = Rounded(q, q * (-d) - (-x), d)
  BY <1>2 DEF Gex!RoundDiv, Rounded
<1>. HIDE DEF q
<1>5. q * (-d) - (-x) = x - q * d
  BY <1>1
<1>. QED
  BY <1>3, <1>4, <1>5 DEF q

\* Rounding does not leave an interval with whole ends.
LEMMA RoundDivBetween ==
  ASSUME NEW x \in Int, NEW d \in Int, d > 0, NEW l \in Int, NEW u \in Int,
         l * d <= x, x <= u * d
  PROVE  /\ Gex!RoundDiv(x, d) \in Int
         /\ l <= Gex!RoundDiv(x, d) /\ Gex!RoundDiv(x, d) <= u
<1>1. PICK q \in Int : q = x \div d /\ q * d <= x /\ x < q * d + d
  BY Quotient
<1>2. PICK p \in Int : p = q * d /\ (q + 1) * d = p + d
  OBVIOUS
<1>3. Gex!RoundDiv(x, d) = Rounded(q, x - p, d)
  BY <1>1, <1>2, RoundDivIs
<1>4. l * d < (q + 1) * d /\ q * d <= u * d /\ l * d \in Int /\ u * d \in Int
  BY <1>1, <1>2, Monotone
<1>5. l < q + 1
  BY <1>4, Monotone
<1>6. q <= u
  <2>1. u < q => u + 1 <= q
    OBVIOUS
  <2>2. u + 1 <= q => (u + 1) * d <= q * d
    BY Monotone
  <2>3. (u + 1) * d = u * d + d
    OBVIOUS
  <2>. QED
    BY <1>4, <2>1, <2>2, <2>3
<1>7. q = u => Rounded(q, x - p, d) = q
  BY <1>1, <1>2 DEF Rounded
<1>. QED
  BY <1>3, <1>5, <1>6, <1>7 DEF Rounded

\* A fraction may be reduced by two.
LEMMA RoundDivHalves ==
  ASSUME NEW x \in Int, NEW d \in Int, d > 0
  PROVE  Gex!RoundDiv(2 * x, 2 * d) = Gex!RoundDiv(x, d)
<1>1. PICK q \in Int, p \in Int : /\ q = x \div d /\ p = q * d /\ p <= x /\ x < p + d
  <2>1. x \div d \in Int /\ (x \div d) * d \in Int
    BY Quotient
  <2>. QED
    BY <2>1, Quotient
<1>2. q * (2 * d) = 2 * p
  BY <1>1
<1>3. (2 * x) \div (2 * d) = q
  BY <1>1, <1>2, QuotientIs
<1>4. Gex!RoundDiv(2 * x, 2 * d) = Rounded(q, 2 * x - 2 * p, 2 * d)
  <2>1. PICK y \in Int, e \in Int : y = 2 * x /\ e = 2 * d /\ e > 0
    OBVIOUS
  <2>2. Gex!RoundDiv(y, e) = Rounded(y \div e, y - (y \div e) * e, e)
    BY <2>1, RoundDivIs
  <2>3. y \div e = q /\ q * e = 2 * p
    BY <1>2, <1>3, <2>1
  <2>. QED
    BY <2>1, <2>2, <2>3
<1>5. Gex!RoundDiv(x, d) = Rounded(q, x - p, d)
  BY <1>1, RoundDivIs
<1>6. Rounded(q, 2 * x - 2 * p, 2 * d) = Rounded(q, x - p, d)
  BY <1>1 DEF Rounded
<1>. QED
  BY <1>4, <1>5, <1>6

\* The zero of a line that changes its sign between two strikes is between them.
LEMMA ZeroIsBetween ==
  ASSUME NEW k \in Int, NEW l \in Int, k < l,
         NEW a \in Int, NEW b \in Int, Gex!Crosses(a, b)
  PROVE  /\ Gex!ZeroBetween(k, l, a, b) \in Int
         /\ 100 * k <= Gex!ZeroBetween(k, l, a, b) /\ Gex!ZeroBetween(k, l, a, b) <= 100 * l
<1>. DEFINE w == l - k   x == 100 * (k * (b - a) - a * w)   d == b - a
<1>1. w \in Int /\ w > 0 /\ d \in Int /\ l = k + w
  OBVIOUS
<1>2. PICK p \in Int, s \in Int, t \in Int : p = k * d /\ s = a * w /\ t = b * w
  BY <1>1
<1>3. d * w = t - s /\ l * d = p + (t - s)
  BY <1>1, <1>2
<1>4. x = 100 * (p - s) /\ x \in Int
  BY <1>2
<1>5. (100 * k) * d = 100 * p /\ (100 * l) * d = 100 * (p + (t - s))
  BY <1>1, <1>2, <1>3
<1>6. CASE a < 0 /\ 0 <= b
  <2>1. d > 0 /\ s <= 0 /\ t >= 0
    BY <1>1, <1>2, <1>6, Monotone
  <2>2. (100 * k) * d <= x /\ x <= (100 * l) * d
    BY <1>2, <1>4, <1>5, <2>1
  <2>3. Gex!ZeroBetween(k, l, a, b) = Gex!RoundDiv(x, d)
    BY DEF Gex!ZeroBetween
  <2>4. PICK m \in Int, u \in Int : m = 100 * k /\ u = 100 * l
    OBVIOUS
  <2>. HIDE DEF x, d
  <2>5. m * d <= x /\ x <= u * d
    BY <2>2, <2>4
  <2>6. /\ Gex!RoundDiv(x, d) \in Int
        /\ m <= Gex!RoundDiv(x, d) /\ Gex!RoundDiv(x, d) <= u
    BY <1>1, <1>4, <2>1, <2>4, <2>5, RoundDivBetween
  <2>. QED
    BY <2>3, <2>4, <2>6
<1>7. CASE a >= 0 /\ 0 > b
  <2>1. -d > 0 /\ -d \in Int /\ s >= 0 /\ t <= 0
    BY <1>1, <1>2, <1>7, Monotone
  <2>2. -x \in Int /\ -(-x) = x /\ -(-d) = d
    BY <1>1, <1>4
  <2>3. (100 * k) * (-d) = -(100 * p) /\ (100 * l) * (-d) = -(100 * (p + (t - s)))
    BY <1>1, <1>2, <1>5
  <2>4. (100 * k) * (-d) <= -x /\ -x <= (100 * l) * (-d)
    BY <1>2, <1>4, <2>1, <2>3
  <2>5. Gex!ZeroBetween(k, l, a, b) = Gex!RoundDiv(x, d)
    BY DEF Gex!ZeroBetween
  <2>6. PICK m \in Int, u \in Int : m = 100 * k /\ u = 100 * l
    OBVIOUS
  <2>. HIDE DEF x, d
  <2>7. Gex!RoundDiv(x, d) = Gex!RoundDiv(-x, -d)
    BY <2>1, <2>2, RoundDivIs
  <2>8. m * (-d) <= -x /\ -x <= u * (-d)
    BY <2>4, <2>6
  <2>9. /\ Gex!RoundDiv(-x, -d) \in Int
        /\ m <= Gex!RoundDiv(-x, -d) /\ Gex!RoundDiv(-x, -d) <= u
    BY <2>1, <2>2, <2>6, <2>8, RoundDivBetween
  <2>. QED
    BY <2>5, <2>6, <2>7, <2>9
<1>. QED
  BY <1>6, <1>7 DEF Gex!Crosses

\* The zero does not depend on the unit of the amounts.
LEMMA ZeroOfHalves ==
  ASSUME NEW k \in Int, NEW l \in Int, NEW a \in Int, NEW b \in Int, Gex!Crosses(a, b)
  PROVE  /\ Gex!ZeroBetween(k, l, 2 * a, 2 * b) = Gex!ZeroBetween(k, l, a, b)
         /\ Gex!Crosses(2 * a, 2 * b)
<1>. DEFINE x == 100 * (k * (b - a) - a * (l - k))   d == b - a
<1>1. x \in Int /\ d \in Int
  OBVIOUS
<1>2. 100 * (k * (2 * b - 2 * a) - (2 * a) * (l - k)) = 2 * x /\ 2 * b - 2 * a = 2 * d
  OBVIOUS
<1>3. /\ Gex!ZeroBetween(k, l, 2 * a, 2 * b) = Gex!RoundDiv(2 * x, 2 * d)
      /\ Gex!ZeroBetween(k, l, a, b) = Gex!RoundDiv(x, d)
  <2>1. Gex!ZeroBetween(k, l, 2 * a, 2 * b) =
          Gex!RoundDiv(100 * (k * (2 * b - 2 * a) - (2 * a) * (l - k)), 2 * b - 2 * a)
    BY DEF Gex!ZeroBetween
  <2>2. Gex!ZeroBetween(k, l, a, b) = Gex!RoundDiv(x, d)
    BY DEF Gex!ZeroBetween
  <2>. HIDE DEF x, d
  <2>. QED
    BY <1>2, <2>1, <2>2
<1>4. Gex!Crosses(2 * a, 2 * b)
  BY DEF Gex!Crosses
<1>5. d > 0 \/ -d > 0
  BY DEF Gex!Crosses
<1>. HIDE DEF x, d
<1>6. CASE d > 0
  BY <1>1, <1>3, <1>4, <1>6, RoundDivHalves
<1>7. CASE -d > 0
  <2>1. /\ -x \in Int /\ -d \in Int /\ 2 * (-x) \in Int /\ 2 * (-d) \in Int /\ 2 * (-d) > 0
        /\ -(2 * (-x)) = 2 * x /\ -(2 * (-d)) = 2 * d /\ -(-x) = x /\ -(-d) = d
    BY <1>1, <1>7
  <2>2. Gex!RoundDiv(2 * x, 2 * d) = Gex!RoundDiv(2 * (-x), 2 * (-d))
    BY <2>1, RoundDivIs
  <2>3. Gex!RoundDiv(x, d) = Gex!RoundDiv(-x, -d)
    BY <1>7, <2>1, RoundDivIs
  <2>. QED
    BY <1>3, <1>4, <1>7, <2>1, <2>2, <2>3, RoundDivHalves
<1>. QED
  BY <1>5, <1>6, <1>7

-----------------------------------------------------------------------------
(* The scan for the flip *)

GexTypes == [strike : Int, call : Int, put : Int, net : Int]

\* What the engines make of a chain: a row per strike, ascending.
IsSeries(s, n) ==
  /\ s \in [1..n -> GexTypes]
  /\ \A i, j \in 1..n : i < j => s[i].strike < s[j].strike

Unscanned == [sum |-> 0, at |-> Nothing, flip |-> Nothing]

\* What the loop of interpolate_zero_gamma iterates, over the sets of its indices.
Scans(h, s, n) ==
  h = [S \in SUBSET (1..n) |-> IF S = {} THEN Unscanned
                               ELSE Gex!ScanStep(h[S \ {Max(S)}], s[Max(S)])]

LEMMA ScansExist ==
  ASSUME NEW s
  PROVE  \A n \in Nat : \E h : Scans(h, s, n)
<1>. DEFINE T == {n \in Nat : \E h : Scans(h, s, n)}
<1>1. 0 \in T
  <2>. DEFINE h == [S \in SUBSET (1..0) |-> Unscanned]
  <2>1. \A S \in SUBSET (1..0) : S = {}
    OBVIOUS
  <2>2. Scans(h, s, 0)
    BY <2>1 DEF Scans
  <2>. QED
    BY <2>2
<1>2. ASSUME NEW n \in Nat, n \in T PROVE n + 1 \in T
  <2>1. PICK h : Scans(h, s, n)
    BY <1>2
  <2>. DEFINE g == [S \in SUBSET (1..(n + 1)) |->
                      IF n + 1 \in S THEN Gex!ScanStep(h[S \ {n + 1}], s[n + 1])
                                     ELSE h[S]]
  <2>2. ASSUME NEW S \in SUBSET (1..(n + 1))
        PROVE  g[S] = IF S = {} THEN Unscanned
                                ELSE Gex!ScanStep(g[S \ {Max(S)}], s[Max(S)])
    <3>1. CASE n + 1 \in S
      <4>1. Max(S) = n + 1
        <5>1. Max(S) \in S /\ n + 1 <= Max(S)
          BY <3>1, MaxIsLargest, n + 1 \in Nat
        <5>2. Max(S) \in 1..(n + 1)
          BY <5>1
        <5>. HIDE DEF g
        <5>. QED
          BY <5>1, <5>2
      <4>2. /\ S \ {n + 1} \in SUBSET (1..(n + 1)) /\ n + 1 \notin S \ {n + 1}
            /\ S # {}
        BY <3>1
      <4>3. g[S] = Gex!ScanStep(h[S \ {n + 1}], s[n + 1]) /\ g[S \ {n + 1}] = h[S \ {n + 1}]
        BY <3>1, <4>2
      <4>. HIDE DEF g
      <4>. QED
        BY <4>1, <4>2, <4>3
    <3>2. CASE n + 1 \notin S
      <4>1. S \in SUBSET (1..n)
        BY <3>2
      <4>2. h[S] = IF S = {} THEN Unscanned ELSE Gex!ScanStep(h[S \ {Max(S)}], s[Max(S)])
        BY <2>1, <4>1 DEF Scans
      <4>3. S \ {Max(S)} \in SUBSET (1..(n + 1)) /\ n + 1 \notin S \ {Max(S)}
        BY <3>2
      <4>4. g[S] = h[S] /\ g[S \ {Max(S)}] = h[S \ {Max(S)}]
        BY <3>2, <4>3
      <4>. HIDE DEF g
      <4>. QED
        BY <4>2, <4>4
    <3>. QED
      BY <3>1, <3>2
  <2>3. Scans(g, s, n + 1)
    BY <2>2 DEF Scans
  <2>. QED
    BY <2>3
<1>3. \A n \in Nat : n \in T
  BY <1>1, <1>2, SetInduction
<1>. QED
  BY <1>3

\* The states of the loop, one after the other.
LEMMA ScanIsLoop ==
  ASSUME NEW n \in Nat, NEW s, DOMAIN s = 1..n
  PROVE  \E r : /\ r[0] = Unscanned
                /\ \A k \in Nat : k < n => r[k + 1] = Gex!ScanStep(r[k], s[k + 1])
                /\ Gex!InterpolateZeroGamma(s) = r[n].flip
<1>. DEFINE h == CHOOSE h : Scans(h, s, n)
            r == [k \in 0..n |-> h[1..k]]
<1>1. Scans(h, s, n)
  BY ScansExist
<1>2. Gex!InterpolateZeroGamma(s) = h[1..n].flip
  BY DEF Gex!InterpolateZeroGamma, Gex!FoldLeft, Gex!MapThenFoldSet, Gex!Max, Max, Scans,
         Unscanned
<1>. HIDE DEF h
<1>3. h[1..0] = Unscanned
  <2>1. {} \in SUBSET (1..n) /\ 1..0 = {}
    OBVIOUS
  <2>. QED
    BY <1>1, <2>1 DEF Scans
<1>4. ASSUME NEW k \in Nat, k < n
      PROVE  h[1..(k + 1)] = Gex!ScanStep(h[1..k], s[k + 1])
  <2>1. PICK S \in SUBSET (1..n) : S = 1..(k + 1) /\ k + 1 \in S
    BY <1>4
  <2>2. S # {} /\ Max(S) = k + 1 /\ S \ {k + 1} = 1..k
    BY <2>1, MaxOfInterval
  <2>3. h[S] = Gex!ScanStep(h[S \ {Max(S)}], s[Max(S)])
    BY <1>1, <2>2 DEF Scans
  <2>. QED
    BY <2>1, <2>2, <2>3
<1>5. r[0] = Unscanned /\ r[n] = h[1..n]
  BY <1>3
<1>6. ASSUME NEW k \in Nat, k < n PROVE r[k + 1] = Gex!ScanStep(r[k], s[k + 1])
  <2>1. r[k] = h[1..k] /\ r[k + 1] = h[1..(k + 1)]
    BY <1>6
  <2>. HIDE DEF r
  <2>. QED
    BY <1>4, <1>6, <2>1
<1>. HIDE DEF r
<1>. QED
  BY <1>2, <1>5, <1>6

\* The total below the j-th strike has the sign it has below the first.
Same(p, j) == (p[j] < 0) <=> (p[1] < 0)
TurnsAt(p, i) == (\A j \in 1..(i - 1) : Same(p, j)) /\ ~Same(p, i)

LEMMA ScanFindsTurn ==
  ASSUME NEW n \in Nat, NEW s, IsSeries(s, n),
         NEW p \in [0..n -> Int], Sums(p, Gex!Nets(s), n)
  PROVE  LET flip == Gex!InterpolateZeroGamma(s) IN
         \/ flip = Nothing /\ \A j \in 1..n : Same(p, j)
         \/ \E i \in 2..n :
              /\ TurnsAt(p, i) /\ Gex!Crosses(p[i - 1], p[i])
              /\ flip = Gex!ZeroBetween(s[i - 1].strike, s[i].strike, p[i - 1], p[i])
<1>1. PICK r : /\ r[0] = Unscanned
               /\ \A k \in Nat : k < n => r[k + 1] = Gex!ScanStep(r[k], s[k + 1])
               /\ Gex!InterpolateZeroGamma(s) = r[n].flip
  BY ScanIsLoop DEF IsSeries
<1>. DEFINE Found(k, i) ==
              /\ TurnsAt(p, i) /\ Gex!Crosses(p[i - 1], p[i])
              /\ r[k].flip = Gex!ZeroBetween(s[i - 1].strike, s[i].strike, p[i - 1], p[i])
            Book(k) ==
              /\ r[k].sum = p[k]
              /\ r[k].at = IF k = 0 THEN Nothing ELSE s[k].strike
              /\ \/ r[k].flip = Nothing /\ \A j \in 1..k : Same(p, j)
                 \/ \E i \in 2..k : Found(k, i)
            T == {k \in Nat : k <= n => Book(k)}
<1>2. 0 \in T
  BY <1>1 DEF Unscanned, Sums
<1>3. ASSUME NEW k \in Nat, k \in T PROVE k + 1 \in T
  <2>1. SUFFICES ASSUME k < n PROVE Book(k + 1)
    OBVIOUS
  <2>2. /\ k \in 0..n /\ k + 1 \in 1..n /\ k + 1 \in 0..n /\ k + 1 # 0 /\ Book(k)
        /\ p[k] \in Int /\ p[k + 1] \in Int
        /\ s[k + 1].net \in Int /\ s[k + 1].strike \in Int
    <3>1. k \in 0..n /\ k + 1 \in 1..n /\ k + 1 \in 0..n /\ k + 1 # 0
      BY <2>1
    <3>2. s[k + 1] \in GexTypes
      BY <3>1 DEF IsSeries
    <3>. HIDE DEF Book
    <3>3. Book(k)
      BY <1>3, <2>1
    <3>. QED
      BY <3>1, <3>2, <3>3 DEF GexTypes
  <2>3. p[k + 1] = p[k] + s[k + 1].net
    BY <2>1, <2>2 DEF Sums, Gex!Nets, IsSeries
  <2>4. r[k + 1] = Gex!ScanStep(r[k], s[k + 1])
    BY <1>1, <2>1
  <2>5. r[k + 1].sum = p[k + 1] /\ r[k + 1].at = s[k + 1].strike
    BY <2>2, <2>3, <2>4 DEF Gex!ScanStep
  <2>6. r[k + 1].flip = IF /\ r[k].flip = Nothing /\ r[k].at # Nothing
                           /\ Gex!Crosses(p[k], p[k + 1])
                        THEN Gex!ZeroBetween(r[k].at, s[k + 1].strike, p[k], p[k + 1])
                        ELSE r[k].flip
    BY <2>2, <2>3, <2>4 DEF Gex!ScanStep
  <2>7. CASE \E i \in 2..k : Found(k, i)
    <3>1. PICK i \in 2..k : Found(k, i)
      BY <2>7
    <3>2. i \in 1..n /\ i - 1 \in 1..n /\ i - 1 < i /\ i \in 0..n /\ i - 1 \in 0..n
      BY <2>1, <3>1
    <3>3. s[i - 1].strike \in Int /\ s[i].strike \in Int /\ s[i - 1].strike < s[i].strike
      BY <3>2 DEF IsSeries, GexTypes
    <3>4. p[i - 1] \in Int /\ p[i] \in Int
      BY <3>2
    <3>5. r[k].flip \in Int
      <4>1. r[k].flip = Gex!ZeroBetween(s[i - 1].strike, s[i].strike, p[i - 1], p[i])
            /\ Gex!Crosses(p[i - 1], p[i])
        BY <3>1
      <4>2. PICK x \in Int, y \in Int, a \in Int, b \in Int :
              x = s[i - 1].strike /\ y = s[i].strike /\ a = p[i - 1] /\ b = p[i]
        BY <3>3, <3>4
      <4>3. x < y /\ Gex!Crosses(a, b) /\ r[k].flip = Gex!ZeroBetween(x, y, a, b)
        BY <3>3, <4>1, <4>2
      <4>. QED
        BY <4>3, ZeroIsBetween
    <3>6. r[k + 1].flip = r[k].flip
      BY <2>6, <3>5, GexAssumption
    <3>7. i \in 2..(k + 1) /\ Found(k + 1, i)
      BY <3>1, <3>6
    <3>. QED
      BY <2>2, <2>5, <3>7
  <2>8. CASE r[k].flip = Nothing /\ \A j \in 1..k : Same(p, j)
    <3>1. CASE k = 0
      <4>1. r[k + 1].flip = Nothing
        BY <2>2, <2>6, <2>8, <3>1
      <4>2. \A j \in 1..(k + 1) : Same(p, j)
        BY <3>1 DEF Same
      <4>. QED
        BY <2>2, <2>5, <4>1, <4>2
    <3>2. CASE k # 0
      <4>1. /\ k \in 1..n /\ k \in 1..k /\ r[k].at = s[k].strike /\ p[1] \in Int
            /\ s[k].strike \in Int
        <5>1. k \in 1..n /\ k \in 1..k /\ 1 \in 0..n
          BY <2>1, <3>2
        <5>2. r[k].at = s[k].strike
          BY <2>2, <3>2
        <5>3. s[k] \in GexTypes
          BY <5>1 DEF IsSeries
        <5>4. s[k].strike \in Int
          BY <5>3 DEF GexTypes
        <5>5. p[1] \in Int
          BY <5>1
        <5>. QED
          BY <5>1, <5>2, <5>4, <5>5
      <4>2. r[k].at # Nothing
        BY <4>1, GexAssumption
      <4>3. Same(p, k)
        BY <2>8, <4>1
      <4>4. Gex!Crosses(p[k], p[k + 1]) <=> ~Same(p, k + 1)
        BY <2>2, <4>1, <4>3 DEF Gex!Crosses, Same
      <4>5. CASE Same(p, k + 1)
        <5>1. r[k + 1].flip = Nothing
          BY <2>6, <2>8, <4>4, <4>5
        <5>2. \A j \in 1..(k + 1) : Same(p, j)
          BY <2>8, <4>5
        <5>. QED
          BY <2>2, <2>5, <5>1, <5>2
      <4>6. CASE ~Same(p, k + 1)
        <5>1. r[k + 1].flip =
                Gex!ZeroBetween(s[k].strike, s[k + 1].strike, p[k], p[k + 1])
          BY <2>6, <2>8, <4>1, <4>2, <4>4, <4>6
        <5>2. (k + 1) - 1 = k /\ k + 1 \in 2..(k + 1)
          BY <3>2
        <5>3. TurnsAt(p, k + 1)
          BY <2>8, <4>6, <5>2 DEF TurnsAt
        <5>4. Found(k + 1, k + 1)
          BY <4>4, <4>6, <5>1, <5>2, <5>3
        <5>. QED
          BY <2>2, <2>5, <5>2, <5>4
      <4>. QED
        BY <4>5, <4>6
    <3>. QED
      BY <3>1, <3>2
  <2>. QED
    BY <2>2, <2>7, <2>8
<1>4. Book(n)
  <2>. HIDE DEF Book
  <2>1. \A k \in Nat : k \in T
    <3>. HIDE DEF T
    <3>. QED
      BY <1>2, <1>3, SetInduction
  <2>. QED
    BY <2>1
<1>. QED
  BY <1>1, <1>4

-----------------------------------------------------------------------------
(* The series of a chain *)

LEMMA GexTotal == ASSUME NEW a PROVE Gex!Total(a) = Total(a)
BY DEF Total, FoldLeft, MapThenFoldSet, Max,
       Gex!Total, Gex!FoldLeft, Gex!MapThenFoldSet, Gex!Max

LEMMA GexCardinality == ASSUME NEW S PROVE Gex!Cardinality(S) = Cardinality(S)
BY DEF Cardinality, Gex!Cardinality

LEMMA TotalTyped ==
  ASSUME NEW n \in Nat, NEW a \in [1..n -> Int]
  PROVE  Total(a) \in Int
<1>1. PICK p \in [0..n -> Int] : Sums(p, a, n)
  BY SumsExist
<1>2. Total(a) = p[n] /\ n \in 0..n
  BY <1>1, TotalIsLastSum
<1>. QED
  BY <1>1, <1>2

LEMMA FiniteHasLargest ==
  ASSUME NEW S \in SUBSET Int, IsFiniteSet(S), S # {}
  PROVE  \E m \in S : \A x \in S : x <= m
<1>. DEFINE T == {n \in Nat : \A U \in SUBSET Int :
                    IsFiniteSet(U) /\ Cardinality(U) = n + 1 =>
                      \E m \in U : \A x \in U : x <= m}
<1>1. 0 \in T
  <2>1. SUFFICES ASSUME NEW U \in SUBSET Int, IsFiniteSet(U), Cardinality(U) = 1
                 PROVE  \E m \in U : \A x \in U : x <= m
    OBVIOUS
  <2>2. PICK m : U = {m}
    BY <2>1, FS_Singleton
  <2>. QED
    BY <2>2
<1>2. ASSUME NEW n \in Nat, n \in T PROVE n + 1 \in T
  <2>1. SUFFICES ASSUME NEW U \in SUBSET Int, IsFiniteSet(U), Cardinality(U) = n + 2
                 PROVE  \E m \in U : \A x \in U : x <= m
    OBVIOUS
  <2>2. U # {}
    BY <2>1, FS_EmptySet
  <2>3. PICK y \in U : TRUE
    BY <2>2
  <2>4. IsFiniteSet(U \ {y}) /\ Cardinality(U \ {y}) = n + 1
    BY <2>1, <2>3, FS_RemoveElement
  <2>5. PICK m \in U \ {y} : \A x \in U \ {y} : x <= m
    BY <1>2, <2>4
  <2>. QED
    BY <2>3, <2>5
<1>3. \A n \in Nat : n \in T
  <2>. HIDE DEF T
  <2>. QED
    BY <1>1, <1>2, SetInduction
<1>4. Cardinality(S) \in Nat /\ Cardinality(S) # 0
  BY FS_CardinalityType, FS_EmptySet
<1>5. PICK k \in Nat : Cardinality(S) = k + 1
  BY <1>4
<1>. QED
  BY <1>3, <1>5

LEMMA AscendingExists ==
  \A n \in Nat : \A S \in SUBSET Int :
    IsFiniteSet(S) /\ Cardinality(S) = n =>
      \E f \in [1..n -> S] : \A i, j \in 1..n : i < j => f[i] < f[j]
<1>. DEFINE P(n, S) == \E f \in [1..n -> S] : \A i, j \in 1..n : i < j => f[i] < f[j]
            T == {n \in Nat : \A S \in SUBSET Int :
                    IsFiniteSet(S) /\ Cardinality(S) = n => P(n, S)}
<1>1. 0 \in T
  <2>1. ASSUME NEW S PROVE P(0, S)
    <3>1. 1..0 = {}
      OBVIOUS
    <3>2. [i \in 1..0 |-> 0] \in [1..0 -> S]
      BY <3>1
    <3>. QED
      BY <3>1, <3>2, Zenon
  <2>. QED
    BY <2>1
<1>2. ASSUME NEW n \in Nat, n \in T PROVE n + 1 \in T
  <2>1. SUFFICES ASSUME NEW S \in SUBSET Int, IsFiniteSet(S), Cardinality(S) = n + 1
                 PROVE  P(n + 1, S)
    OBVIOUS
  <2>2. PICK m \in S : \A x \in S : x <= m
    <3>1. n + 1 # 0 /\ Cardinality({}) = 0
      BY FS_EmptySet
    <3>2. S # {}
      BY <2>1, <3>1
    <3>. QED
      BY <2>1, <3>2, FiniteHasLargest
  <2>3. IsFiniteSet(S \ {m}) /\ Cardinality(S \ {m}) = n /\ S \ {m} \in SUBSET Int
    <3>1. IsFiniteSet(S \ {m}) /\ Cardinality(S \ {m}) = Cardinality(S) - 1
      BY <2>1, <2>2, FS_RemoveElement
    <3>2. (n + 1) - 1 = n
      OBVIOUS
    <3>3. S \ {m} \in SUBSET Int
      BY <2>1
    <3>. QED
      BY <2>1, <3>1, <3>2, <3>3
  <2>4. PICK f \in [1..n -> S \ {m}] : \A i, j \in 1..n : i < j => f[i] < f[j]
    BY <1>2, <2>3
  <2>. DEFINE g == [i \in 1..(n + 1) |-> IF i = n + 1 THEN m ELSE f[i]]
  <2>5. g \in [1..(n + 1) -> S]
    BY <2>2, <2>4
  <2>6. ASSUME NEW i \in 1..(n + 1), NEW j \in 1..(n + 1), i < j PROVE g[i] < g[j]
    <3>1. i \in 1..n /\ i # n + 1 /\ f[i] \in S \ {m} /\ f[i] \in Int /\ m \in Int
      <4>1. i \in 1..n /\ i # n + 1
        BY <2>6
      <4>2. f[i] \in S \ {m}
        BY <2>4, <4>1
      <4>. HIDE DEF g
      <4>. QED
        BY <4>1, <4>2
    <3>2. CASE j = n + 1
      BY <2>2, <3>1, <3>2
    <3>3. CASE j # n + 1
      <4>1. j \in 1..n
        BY <3>3
      <4>. QED
        BY <2>4, <2>6, <3>1, <3>3, <4>1
    <3>. QED
      BY <3>2, <3>3
  <2>. QED
    BY <2>5, <2>6
<1>3. \A n \in Nat : n \in T
  <2>. HIDE DEF T
  <2>. QED
    BY <1>1, <1>2, SetInduction
<1>. QED
  BY <1>3

LEMMA AscendingIsSorted ==
  ASSUME NEW S \in SUBSET Int, IsFiniteSet(S)
  PROVE  /\ Cardinality(S) \in Nat
         /\ Gex!Ascending(S) \in [1..Cardinality(S) -> S]
         /\ \A i, j \in 1..Cardinality(S) :
              i < j => Gex!Ascending(S)[i] < Gex!Ascending(S)[j]
<1>1. Cardinality(S) \in Nat
  BY FS_CardinalityType
<1>2. PICK f \in [1..Cardinality(S) -> S] :
        \A i, j \in 1..Cardinality(S) : i < j => f[i] < f[j]
  BY <1>1, AscendingExists
<1>3. Gex!Ascending(S) = CHOOSE g \in [1..Cardinality(S) -> S] :
                           \A i, j \in DOMAIN g : i < j => g[i] < g[j]
  BY GexCardinality DEF Gex!Ascending
<1>4. \E g \in [1..Cardinality(S) -> S] : \A i, j \in DOMAIN g : i < j => g[i] < g[j]
  BY <1>2
<1>5. /\ Gex!Ascending(S) \in [1..Cardinality(S) -> S]
      /\ \A i, j \in DOMAIN Gex!Ascending(S) :
           i < j => Gex!Ascending(S)[i] < Gex!Ascending(S)[j]
  BY <1>3, <1>4
<1>. QED
  BY <1>1, <1>5

LEMMA EntriesTyped ==
  ASSUME NEW c \in Seq(Gex!Entries), NEW i \in DOMAIN c
  PROVE  /\ c[i].strike \in Int
         /\ c[i].amount # Missing => c[i].amount \in Amounts /\ c[i].amount \in Int
<1>1. c[i] \in Gex!Entries
  OBVIOUS
<1>2. /\ c[i].strike \in Strikes
      /\ c[i].amount \in Amounts \cup {Missing}
  BY <1>1 DEF Gex!Entries
<1>. QED
  BY <1>2, GexAssumption

LEMMA StrikesAreFinite ==
  ASSUME NEW c \in Seq(Gex!Entries), NEW I \in SUBSET (DOMAIN c)
  PROVE  /\ {c[i].strike : i \in I} \in SUBSET Int
         /\ IsFiniteSet({c[i].strike : i \in I})
<1>. DEFINE U == {c[i].strike : i \in I}   f == [i \in I |-> c[i].strike]
<1>1. IsFiniteSet(I)
  <2>1. DOMAIN c = 1..Len(c) /\ Len(c) \in Nat
    OBVIOUS
  <2>2. IsFiniteSet(DOMAIN c)
    BY <2>1, FS_Interval
  <2>. QED
    BY <2>2, FS_Subset
<1>2. f \in Surjection(I, U)
  BY DEF Surjection
<1>3. IsFiniteSet(U)
  BY <1>1, <1>2, FS_Surjection
<1>4. \A i \in DOMAIN c : c[i].strike \in Int
  BY EntriesTyped
<1>. QED
  BY <1>3, <1>4

LEMMA SideTyped ==
  ASSUME NEW c \in Seq(Gex!Entries), NEW k, NEW t
  PROVE  Gex!Side(c, k, t) \in Int
<1>. DEFINE a == [i \in DOMAIN c |->
                    IF c[i].strike = k /\ Gex!SideOf(c[i]) = t /\ Gex!Counts(c[i])
                    THEN c[i].amount ELSE 0]
<1>1. DOMAIN c = 1..Len(c) /\ Len(c) \in Nat
  OBVIOUS
<1>2. \A i \in DOMAIN c : Gex!Counts(c[i]) => c[i].amount \in Int
  BY EntriesTyped DEF Gex!Counts
<1>3. a \in [1..Len(c) -> Int]
  BY <1>1, <1>2
<1>4. Gex!Side(c, k, t) = Total(a)
  BY GexTotal DEF Gex!Side
<1>. HIDE DEF a
<1>. QED
  BY <1>1, <1>3, <1>4, TotalTyped

LEMMA SeriesOfChain ==
  ASSUME NEW c \in Seq(Gex!Entries)
  PROVE  /\ Cardinality(Gex!WithData(c)) \in Nat
         /\ IsSeries(Gex!GexSeries(c), Cardinality(Gex!WithData(c)))
<1>. DEFINE S == Gex!WithData(c)   ks == Gex!Ascending(S)   n == Cardinality(S)
<1>1. S \in SUBSET Int /\ IsFiniteSet(S)
  <2>1. {j \in DOMAIN c : Gex!Counts(c[j])} \in SUBSET (DOMAIN c)
    OBVIOUS
  <2>. QED
    BY <2>1, StrikesAreFinite DEF Gex!WithData
<1>2. /\ n \in Nat /\ ks \in [1..n -> S]
      /\ \A i, j \in 1..n : i < j => ks[i] < ks[j]
  BY <1>1, AscendingIsSorted
<1>3. Gex!GexSeries(c) =
        [i \in DOMAIN ks |->
           [strike |-> ks[i], call |-> Gex!Side(c, ks[i], "call"),
            put |-> Gex!Side(c, ks[i], "put"),
            net |-> Gex!Side(c, ks[i], "call") - Gex!Side(c, ks[i], "put")]]
  BY DEF Gex!GexSeries
<1>. HIDE DEF S, ks, n
<1>4. DOMAIN ks = 1..n /\ \A i \in 1..n : ks[i] \in Int
  BY <1>1, <1>2
<1>5. IsSeries(Gex!GexSeries(c), n)
  <2>1. ASSUME NEW i \in 1..n PROVE Gex!GexSeries(c)[i] \in GexTypes
    <3>1. PICK x \in Int, y \in Int : x = Gex!Side(c, ks[i], "call") /\ y = Gex!Side(c, ks[i], "put")
      BY SideTyped
    <3>2. Gex!GexSeries(c)[i] = [strike |-> ks[i], call |-> x, put |-> y, net |-> x - y]
      BY <1>3, <1>4, <3>1
    <3>. QED
      BY <1>4, <3>2 DEF GexTypes
  <2>2. \A i \in 1..n : Gex!GexSeries(c)[i].strike = ks[i]
    BY <1>3, <1>4
  <2>3. Gex!GexSeries(c) \in [1..n -> GexTypes]
    BY <1>3, <1>4, <2>1
  <2>. QED
    BY <1>2, <2>2, <2>3 DEF IsSeries
<1>. QED
  BY <1>2, <1>5 DEF S, n

-----------------------------------------------------------------------------
(* The flip and the local zero gamma *)

\* Python's max keeps the first of equals.
LEMMA FirstLargest ==
  ASSUME NEW n \in Nat, NEW I \in SUBSET (1..n), I # {}, NEW f \in [I -> Int]
  PROVE  \E i \in I : \A j \in I : f[j] < f[i] \/ (f[j] = f[i] /\ i <= j)
<1>. DEFINE V == {f[i] : i \in I}
<1>1. IsFiniteSet(V) /\ V \in SUBSET Int /\ V # {}
  <2>1. IsFiniteSet(1..n)
    BY FS_Interval
  <2>2. IsFiniteSet(I)
    BY <2>1, FS_Subset
  <2>3. f \in Surjection(I, V)
    BY DEF Surjection
  <2>. QED
    BY <2>2, <2>3, FS_Surjection
<1>2. PICK m \in V : \A x \in V : x <= m
  BY <1>1, FiniteHasLargest
<1>. DEFINE B == {i \in I : f[i] = m}
<1>3. B # {} /\ B \subseteq Nat
  <2>1. \E i \in I : f[i] = m
    BY <1>2
  <2>2. I \subseteq Nat
    OBVIOUS
  <2>. HIDE DEF V
  <2>. QED
    BY <2>1, <2>2
<1>4. PICK i \in B : \A j \in B : ~(<<j, i>> \in Less)
  BY <1>3, LessIsWellFounded, WFMin
<1>5. ASSUME NEW j \in I PROVE f[j] < f[i] \/ (f[j] = f[i] /\ i <= j)
  <2>1. f[j] \in Int /\ m \in Int /\ f[j] <= m /\ f[i] = m /\ i \in Nat /\ j \in Nat
    BY <1>1, <1>2, <1>4
  <2>2. f[j] = m => ~(j < i)
    BY <1>4, <2>1 DEF Less
  <2>. QED
    BY <2>1, <2>2
<1>. QED
  BY <1>4, <1>5

LEMMA CrossesIs ==
  ASSUME NEW a \in Int, NEW b \in Int
  PROVE  Gex!Crosses(a, b) <=> ~((a < 0) <=> (b < 0))
BY DEF Gex!Crosses

\* A book that turns has neighbours of different sign.
LEMMA SomeStrikesCross ==
  ASSUME NEW n \in Nat, NEW s, IsSeries(s, n),
         NEW p \in [0..n -> Int], Sums(p, Gex!Nets(s), n),
         NEW i \in 1..n, ~Same(p, i)
  PROVE  \E j \in 2..n : Gex!Crosses(s[j - 1].net, s[j].net)
<1>1. SUFFICES ASSUME \A j \in 2..n : ~Gex!Crosses(s[j - 1].net, s[j].net)
               PROVE  FALSE
  OBVIOUS
<1>2. ASSUME NEW j \in 1..n
      PROVE  s[j].net \in Int /\ Gex!Nets(s)[j] = s[j].net /\ p[j] \in Int
  <2>1. s[j] \in GexTypes /\ DOMAIN s = 1..n /\ j \in 0..n
    BY DEF IsSeries
  <2>. QED
    BY <2>1 DEF GexTypes, Gex!Nets
<1>3. ASSUME NEW k \in Nat, k < n PROVE p[k + 1] = p[k] + s[k + 1].net
  <2>1. k + 1 \in 1..n
    BY <1>3
  <2>. QED
    BY <1>2, <1>3, <2>1 DEF Sums
<1>. DEFINE Alike(k) == /\ (s[k].net < 0) <=> (s[1].net < 0)
                        /\ (p[k] < 0) <=> (s[1].net < 0)
            T == {k \in Nat : k < n => Alike(k + 1)}
<1>4. 1 \in 1..n /\ 0 \in Nat /\ 0 < n
  OBVIOUS
<1>5. p[1] = s[1].net
  <2>1. p[0 + 1] = p[0] + s[0 + 1].net /\ 0 + 1 = 1 /\ p[0] = 0
    BY <1>3, <1>4 DEF Sums
  <2>. QED
    BY <1>2, <1>4, <2>1
<1>6. 0 \in T
  BY <1>5
<1>7. ASSUME NEW k \in Nat, k \in T PROVE k + 1 \in T
  <2>1. SUFFICES ASSUME k + 1 < n PROVE Alike(k + 1 + 1)
    OBVIOUS
  <2>2. Alike(k + 1)
    BY <1>7, <2>1
  <2>3. /\ k + 1 \in 1..n /\ k + 1 + 1 \in 1..n /\ k + 1 + 1 \in 2..n /\ k + 1 \in Nat
        /\ (k + 1 + 1) - 1 = k + 1
    BY <2>1
  <2>4. ~Gex!Crosses(s[k + 1].net, s[k + 1 + 1].net)
    BY <1>1, <2>3
  <2>5. p[k + 1 + 1] = p[k + 1] + s[k + 1 + 1].net
    BY <1>3, <2>1, <2>3
  <2>6. PICK a \in Int, b \in Int, x \in Int, y \in Int, z \in Int :
          /\ a = s[k + 1].net /\ b = s[k + 1 + 1].net /\ x = p[k + 1] /\ y = p[k + 1 + 1]
          /\ z = s[1].net
    BY <1>2, <1>4, <2>3
  <2>7. ~Gex!Crosses(a, b) /\ y = x + b /\ (a < 0 <=> z < 0) /\ (x < 0 <=> z < 0)
    BY <2>2, <2>4, <2>5, <2>6
  <2>8. (b < 0 <=> z < 0) /\ (y < 0 <=> z < 0)
    <3>1. b < 0 <=> a < 0
      BY <2>6, <2>7, CrossesIs
    <3>2. a < 0 /\ b < 0 /\ x < 0 => x + b < 0
      BY <2>6
    <3>3. ~(b < 0) /\ ~(x < 0) => ~(x + b < 0)
      BY <2>6
    <3>. QED
      BY <2>7, <3>1, <3>2, <3>3
  <2>. QED
    BY <2>6, <2>8
<1>8. \A k \in Nat : k \in T
  <2>. HIDE DEF T
  <2>. QED
    BY <1>6, <1>7, SetInduction
<1>9. Alike(i)
  <2>1. PICK k \in Nat : k + 1 = i /\ k < n
    OBVIOUS
  <2>2. k < n => Alike(k + 1)
    BY <1>8
  <2>. QED
    BY <2>1, <2>2
<1>. QED
  BY <1>5, <1>9 DEF Same

\* And so it has a local zero gamma.
LEMMA NearestIsSome ==
  ASSUME NEW n \in Nat, NEW s, IsSeries(s, n),
         \E j \in 2..n : Gex!Crosses(s[j - 1].net, s[j].net)
  PROVE  Gex!NearestZeroGamma(s, Spot) \in Int
<1>. DEFINE at == {j \in 2..n : Gex!Crosses(s[j - 1].net, s[j].net)}
            Zero(j) == Gex!ZeroBetween(s[j - 1].strike, s[j].strike, s[j - 1].net, s[j].net)
            Away(j) == IF Zero(j) < 100 * Spot THEN 100 * Spot - Zero(j)
                                               ELSE Zero(j) - 100 * Spot
            Nearest(i) == \A j \in at : \/ Away(i) < Away(j)
                                        \/ Away(i) = Away(j) /\ i <= j
<1>1. ASSUME NEW j \in at PROVE Zero(j) \in Int
  <2>1. j \in 1..n /\ j - 1 \in 1..n /\ j - 1 < j
    OBVIOUS
  <2>2. s[j] \in GexTypes /\ s[j - 1] \in GexTypes /\ s[j - 1].strike < s[j].strike
    BY <2>1 DEF IsSeries
  <2>3. PICK k \in Int, l \in Int, a \in Int, b \in Int :
          k = s[j - 1].strike /\ l = s[j].strike /\ a = s[j - 1].net /\ b = s[j].net
    BY <2>2 DEF GexTypes
  <2>4. k < l /\ Gex!Crosses(a, b) /\ Zero(j) = Gex!ZeroBetween(k, l, a, b)
    BY <2>2, <2>3
  <2>. HIDE DEF Zero
  <2>. QED
    BY <2>4, ZeroIsBetween
<1>2. at # {} /\ at \in SUBSET (1..n)
  OBVIOUS
<1>3. DOMAIN s = 1..n /\ Len(s) = n
  <2>1. DOMAIN s = 1..n
    BY DEF IsSeries
  <2>2. s \in Seq(GexTypes)
    BY DEF IsSeries
  <2>. QED
    BY <2>1, <2>2
<1>4. Gex!NearestZeroGamma(s, Spot) = Zero(CHOOSE i \in at : Nearest(i))
  BY <1>2, <1>3 DEF Gex!NearestZeroGamma
<1>. HIDE DEF at, Zero
<1>5. \E i \in at : Nearest(i)
  <2>. DEFINE f == [j \in at |-> -Away(j)]
  <2>1. \A j \in at : Away(j) \in Int
    <3>1. SUFFICES ASSUME NEW j \in at PROVE Away(j) \in Int
      OBVIOUS
    <3>2. PICK t \in Int, z \in Int : t = 100 * Spot /\ z = Zero(j)
      BY <1>1, GexAssumption
    <3>3. Away(j) = IF z < t THEN t - z ELSE z - t
      BY <3>2
    <3>. HIDE DEF Away
    <3>. QED
      BY <3>2, <3>3
  <2>. HIDE DEF Away
  <2>2. f \in [at -> Int]
    BY <2>1
  <2>3. PICK i \in at : \A j \in at : f[j] < f[i] \/ (f[j] = f[i] /\ i <= j)
    <3>. HIDE DEF f
    <3>. QED
      BY <1>2, <2>2, FirstLargest
  <2>4. \A j \in at : f[j] = -Away(j)
    OBVIOUS
  <2>. HIDE DEF f
  <2>5. ASSUME NEW j \in at PROVE Away(i) < Away(j) \/ (Away(i) = Away(j) /\ i <= j)
    BY <2>1, <2>3, <2>4
  <2>. QED
    BY <2>5
<1>6. (CHOOSE i \in at : Nearest(i)) \in at
  BY <1>5
<1>. QED
  BY <1>1, <1>4, <1>6

\* Parts of a series, summed.
LEMMA BelowIsSum ==
  ASSUME NEW n \in Nat, NEW s, IsSeries(s, n),
         NEW p \in [0..n -> Int], Sums(p, Gex!Nets(s), n), NEW i \in 0..n
  PROVE  Gex!Total(Gex!Nets(SubSeq(s, 1, i))) = p[i]
<1>. DEFINE f == SubSeq(s, 1, i)   a == Gex!Nets(s)   b == Gex!Nets(f)
<1>1. s \in Seq(GexTypes) /\ DOMAIN s = 1..n /\ Len(s) = n
  <2>1. s \in Seq(GexTypes) /\ DOMAIN s = 1..n
    BY DEF IsSeries
  <2>. QED
    BY <2>1
<1>2. a \in [1..n -> Int]
  <2>1. \A k \in 1..n : s[k] \in GexTypes
    BY <1>1
  <2>2. \A k \in 1..n : s[k].net \in Int
    BY <2>1 DEF GexTypes
  <2>. QED
    BY <1>1, <2>2 DEF Gex!Nets
<1>3. f \in Seq(GexTypes) /\ Len(f) = i /\ \A k \in 1..i : f[k] = s[k]
  BY <1>1
<1>4. DOMAIN b = 1..(i - 0) /\ \A k \in 1..(i - 0) : b[k] = a[0 + k]
  BY <1>1, <1>3 DEF Gex!Nets
<1>5. 0 \in 0..n /\ p[0] = 0 /\ p[i] \in Int
  BY DEF Sums
<1>6. Sums(p, a, n)
  OBVIOUS
<1>. HIDE DEF a, b
<1>7. Total(b) = p[i] - p[0]
  <2>1. 0 \in 0..n /\ i \in 0..n
    BY <1>5
  <2>. QED
    BY <1>2, <1>4, <1>6, <2>1, TotalOfPart
<1>. QED
  BY <1>5, <1>7, GexTotal DEF b

LEMMA NetsSummed ==
  ASSUME NEW n \in Nat, NEW s, IsSeries(s, n)
  PROVE  \E p \in [0..n -> Int] : Sums(p, Gex!Nets(s), n)
<1>1. \A k \in 1..n : s[k] \in GexTypes
  BY DEF IsSeries
<1>2. \A k \in 1..n : s[k].net \in Int
  BY <1>1 DEF GexTypes
<1>3. Gex!Nets(s) \in [1..n -> Int]
  BY <1>2 DEF Gex!Nets, IsSeries
<1>. QED
  BY <1>3, SumsExist

LEMMA FlipOfChain ==
  ASSUME chain \in Seq(Gex!Entries)
  PROVE  FlipTellsRegime
<1>. DEFINE s == Gex!GexSeries(chain)
            n == Cardinality(Gex!WithData(chain))
            flip == Gex!InterpolateZeroGamma(s)
            Below(i) == Gex!Total(Gex!Nets(SubSeq(s, 1, i)))
            Turned == {i \in DOMAIN s : (Below(i) < 0) # (Below(1) < 0)}
            First(i) == \A j \in Turned : i <= j
<1>1. n \in Nat /\ IsSeries(s, n)
  BY SeriesOfChain
<1>. HIDE DEF s, n
<1>2. PICK p \in [0..n -> Int] : Sums(p, Gex!Nets(s), n)
  BY <1>1, NetsSummed
<1>3. DOMAIN s = 1..n
  BY <1>1 DEF IsSeries
<1>4. Turned = {i \in 1..n : ~Same(p, i)}
  <2>1. ASSUME NEW i \in 1..n PROVE (Below(i) < 0) # (Below(1) < 0) <=> ~Same(p, i)
    <3>1. i \in 0..n /\ 1 \in 0..n
      BY <1>1
    <3>2. Below(i) = p[i] /\ Below(1) = p[1]
      BY <1>1, <1>2, <3>1, BelowIsSum
    <3>. HIDE DEF Below
    <3>. QED
      BY <3>2 DEF Same
  <2>. HIDE DEF Below
  <2>. QED
    BY <1>3, <2>1
<1>5. \/ flip = Nothing /\ \A j \in 1..n : Same(p, j)
      \/ \E i \in 2..n :
           /\ TurnsAt(p, i) /\ Gex!Crosses(p[i - 1], p[i])
           /\ flip = Gex!ZeroBetween(s[i - 1].strike, s[i].strike, p[i - 1], p[i])
  BY <1>1, <1>2, ScanFindsTurn
<1>. HIDE DEF flip, Turned
<1>6. Turned = {} => flip = Nothing
  <2>1. ASSUME NEW i \in 2..n, TurnsAt(p, i) PROVE Turned # {}
    BY <1>1, <1>4, <2>1 DEF TurnsAt
  <2>. QED
    BY <1>5, <2>1
<1>7. ASSUME Turned # {}
      PROVE  LET i == CHOOSE i \in Turned : First(i) IN
             /\ flip \in (100 * s[i - 1].strike)..(100 * s[i].strike)
             /\ Gex!NearestZeroGamma(s, Spot) # Nothing
  <2>1. PICK i \in 2..n :
           /\ TurnsAt(p, i) /\ Gex!Crosses(p[i - 1], p[i])
           /\ flip = Gex!ZeroBetween(s[i - 1].strike, s[i].strike, p[i - 1], p[i])
    BY <1>4, <1>5, <1>7
  <2>2. i \in 1..n /\ i - 1 \in 1..n /\ i - 1 < i /\ i \in 0..n /\ i - 1 \in 0..n
    BY <1>1
  <2>3. i \in Turned /\ First(i)
    <3>1. ASSUME NEW j \in Turned PROVE i <= j
      <4>1. j \in 1..n /\ ~Same(p, j)
        BY <1>4
      <4>2. ~(j \in 1..(i - 1))
        BY <2>1, <4>1 DEF TurnsAt
      <4>. QED
        BY <1>1, <2>2, <4>1, <4>2
    <3>. QED
      BY <1>4, <2>1, <2>2, <3>1 DEF TurnsAt
  <2>4. (CHOOSE j \in Turned : First(j)) = i
    <3>. DEFINE c == CHOOSE j \in Turned : First(j)
    <3>1. c \in Turned /\ First(c)
      BY <2>3
    <3>. HIDE DEF c
    <3>2. c <= i /\ i <= c /\ c \in 1..n
      BY <1>4, <2>3, <3>1
    <3>3. c = i
      BY <1>1, <2>2, <3>2
    <3>. QED
      BY <3>3 DEF c
  <2>5. flip \in (100 * s[i - 1].strike)..(100 * s[i].strike)
    <3>1. s[i] \in GexTypes /\ s[i - 1] \in GexTypes /\ s[i - 1].strike < s[i].strike
      BY <1>1, <2>2 DEF IsSeries
    <3>2. PICK k \in Int, l \in Int, a \in Int, b \in Int :
            k = s[i - 1].strike /\ l = s[i].strike /\ a = p[i - 1] /\ b = p[i]
      BY <2>2, <3>1 DEF GexTypes
    <3>3. k < l /\ Gex!Crosses(a, b) /\ flip = Gex!ZeroBetween(k, l, a, b)
      BY <2>1, <3>1, <3>2
    <3>4. flip \in Int /\ 100 * k <= flip /\ flip <= 100 * l
      BY <3>3, ZeroIsBetween
    <3>5. flip \in (100 * k)..(100 * l)
      BY <3>4
    <3>. QED
      BY <3>2, <3>5
  <2>6. Gex!NearestZeroGamma(s, Spot) # Nothing
    <3>1. ~Same(p, i)
      BY <2>1 DEF TurnsAt
    <3>2. \E j \in 2..n : Gex!Crosses(s[j - 1].net, s[j].net)
      BY <1>1, <1>2, <2>2, <3>1, SomeStrikesCross
    <3>3. Gex!NearestZeroGamma(s, Spot) \in Int
      BY <1>1, <3>2, NearestIsSome
    <3>. QED
      BY <3>3, GexAssumption
  <2>. QED
    BY <2>4, <2>5, <2>6
<1>. HIDE DEF First
<1>8. IF Turned = {} THEN flip = Nothing
      ELSE LET i == CHOOSE i \in Turned : First(i) IN
           /\ flip \in (100 * s[i - 1].strike)..(100 * s[i].strike)
           /\ Gex!NearestZeroGamma(s, Spot) # Nothing
  BY <1>6, <1>7
<1>. QED
  BY <1>8 DEF FlipTellsRegime, Gex!FlipTellsRegime, s, flip, Turned, First, Below

-----------------------------------------------------------------------------
(* The two engines on one chain *)

LEMMA TotalOfNone ==
  ASSUME NEW n \in Nat, NEW a \in [1..n -> Int], \A i \in 1..n : a[i] = 0
  PROVE  Total(a) = 0
<1>. DEFINE p == [k \in 0..n |-> 0]
<1>1. Sums(p, a, n)
  <2>1. p[0] = 0
    OBVIOUS
  <2>2. ASSUME NEW k \in Nat, k < n PROVE p[k + 1] = p[k] + a[k + 1]
    <3>1. k \in 0..n /\ k + 1 \in 0..n /\ k + 1 \in 1..n
      BY <2>2
    <3>2. p[k] = 0 /\ p[k + 1] = 0 /\ a[k + 1] = 0
      BY <3>1
    <3>. QED
      BY <3>2
  <2>. QED
    BY <2>1, <2>2 DEF Sums
<1>2. p[n] = 0
  OBVIOUS
<1>. HIDE DEF p
<1>. QED
  BY <1>1, <1>2, TotalIsLastSum

LEMMA TotalOfOne ==
  ASSUME NEW n \in Nat, NEW a \in [1..n -> Int], NEW j \in 1..n,
         \A i \in 1..n : i # j => a[i] = 0
  PROVE  Total(a) = a[j]
<1>. DEFINE p == [k \in 0..n |-> IF k < j THEN 0 ELSE a[j]]
<1>1. Sums(p, a, n)
  <2>1. p[0] = 0
    OBVIOUS
  <2>2. ASSUME NEW k \in Nat, k < n PROVE p[k + 1] = p[k] + a[k + 1]
    <3>1. k \in 0..n /\ k + 1 \in 0..n /\ k + 1 \in 1..n /\ a[j] \in Int
      BY <2>2
    <3>2. /\ p[k] = IF k < j THEN 0 ELSE a[j]
          /\ p[k + 1] = IF k + 1 < j THEN 0 ELSE a[j]
      BY <3>1
    <3>3. a[k + 1] = IF k + 1 = j THEN a[j] ELSE 0
      BY <3>1
    <3>. HIDE DEF p
    <3>. QED
      BY <3>1, <3>2, <3>3
  <2>. QED
    BY <2>1, <2>2 DEF Sums
<1>2. p[n] = a[j]
  OBVIOUS
<1>. HIDE DEF p
<1>. QED
  BY <1>1, <1>2, TotalIsLastSum

\* A complete chain of plain options without repeats.
Readable(c) ==
  /\ \A i \in DOMAIN c : Gex!Counts(c[i])
  /\ \A i \in DOMAIN c : c[i].kind.letters \in {{"C"}, {"P"}} /\ c[i].kind.scale = 1
  /\ \A i, j \in DOMAIN c :
       c[i].strike = c[j].strike /\ Gex!SideOf(c[i]) = Gex!SideOf(c[j]) => i = j

\* A plain option is read by both engines alike, but for the sign of a put.
LEMMA PlainOption ==
  ASSUME NEW e, e.kind.letters \in {{"C"}, {"P"}}, e.kind.scale = 1,
         e.amount # Missing, e.amount \in Int
  PROVE  /\ Gex!SlotOf(e) = Gex!SideOf(e)
         /\ Gex!SideOf(e) = "call" => Gex!Signed(e) = e.amount
         /\ Gex!SideOf(e) = "put" => Gex!Signed(e) = -e.amount
<1>1. 1 * e.amount = e.amount
  OBVIOUS
<1>2. CASE e.kind.letters = {"C"}
  <2>1. "C" \in e.kind.letters /\ ~("P" \in e.kind.letters)
    BY <1>2
  <2>2. Gex!SideOf(e) = "call" /\ Gex!SlotOf(e) = "call"
    BY <2>1 DEF Gex!SideOf, Gex!SlotOf
  <2>3. Gex!Signed(e) = e.amount
    BY <1>1, <2>1 DEF Gex!Signed
  <2>. QED
    BY <2>2, <2>3
<1>3. CASE e.kind.letters = {"P"}
  <2>1. ~("C" \in e.kind.letters) /\ "P" \in e.kind.letters
    BY <1>3
  <2>2. Gex!SideOf(e) = "put" /\ Gex!SlotOf(e) = "put"
    BY <2>1 DEF Gex!SideOf, Gex!SlotOf
  <2>3. Gex!Signed(e) = -e.amount
    BY <1>1, <2>1 DEF Gex!Signed
  <2>. QED
    BY <2>2, <2>3
<1>. QED
  BY <1>2, <1>3

LEMMA ReversedChain ==
  ASSUME NEW c \in Seq(Gex!Entries)
  PROVE  /\ Gex!Reverse(c) \in Seq(Gex!Entries)
         /\ Len(c) \in Nat /\ DOMAIN c = 1..Len(c) /\ DOMAIN Gex!Reverse(c) = 1..Len(c)
         /\ \A i \in 1..Len(c) :
              Len(c) - i + 1 \in 1..Len(c) /\ Gex!Reverse(c)[i] = c[Len(c) - i + 1]
<1>1. Len(c) \in Nat /\ DOMAIN c = 1..Len(c)
  OBVIOUS
<1>2. ASSUME NEW i \in 1..Len(c)
      PROVE  /\ Len(c) - i + 1 \in 1..Len(c)
             /\ c[Len(c) - i + 1] \in Gex!Entries
             /\ Gex!Reverse(c)[i] = c[Len(c) - i + 1]
  <2>1. Len(c) - i + 1 \in 1..Len(c)
    BY <1>1
  <2>. QED
    BY <1>1, <2>1 DEF Gex!Reverse
<1>3. Gex!Reverse(c) \in [1..Len(c) -> Gex!Entries]
  BY <1>1, <1>2 DEF Gex!Reverse
<1>. QED
  BY <1>1, <1>2, <1>3

\* In such a chain the last option of a side is the only one.
LEMMA LastIsOnly ==
  ASSUME NEW c \in Seq(Gex!Entries), Readable(c), NEW k, NEW t \in {"call", "put"}
  PROVE  /\ Gex!LastIn(Gex!Reverse(c), k, t) =
              IF t = "call" THEN Gex!Side(c, k, t) ELSE -Gex!Side(c, k, t)
         /\ \/ Gex!Side(c, k, t) = 0
            \/ \E i \in DOMAIN c : Gex!Side(c, k, t) = c[i].amount
<1>. DEFINE r == Gex!Reverse(c)   N == Len(c)
            at == {i \in DOMAIN r : r[i].strike = k /\ Gex!SlotOf(r[i]) = t}
            a == [i \in DOMAIN c |->
                    IF c[i].strike = k /\ Gex!SideOf(c[i]) = t /\ Gex!Counts(c[i])
                    THEN c[i].amount ELSE 0]
<1>1. /\ r \in Seq(Gex!Entries) /\ N \in Nat /\ DOMAIN c = 1..N /\ DOMAIN r = 1..N
      /\ \A i \in 1..N : N - i + 1 \in 1..N /\ r[i] = c[N - i + 1]
  BY ReversedChain
<1>2. \A i \in 1..N : Gex!Counts(c[i]) /\ c[i].amount # Missing /\ c[i].amount \in Int
  BY <1>1, EntriesTyped DEF Readable, Gex!Counts
<1>3. \A i \in 1..N :
        /\ Gex!SlotOf(c[i]) = Gex!SideOf(c[i])
        /\ Gex!SideOf(c[i]) = "call" => Gex!Signed(c[i]) = c[i].amount
        /\ Gex!SideOf(c[i]) = "put" => Gex!Signed(c[i]) = -c[i].amount
  BY <1>1, <1>2, PlainOption DEF Readable
<1>4. a \in [1..N -> Int]
  BY <1>1, <1>2
<1>5. Gex!Side(c, k, t) = Total(a)
  BY GexTotal DEF Gex!Side
<1>6. Gex!LastIn(r, k, t) = IF at = {} THEN 0 ELSE Gex!Signed(r[Max(at)])
  BY DEF Gex!LastIn, Gex!Max, Max
<1>7. ASSUME NEW i \in 1..N, NEW j \in 1..N, j = N - i + 1
      PROVE  i \in at <=> c[j].strike = k /\ Gex!SideOf(c[j]) = t
  <2>1. r[i] = c[j] /\ i \in DOMAIN r
    BY <1>1, <1>7
  <2>2. Gex!SlotOf(c[j]) = Gex!SideOf(c[j])
    BY <1>3
  <2>. HIDE DEF r
  <2>. QED
    BY <2>1, <2>2
<1>8. \A i \in 1..N :
        a[i] = IF c[i].strike = k /\ Gex!SideOf(c[i]) = t THEN c[i].amount ELSE 0
  BY <1>1, <1>2
<1>9. at \in SUBSET (1..N)
  BY <1>1
<1>. HIDE DEF r, N, at, a
<1>10. CASE at = {}
  <2>1. ASSUME NEW j \in 1..N PROVE a[j] = 0
    <3>1. PICK i \in 1..N : j = N - i + 1
      <4>1. N - j + 1 \in 1..N /\ j = N - (N - j + 1) + 1
        BY <1>1
      <4>. QED
        BY <4>1
    <3>. QED
      BY <1>7, <1>8, <1>10, <3>1
  <2>2. Total(a) = 0
    BY <1>1, <1>4, <2>1, TotalOfNone
  <2>3. Gex!LastIn(r, k, t) = 0 /\ Gex!Side(c, k, t) = 0
    BY <1>5, <1>6, <1>10, <2>2
  <2>4. PICK z \in Int : z = 0 /\ -z = z
    OBVIOUS
  <2>5. -Gex!Side(c, k, t) = 0
    BY <2>3, <2>4
  <2>. QED
    BY <2>3, <2>5 DEF r
<1>11. CASE at # {}
  <2>1. PICK i \in 1..N : i = Max(at) /\ i \in at
    BY <1>1, <1>9, <1>11, MaxIsLargest
  <2>2. PICK j \in 1..N : j = N - i + 1 /\ r[i] = c[j]
    BY <1>1
  <2>3. c[j].strike = k /\ Gex!SideOf(c[j]) = t
    BY <1>7, <2>1, <2>2
  <2>4. \A l \in 1..N : l # j => a[l] = 0
    BY <1>1, <1>8, <2>3 DEF Readable
  <2>5. Total(a) = a[j] /\ a[j] = c[j].amount
    BY <1>1, <1>4, <1>8, <2>3, <2>4, TotalOfOne
  <2>6. Gex!LastIn(r, k, t) = Gex!Signed(c[j])
    BY <1>6, <1>11, <2>1, <2>2
  <2>7. Gex!Signed(c[j]) = IF t = "call" THEN c[j].amount ELSE -c[j].amount
    BY <1>3, <2>3
  <2>. QED
    BY <1>1, <1>5, <2>5, <2>6, <2>7 DEF r
<1>. QED
  BY <1>10, <1>11

LEMMA HalfDollars ==
  ASSUME NEW x \in Int
  PROVE  /\ Gex!RoundDollar(x) \in Int
         /\ -1 <= x - 2 * Gex!RoundDollar(x) /\ x - 2 * Gex!RoundDollar(x) <= 1
         /\ x % 2 = 0 => 2 * Gex!RoundDollar(x) = x
<1>1. PICK q \in Int, r \in 0..1 : q = x \div 2 /\ x = 2 * q + r /\ r = x % 2
  OBVIOUS
<1>2. Gex!RoundDiv(x, 2) = Rounded(x \div 2, x - (x \div 2) * 2, 2)
  <2>1. PICK d \in Int : d = 2 /\ d > 0
    OBVIOUS
  <2>2. Gex!RoundDiv(x, d) = Rounded(x \div d, x - (x \div d) * d, d)
    BY <2>1, RoundDivIs
  <2>. QED
    BY <2>1, <2>2
<1>3. Gex!RoundDollar(x) = Rounded(q, r, 2)
  BY <1>1, <1>2 DEF Gex!RoundDollar
<1>. QED
  BY <1>1, <1>3 DEF Rounded

\* The series of the dashboard, of the chain in reverse, beside that of the loop.
Rounds(s, u, n) ==
  \A i \in 1..n :
    /\ u[i].strike = s[i].strike
    /\ u[i].call = Gex!RoundDollar(s[i].call)
    /\ u[i].put = Gex!RoundDollar(-s[i].put)
    /\ u[i].net = Gex!RoundDollar(s[i].net)

LEMMA EnginesShareRows ==
  ASSUME NEW c \in Seq(Gex!Entries), Readable(c), c # <<>>
  PROVE  LET s == Gex!GexSeries(c)   u == Gex!ProfileSeries(Gex!Reverse(c)) IN
         \E n \in Nat :
           /\ n > 0 /\ IsSeries(s, n) /\ IsSeries(u, n) /\ Rounds(s, u, n)
           /\ \A i \in 1..n : \E x \in Int, y \in Int :
                /\ s[i].call = x /\ s[i].put = y /\ s[i].net = x - y
                /\ (\A j \in DOMAIN c : c[j].amount % 2 = 0) => x % 2 = 0 /\ y % 2 = 0
<1>. DEFINE s == Gex!GexSeries(c)   r == Gex!Reverse(c)   u == Gex!ProfileSeries(r)
            S == Gex!WithData(c)   ks == Gex!Ascending(S)   n == Cardinality(S)
<1>1. n \in Nat /\ IsSeries(s, n)
  BY SeriesOfChain
<1>2. Gex!StrikesOf(r) = S /\ S # {} /\ IsFiniteSet(S) /\ S \in SUBSET Int
  <2>1. S = {c[i].strike : i \in DOMAIN c}
    <3>1. {j \in DOMAIN c : Gex!Counts(c[j])} = DOMAIN c
      BY DEF Readable
    <3>. QED
      BY <3>1 DEF Gex!WithData
  <2>2. /\ Len(c) \in Nat /\ DOMAIN c = 1..Len(c) /\ DOMAIN r = 1..Len(c)
        /\ \A i \in 1..Len(c) : Len(c) - i + 1 \in 1..Len(c) /\ r[i] = c[Len(c) - i + 1]
    BY ReversedChain
  <2>. HIDE DEF r, S
  <2>3. ASSUME NEW i \in 1..Len(c) PROVE \E j \in 1..Len(c) : r[j] = c[i]
    <3>1. Len(c) - i + 1 \in 1..Len(c) /\ Len(c) - (Len(c) - i + 1) + 1 = i
      BY <2>2
    <3>. QED
      BY <2>2, <3>1
  <2>4. Gex!StrikesOf(r) = {c[i].strike : i \in DOMAIN c}
    <3>1. ASSUME NEW j \in DOMAIN r PROVE r[j].strike \in {c[i].strike : i \in DOMAIN c}
      <4>1. Len(c) - j + 1 \in DOMAIN c /\ r[j] = c[Len(c) - j + 1]
        BY <2>2
      <4>. QED
        BY <4>1
    <3>2. ASSUME NEW i \in DOMAIN c PROVE c[i].strike \in {r[j].strike : j \in DOMAIN r}
      <4>1. PICK j \in DOMAIN r : r[j] = c[i]
        BY <2>2, <2>3
      <4>. QED
        BY <4>1
    <3>. QED
      BY <3>1, <3>2 DEF Gex!StrikesOf
  <2>5. Len(c) # 0
    OBVIOUS
  <2>6. 1 \in DOMAIN c
    BY <2>2, <2>5
  <2>. QED
    BY <2>1, <2>4, <2>6, StrikesAreFinite
<1>3. /\ ks \in [1..n -> S]
      /\ \A i, j \in 1..n : i < j => ks[i] < ks[j]
  BY <1>2, AscendingIsSorted
<1>4. n > 0
  BY <1>1, <1>2, FS_EmptySet
<1>5. s = [i \in DOMAIN ks |->
             [strike |-> ks[i], call |-> Gex!Side(c, ks[i], "call"),
              put |-> Gex!Side(c, ks[i], "put"),
              net |-> Gex!Side(c, ks[i], "call") - Gex!Side(c, ks[i], "put")]]
  BY DEF Gex!GexSeries
<1>6. u = [i \in DOMAIN ks |->
             [strike |-> ks[i], call |-> Gex!RoundDollar(Gex!LastIn(r, ks[i], "call")),
              put |-> Gex!RoundDollar(Gex!LastIn(r, ks[i], "put")),
              net |-> Gex!RoundDollar(Gex!LastIn(r, ks[i], "call")
                                        + Gex!LastIn(r, ks[i], "put"))]]
  BY <1>2 DEF Gex!ProfileSeries
<1>. HIDE DEF s, u, S, ks, n
<1>7. ASSUME NEW i \in 1..n
      PROVE  \E x \in Int, y \in Int :
               /\ s[i] = [strike |-> ks[i], call |-> x, put |-> y, net |-> x - y]
               /\ u[i] = [strike |-> ks[i], call |-> Gex!RoundDollar(x),
                          put |-> Gex!RoundDollar(-y), net |-> Gex!RoundDollar(x - y)]
               /\ (\A j \in DOMAIN c : c[j].amount % 2 = 0) => x % 2 = 0 /\ y % 2 = 0
  <2>1. PICK x \in Int, y \in Int :
          x = Gex!Side(c, ks[i], "call") /\ y = Gex!Side(c, ks[i], "put")
    BY SideTyped
  <2>2. Gex!LastIn(r, ks[i], "call") = x /\ Gex!LastIn(r, ks[i], "put") = -y
    BY <2>1, LastIsOnly
  <2>3. x + (-y) = x - y
    OBVIOUS
  <2>4. (x = 0 \/ \E j \in DOMAIN c : x = c[j].amount)
        /\ (y = 0 \/ \E j \in DOMAIN c : y = c[j].amount)
    BY <2>1, LastIsOnly
  <2>5. DOMAIN ks = 1..n
    BY <1>3
  <2>6. /\ s[i] = [strike |-> ks[i], call |-> x, put |-> y, net |-> x - y]
        /\ u[i] = [strike |-> ks[i], call |-> Gex!RoundDollar(x),
                   put |-> Gex!RoundDollar(-y), net |-> Gex!RoundDollar(x - y)]
    BY <1>5, <1>6, <2>1, <2>2, <2>5, <2>3
  <2>7. (\A j \in DOMAIN c : c[j].amount % 2 = 0) => x % 2 = 0 /\ y % 2 = 0
    BY <2>4
  <2>. QED
    BY <2>6, <2>7
<1>8. IsSeries(u, n)
  <2>1. ASSUME NEW i \in 1..n PROVE u[i] \in GexTypes /\ u[i].strike = ks[i]
    <3>1. PICK x \in Int, y \in Int :
            u[i] = [strike |-> ks[i], call |-> Gex!RoundDollar(x),
                    put |-> Gex!RoundDollar(-y), net |-> Gex!RoundDollar(x - y)]
      BY <1>7
    <3>2. -y \in Int /\ x - y \in Int
      OBVIOUS
    <3>3. ks[i] \in Int
      <4>1. ks[i] \in S
        BY <1>3
      <4>. QED
        BY <1>2, <4>1
    <3>4. /\ Gex!RoundDollar(x) \in Int /\ Gex!RoundDollar(-y) \in Int
          /\ Gex!RoundDollar(x - y) \in Int
      BY <3>2, HalfDollars
    <3>. QED
      BY <3>1, <3>4, <3>3 DEF GexTypes
  <2>2. u \in [1..n -> GexTypes]
    BY <1>3, <1>6, <2>1
  <2>. QED
    BY <1>3, <2>1, <2>2 DEF IsSeries
<1>9. Rounds(s, u, n)
  <2>1. SUFFICES ASSUME NEW i \in 1..n
                 PROVE  /\ u[i].strike = s[i].strike
                        /\ u[i].call = Gex!RoundDollar(s[i].call)
                        /\ u[i].put = Gex!RoundDollar(-s[i].put)
                        /\ u[i].net = Gex!RoundDollar(s[i].net)
    BY DEF Rounds
  <2>2. PICK x \in Int, y \in Int :
          /\ s[i] = [strike |-> ks[i], call |-> x, put |-> y, net |-> x - y]
          /\ u[i] = [strike |-> ks[i], call |-> Gex!RoundDollar(x),
                     put |-> Gex!RoundDollar(-y), net |-> Gex!RoundDollar(x - y)]
    BY <1>7
  <2>. QED
    BY <2>2
<1>10. ASSUME NEW i \in 1..n
       PROVE  \E x \in Int, y \in Int :
                /\ s[i].call = x /\ s[i].put = y /\ s[i].net = x - y
                /\ (\A j \in DOMAIN c : c[j].amount % 2 = 0) => x % 2 = 0 /\ y % 2 = 0
  <2>1. PICK x \in Int, y \in Int :
          /\ s[i] = [strike |-> ks[i], call |-> x, put |-> y, net |-> x - y]
          /\ (\A j \in DOMAIN c : c[j].amount % 2 = 0) => x % 2 = 0 /\ y % 2 = 0
    BY <1>7
  <2>2. s[i].call = x /\ s[i].put = y /\ s[i].net = x - y
    BY <2>1
  <2>. QED
    BY <2>1, <2>2
<1>. QED
  BY <1>1, <1>4, <1>8, <1>9, <1>10 DEF s, u

\* Rounded totals: half a dollar a strike, and nothing in whole dollars.
LEMMA TotalsNear ==
  ASSUME NEW n \in Nat, NEW s, NEW u, IsSeries(s, n), IsSeries(u, n), Rounds(s, u, n)
  PROVE  Gex!Total(Gex!Nets(s)) - 2 * Gex!Total(Gex!Nets(u)) \in (-n)..n
<1>1. PICK p \in [0..n -> Int] : Sums(p, Gex!Nets(s), n)
  BY NetsSummed
<1>2. PICK q \in [0..n -> Int] : Sums(q, Gex!Nets(u), n)
  BY NetsSummed
<1>. DEFINE T == {k \in Nat : k <= n => -k <= p[k] - 2 * q[k] /\ p[k] - 2 * q[k] <= k}
<1>3. 0 \in T
  <2>1. p[0] = 0 /\ q[0] = 0
    BY <1>1, <1>2 DEF Sums
  <2>. QED
    BY <2>1
<1>4. ASSUME NEW k \in Nat, k \in T PROVE k + 1 \in T
  <2>1. SUFFICES ASSUME k < n
                 PROVE  /\ -(k + 1) <= p[k + 1] - 2 * q[k + 1]
                        /\ p[k + 1] - 2 * q[k + 1] <= k + 1
    OBVIOUS
  <2>2. k \in 0..n /\ k + 1 \in 0..n /\ k + 1 \in 1..n
    BY <2>1
  <2>3. s[k + 1] \in GexTypes /\ DOMAIN s = 1..n /\ DOMAIN u = 1..n
    BY <2>2 DEF IsSeries
  <2>4. /\ p[k + 1] = p[k] + s[k + 1].net /\ q[k + 1] = q[k] + u[k + 1].net
        /\ u[k + 1].net = Gex!RoundDollar(s[k + 1].net) /\ s[k + 1].net \in Int
    BY <1>1, <1>2, <2>1, <2>2, <2>3 DEF Sums, Gex!Nets, Rounds, GexTypes
  <2>5. PICK x \in Int, y \in Int : x = s[k + 1].net /\ y = Gex!RoundDollar(x)
    BY <2>4, HalfDollars
  <2>6. -1 <= x - 2 * y /\ x - 2 * y <= 1
    BY <2>5, HalfDollars
  <2>7. PICK a \in Int, b \in Int : a = p[k] /\ b = q[k]
    BY <2>2
  <2>8. -k <= a - 2 * b /\ a - 2 * b <= k
    BY <1>4, <2>1, <2>7
  <2>9. p[k + 1] = a + x /\ q[k + 1] = b + y
    BY <2>4, <2>5, <2>7
  <2>10. -(k + 1) <= (a + x) - 2 * (b + y) /\ (a + x) - 2 * (b + y) <= k + 1
    BY <2>6, <2>8
  <2>. QED
    BY <2>9, <2>10
<1>5. \A k \in Nat : k \in T
  <2>. HIDE DEF T
  <2>. QED
    BY <1>3, <1>4, SetInduction
<1>6. p[n] \in Int /\ q[n] \in Int /\ -n <= p[n] - 2 * q[n] /\ p[n] - 2 * q[n] <= n
  BY <1>5
<1>7. DOMAIN Gex!Nets(s) = 1..n /\ DOMAIN Gex!Nets(u) = 1..n
  BY DEF IsSeries, Gex!Nets
<1>8. Gex!Total(Gex!Nets(s)) = p[n] /\ Gex!Total(Gex!Nets(u)) = q[n]
  BY <1>1, <1>2, <1>7, TotalIsLastSum, GexTotal
<1>9. p[n] - 2 * q[n] \in (-n)..n
  BY <1>6
<1>. QED
  BY <1>8, <1>9

\* In whole dollars the one series is the other in another unit.
Halves(s, u, n) ==
  \A i \in 1..n : u[i].strike = s[i].strike /\ s[i].net = 2 * u[i].net

LEMMA HalvesSummed ==
  ASSUME NEW n \in Nat, NEW s, NEW u, IsSeries(s, n), IsSeries(u, n), Halves(s, u, n),
         NEW p \in [0..n -> Int], Sums(p, Gex!Nets(s), n),
         NEW q \in [0..n -> Int], Sums(q, Gex!Nets(u), n)
  PROVE  \A k \in 0..n : p[k] = 2 * q[k]
<1>. DEFINE T == {k \in Nat : k <= n => p[k] = 2 * q[k]}
<1>1. 0 \in T
  BY DEF Sums
<1>2. ASSUME NEW k \in Nat, k \in T PROVE k + 1 \in T
  <2>1. SUFFICES ASSUME k < n PROVE p[k + 1] = 2 * q[k + 1]
    OBVIOUS
  <2>2. k \in 0..n /\ k + 1 \in 1..n
    BY <2>1
  <2>3. u[k + 1] \in GexTypes /\ DOMAIN s = 1..n /\ DOMAIN u = 1..n
    BY <2>2 DEF IsSeries
  <2>4. /\ p[k + 1] = p[k] + s[k + 1].net /\ q[k + 1] = q[k] + u[k + 1].net
        /\ s[k + 1].net = 2 * u[k + 1].net /\ u[k + 1].net \in Int
    BY <2>1, <2>2, <2>3 DEF Sums, Gex!Nets, Halves, GexTypes
  <2>5. PICK b \in Int, y \in Int : b = q[k] /\ y = u[k + 1].net /\ p[k] = 2 * b
    BY <1>2, <2>1, <2>2, <2>4
  <2>6. 2 * b + 2 * y = 2 * (b + y)
    OBVIOUS
  <2>. QED
    BY <2>4, <2>5, <2>6
<1>3. \A k \in Nat : k \in T
  <2>. HIDE DEF T
  <2>. QED
    BY <1>1, <1>2, SetInduction
<1>. QED
  BY <1>3

LEMMA FlipOfHalves ==
  ASSUME NEW n \in Nat, NEW s, NEW u, IsSeries(s, n), IsSeries(u, n), Halves(s, u, n)
  PROVE  /\ Gex!InterpolateZeroGamma(s) = Gex!InterpolateZeroGamma(u)
         /\ Gex!Total(Gex!Nets(u)) \in Int
         /\ Gex!Total(Gex!Nets(s)) = 2 * Gex!Total(Gex!Nets(u))
<1>1. PICK p \in [0..n -> Int] : Sums(p, Gex!Nets(s), n)
  BY NetsSummed
<1>2. PICK q \in [0..n -> Int] : Sums(q, Gex!Nets(u), n)
  BY NetsSummed
<1>3. \A k \in 0..n : p[k] = 2 * q[k] /\ q[k] \in Int
  BY <1>1, <1>2, HalvesSummed
<1>4. DOMAIN Gex!Nets(s) = 1..n /\ DOMAIN Gex!Nets(u) = 1..n
  BY DEF IsSeries, Gex!Nets
<1>5. Gex!Total(Gex!Nets(s)) = p[n] /\ Gex!Total(Gex!Nets(u)) = q[n] /\ n \in 0..n
  BY <1>1, <1>2, <1>4, TotalIsLastSum, GexTotal
<1>6. \A j \in 1..n : Same(p, j) <=> Same(q, j)
  <2>1. ASSUME NEW j \in 1..n PROVE Same(p, j) <=> Same(q, j)
    <3>1. j \in 0..n /\ 1 \in 0..n
      OBVIOUS
    <3>2. PICK a \in Int, b \in Int : a = q[j] /\ b = q[1] /\ p[j] = 2 * a /\ p[1] = 2 * b
      BY <1>3, <3>1
    <3>3. (2 * a < 0 <=> a < 0) /\ (2 * b < 0 <=> b < 0)
      OBVIOUS
    <3>. QED
      BY <3>2, <3>3 DEF Same
  <2>. QED
    BY <2>1
<1>. DEFINE f == Gex!InterpolateZeroGamma(s)   g == Gex!InterpolateZeroGamma(u)
<1>7. \/ f = Nothing /\ \A j \in 1..n : Same(p, j)
      \/ \E i \in 2..n :
           /\ TurnsAt(p, i) /\ Gex!Crosses(p[i - 1], p[i])
           /\ f = Gex!ZeroBetween(s[i - 1].strike, s[i].strike, p[i - 1], p[i])
  BY <1>1, ScanFindsTurn
<1>8. \/ g = Nothing /\ \A j \in 1..n : Same(q, j)
      \/ \E i \in 2..n :
           /\ TurnsAt(q, i) /\ Gex!Crosses(q[i - 1], q[i])
           /\ g = Gex!ZeroBetween(u[i - 1].strike, u[i].strike, q[i - 1], q[i])
  BY <1>2, ScanFindsTurn
<1>. HIDE DEF f, g
<1>9. CASE \A j \in 1..n : Same(p, j)
  <2>1. ASSUME NEW i \in 2..n PROVE ~TurnsAt(p, i) /\ ~TurnsAt(q, i)
    BY <1>6, <1>9 DEF TurnsAt
  <2>2. f = g
    BY <1>7, <1>8, <2>1
  <2>. QED
    BY <1>3, <1>5, <2>2 DEF f, g
<1>10. CASE ~\A j \in 1..n : Same(p, j)
  <2>1. PICK i \in 2..n :
           /\ TurnsAt(p, i) /\ Gex!Crosses(p[i - 1], p[i])
           /\ f = Gex!ZeroBetween(s[i - 1].strike, s[i].strike, p[i - 1], p[i])
    BY <1>7, <1>10
  <2>2. ~\A j \in 1..n : Same(q, j)
    BY <1>6, <1>10
  <2>3. PICK h \in 2..n :
           /\ TurnsAt(q, h) /\ Gex!Crosses(q[h - 1], q[h])
           /\ g = Gex!ZeroBetween(u[h - 1].strike, u[h].strike, q[h - 1], q[h])
    BY <1>8, <2>2
  <2>4. h = i
    <3>1. h \in 1..n /\ i \in 1..n
      OBVIOUS
    <3>2. ~(h \in 1..(i - 1))
      BY <1>6, <2>1, <2>3, <3>1 DEF TurnsAt
    <3>3. ~(i \in 1..(h - 1))
      BY <1>6, <2>1, <2>3, <3>1 DEF TurnsAt
    <3>. QED
      BY <3>1, <3>2, <3>3
  <2>5. i \in 1..n /\ i - 1 \in 1..n /\ i \in 0..n /\ i - 1 \in 0..n
    OBVIOUS
  <2>6. s[i].strike = u[i].strike /\ s[i - 1].strike = u[i - 1].strike
        /\ u[i] \in GexTypes /\ u[i - 1] \in GexTypes
    BY <2>5 DEF Halves, IsSeries
  <2>7. PICK k \in Int, l \in Int, a \in Int, b \in Int :
          /\ k = u[i - 1].strike /\ l = u[i].strike
          /\ a = q[i - 1] /\ b = q[i] /\ p[i - 1] = 2 * a /\ p[i] = 2 * b
    BY <1>3, <2>5, <2>6 DEF GexTypes
  <2>8. /\ f = Gex!ZeroBetween(k, l, 2 * a, 2 * b) /\ g = Gex!ZeroBetween(k, l, a, b)
        /\ Gex!Crosses(a, b)
    BY <2>1, <2>3, <2>4, <2>6, <2>7
  <2>9. f = g
    BY <2>8, ZeroOfHalves
  <2>. QED
    BY <1>3, <1>5, <2>9 DEF f, g
<1>. QED
  BY <1>9, <1>10

Doubled(a, b, n) ==
  /\ a \in [1..n -> Int] /\ b \in [1..n -> Int]
  /\ \A i \in 1..n : a[i] = 2 * b[i]

LEMMA PeakOfHalves ==
  ASSUME NEW n \in Nat, n > 0, NEW s, NEW u, Halves(s, u, n),
         NEW a, NEW b, Doubled(a, b, n)
  PROVE  Gex!PeakStrike(s, a) = Gex!PeakStrike(u, b)
<1>. DEFINE Peak(i, f) == \A j \in DOMAIN f : \/ f[j] < f[i]
                                              \/ f[j] = f[i] /\ i <= j
            x == CHOOSE i \in DOMAIN a : Peak(i, a)
            y == CHOOSE i \in DOMAIN b : Peak(i, b)
<1>1. 1 \in 1..n
  OBVIOUS
<1>2. /\ a \in [1..n -> Int] /\ b \in [1..n -> Int]
       /\ \A i \in 1..n : a[i] = 2 * b[i]
  BY DEF Doubled
<1>3. DOMAIN a = 1..n /\ DOMAIN b = 1..n
  BY <1>2
<1>4. 1..n \in SUBSET (1..n)
  OBVIOUS
<1>5. 1..n # {} /\ 1..n \in SUBSET (1..n) /\ DOMAIN a = 1..n /\ DOMAIN b = 1..n
  BY <1>1, <1>3, <1>4
<1>6. x \in 1..n /\ Peak(x, a)
  <2>1. \E i \in 1..n : Peak(i, a)
    BY <1>5, <1>2, FirstLargest
  <2>. HIDE DEF Peak
  <2>. QED
    BY <1>5, <2>1
<1>7. y \in 1..n /\ Peak(y, b)
  <2>1. \E i \in 1..n : Peak(i, b)
    BY <1>5, <1>2, FirstLargest
  <2>. HIDE DEF Peak
  <2>. QED
    BY <1>5, <2>1
<1>8. Gex!PeakStrike(s, a) = s[x].strike /\ Gex!PeakStrike(u, b) = u[y].strike
  BY DEF Gex!PeakStrike
<1>. HIDE DEF x, y
<1>9. (a[y] < a[x] \/ (a[y] = a[x] /\ x <= y)) /\ (b[x] < b[y] \/ (b[x] = b[y] /\ y <= x))
  BY <1>5, <1>6, <1>7
<1>10. a[x] = 2 * b[x] /\ a[y] = 2 * b[y] /\ b[x] \in Int /\ b[y] \in Int
  BY <1>6, <1>7, <1>2
<1>11. PICK v \in Int, w \in Int : v = b[x] /\ w = b[y]
  BY <1>10
<1>12. (2 * w < 2 * v \/ (2 * w = 2 * v /\ x <= y)) /\ (v < w \/ (v = w /\ y <= x))
  BY <1>9, <1>10, <1>11
<1>13. x = y
  BY <1>6, <1>7, <1>12
<1>. QED
  BY <1>6, <1>8, <1>13 DEF Halves

\* Every row of the series is in whole dollars.
Whole(s, n) ==
  \A i \in 1..n : \E x \in Int, y \in Int :
    /\ s[i].call = x /\ s[i].put = y /\ s[i].net = x - y
    /\ x % 2 = 0 /\ y % 2 = 0

\* Then the one series is the other in another unit.
LEMMA WholeRows ==
  ASSUME NEW n \in Nat, NEW s, NEW u, IsSeries(s, n), IsSeries(u, n), Rounds(s, u, n), Whole(s, n)
  PROVE  /\ Halves(s, u, n)
         /\ \A i \in 1..n :
              /\ s[i].call \in Int /\ u[i].call \in Int /\ s[i].call = 2 * u[i].call
              /\ s[i].put \in Int /\ -u[i].put \in Int /\ s[i].put = 2 * (-u[i].put)
<1>1. ASSUME NEW i \in 1..n
      PROVE  /\ s[i].net = 2 * u[i].net
             /\ s[i].call \in Int /\ u[i].call \in Int /\ s[i].call = 2 * u[i].call
             /\ s[i].put \in Int /\ -u[i].put \in Int /\ s[i].put = 2 * (-u[i].put)
  <2>1. PICK x \in Int, y \in Int :
          /\ s[i].call = x /\ s[i].put = y /\ s[i].net = x - y
          /\ x % 2 = 0 /\ y % 2 = 0
    BY DEF Whole
  <2>2. PICK z \in Int, d \in Int : z = -y /\ d = x - y /\ z % 2 = 0 /\ d % 2 = 0
    BY <2>1
  <2>3. PICK e \in Int : e = Gex!RoundDollar(x) /\ 2 * e = x
    BY <2>1, HalfDollars
  <2>4. PICK f \in Int : f = Gex!RoundDollar(z) /\ 2 * f = z
    BY <2>2, HalfDollars
  <2>5. PICK g \in Int : g = Gex!RoundDollar(d) /\ 2 * g = d
    BY <2>2, HalfDollars
  <2>6. /\ e = Gex!RoundDollar(x) /\ 2 * e = x
        /\ f = Gex!RoundDollar(z) /\ 2 * f = z
        /\ g = Gex!RoundDollar(d) /\ 2 * g = d
    BY <2>3, <2>4, <2>5
  <2>7. u[i].call = e /\ u[i].put = f /\ u[i].net = g
    BY <2>1, <2>2, <2>6 DEF Rounds
  <2>8. -f \in Int /\ y = 2 * (-f)
    BY <2>2, <2>6
  <2>. QED
    BY <2>1, <2>2, <2>6, <2>7, <2>8
<1>. QED
  BY <1>1 DEF Halves, Rounds

\* Then regime, walls and flip are the same.
LEMMA ReadingsAgree ==
  ASSUME NEW c, NEW r, NEW s, NEW u, s = Gex!GexSeries(c), u = Gex!ProfileSeries(r),
         NEW n \in Nat, n > 0, IsSeries(s, n), IsSeries(u, n), Rounds(s, u, n), Whole(s, n)
  PROVE  [Gex!Profile(r) EXCEPT !.net = 2 * @] = Gex!ComputeGex(c)
<1>. DEFINE mirror == [i \in DOMAIN u |-> -u[i].put]
<1>1. /\ Halves(s, u, n)
      /\ \A i \in 1..n :
           /\ s[i].call \in Int /\ u[i].call \in Int /\ s[i].call = 2 * u[i].call
           /\ s[i].put \in Int /\ -u[i].put \in Int /\ s[i].put = 2 * (-u[i].put)
  BY WholeRows
<1>2. DOMAIN s = 1..n /\ DOMAIN u = 1..n
  BY DEF IsSeries
<1>3. Gex!PeakStrike(s, Gex!Calls(s)) = Gex!PeakStrike(u, Gex!Calls(u))
  <2>1. Gex!Calls(s) \in [1..n -> Int] /\ Gex!Calls(u) \in [1..n -> Int]
    BY <1>1, <1>2 DEF Gex!Calls
  <2>2. \A i \in 1..n : Gex!Calls(s)[i] = 2 * Gex!Calls(u)[i]
    BY <1>1, <1>2 DEF Gex!Calls
  <2>3. Doubled(Gex!Calls(s), Gex!Calls(u), n)
    BY <2>1, <2>2 DEF Doubled
  <2>. QED
    BY <1>1, <2>3, PeakOfHalves
<1>4. Gex!PeakStrike(s, Gex!Puts(s)) = Gex!PutWall(u)
  <2>1. Gex!Puts(s) \in [1..n -> Int] /\ mirror \in [1..n -> Int]
    BY <1>1, <1>2 DEF Gex!Puts
  <2>2. \A i \in 1..n : Gex!Puts(s)[i] = 2 * mirror[i]
    BY <1>1, <1>2 DEF Gex!Puts
  <2>3. Gex!PutWall(u) = Gex!PeakStrike(u, mirror)
    BY DEF Gex!PutWall
  <2>. HIDE DEF mirror
  <2>4. Doubled(Gex!Puts(s), mirror, n)
    BY <2>1, <2>2 DEF Doubled
  <2>. QED
    BY <1>1, <2>3, <2>4, PeakOfHalves
<1>5. /\ Gex!InterpolateZeroGamma(s) = Gex!InterpolateZeroGamma(u)
      /\ Gex!Total(Gex!Nets(u)) \in Int
      /\ Gex!Total(Gex!Nets(s)) = 2 * Gex!Total(Gex!Nets(u))
  BY <1>1, FlipOfHalves
<1>6. PICK w \in Int :
        w = Gex!Total(Gex!Nets(u)) /\ Gex!Total(Gex!Nets(s)) = 2 * w
        /\ (w > 0 <=> 2 * w > 0)
  BY <1>5
<1>7. Gex!ComputeGex(c) = [net |-> 2 * w, positive |-> 2 * w > 0,
                           callWall |-> Gex!PeakStrike(s, Gex!Calls(s)),
                           putWall |-> Gex!PeakStrike(s, Gex!Puts(s)),
                           flip |-> Gex!InterpolateZeroGamma(s)]
  BY <1>6 DEF Gex!ComputeGex
<1>8. Gex!Profile(r) = [net |-> w, positive |-> w > 0,
                        callWall |-> Gex!PeakStrike(u, Gex!Calls(u)),
                        putWall |-> Gex!PutWall(u),
                        flip |-> Gex!InterpolateZeroGamma(u)]
  BY <1>6 DEF Gex!Profile
<1>9. [Gex!Profile(r) EXCEPT !.net = 2 * @] =
         [net |-> 2 * w, positive |-> w > 0,
          callWall |-> Gex!PeakStrike(u, Gex!Calls(u)),
          putWall |-> Gex!PutWall(u),
          flip |-> Gex!InterpolateZeroGamma(u)]
  BY <1>8
<1>10. (w > 0) = (2 * w > 0)
  BY <1>6
<1>. QED
  BY <1>3, <1>4, <1>5, <1>7, <1>9, <1>10

LEMMA EnginesOfChain ==
  ASSUME chain \in Seq(Gex!Entries)
  PROVE  EnginesAgree
<1>. DEFINE s == Gex!GexSeries(chain)   r == Gex!Reverse(chain)   u == Gex!ProfileSeries(r)
<1>1. SUFFICES ASSUME chain # <<>>, Gex!Plain, Gex!Complete, Gex!Distinct
               PROVE  /\ Gex!ComputeGex(chain).net - 2 * Gex!Profile(r).net
                           \in (-Len(s))..Len(s)
                      /\ Gex!WholeDollars =>
                           [Gex!Profile(r) EXCEPT !.net = 2 * @] = Gex!ComputeGex(chain)
  BY DEF EnginesAgree, Gex!EnginesAgree
<1>2. Readable(chain)
  BY <1>1 DEF Readable, Gex!Plain, Gex!Complete, Gex!Distinct
<1>3. PICK n \in Nat :
        /\ n > 0 /\ IsSeries(s, n) /\ IsSeries(u, n) /\ Rounds(s, u, n)
        /\ \A i \in 1..n : \E x \in Int, y \in Int :
             /\ s[i].call = x /\ s[i].put = y /\ s[i].net = x - y
             /\ (\A j \in DOMAIN chain : chain[j].amount % 2 = 0) => x % 2 = 0 /\ y % 2 = 0
  BY <1>1, <1>2, EnginesShareRows
<1>4. /\ Gex!ComputeGex(chain).net = Gex!Total(Gex!Nets(s))
      /\ Gex!Profile(r).net = Gex!Total(Gex!Nets(u))
  BY DEF Gex!ComputeGex, Gex!Profile
<1>5. Len(s) = n
  <2>. HIDE DEF s
  <2>. QED
    BY <1>3 DEF IsSeries
<1>6. Gex!ComputeGex(chain).net - 2 * Gex!Profile(r).net \in (-Len(s))..Len(s)
  <2>. HIDE DEF s, r, u
  <2>. QED
    BY <1>3, <1>4, <1>5, TotalsNear
<1>7. ASSUME Gex!WholeDollars
      PROVE  [Gex!Profile(r) EXCEPT !.net = 2 * @] = Gex!ComputeGex(chain)
  <2>1. \A j \in DOMAIN chain : chain[j].amount % 2 = 0
    BY <1>7 DEF Gex!WholeDollars
  <2>2. Whole(s, n)
    <3>. HIDE DEF s, r, u
    <3>. QED
      BY <1>3, <2>1 DEF Whole
  <2>. HIDE DEF r
  <2>. QED
    BY <1>3, <2>2, ReadingsAgree
<1>. QED
  BY <1>6, <1>7

\* The chain is a sequence of entries: the invariant the two theorems below rest on.
GexInv == chain \in Seq(Gex!Entries)

LEMMA GexInvHolds == CalcSpec => []GexInv
<1>1. CalcInit => GexInv
  BY DEF CalcInit, Gex!Init, GexInv
<1>2. ASSUME GexInv, [CalcNext]_calcVars PROVE GexInv'
  <2>1. CASE AskGex
    <3>1. PICK e \in Gex!Entries : chain' = Append(chain, e)
      BY <2>1 DEF AskGex, Gex!Next, Gex!List
    <3>. QED
      BY <1>2, <3>1 DEF GexInv, Gex!Entries
  <2>2. CASE AskCalendar \/ AskProfiles \/ AskFees \/ UNCHANGED calcVars
    <3>1. chain' = chain
      BY <2>2 DEF AskCalendar, AskProfiles, AskFees, calcVars
    <3>. QED
      BY <1>2, <3>1 DEF GexInv, Gex!Entries
  <2>. QED
    BY <1>2, <2>1, <2>2 DEF CalcNext
<1>. QED
  BY <1>1, <1>2, PTL DEF CalcSpec

\* For chains of any length, in any order, with any strikes, gaps and repeats: a
\* missing gamma flip means one regime below every strike, and a flip lies where the
\* running total first turns (interpolate_zero_gamma, nearest_zero_gamma).
THEOREM FlipsTellRegime == CalcSpec => []FlipTellsRegime
<1>1. GexInv => FlipTellsRegime
  BY FlipOfChain DEF GexInv
<1>. QED
  BY <1>1, GexInvHolds, PTL

\* For chains of any length, handed to the engines in opposite orders, in which every
\* type has one letter and every option the multiplier of the call, data and a strike
\* of its own: the dashboard and the trading loop read the same book (compute_gex,
\* compute_gex_profile).
THEOREM EnginesAlwaysAgree == CalcSpec => []EnginesAgree
<1>1. GexInv => EnginesAgree
  BY EnginesOfChain DEF GexInv
<1>. QED
  BY <1>1, GexInvHolds, PTL

=============================================================================
