------------------------- MODULE ChainStreamerProofs -------------------------
(***************************************************************************)
(* Theorems about ChainStreamer, for every set of underlyings, strikes,    *)
(* chains and prices, and every value of the bounds.                       *)
(***************************************************************************)
EXTENDS ChainStreamer, TLAPS

USE ConstantsAssumption

\* An underlying's own symbol is never an option: strikes are positive.
LEMMA SpotsAreNoOptions == Spots \cap Options = {}
  BY DEF Spots, Spot, Options

\* The window of atm_window_syms is drawn from the chain it is given.
LEMMA WindowInChain ==
  ASSUME TypeOK, NEW u \in Underlyings, NEW p
  PROVE  WindowAt(u, p) \in SUBSET Options
  BY DEF TypeOK, WindowAt, AtmWindow, Options

\* The first and the next call of an update are for a kind the engine knows.
LEMMA CallIsOfAKind ==
  /\ 1 \in DOMAIN KindOrder
  /\ \A i \in DOMAIN KindOrder : KindOrder[i] \in Kinds
  BY DEF Kinds

LEMMA NoWantsTyped == NoWants \in [Kinds -> SUBSET Symbols]
  BY DEF NoWants

LEMMA TaskTyped ==
  ASSUME NEW phase \in {"off", "fetch", "idle", "sub", "unsub"},
         NEW p \in Prices \cup {None},
         NEW new \in SUBSET Options, NEW rem \in SUBSET Options
  PROVE  Task(phase, p, new, rem) \in RefresherRecords
  BY CallIsOfAKind DEF Task, RefresherRecords

LEMMA ParkedTyped ==
  ASSUME NEW phase \in {"off", "fetch", "idle"}
  PROVE  Parked(phase) \in RefresherRecords
  BY CallIsOfAKind DEF Task, Parked, RefresherRecords

LEMMA UnappliedTyped == Unapplied \in ApplyRecords
  BY NoWantsTyped DEF Unapplied, ApplyRecords

LEMMA NextCallTyped ==
  ASSUME TypeOK, NEW u \in Underlyings, ~LastCall(u)
  PROVE  [refresher EXCEPT ![u].at = @ + 1] \in [Underlyings -> RefresherRecords]
<1>1. DOMAIN KindOrder = 1..Len(KindOrder) /\ Len(KindOrder) \in Nat
  OBVIOUS
<1>2. refresher[u] \in RefresherRecords
  BY DEF TypeOK
<1>3. refresher[u].at + 1 \in DOMAIN KindOrder
  BY <1>1, <1>2 DEF LastCall, RefresherRecords
<1>4. [refresher[u] EXCEPT !.at = @ + 1] \in RefresherRecords
  BY <1>2, <1>3 DEF RefresherRecords
<1>. QED
  BY <1>4 DEF TypeOK

LEMMA BudgetsTyped ==
  ASSUME left \in Budgets
  PROVE  /\ UseFault => left' \in Budgets
         /\ left.ticks > 0 => [left EXCEPT !.ticks = @ - 1] \in Budgets
         /\ left.legs > 0 => [left EXCEPT !.legs = @ - 1] \in Budgets
<1>. USE DEF Budgets
<1>1. UseFault => left' \in Budgets
  BY DEF UseFault
<1>2. left.ticks > 0 => [left EXCEPT !.ticks = @ - 1] \in Budgets
  OBVIOUS
<1>3. left.legs > 0 => [left EXCEPT !.legs = @ - 1] \in Budgets
  OBVIOUS
<1>. QED
  BY <1>1, <1>2, <1>3

\* A poll starts from symbols the policy may return.
LEMMA ApplyStartsTyped ==
  ASSUME TypeOK, StartApply
  PROVE  apply' \in ApplyRecords
<1>1. \A k \in Kinds : Wanted(k) \in SUBSET Symbols
  BY DEF TypeOK, Wanted, Symbols
<1>2. WindowUnion \in SUBSET Options
  BY DEF TypeOK, WindowUnion
<1>. QED
  BY <1>1, <1>2 DEF StartApply, ApplyRecords

\* Both outcomes of the moment the adds of an update are through.
LEMMA RemoveStaleTyped ==
  ASSUME TypeOK, NEW u \in Underlyings, NEW p \in Prices \cup {None},
         NEW new \in SUBSET Options, RemoveStale(u, p, new)
  PROVE  /\ windowSyms' \in [Underlyings -> SUBSET Options]
         /\ centers' \in [Underlyings -> Prices \cup {None}]
         /\ refresher' \in [Underlyings -> RefresherRecords]
<1>1. SafeRemove(u, new) \in SUBSET Options
  BY DEF TypeOK, SafeRemove
<1>2. CASE WindowMoved(u, p, new)
  BY <1>2, ParkedTyped DEF TypeOK, WindowMoved
<1>3. CASE ~WindowMoved(u, p, new)
  <2>1. Task("unsub", p, new, SafeRemove(u, new)) \in RefresherRecords
    BY <1>1, TaskTyped
  <2>2. /\ refresher' =
             [refresher EXCEPT ![u] = Task("unsub", p, new, SafeRemove(u, new))]
        /\ UNCHANGED <<windowSyms, centers>>
    BY <1>3 DEF RemoveStale, window
  <2>. QED
    BY <2>1, <2>2 DEF TypeOK
<1>. QED
  BY <1>2, <1>3

\* Every step of the specification keeps every variable within its type.
THEOREM TypeCorrect == Spec => []TypeOK
<1>1. Init => TypeOK
  BY NoWantsTyped, ParkedTyped, UnappliedTyped, CallIsOfAKind
  DEF Init, TypeOK, Budgets
<1>2. TypeOK /\ [Next]_vars => TypeOK'
  <2>. SUFFICES ASSUME TypeOK, [Next]_vars PROVE TypeOK'
    OBVIOUS
  <2>. USE DEF TypeOK, window, outside, link
  <2>1. CASE Connect
    BY <2>1, ApplyStartsTyped DEF Connect
  <2>2. CASE Drop
    BY <2>2, NoWantsTyped, ParkedTyped, UnappliedTyped DEF Drop
  <2>3. CASE PollBegin
    BY <2>3, ApplyStartsTyped DEF PollBegin
  <2>4. CASE ApplyUnsubscribe
    BY <2>4 DEF ApplyUnsubscribe, ApplyRecords
  <2>5. CASE ApplyEnd
    BY <2>5, ParkedTyped, UnappliedTyped, NoWantsTyped DEF ApplyEnd
  <2>6. ASSUME NEW k \in Kinds, ApplySubscribe(k) PROVE TypeOK'
    BY <2>6 DEF ApplySubscribe, ApplyRecords, ToAdd
  <2>7. ASSUME NEW k \in Kinds, ApplyFault(k) PROVE TypeOK'
    BY <2>7, UnappliedTyped, BudgetsTyped DEF ApplyFault, ApplyRecords, ToAdd
  <2>8. ASSUME NEW u \in Underlyings, FetchChain(u) PROVE TypeOK'
    BY <2>8, ParkedTyped DEF FetchChain
  <2>9. ASSUME NEW u \in Underlyings, FetchFault(u) PROVE TypeOK'
    BY <2>9, ParkedTyped, BudgetsTyped DEF FetchFault
  <2>10. ASSUME NEW u \in Underlyings, Recenter(u) PROVE TypeOK'
    <3>. DEFINE new == WindowAt(u, price[u])
    <3>1. price[u] \in Prices \cup {None} /\ new \in SUBSET Options
      BY WindowInChain
    <3>. HIDE DEF new
    <3>2. CASE RemoveStale(u, price[u], new)
      <4>1. /\ windowSyms' \in [Underlyings -> SUBSET Options]
            /\ centers' \in [Underlyings -> Prices \cup {None}]
            /\ refresher' \in [Underlyings -> RefresherRecords]
        BY <3>1, <3>2, RemoveStaleTyped
      <4>. QED
        BY <2>10, <4>1 DEF Recenter
    <3>3. CASE ~RemoveStale(u, price[u], new)
      <4>1. Task("sub", price[u], new, {}) \in RefresherRecords
        BY <3>1, TaskTyped
      <4>2. refresher' = [refresher EXCEPT ![u] = Task("sub", price[u], new, {})]
        BY <2>10, <3>3 DEF Recenter, new
      <4>. QED
        BY <2>10, <3>3, <4>1, <4>2 DEF Recenter, new
    <3>. QED BY <3>2, <3>3
  <2>11. ASSUME NEW u \in Underlyings, RefresherSubscribe(u) PROVE TypeOK'
    <3>1. wire' \in [Kinds -> SUBSET Symbols]
      BY <2>11, CallIsOfAKind DEF RefresherSubscribe, WindowAdd, RefresherRecords, Symbols
    <3>2. CASE LastCall(u)
      BY <2>11, <3>1, <3>2, RemoveStaleTyped DEF RefresherSubscribe, RefresherRecords
    <3>3. CASE ~LastCall(u)
      BY <2>11, <3>1, <3>3, NextCallTyped DEF RefresherSubscribe
    <3>. QED BY <3>2, <3>3
  <2>12. ASSUME NEW u \in Underlyings, RefresherUnsubscribe(u) PROVE TypeOK'
    <3>1. wire' \in [Kinds -> SUBSET Symbols]
      BY <2>12, CallIsOfAKind DEF RefresherUnsubscribe
    <3>2. CASE LastCall(u)
      <4>1. refresher[u].price \in Prices \cup {None} /\ refresher[u].new \in SUBSET Options
        BY DEF RefresherRecords
      <4>2. Parked("idle") \in RefresherRecords
        BY ParkedTyped
      <4>3. WindowMoved(u, refresher[u].price, refresher[u].new)
        BY <2>12, <3>2 DEF RefresherUnsubscribe
      <4>4. /\ windowSyms' \in [Underlyings -> SUBSET Options]
            /\ centers' \in [Underlyings -> Prices \cup {None}]
            /\ refresher' \in [Underlyings -> RefresherRecords]
        BY <4>1, <4>2, <4>3 DEF WindowMoved
      <4>. QED
        BY <2>12, <3>1, <4>4 DEF RefresherUnsubscribe
    <3>3. CASE ~LastCall(u)
      BY <2>12, <3>1, <3>3, NextCallTyped DEF RefresherUnsubscribe
    <3>. QED BY <3>2, <3>3
  <2>13. ASSUME NEW u \in Underlyings, RefresherFault(u) PROVE TypeOK'
    <3>1. wire' \in [Kinds -> SUBSET Symbols]
      <4>1. refresher[u] \in RefresherRecords
        OBVIOUS
      <4>2. /\ KindOrder[refresher[u].at] \in Kinds
            /\ WindowAdd(u) \in SUBSET Symbols
        BY <4>1, CallIsOfAKind DEF WindowAdd, RefresherRecords, Symbols
      <4>. QED
        BY <2>13, <4>2 DEF RefresherFault
    <3>. QED
      BY <2>13, <3>1, ParkedTyped, BudgetsTyped DEF RefresherFault, RefresherRecords
  <2>14. ASSUME NEW u \in Underlyings, TradeTick(u) PROVE TypeOK'
    BY <2>14, BudgetsTyped DEF TradeTick
  <2>15. ASSUME NEW s \in LegSymbols, LegChange(s) PROVE TypeOK'
    BY <2>15, BudgetsTyped DEF LegChange
  <2>16. CASE UNCHANGED vars
    BY <2>16 DEF vars
  <2>. QED
    BY <2>1, <2>2, <2>3, <2>4, <2>5, <2>6, <2>7, <2>8, <2>9, <2>10, <2>11,
       <2>12, <2>13, <2>14, <2>15, <2>16 DEF Next
<1>. QED
  BY <1>1, <1>2, PTL DEF Spec

-----------------------------------------------------------------------------
(* SpotFeedKept is not inductive: what holds it up is that every apply wants *)
(* the spots, that the books never claim a spot the wire lacks, and that no  *)
(* refresher removes anything but options.                                   *)

SpotsHeldUp ==
  /\ conn = "opening" => apply.phase # "idle"
  /\ conn = "down" => apply.phase = "idle"
  /\ apply.phase # "idle" => Spots \subseteq apply.want["Trade"]
  /\ reconnects = 0 =>
       /\ Spots \cap subscribed["Trade"] \subseteq wire["Trade"]
       /\ apply.phase = "unsub" /\ apply.kind = "Trade" => Spots \subseteq wire["Trade"]
       /\ \/ conn = "up"
          \/ conn = "opening" /\ "Trade" \notin apply.todo
          => Spots \subseteq subscribed["Trade"]

\* Every apply wants the spots.
LEMMA SpotsWanted ==
  ASSUME StartApply
  PROVE  Spots \subseteq apply'.want["Trade"] /\ apply'.phase = "next" /\ "Trade" \in apply'.todo
  BY PolicyAssumption DEF StartApply, Wanted

\* No step but the loss of the connection takes a spot off the wire.
LEMMA SpotsStayOnWire ==
  ASSUME TypeOK, SpotsHeldUp, Next, ~Drop
  PROVE  wire["Trade"] \cap Spots \subseteq wire'["Trade"]
<1>. USE DEF link, outside
<1>1. ASSUME apply.phase # "idle"
      PROVE  ToRemove("Trade") \cap Spots = {}
  BY <1>1 DEF SpotsHeldUp, ToRemove
<1>2. wire \in [Kinds -> SUBSET Symbols]
  BY DEF TypeOK
<1>3. CASE UNCHANGED wire
  BY <1>3
<1>4. CASE ApplyUnsubscribe
  BY <1>1, <1>2, <1>4 DEF ApplyUnsubscribe
<1>5. ASSUME NEW k \in Kinds, ApplySubscribe(k)
      PROVE  wire["Trade"] \cap Spots \subseteq wire'["Trade"]
  BY <1>2, <1>5 DEF ApplySubscribe
<1>6. ASSUME NEW k \in Kinds, ApplyFault(k)
      PROVE  wire["Trade"] \cap Spots \subseteq wire'["Trade"]
  BY <1>1, <1>2, <1>6 DEF ApplyFault
<1>7. ASSUME NEW u \in Underlyings, RefresherSubscribe(u)
      PROVE  wire["Trade"] \cap Spots \subseteq wire'["Trade"]
  BY <1>2, <1>7 DEF RefresherSubscribe
<1>8. ASSUME NEW u \in Underlyings
      PROVE  refresher[u].rem \cap Spots = {}
  BY SpotsAreNoOptions DEF TypeOK, RefresherRecords
<1>9. ASSUME NEW u \in Underlyings, RefresherUnsubscribe(u)
      PROVE  wire["Trade"] \cap Spots \subseteq wire'["Trade"]
  BY <1>2, <1>8, <1>9 DEF RefresherUnsubscribe
<1>10. ASSUME NEW u \in Underlyings, RefresherFault(u)
       PROVE  wire["Trade"] \cap Spots \subseteq wire'["Trade"]
  BY <1>2, <1>8, <1>10 DEF RefresherFault
<1>. QED
  BY <1>3, <1>4, <1>5, <1>6, <1>7, <1>9, <1>10
  DEF Next, Connect, PollBegin, ApplyEnd, FetchChain, FetchFault, Recenter,
      TradeTick, LegChange

LEMMA SpotsHeldUpStep ==
  ASSUME TypeOK, TypeOK', SpotsHeldUp, [Next]_vars
  PROVE  SpotsHeldUp'
<1>. USE DEF SpotsHeldUp, link, outside
<1>1. CASE UNCHANGED vars
  BY <1>1 DEF vars
<1>2. CASE Drop
  BY <1>2 DEF Drop, Unapplied, TypeOK
<1>3. CASE Next /\ ~Drop
  <2>. DEFINE Kept == wire["Trade"] \cap Spots \subseteq wire'["Trade"]
  <2>0. Kept
    BY <1>3, SpotsStayOnWire
  <2>1. CASE Connect
    BY <2>1, SpotsWanted DEF Connect
  <2>2. CASE PollBegin
    BY <2>2, SpotsWanted DEF PollBegin
  <2>3. CASE ApplyUnsubscribe
    <3>1. CASE apply.kind = "Trade"
      BY <2>0, <2>3, <3>1 DEF ApplyUnsubscribe, TypeOK, ApplyRecords
    <3>2. CASE apply.kind # "Trade"
      BY <2>0, <2>3, <3>2 DEF ApplyUnsubscribe, TypeOK, ApplyRecords
    <3>. QED BY <3>1, <3>2
  <2>4. CASE ApplyEnd
    <3>1. conn \in {"opening", "up"}
      BY <2>4 DEF ApplyEnd, TypeOK
    <3>. QED
      BY <2>0, <2>4, <3>1 DEF ApplyEnd, Unapplied
  <2>5. ASSUME NEW k \in Kinds, ApplySubscribe(k) PROVE SpotsHeldUp'
    <3>1. CASE k = "Trade"
      BY <2>0, <2>5, <3>1 DEF ApplySubscribe, ToAdd, TypeOK, ApplyRecords
    <3>2. CASE k # "Trade"
      BY <2>0, <2>5, <3>2 DEF ApplySubscribe, TypeOK, ApplyRecords
    <3>. QED BY <3>1, <3>2
  <2>6. ASSUME NEW k \in Kinds, ApplyFault(k) PROVE SpotsHeldUp'
    BY <2>0, <2>6 DEF ApplyFault, Unapplied
  <2>7. CASE UNCHANGED <<link, subscribed, apply>>
    BY <2>0, <2>7
  <2>. QED
    BY <1>3, <2>1, <2>2, <2>3, <2>4, <2>5, <2>6, <2>7
    DEF Next, FetchChain, FetchFault, Recenter, RefresherSubscribe,
        RefresherUnsubscribe, RefresherFault, TradeTick, LegChange
<1>. QED
  BY <1>1, <1>2, <1>3

\* On the first connection the engine never loses the trades of its
\* underlyings, whatever polls, window updates, faults and leg changes meet.
THEOREM SpotFeedIsKept == Spec => []SpotFeedKept
<1>1. Init => SpotsHeldUp
  BY DEF Init, SpotsHeldUp, Unapplied, NoWants
<1>2. SpotsHeldUp => SpotFeedKept
  BY DEF SpotsHeldUp, SpotFeedKept
<1>. QED
  BY <1>1, <1>2, SpotsHeldUpStep, TypeCorrect, PTL DEF Spec

-----------------------------------------------------------------------------
(* Windows on the move.  An option that the consumer never trades is touched *)
(* by the updates of one window only, since the polls claim nothing but      *)
(* spots and legs.  What the feed holds of such options while an update is   *)
(* under way depends on how many of its calls have been made.                *)

Claimable == Spots \cup LegSymbols

\* What polls compare and want.
PollsClaim ==
  \A k \in Kinds : subscribed[k] \subseteq Claimable /\ apply.want[k] \subseteq Claimable

Free(u)   == OptionsOf(u) \ LegSymbols
Fed(u, k) == wire[k] \cap Free(u)
Held(u)   == windowSyms[u] \cap Free(u)
Coming(u) == refresher[u].new \cap Free(u)

\* The update under way has made its call for this kind.
CallMade(u, k) == \E i \in 1..(refresher[u].at - 1) : KindOrder[i] = k

\* Between the old window and the new: a kind whose call is made has arrived.
CallsInFlight(u) ==
  /\ windowSyms[u] \subseteq OptionsOf(u)
  /\ refresher[u].phase \in {"off", "fetch", "idle"} =>
       \A k \in Kinds : Fed(u, k) = Held(u)
  /\ refresher[u].phase = "sub" =>
       \A k \in Kinds :
         /\ Held(u) \subseteq Fed(u, k) /\ Fed(u, k) \subseteq Held(u) \cup Coming(u)
         /\ CallMade(u, k) => Coming(u) \subseteq Fed(u, k)
  /\ refresher[u].phase = "unsub" =>
       /\ Held(u) \ Coming(u) \subseteq refresher[u].rem
       /\ refresher[u].rem \subseteq OptionsOf(u) \ refresher[u].new
       /\ \A k \in Kinds :
            /\ Coming(u) \subseteq Fed(u, k) /\ Fed(u, k) \subseteq Held(u) \cup Coming(u)
            /\ CallMade(u, k) => Fed(u, k) \subseteq Coming(u)

\* What an update moves to, or has moved to, is the window around its price.
CentreKnown(u) ==
  /\ refresher[u].phase \in {"off", "fetch"} => centers[u] = None
  /\ refresher[u].phase = "idle" /\ centers[u] # None =>
       windowSyms[u] = WindowAt(u, centers[u])
  /\ Moving(u) => refresher[u].new = WindowAt(u, refresher[u].price)

WindowInv(u) == CallsInFlight(u) /\ CentreKnown(u)

WindowsInv ==
  Undisturbed =>
    /\ conn # "up" => \A u \in Underlyings : refresher[u].phase = "off"
    /\ \A u \in Underlyings : WindowInv(u)

-----------------------------------------------------------------------------
(* The polls keep away from what they do not claim *)

LEMMA FreeIsUnclaimed ==
  ASSUME NEW u \in Underlyings
  PROVE  Free(u) \cap Claimable = {}
BY DEF Free, Claimable, OptionsOf, Spots, Spot

LEMMA FreeIsOwn ==
  ASSUME NEW u \in Underlyings, NEW v \in Underlyings, u # v
  PROVE  Free(u) \cap OptionsOf(v) = {}
BY DEF Free, OptionsOf

LEMMA WantsAreClaimable ==
  ASSUME TypeOK, NEW k
  PROVE  Wanted(k) \subseteq Claimable
BY DEF TypeOK, Wanted, Claimable

LEMMA PollsClaimInit == Init => PollsClaim
BY DEF Init, PollsClaim, Unapplied, NoWants

LEMMA PollsClaimStep ==
  ASSUME TypeOK, PollsClaim, [Next]_vars
  PROVE  PollsClaim'
<1>. USE DEF PollsClaim, link, outside
<1>1. ASSUME StartApply, UNCHANGED subscribed PROVE PollsClaim'
  BY <1>1, WantsAreClaimable DEF StartApply
<1>2. ASSUME apply' = Unapplied, UNCHANGED subscribed PROVE PollsClaim'
  BY <1>2 DEF Unapplied, NoWants
<1>3. ASSUME UNCHANGED subscribed, apply'.want = apply.want PROVE PollsClaim'
  BY <1>3
<1>4. CASE Connect \/ PollBegin
  BY <1>1, <1>4 DEF Connect, PollBegin
<1>5. CASE Drop \/ ApplyEnd \/ \E k \in Kinds : ApplyFault(k)
  BY <1>2, <1>5 DEF Drop, ApplyEnd, ApplyFault
<1>6. ASSUME NEW k \in Kinds, ApplySubscribe(k) PROVE PollsClaim'
  <2>1. apply'.want = apply.want
    BY <1>6 DEF ApplySubscribe, TypeOK, ApplyRecords
  <2>. QED
    BY <1>3, <1>6, <2>1 DEF ApplySubscribe
<1>7. CASE ApplyUnsubscribe
  <2>1. apply'.want = apply.want
    BY <1>7 DEF ApplyUnsubscribe, TypeOK, ApplyRecords
  <2>2. \A k \in Kinds : subscribed'[k] \in {subscribed[k], apply.want[k]}
    BY <1>7 DEF ApplyUnsubscribe, TypeOK
  <2>. QED
    BY <2>1, <2>2
<1>8. CASE UNCHANGED <<subscribed, apply>>
  BY <1>3, <1>8
<1>. QED
  BY <1>4, <1>5, <1>6, <1>7, <1>8
  DEF Next, vars, FetchChain, FetchFault, Recenter, RefresherSubscribe,
      RefresherUnsubscribe, RefresherFault, TradeTick, LegChange

\* The steps of a poll that does not fail.
Polling ==
  \/ Connect \/ PollBegin \/ ApplyUnsubscribe \/ ApplyEnd
  \/ \E k \in Kinds : ApplySubscribe(k)

LEMMA PollsKeepAway ==
  ASSUME TypeOK, PollsClaim, Polling, NEW u \in Underlyings, NEW k \in Kinds
  PROVE  Fed(u, k)' = Fed(u, k)
<1>. USE FreeIsUnclaimed DEF Fed, PollsClaim
<1>1. CASE ApplyUnsubscribe
  <2>1. ToRemove(apply.kind) \cap Free(u) = {} \/ apply.kind \notin Kinds
    BY DEF ToRemove
  <2>. QED
    BY <1>1, <2>1 DEF ApplyUnsubscribe, TypeOK
<1>2. ASSUME NEW j \in Kinds, ApplySubscribe(j) PROVE Fed(u, k)' = Fed(u, k)
  <2>1. ToAdd(j) \cap Free(u) = {}
    BY DEF ToAdd
  <2>. QED
    BY <1>2, <2>1 DEF ApplySubscribe, TypeOK
<1>3. CASE UNCHANGED wire
  BY <1>3
<1>. QED
  BY <1>1, <1>2, <1>3 DEF Polling, Connect, PollBegin, ApplyEnd

-----------------------------------------------------------------------------
(* The steps of an update *)

\* Nothing that an underlying's window depends on changes.
Unmoved(u) ==
  /\ refresher'[u] = refresher[u] /\ windowSyms'[u] = windowSyms[u]
  /\ centers'[u] = centers[u] /\ chains'[u] = chains[u]
  /\ \A k \in Kinds : Fed(u, k)' = Fed(u, k)

LEMMA UnmovedKeeps ==
  ASSUME NEW u \in Underlyings, Unmoved(u), WindowInv(u)
  PROVE  WindowInv(u)'
<1>. USE DEF Unmoved
<1>1. CallsInFlight(u)'
  BY DEF WindowInv, CallsInFlight, Held, Coming, CallMade
<1>2. CentreKnown(u)'
  BY DEF WindowInv, CentreKnown, Moving, WindowAt
<1>. QED
  BY <1>1, <1>2 DEF WindowInv

LEMMA WindowAtIsOwn ==
  ASSUME TypeOK, NEW u \in Underlyings, NEW p
  PROVE  WindowAt(u, p) \subseteq OptionsOf(u)
BY DEF TypeOK, WindowAt, AtmWindow, OptionsOf

LEMMA NextCall ==
  ASSUME TypeOK, NEW u \in Underlyings,
         refresher' = [refresher EXCEPT ![u].at = @ + 1]
  PROVE  /\ refresher'[u].phase = refresher[u].phase
         /\ refresher'[u].new = refresher[u].new
         /\ refresher'[u].rem = refresher[u].rem
         /\ refresher'[u].price = refresher[u].price
         /\ refresher'[u].at = refresher[u].at + 1
BY DEF TypeOK, RefresherRecords

\* The first call made is for the first kind; and after the last one, every
\* kind's is.
LEMMA CallsMade ==
  ASSUME NEW u \in Underlyings, refresher[u].at \in DOMAIN KindOrder, NEW k \in Kinds
  PROVE  /\ refresher'[u].at = 1 => ~CallMade(u, k)'
         /\ refresher'[u].at = refresher[u].at + 1 /\ CallMade(u, k)' =>
              CallMade(u, k) \/ k = KindOrder[refresher[u].at]
         /\ LastCall(u) => CallMade(u, k) \/ k = KindOrder[refresher[u].at]
<1>1. DOMAIN KindOrder = 1..Len(KindOrder) /\ Len(KindOrder) \in Nat
  OBVIOUS
<1>2. refresher'[u].at = 1 => ~CallMade(u, k)'
  BY DEF CallMade
<1>3. ASSUME refresher'[u].at = refresher[u].at + 1, CallMade(u, k)'
      PROVE  CallMade(u, k) \/ k = KindOrder[refresher[u].at]
  BY <1>1, <1>3 DEF CallMade
<1>4. ASSUME LastCall(u)
      PROVE  CallMade(u, k) \/ k = KindOrder[refresher[u].at]
  <2>1. PICK i \in DOMAIN KindOrder : k = KindOrder[i]
    BY DEF Kinds
  <2>2. i \in 1..(refresher[u].at - 1) \/ i = refresher[u].at
    BY <1>1, <1>4 DEF LastCall
  <2>. QED
    BY <2>1, <2>2 DEF CallMade
<1>. QED
  BY <1>2, <1>3, <1>4

\* The adds are through, or there were none: the update ends here, or goes on
\* with removals.
LEMMA RemoveStaleKeeps ==
  ASSUME TypeOK, NEW u \in Underlyings, NEW p, NEW new, RemoveStale(u, p, new),
         UNCHANGED chains,
         new = WindowAt(u, p), windowSyms[u] \subseteq OptionsOf(u),
         \A k \in Kinds : /\ new \cap Free(u) \subseteq Fed(u, k)'
                          /\ Fed(u, k)' \subseteq Held(u) \cup new
  PROVE  WindowInv(u)'
<1>1. new \subseteq OptionsOf(u) /\ new = WindowAt(u, p)'
  BY WindowAtIsOwn DEF WindowAt
<1>. HIDE DEF WindowAt
<1>2. legs \cap Free(u) = {}
  BY DEF TypeOK, Free
<1>3. CASE SafeRemove(u, new) = {} /\ WindowMoved(u, p, new)
  <2>1. /\ refresher'[u] = Parked("idle") /\ windowSyms'[u] = new /\ centers'[u] = p
    BY <1>3 DEF WindowMoved, TypeOK
  <2>2. refresher'[u].phase = "idle"
    BY <2>1 DEF Parked, Task
  <2>3. Held(u) \subseteq new
    BY <1>2, <1>3 DEF SafeRemove, Held
  <2>4. \A k \in Kinds : Fed(u, k)' = Held(u)'
    BY <2>1, <2>3 DEF Held, Fed
  <2>5. CallsInFlight(u)'
    BY <1>1, <2>1, <2>2, <2>4 DEF CallsInFlight
  <2>6. CentreKnown(u)'
    BY <1>1, <2>1, <2>2 DEF CentreKnown, Moving
  <2>. QED
    BY <2>5, <2>6 DEF WindowInv
<1>4. CASE ~(SafeRemove(u, new) = {} /\ WindowMoved(u, p, new))
  <2>1. /\ refresher'[u] = Task("unsub", p, new, SafeRemove(u, new))
        /\ windowSyms' = windowSyms
    BY <1>4 DEF RemoveStale, window, TypeOK
  <2>2. /\ refresher'[u].phase = "unsub" /\ refresher'[u].new = new
        /\ refresher'[u].rem = SafeRemove(u, new)
        /\ refresher'[u].price = p /\ refresher'[u].at = 1
    BY <2>1 DEF Task
  <2>3. \A k \in Kinds : ~CallMade(u, k)'
    BY <2>2 DEF CallMade
  <2>4. /\ Held(u)' = Held(u) /\ Coming(u)' = new \cap Free(u)
    BY <2>1, <2>2 DEF Held, Coming
  <2>5. /\ Held(u) \ new \subseteq SafeRemove(u, new)
        /\ SafeRemove(u, new) \subseteq OptionsOf(u) \ new
    BY <1>2 DEF SafeRemove, Held
  <2>6. \A k \in Kinds : /\ Coming(u)' \subseteq Fed(u, k)'
                         /\ Fed(u, k)' \subseteq Held(u)' \cup Coming(u)'
    BY <2>4 DEF Fed
  <2>7. CallsInFlight(u)'
    <3>1. Held(u)' \ Coming(u)' \subseteq refresher'[u].rem
      BY <2>2, <2>4, <2>5 DEF Held
    <3>. QED
      BY <2>1, <2>2, <2>3, <2>5, <2>6, <3>1 DEF CallsInFlight
  <2>8. CentreKnown(u)'
    BY <1>1, <2>2 DEF CentreKnown, Moving
  <2>. QED
    BY <2>7, <2>8 DEF WindowInv
<1>. QED
  BY <1>3, <1>4

LEMMA FetchKeeps ==
  ASSUME TypeOK, NEW u \in Underlyings, FetchChain(u), WindowInv(u)
  PROVE  WindowInv(u)'
<1>1. refresher'[u].phase = "idle" /\ refresher[u].phase = "fetch"
  BY DEF FetchChain, TypeOK, Parked, Task
<1>2. UNCHANGED <<wire, windowSyms, centers>>
  BY DEF FetchChain, window
<1>. QED
  BY <1>1, <1>2 DEF WindowInv, CallsInFlight, CentreKnown, Moving, Fed, Held

LEMMA RecenterKeeps ==
  ASSUME TypeOK, NEW u \in Underlyings, Recenter(u), WindowInv(u)
  PROVE  WindowInv(u)'
<1>. DEFINE new == WindowAt(u, price[u])
<1>1. /\ refresher[u].phase = "idle" /\ UNCHANGED <<wire, chains>>
      /\ windowSyms[u] \subseteq OptionsOf(u)
      /\ \A k \in Kinds : Fed(u, k)' = Held(u)
  BY DEF Recenter, WindowInv, CallsInFlight, Fed
<1>2. new \subseteq OptionsOf(u) /\ new = WindowAt(u, price[u])'
  BY <1>1, WindowAtIsOwn DEF Recenter, outside, WindowAt
<1>3. CASE new \subseteq windowSyms[u] /\ RemoveStale(u, price[u], new)
  <2>1. \A k \in Kinds : /\ new \cap Free(u) \subseteq Fed(u, k)'
                         /\ Fed(u, k)' \subseteq Held(u) \cup new
    BY <1>1, <1>3 DEF Held
  <2>. HIDE DEF new
  <2>. QED
    BY <1>1, <1>3, <2>1, RemoveStaleKeeps DEF new
<1>4. CASE ~(new \subseteq windowSyms[u] /\ RemoveStale(u, price[u], new))
  <2>1. /\ refresher'[u] = Task("sub", price[u], new, {})
        /\ windowSyms' = windowSyms
    BY <1>4 DEF Recenter, window, TypeOK
  <2>. HIDE DEF new
  <2>2. /\ refresher'[u].phase = "sub" /\ refresher'[u].new = new
        /\ refresher'[u].price = price[u] /\ refresher'[u].at = 1
    BY <2>1 DEF Task
  <2>3. \A k \in Kinds : ~CallMade(u, k)'
    BY <2>2 DEF CallMade
  <2>4. Held(u)' = Held(u)
    BY <2>1 DEF Held
  <2>5. CallsInFlight(u)'
    BY <1>1, <2>1, <2>2, <2>3, <2>4 DEF CallsInFlight
  <2>6. price' = price
    BY DEF Recenter, outside
  <2>7. CentreKnown(u)'
    BY <1>2, <2>2, <2>6 DEF CentreKnown, Moving
  <2>. QED
    BY <2>5, <2>7 DEF WindowInv
<1>. QED
  BY <1>3, <1>4

LEMMA SubscribeKeeps ==
  ASSUME TypeOK, NEW u \in Underlyings, RefresherSubscribe(u), WindowInv(u)
  PROVE  WindowInv(u)'
<1>. DEFINE r == refresher[u]
            new == refresher[u].new
            kind == KindOrder[refresher[u].at]
<1>1. /\ r.phase = "sub" /\ UNCHANGED chains
      /\ wire' = [wire EXCEPT ![kind] = @ \cup (new \ windowSyms[u])]
  BY DEF RefresherSubscribe, WindowAdd
<1>2. /\ windowSyms[u] \subseteq OptionsOf(u)
      /\ \A k \in Kinds :
           /\ Held(u) \subseteq Fed(u, k) /\ Fed(u, k) \subseteq Held(u) \cup Coming(u)
           /\ CallMade(u, k) => Coming(u) \subseteq Fed(u, k)
      /\ new = WindowAt(u, r.price)
  BY <1>1 DEF WindowInv, CallsInFlight, CentreKnown, Moving
<1>3. r.at \in DOMAIN KindOrder /\ kind \in Kinds
  BY CallIsOfAKind DEF TypeOK, RefresherRecords
<1>. HIDE DEF kind
<1>4. \A k \in Kinds : wire'[k] = IF k = kind THEN wire[k] \cup (new \ windowSyms[u])
                                              ELSE wire[k]
  BY <1>1, <1>3 DEF TypeOK
<1>5. \A k \in Kinds :
        /\ Held(u) \subseteq Fed(u, k)' /\ Fed(u, k)' \subseteq Held(u) \cup Coming(u)
        /\ k = kind \/ CallMade(u, k) => Coming(u) \subseteq Fed(u, k)'
  BY <1>2, <1>4 DEF Fed, Held, Coming
<1>6. CASE LastCall(u)
  <2>1. \A k \in Kinds : k = kind \/ CallMade(u, k)
    BY <1>3, <1>6, CallsMade DEF kind
  <2>2. \A k \in Kinds : /\ new \cap Free(u) \subseteq Fed(u, k)'
                         /\ Fed(u, k)' \subseteq Held(u) \cup new
    BY <1>5, <2>1 DEF Coming
  <2>3. RemoveStale(u, r.price, new)
    BY <1>6 DEF RefresherSubscribe
  <2>. QED
    BY <1>1, <1>2, <2>2, <2>3, RemoveStaleKeeps
<1>7. CASE ~LastCall(u)
  <2>1. refresher' = [refresher EXCEPT ![u].at = @ + 1] /\ UNCHANGED <<windowSyms, centers>>
    BY <1>7 DEF RefresherSubscribe, window
  <2>2. /\ refresher'[u].phase = "sub" /\ refresher'[u].new = new
        /\ refresher'[u].price = r.price /\ refresher'[u].at = r.at + 1
    BY <1>1, <2>1, NextCall
  <2>3. \A k \in Kinds : CallMade(u, k)' => CallMade(u, k) \/ k = kind
    BY <1>3, <2>2, CallsMade DEF kind
  <2>4. Held(u)' = Held(u) /\ Coming(u)' = Coming(u)
    BY <2>1, <2>2 DEF Held, Coming
  <2>5. CallsInFlight(u)'
    BY <1>2, <1>5, <2>1, <2>2, <2>3, <2>4 DEF CallsInFlight
  <2>6. CentreKnown(u)'
    BY <1>1, <1>2, <2>2 DEF CentreKnown, Moving, WindowAt
  <2>. QED
    BY <2>5, <2>6 DEF WindowInv
<1>. QED
  BY <1>6, <1>7

LEMMA UnsubscribeKeeps ==
  ASSUME TypeOK, NEW u \in Underlyings, RefresherUnsubscribe(u), WindowInv(u)
  PROVE  WindowInv(u)'
<1>. DEFINE r == refresher[u]
            new == refresher[u].new
            kind == KindOrder[refresher[u].at]
<1>1. /\ r.phase = "unsub" /\ UNCHANGED chains
      /\ wire' = [wire EXCEPT ![kind] = @ \ r.rem]
  BY DEF RefresherUnsubscribe
<1>2. /\ windowSyms[u] \subseteq OptionsOf(u)
      /\ Held(u) \ Coming(u) \subseteq r.rem
      /\ r.rem \subseteq OptionsOf(u) \ new
      /\ \A k \in Kinds :
           /\ Coming(u) \subseteq Fed(u, k) /\ Fed(u, k) \subseteq Held(u) \cup Coming(u)
           /\ CallMade(u, k) => Fed(u, k) \subseteq Coming(u)
      /\ new = WindowAt(u, r.price)
  BY <1>1 DEF WindowInv, CallsInFlight, CentreKnown, Moving
<1>3. r.at \in DOMAIN KindOrder /\ kind \in Kinds
  BY CallIsOfAKind DEF TypeOK, RefresherRecords
<1>. HIDE DEF kind
<1>4. \A k \in Kinds : wire'[k] = IF k = kind THEN wire[k] \ r.rem ELSE wire[k]
  BY <1>1, <1>3 DEF TypeOK
<1>5. \A k \in Kinds :
        /\ Coming(u) \subseteq Fed(u, k)' /\ Fed(u, k)' \subseteq Held(u) \cup Coming(u)
        /\ k = kind \/ CallMade(u, k) => Fed(u, k)' \subseteq Coming(u)
  <2>1. r.rem \cap Coming(u) = {}
    BY <1>2 DEF Coming
  <2>2. ASSUME NEW k \in Kinds
        PROVE  Fed(u, k)' = IF k = kind THEN Fed(u, k) \ r.rem ELSE Fed(u, k)
    BY <1>4 DEF Fed
  <2>. QED
    BY <1>2, <2>1, <2>2
<1>6. CASE LastCall(u)
  <2>1. \A k \in Kinds : k = kind \/ CallMade(u, k)
    BY <1>3, <1>6, CallsMade DEF kind
  <2>2. WindowMoved(u, r.price, new)
    BY <1>6 DEF RefresherUnsubscribe
  <2>3. /\ refresher'[u].phase = "idle" /\ windowSyms'[u] = new /\ centers'[u] = r.price
    BY <2>2 DEF WindowMoved, TypeOK, Parked, Task
  <2>4. \A k \in Kinds : Fed(u, k)' = Held(u)'
    BY <1>5, <2>1, <2>3 DEF Coming, Held, Fed
  <2>5. new \subseteq OptionsOf(u)
    BY <1>2, WindowAtIsOwn
  <2>6. CallsInFlight(u)'
    BY <2>3, <2>4, <2>5 DEF CallsInFlight
  <2>7. CentreKnown(u)'
    BY <1>1, <1>2, <2>3 DEF CentreKnown, Moving, WindowAt
  <2>. QED
    BY <2>6, <2>7 DEF WindowInv
<1>7. CASE ~LastCall(u)
  <2>1. refresher' = [refresher EXCEPT ![u].at = @ + 1] /\ UNCHANGED <<windowSyms, centers>>
    BY <1>7 DEF RefresherUnsubscribe, window
  <2>2. /\ refresher'[u].phase = "unsub" /\ refresher'[u].new = new
        /\ refresher'[u].rem = r.rem
        /\ refresher'[u].price = r.price /\ refresher'[u].at = r.at + 1
    BY <1>1, <2>1, NextCall
  <2>3. \A k \in Kinds : CallMade(u, k)' => CallMade(u, k) \/ k = kind
    BY <1>3, <2>2, CallsMade DEF kind
  <2>4. Held(u)' = Held(u) /\ Coming(u)' = Coming(u)
    BY <2>1, <2>2 DEF Held, Coming
  <2>5. CallsInFlight(u)'
    BY <1>2, <1>5, <2>1, <2>2, <2>3, <2>4 DEF CallsInFlight
  <2>6. CentreKnown(u)'
    BY <1>1, <1>2, <2>2 DEF CentreKnown, Moving, WindowAt
  <2>. QED
    BY <2>5, <2>6 DEF WindowInv
<1>. QED
  BY <1>6, <1>7

-----------------------------------------------------------------------------
(* Every step *)

Updating(u) ==
  FetchChain(u) \/ Recenter(u) \/ RefresherSubscribe(u) \/ RefresherUnsubscribe(u)

\* An update touches the options of its own underlying.
LEMMA OthersUnmoved ==
  ASSUME TypeOK, NEW u \in Underlyings, NEW v \in Underlyings, u # v,
         WindowInv(v), Updating(v)
  PROVE  Unmoved(u)
<1>1. /\ refresher'[u] = refresher[u] /\ windowSyms'[u] = windowSyms[u]
      /\ centers'[u] = centers[u] /\ chains'[u] = chains[u]
  BY DEF Updating, FetchChain, Recenter, RefresherSubscribe, RefresherUnsubscribe,
         RemoveStale, WindowMoved, window, TypeOK
<1>2. Free(u) \cap OptionsOf(v) = {}
  BY FreeIsOwn
<1>3. ASSUME NEW k \in Kinds PROVE Fed(u, k)' = Fed(u, k)
  <2>1. CASE RefresherSubscribe(v)
    <3>1. refresher[v].new \subseteq OptionsOf(v)
      BY <2>1, WindowAtIsOwn DEF RefresherSubscribe, WindowInv, CentreKnown, Moving
    <3>. QED
      BY <1>2, <2>1, <3>1 DEF RefresherSubscribe, WindowAdd, Fed, TypeOK
  <2>2. CASE RefresherUnsubscribe(v)
    <3>1. refresher[v].rem \subseteq OptionsOf(v)
      BY <2>2 DEF RefresherUnsubscribe, WindowInv, CallsInFlight
    <3>. QED
      BY <1>2, <2>2, <3>1 DEF RefresherUnsubscribe, Fed, TypeOK
  <2>3. CASE UNCHANGED wire
    BY <2>3 DEF Fed
  <2>. QED
    BY <2>1, <2>2, <2>3 DEF Updating, FetchChain, Recenter
<1>. QED
  BY <1>1, <1>3 DEF Unmoved

LEMMA StillUndisturbed ==
  ASSUME TypeOK, Next, Undisturbed'
  PROVE  Undisturbed /\ ~Drop /\ ~UseFault
<1>1. left.faults \in 0..MaxFaults /\ reconnects \in Nat
  BY DEF TypeOK, Budgets
<1>2. ~UseFault
  <2>. SUFFICES ASSUME UseFault PROVE FALSE
    OBVIOUS
  <2>1. left'.faults = left.faults - 1
    BY DEF UseFault, TypeOK, Budgets
  <2>. QED
    BY <1>1, <2>1 DEF Undisturbed
<1>3. ~Drop
  BY <1>1 DEF Drop, Undisturbed
<1>4. reconnects' = reconnects
  BY <1>2, <1>3
  DEF Next, Connect, PollBegin, ApplyUnsubscribe, ApplyEnd, ApplySubscribe,
      ApplyFault, FetchChain, FetchFault, Recenter, RefresherSubscribe,
      RefresherUnsubscribe, RefresherFault, TradeTick, LegChange, link
<1>5. left'.faults = left.faults
  BY <1>2, <1>3
  DEF Next, Connect, PollBegin, ApplyUnsubscribe, ApplyEnd, ApplySubscribe,
      ApplyFault, FetchChain, FetchFault, Recenter, RefresherSubscribe,
      RefresherUnsubscribe, RefresherFault, TradeTick, LegChange, outside,
      TypeOK, Budgets
<1>. QED
  BY <1>2, <1>3, <1>4, <1>5 DEF Undisturbed

LEMMA WindowsStep ==
  ASSUME TypeOK, PollsClaim, WindowsInv, [Next]_vars
  PROVE  WindowsInv'
<1>. SUFFICES ASSUME Undisturbed'
              PROVE  /\ conn' # "up" => \A u \in Underlyings : refresher'[u].phase = "off"
                     /\ \A u \in Underlyings : WindowInv(u)'
  BY DEF WindowsInv
<1>1. CASE UNCHANGED vars
  BY <1>1 DEF vars, link, window, outside, WindowsInv, Undisturbed, WindowInv,
     CallsInFlight, CentreKnown, Fed, Held, Coming, CallMade, Moving, WindowAt
<1>2. CASE Next
  <2>1. Undisturbed /\ ~Drop /\ ~UseFault
    BY <1>2, StillUndisturbed
  <2>2. /\ conn # "up" => \A u \in Underlyings : refresher[u].phase = "off"
        /\ \A u \in Underlyings : WindowInv(u)
    BY <2>1 DEF WindowsInv
  <2>3. CASE Polling /\ UNCHANGED refresher
    <3>1. \A u \in Underlyings : Unmoved(u)
      BY <2>3, PollsKeepAway DEF Unmoved, Polling, Connect, PollBegin,
         ApplyUnsubscribe, ApplyEnd, ApplySubscribe, window
    <3>2. conn' # "up" => conn # "up"
      BY <2>3 DEF Polling, Connect, PollBegin, ApplyUnsubscribe, ApplyEnd,
         ApplySubscribe, link
    <3>. QED
      BY <2>2, <2>3, <3>1, <3>2, UnmovedKeeps
  <2>4. CASE ApplyEnd /\ ~UNCHANGED refresher
    <3>1. /\ conn' = "up" /\ UNCHANGED <<wire, window, chains>>
          /\ \A u \in Underlyings : refresher'[u].phase = "fetch"
      BY <2>4 DEF ApplyEnd, Parked, Task
    <3>2. conn = "opening"
      BY <2>4 DEF ApplyEnd
    <3>3. ASSUME NEW u \in Underlyings PROVE WindowInv(u)'
      <4>1. refresher[u].phase = "off" /\ WindowInv(u)
        BY <2>2, <3>2
      <4>. QED
        BY <3>1, <4>1 DEF WindowInv, CallsInFlight, CentreKnown, Moving, Fed, Held, window
    <3>. QED
      BY <3>1, <3>3
  <2>5. ASSUME NEW v \in Underlyings, Updating(v)
        PROVE  /\ conn' # "up" => \A u \in Underlyings : refresher'[u].phase = "off"
               /\ \A u \in Underlyings : WindowInv(u)'
    <3>1. conn = "up" /\ conn' = conn
      BY <2>2, <2>5 DEF Updating, FetchChain, Recenter, RefresherSubscribe,
         RefresherUnsubscribe, link
    <3>2. WindowInv(v)'
      BY <2>2, <2>5, FetchKeeps, RecenterKeeps, SubscribeKeeps, UnsubscribeKeeps DEF Updating
    <3>3. ASSUME NEW u \in Underlyings, u # v PROVE WindowInv(u)'
      BY <2>2, <2>5, <3>3, OthersUnmoved, UnmovedKeeps
    <3>. QED
      BY <3>1, <3>2, <3>3
  <2>6. CASE \/ \E u \in Underlyings : TradeTick(u)
             \/ \E s \in LegSymbols : LegChange(s)
    <3>1. UNCHANGED <<link, wire, window, chains, refresher>>
      BY <2>6 DEF TradeTick, LegChange
    <3>2. \A u \in Underlyings : Unmoved(u)
      BY <3>1 DEF Unmoved, window, Fed
    <3>. QED
      BY <2>2, <3>1, <3>2, UnmovedKeeps DEF link
  <2>. QED
    BY <1>2, <2>1, <2>3, <2>4, <2>5, <2>6
    DEF Next, Polling, Updating, Connect, PollBegin, ApplyUnsubscribe,
        ApplySubscribe, ApplyFault, FetchFault, RefresherFault
<1>. QED
  BY <1>1, <1>2

LEMMA WindowsInit == Init => WindowsInv
<1>. SUFFICES ASSUME Init, NEW u \in Underlyings
              PROVE  refresher[u].phase = "off" /\ WindowInv(u)
  BY DEF WindowsInv
<1>1. /\ refresher[u].phase = "off" /\ windowSyms[u] = {} /\ centers[u] = None
      /\ \A k \in Kinds : wire[k] = {}
  BY DEF Init, Parked, Task, NoWants
<1>. QED
  BY <1>1 DEF WindowInv, CallsInFlight, CentreKnown, Moving, Fed, Held

\* On a first connection without failures the feeds of every window are those
\* that the calls made so far account for.
THEOREM WindowsAreTracked == Spec => [](TypeOK /\ WindowsInv)
<1>1. TypeOK /\ PollsClaim /\ [Next]_vars => PollsClaim'
  BY PollsClaimStep
<1>2. TypeOK /\ PollsClaim /\ WindowsInv /\ [Next]_vars => WindowsInv'
  BY WindowsStep
<1>. QED
  BY <1>1, <1>2, TypeCorrect, PollsClaimInit, WindowsInit, PTL DEF Spec

\* Whatever polls, ticks, positions and other windows interleave with its calls:
\* the strikes that a moving window keeps stay on every feed.
THEOREM WindowsUninterrupted == Spec => []WindowUninterrupted
<1>1. TypeOK /\ WindowsInv => WindowUninterrupted
  <2>. SUFFICES ASSUME TypeOK, WindowsInv, Undisturbed,
                       NEW u \in Underlyings, NEW k \in Kinds
                PROVE  (windowSyms[u] \cap Target(u)) \ LegSymbols \subseteq wire[k]
    BY DEF WindowUninterrupted
  <2>1. CallsInFlight(u) /\ refresher[u] \in RefresherRecords
    BY DEF WindowsInv, WindowInv, TypeOK
  <2>. QED
    BY <2>1 DEF CallsInFlight, RefresherRecords, Target, Moving, Fed, Held, Coming, Free
<1>. QED
  BY <1>1, WindowsAreTracked, PTL

\* Nor does anything stay behind it: an option on the feed that no consumer trades
\* is in its underlying's window, or in the one that is being moved to.
THEOREM NothingGoesAstray == Spec => []NothingStray
<1>1. TypeOK /\ WindowsInv => NothingStray
  <2>. SUFFICES ASSUME TypeOK, WindowsInv, Undisturbed,
                       NEW u \in Underlyings, NEW k \in Kinds
                PROVE  (wire[k] \cap OptionsOf(u)) \ LegSymbols
                         \subseteq windowSyms[u] \cup Target(u)
    BY DEF NothingStray
  <2>1. CallsInFlight(u) /\ refresher[u] \in RefresherRecords
    BY DEF WindowsInv, WindowInv, TypeOK
  <2>. QED
    BY <2>1 DEF CallsInFlight, RefresherRecords, Target, Moving, Fed, Held, Coming, Free
<1>. QED
  BY <1>1, WindowsAreTracked, PTL

\* The price may move during an update: what is recorded is the window around
\* the recorded center all the same.
THEOREM WindowsCentred == Spec => []WindowCentred
<1>1. WindowsInv => WindowCentred
  BY DEF WindowsInv, WindowInv, CentreKnown, WindowCentred
<1>. QED
  BY <1>1, WindowsAreTracked, PTL

=============================================================================
