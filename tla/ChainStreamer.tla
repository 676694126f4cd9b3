---------------------------- MODULE ChainStreamer ----------------------------
(***************************************************************************)
(* Subscription management of cherrypick.core.streamer.ChainStreamer: the  *)
(* engine's books (state.subscribed, window_syms, centers) against what is *)
(* subscribed on the live WebSocket.                                       *)
(*                                                                         *)
(* Three kinds of coroutine share the books on one event loop and can      *)
(* interleave wherever one awaits the feed:                                *)
(*   - _apply_subscriptions, run once while a connection opens and then by *)
(*     the _poll_subscriptions task;                                       *)
(*   - one _symbol_refresher per underlying, which moves the strike window *)
(*     of its symbol as the spot price moves;                              *)
(*   - _listen_trade, which stores the spot price the refreshers read.     *)
(* A coroutine suspended in `await streamer.subscribe(...)` has a call in  *)
(* flight.  The action named after the call is the moment it takes effect  *)
(* on the feed and the coroutine runs on to its next await.                *)
(*                                                                         *)
(* Left out: stop() and the backoff (module StreamLifecycle), commits and  *)
(* the status row (module CacheWriter), events other than trades of an     *)
(* underlying.  The call and the put of a strike always travel together,   *)
(* so an option symbol is an underlying and a strike.                      *)
(***************************************************************************)
EXTENDS Integers, Sequences, FiniteSets

CONSTANTS
  Underlyings,    \* self.symbols
  Strikes,        \* strikes an option may have
  Chains,         \* the 0DTE chains (sets of strikes) a fetch may return
  Prices,         \* spot prices an underlying may trade at
  None,           \* Python's None: no price, no center
  KindOrder,      \* event kinds, in the order a refresher subscribes them
  SpotKinds,      \* kinds the policy wants the underlyings on
  LegKinds,       \* kinds the policy wants the open legs on
  LegSymbols,     \* options the consumer may hold
  StrikeCount,    \* window_strike_count
  RefreshPts,     \* window_refresh_pts
  MaxReconnects,  \* bound on lost connections
  MaxFaults,      \* bound on feed calls and chain fetches that raise
  MaxTicks,       \* bound on trade ticks
  MaxLegChanges   \* bound on positions opened or closed

Kinds == {KindOrder[i] : i \in DOMAIN KindOrder}

\* Streamer symbols: an option is <<underlying, strike>>, the underlying's own
\* symbol is <<underlying, 0>>.
Spot(u)      == <<u, 0>>
Spots        == {Spot(u) : u \in Underlyings}
OptionsOf(u) == {<<u, k>> : k \in Strikes}
Options      == Underlyings \X Strikes
Symbols      == Spots \cup Options

ASSUME ConstantsAssumption ==
  /\ Strikes \subseteq Nat \ {0}
  /\ Chains \subseteq SUBSET Strikes
  /\ Prices \subseteq Int
  /\ None \notin Prices
  /\ KindOrder \in Seq(STRING)
  /\ "Trade" \in Kinds
  /\ LegKinds \subseteq Kinds
  /\ LegSymbols \subseteq Options
  /\ StrikeCount \in Nat /\ RefreshPts \in Nat
  /\ MaxReconnects \in Nat /\ MaxFaults \in Nat
  /\ MaxTicks \in Nat /\ MaxLegChanges \in Nat

VARIABLES
  conn,        \* "down", "opening" (initial apply in flight), "up" (tasks run)
  reconnects,  \* connections lost so far
  wire,        \* [kind -> symbols subscribed on the current connection]
  subscribed,  \* state.subscribed
  windowSyms,  \* state.window_syms
  centers,     \* state.centers
  chains,      \* state.chains, as the strikes listed
  price,       \* stream_trades.last of each underlying
  apply,       \* the _apply_subscriptions in flight
  refresher,   \* the _symbol_refresher task of each underlying
  legs,        \* the consumer's open legs, as its callbacks report them
  left         \* what remains of the bounds on faults, ticks and leg changes

link    == <<conn, reconnects>>
window  == <<windowSyms, centers>>
outside == <<price, legs, left>>
vars    == <<link, wire, subscribed, window, chains, apply, refresher, outside>>

-----------------------------------------------------------------------------
(* Operators translated from the source *)

Abs(n) == IF n < 0 THEN -n ELSE n

\* The strike closest to the price; `min` keeps the lowest of a tie.
NearestStrike(S, p) ==
  CHOOSE k \in S : \A j \in S : \/ Abs(k - p) < Abs(j - p)
                                \/ (Abs(k - p) = Abs(j - p) /\ k <= j)

\* How many positions apart two strikes are in the sorted chain.
RankDistance(S, j, k) ==
  Cardinality({i \in S : (j < i /\ i <= k) \/ (k < i /\ i <= j)})

AtmWindow(S, p) ==
  {k \in S : RankDistance(S, k, NearestStrike(S, p)) <= StrikeCount}

WindowAt(u, p) == {<<u, k>> : k \in AtmWindow(chains[u], p)}

\* Mutant: a move of exactly window_refresh_pts does not count.
MustMoveStrictly(u) ==
  \/ centers[u] = None
  \/ centers[u] # None /\ Abs(price[u] - centers[u]) > RefreshPts

\* The price has moved far enough from the center, or there is none yet.
MustMove(u) ==
  \/ centers[u] = None
  \/ centers[u] # None /\ Abs(price[u] - centers[u]) >= RefreshPts

\* current_underlying_price finds a price in the cache.
HasPrice(u) == price[u] # None

WindowUnion == UNION {windowSyms[u] : u \in Underlyings}

\* What a consumer's extra_subscriptions returns is used instead of the default
\* policy ({"Trade", "Summary"} for the underlyings and no legs), not besides it.
\* One that leaves out the underlyings' trades leaves the engine without a price,
\* so without windows: it is taken to name them.
ASSUME PolicyAssumption == "Trade" \in SpotKinds

\* _subscriptions(): the underlyings and the open legs.
Wanted(k) ==
  (IF k \in SpotKinds THEN Spots ELSE {})
    \cup (IF k \in LegKinds THEN legs ELSE {})

\* What the apply in flight adds and removes for one kind.  It compares with
\* state.subscribed, and spares what a window held when it started, except
\* for Trade.
ToAdd(k) == apply.want[k] \ subscribed[k]

\* Mutants: `current - add`, and `wanted - current` swapped.
ToRemoveAllButNew(k) == subscribed[k] \ ToAdd(k)
ToRemoveSwapped(k)   == ToAdd(k)
ToRemove(k) ==
  (subscribed[k] \ apply.want[k]) \ (IF k = "Trade" THEN {} ELSE apply.keep)

\* What a refresher's update adds; what it removes, protected_symbols() spared.
WindowAdd(u) == refresher[u].new \ windowSyms[u]

\* Mutants: the whole old window goes; everything a window holds is spared.
RemoveOldWindow(u, new)   == windowSyms[u] \ legs
RemoveUnclaimed(u, new)   == (windowSyms[u] \ new) \ (legs \cup WindowUnion)
SafeRemove(u, new)        == (windowSyms[u] \ new) \ legs

\* Mutant: one call too many.
LastCallLate(u) == refresher[u].at > Len(KindOrder)
LastCall(u)     == refresher[u].at = Len(KindOrder)

NoWants   == [k \in Kinds |-> {}]
Unapplied == [phase |-> "idle", kind |-> None, todo |-> {},
              want |-> NoWants, keep |-> {}]
Task(phase, p, new, rem) ==
  [phase |-> phase, at |-> 1, price |-> p, new |-> new, rem |-> rem]
Parked(phase) == Task(phase, None, {}, {})

Init ==
  /\ conn = "down" /\ reconnects = 0
  /\ wire = NoWants /\ subscribed = NoWants
  /\ windowSyms = [u \in Underlyings |-> {}]
  /\ centers = [u \in Underlyings |-> None]
  /\ chains = [u \in Underlyings |-> {}]
  /\ price = [u \in Underlyings |-> None]
  /\ apply = Unapplied
  /\ refresher = [u \in Underlyings |-> Parked("off")]
  /\ legs \in SUBSET LegSymbols
  /\ left = [faults |-> MaxFaults, ticks |-> MaxTicks, legs |-> MaxLegChanges]

-----------------------------------------------------------------------------
(* Connection *)

StartApply ==
  apply' = [phase |-> "next", kind |-> None, todo |-> Kinds,
            want |-> [k \in Kinds |-> Wanted(k)], keep |-> WindowUnion]

\* A new DXLinkStreamer is entered: nothing is subscribed on it, while
\* state.subscribed, window_syms and centers are those of the old connection.
Connect ==
  /\ conn = "down"
  /\ conn' = "opening"
  /\ StartApply
  /\ UNCHANGED <<reconnects, wire, subscribed, window, chains, refresher,
                 outside>>

\* A task of the group, or the initial apply, raises: every task is cancelled,
\* the WebSocket closes, and run_async goes round its loop.
Drop ==
  /\ conn # "down"
  /\ reconnects < MaxReconnects
  /\ conn' = "down"
  /\ reconnects' = reconnects + 1
  /\ wire' = NoWants
  /\ apply' = Unapplied
  /\ refresher' = [u \in Underlyings |-> Parked("off")]
  /\ UNCHANGED <<subscribed, window, chains, outside>>

UseFault ==
  /\ left.faults > 0
  /\ left' = [left EXCEPT !.faults = @ - 1]

-----------------------------------------------------------------------------
(* _apply_subscriptions *)

PollBegin ==
  /\ conn = "up"
  /\ apply.phase = "idle"
  /\ StartApply
  /\ UNCHANGED <<link, wire, subscribed, window, chains, refresher, outside>>

\* One key of the loop, in the order of the dict the policy returns, so any.
\* A call with nothing to add or to remove is not made; as no other coroutine
\* writes `subscribed`, the step that stands for it disturbs nothing.
ApplySubscribe(k) ==
  /\ apply.phase = "next"
  /\ k \in apply.todo
  /\ wire' = [wire EXCEPT ![k] = @ \cup ToAdd(k)]
  /\ apply' = [apply EXCEPT !.phase = "unsub", !.kind = k]
  /\ UNCHANGED <<link, subscribed, window, chains, refresher, outside>>

ApplyUnsubscribe ==
  LET k == apply.kind IN
  /\ apply.phase = "unsub"
  /\ wire' = [wire EXCEPT ![k] = @ \ ToRemove(k)]
  /\ subscribed' = [subscribed EXCEPT ![k] = apply.want[k]]
  /\ apply' = [apply EXCEPT !.phase = "next", !.kind = None,
                            !.todo = @ \ {k}]
  /\ UNCHANGED <<link, window, chains, refresher, outside>>

\* Every key done.  The initial apply is followed by the task group.
ApplyEnd ==
  /\ apply.phase = "next"
  /\ apply.todo = {}
  /\ apply' = Unapplied
  /\ conn' = "up"
  /\ refresher' = IF conn = "opening"
                    THEN [u \in Underlyings |-> Parked("fetch")]
                    ELSE refresher
  /\ UNCHANGED <<reconnects, wire, subscribed, window, chains, outside>>

\* Mutant: the books are written before the call.
ApplyFaultBooked(k) ==
  /\ UseFault
  /\ conn = "up"
  /\ apply.phase = "next" /\ k \in apply.todo /\ ToAdd(k) # {}
  /\ subscribed' = [subscribed EXCEPT ![k] = apply.want[k]]
  /\ apply' = Unapplied
  /\ UNCHANGED <<link, wire, window, chains, refresher, price, legs>>

\* A feed call of a poll raises, and may have taken effect or not: the poll
\* abandons the remaining keys.  (For the initial apply, see Drop.)
ApplyFault(k) ==
  /\ UseFault
  /\ conn = "up"
  /\ \/ /\ apply.phase = "next" /\ k \in apply.todo /\ ToAdd(k) # {}
        /\ wire' \in {wire, [wire EXCEPT ![k] = @ \cup ToAdd(k)]}
     \/ /\ apply.phase = "unsub" /\ k = apply.kind /\ ToRemove(k) # {}
        /\ wire' \in {wire, [wire EXCEPT ![k] = @ \ ToRemove(k)]}
  /\ apply' = Unapplied
  /\ UNCHANGED <<link, subscribed, window, chains, refresher, price, legs>>

-----------------------------------------------------------------------------
(* _symbol_refresher *)

FetchChain(u) ==
  /\ refresher[u].phase = "fetch"
  /\ \E c \in Chains : chains' = [chains EXCEPT ![u] = c]
  /\ refresher' = [refresher EXCEPT ![u] = Parked("idle")]
  /\ UNCHANGED <<link, wire, subscribed, window, apply, outside>>

\* The fetch, or write_chain after it, raises: the symbol has no refresher until
\* the next connection.
FetchFault(u) ==
  /\ UseFault
  /\ refresher[u].phase = "fetch"
  /\ chains' \in {chains} \cup {[chains EXCEPT ![u] = c] : c \in Chains}
  /\ refresher' = [refresher EXCEPT ![u] = Parked("off")]
  /\ UNCHANGED <<link, wire, subscribed, window, apply, price, legs>>

\* Mutant: the center is the price when the update ends.
WindowMovedLate(u, p, new) ==
  /\ windowSyms' = [windowSyms EXCEPT ![u] = new]
  /\ centers' = [centers EXCEPT ![u] = price[u]]
  /\ refresher' = [refresher EXCEPT ![u] = Parked("idle")]

\* The update went through: window_syms and centers record it.
WindowMoved(u, p, new) ==
  /\ windowSyms' = [windowSyms EXCEPT ![u] = new]
  /\ centers' = [centers EXCEPT ![u] = p]
  /\ refresher' = [refresher EXCEPT ![u] = Parked("idle")]

\* The adds are through, or there were none: protected_symbols() is read now.
RemoveStale(u, p, new) ==
  \/ SafeRemove(u, new) = {} /\ WindowMoved(u, p, new)
  \/ /\ SafeRemove(u, new) # {}
     /\ refresher' =
          [refresher EXCEPT ![u] = Task("unsub", p, new, SafeRemove(u, new))]
     /\ UNCHANGED window

\* One iteration of the loop, up to its first await.
Recenter(u) ==
  LET new == WindowAt(u, price[u]) IN
  /\ refresher[u].phase = "idle"
  /\ HasPrice(u)
  /\ MustMove(u)
  /\ \/ /\ new \subseteq windowSyms[u]
        /\ RemoveStale(u, price[u], new)
     \/ /\ ~(new \subseteq windowSyms[u])
        /\ refresher' =
             [refresher EXCEPT ![u] = Task("sub", price[u], new, {})]
        /\ UNCHANGED window
  /\ UNCHANGED <<link, wire, subscribed, chains, apply, outside>>

RefresherSubscribe(u) ==
  /\ refresher[u].phase = "sub"
  /\ wire' = [wire EXCEPT ![KindOrder[refresher[u].at]] = @ \cup WindowAdd(u)]
  /\ \/ /\ ~LastCall(u)
        /\ refresher' = [refresher EXCEPT ![u].at = @ + 1]
        /\ UNCHANGED window
     \/ /\ LastCall(u)
        /\ RemoveStale(u, refresher[u].price, refresher[u].new)
  /\ UNCHANGED <<link, subscribed, chains, apply, outside>>

RefresherUnsubscribe(u) ==
  /\ refresher[u].phase = "unsub"
  /\ wire' = [wire EXCEPT ![KindOrder[refresher[u].at]] = @ \ refresher[u].rem]
  /\ \/ /\ ~LastCall(u)
        /\ refresher' = [refresher EXCEPT ![u].at = @ + 1]
        /\ UNCHANGED window
     \/ /\ LastCall(u)
        /\ WindowMoved(u, refresher[u].price, refresher[u].new)
  /\ UNCHANGED <<link, subscribed, chains, apply, outside>>

\* A feed call of the update raises, and may have taken effect or not:
\* window_syms stays, the center moves.
RefresherFault(u) ==
  LET r == refresher[u]
      k == KindOrder[r.at]
  IN
  /\ UseFault
  /\ \/ /\ r.phase = "sub"
        /\ wire' \in {wire, [wire EXCEPT ![k] = @ \cup WindowAdd(u)]}
     \/ /\ r.phase = "unsub"
        /\ wire' \in {wire, [wire EXCEPT ![k] = @ \ r.rem]}
  /\ centers' = [centers EXCEPT ![u] = r.price]
  /\ refresher' = [refresher EXCEPT ![u] = Parked("idle")]
  /\ UNCHANGED <<link, subscribed, windowSyms, chains, apply, price, legs>>

-----------------------------------------------------------------------------
(* The feed and the consumer *)

\* _listen_trade stores the last price of an underlying; a NaN is stored as
\* NULL.  The feed only sends what is subscribed on this connection.
TradeTick(u) ==
  /\ conn = "up"
  /\ Spot(u) \in wire["Trade"]
  /\ left.ticks > 0
  /\ left' = [left EXCEPT !.ticks = @ - 1]
  /\ \E p \in Prices \cup {None} : price' = [price EXCEPT ![u] = p]
  /\ UNCHANGED <<link, wire, subscribed, window, chains, apply, refresher,
                 legs>>

\* The consumer opens or closes a position: both callbacks see it at once.
LegChange(s) ==
  /\ left.legs > 0
  /\ left' = [left EXCEPT !.legs = @ - 1]
  /\ legs' = IF s \in legs THEN legs \ {s} ELSE legs \cup {s}
  /\ UNCHANGED <<link, wire, subscribed, window, chains, apply, refresher,
                 price>>

Next ==
  \/ Connect \/ Drop
  \/ PollBegin \/ ApplyUnsubscribe \/ ApplyEnd
  \/ \E k \in Kinds : ApplySubscribe(k) \/ ApplyFault(k)
  \/ \E u \in Underlyings :
       \/ FetchChain(u) \/ FetchFault(u)
       \/ Recenter(u)
       \/ RefresherSubscribe(u) \/ RefresherUnsubscribe(u)
       \/ RefresherFault(u)
       \/ TradeTick(u)
  \/ \E s \in LegSymbols : LegChange(s)

Spec == Init /\ [][Next]_vars

\* The event loop runs every ready task and the feed answers every call that
\* does not raise.  Nothing is assumed of ticks, faults, drops and positions.
ApplyProgress ==
  PollBegin \/ ApplyUnsubscribe \/ ApplyEnd \/ \E k \in Kinds : ApplySubscribe(k)

RefresherProgress(u) ==
  \/ FetchChain(u) \/ Recenter(u)
  \/ RefresherSubscribe(u) \/ RefresherUnsubscribe(u)

Fairness ==
  /\ WF_vars(Connect)
  /\ WF_vars(ApplyProgress)
  /\ \A u \in Underlyings : WF_vars(RefresherProgress(u))

-----------------------------------------------------------------------------
(* Properties *)

ApplyRecords ==
  [phase : {"idle", "next", "unsub"}, kind : Kinds \cup {None},
   todo : SUBSET Kinds, want : [Kinds -> SUBSET Symbols], keep : SUBSET Options]

RefresherRecords ==
  [phase : {"off", "fetch", "idle", "sub", "unsub"}, at : DOMAIN KindOrder,
   price : Prices \cup {None}, new : SUBSET Options, rem : SUBSET Options]

Budgets == [faults : 0..MaxFaults, ticks : 0..MaxTicks, legs : 0..MaxLegChanges]

\* The type invariant.
TypeOK ==
  /\ conn \in {"down", "opening", "up"}
  /\ reconnects \in 0..MaxReconnects
  /\ wire \in [Kinds -> SUBSET Symbols]
  /\ subscribed \in [Kinds -> SUBSET Symbols]
  /\ windowSyms \in [Underlyings -> SUBSET Options]
  /\ centers \in [Underlyings -> Prices \cup {None}]
  /\ chains \in [Underlyings -> SUBSET Strikes]
  /\ price \in [Underlyings -> Prices \cup {None}]
  /\ apply \in ApplyRecords
  /\ refresher \in [Underlyings -> RefresherRecords]
  /\ legs \in SUBSET LegSymbols
  /\ left \in Budgets

\* Every interleaving of polls, window updates, faults and leg changes leaves
\* the trades of the underlyings, which the windows and the trade hook depend
\* on, subscribed on the first connection, if the policy names them at all.
SpotFeedKept == conn = "up" /\ reconnects = 0 => Spots \subseteq wire["Trade"]

\* The first connection, and no feed call or chain fetch has failed.
Undisturbed == reconnects = 0 /\ left.faults = MaxFaults

Moving(u) == refresher[u].phase \in {"sub", "unsub"}
Target(u) == IF Moving(u) THEN refresher[u].new ELSE windowSyms[u]

\* While a window moves from the old strikes to the new, call by call, with a
\* poll possibly between any two calls, the strikes it keeps never lose a feed,
\* and once it has moved all of them have every feed.  (Options the consumer
\* trades are excepted: WindowFed is about those.)
WindowUninterrupted ==
  Undisturbed =>
    \A u \in Underlyings, k \in Kinds :
      (windowSyms[u] \cap Target(u)) \ LegSymbols \subseteq wire[k]

\* Nothing stays subscribed behind a window: an option the consumer does not
\* trade is on the feed only if its window holds it or is moving to it.
NothingStray ==
  Undisturbed =>
    \A u \in Underlyings, k \in Kinds :
      (wire[k] \cap OptionsOf(u)) \ LegSymbols \subseteq windowSyms[u] \cup Target(u)

\* Between updates the window is the one around its recorded center, although
\* the price may have moved during the update.
WindowCentred ==
  Undisturbed =>
    \A u \in Underlyings :
      refresher[u].phase = "idle" /\ centers[u] # None =>
        windowSyms[u] = WindowAt(u, centers[u])

-----------------------------------------------------------------------------
(* What the comments promise and the code does not keep *)

\* "extra symbols to keep subscribed beyond each symbol's live window": after a
\* reconnect too, the underlyings' trades are subscribed once the engine runs.
SpotFeedResumes == conn = "up" => Spots \subseteq wire["Trade"]

\* "a window still wants these even if the extra-policy dropped them": whenever
\* no call is in flight, every option of a window has every feed.
WindowFed ==
  Undisturbed /\ apply.phase = "idle" /\ (\A u \in Underlyings : ~Moving(u)) =>
    \A k \in Kinds : WindowUnion \subseteq wire[k]

=============================================================================
