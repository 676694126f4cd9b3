---------------------------- MODULE EventCollector ----------------------------
(***************************************************************************)
(* cherrypick.core.dxfeed: one call of collect_events through one of its   *)
(* wrappers, against a feed that delivers events while the call awaits and *)
(* may raise, end or stay silent, a timeout on the drain and a caller that *)
(* may cancel.                                                             *)
(***************************************************************************)
EXTENDS Integers, Sequences

CONSTANTS
  Symbols,
  Numbers,    \* payloads that are numbers
  MaxEvents   \* bound on the events the feed delivers

ASSUME CollectorAssumption ==
  /\ MaxEvents \in Nat
  /\ {"nothing", "junk", "event"} \cap Numbers = {}

VARIABLES
  wrapper,    \* the wrapper that was called
  asked,      \* symbols, without the empty ones
  phase,      \* where the call is
  ended,      \* how the body of its "async with" ended, or "no"
  connection, \* the connection of the call: "none", "open" or "closed"
  feed,       \* events the feed has delivered
  taken,      \* how many of them the drain has taken
  remaining,  \* the symbols _drain waits for
  out         \* [symbol -> value collected, or "nothing"]

collected == <<feed, taken, remaining, out>>
vars == <<wrapper, asked, phase, ended, connection, feed, taken, remaining, out>>

Wrappers == {"greeks", "quotes", "last_prices", "open_interest", "option_volume"}

\* The field an event carries: a number, None, or what float() refuses.
Payloads == Numbers \cup {"nothing", "junk"}
Events == [symbol : Symbols, payload : Payloads]

\* A collected value: the field, or the event itself.
Collected == Numbers \cup {"junk", "event"}

Num(payload) == IF payload \in Numbers THEN payload ELSE "nothing"

\* Greeks and quotes are kept whole, open interest as it is, prices and volumes
\* as numbers.
Extract(event) ==
  IF wrapper \in {"greeks", "quotes"} THEN "event"
  ELSE IF wrapper = "open_interest" THEN event.payload
  ELSE Num(event.payload)

Over == {"returned", "cancelled"}

\* The awaits that no timeout covers: __aenter__, subscribe() and __aexit__.
Unguarded == {"entering", "subscribing", "closing"}

Init ==
  /\ wrapper \in Wrappers
  /\ asked \in SUBSET Symbols
  /\ phase = "called"
  /\ ended = "no"
  /\ connection = "none"
  /\ feed = <<>>
  /\ taken = 0
  /\ remaining = {}
  /\ out = [s \in Symbols |-> "nothing"]

-----------------------------------------------------------------------------
(* collect_events *)

\* The body of the "async with" ends, and __aexit__ is awaited.
Leave(how) == phase' = "closing" /\ ended' = how

\* Without symbols nothing is connected.
ReturnEmpty ==
  /\ phase = "called" /\ asked = {}
  /\ phase' = "returned"
  /\ UNCHANGED <<wrapper, asked, ended, connection, collected>>

\* factory(session), and the call of __aenter__.
Enter ==
  /\ phase = "called" /\ asked # {}
  /\ phase' = "entering"
  /\ UNCHANGED <<wrapper, asked, ended, connection, collected>>

Entered ==
  /\ phase = "entering" /\ connection = "open"
  /\ phase' = "subscribing"
  /\ UNCHANGED <<wrapper, asked, ended, connection, collected>>

\* The factory or __aenter__ raises.  "async with" then calls no __aexit__: what
\* __aenter__ had opened stays open.
EnterFails ==
  /\ phase = "entering" \/ (phase = "called" /\ asked # {})
  /\ phase' = "returned"
  /\ UNCHANGED <<wrapper, asked, ended, connection, collected>>

\* Mutant: the drain also waits for symbols that were never subscribed.
SubscribeUnfiltered ==
  /\ phase = "subscribing"
  /\ phase' = "draining" /\ remaining' = Symbols
  /\ UNCHANGED <<wrapper, asked, ended, connection, feed, taken, out>>

Subscribe ==
  /\ phase = "subscribing"
  /\ phase' = "draining" /\ remaining' = asked
  /\ UNCHANGED <<wrapper, asked, ended, connection, feed, taken, out>>

\* Mutant: the first value of a symbol is kept.
CollectFirst(event) ==
  out' = IF Extract(event) # "nothing" /\ out[event.symbol] = "nothing"
           THEN [out EXCEPT ![event.symbol] = Extract(event)]
           ELSE out

Collect(event) ==
  out' = IF Extract(event) # "nothing"
           THEN [out EXCEPT ![event.symbol] = Extract(event)]
           ELSE out

\* Mutant: a symbol has reported only once it has a value.
ReportValues(event) ==
  remaining' = IF Extract(event) = "nothing" THEN remaining
                                             ELSE remaining \ {event.symbol}

\* Mutant: a report counts for the symbols nothing is known of, too.
ReportEarly(event) ==
  remaining' = {s \in remaining \ {event.symbol} : out[s] # "nothing"}

\* An event without a value is a report too.
Report(event) == remaining' = remaining \ {event.symbol}

\* One iteration of _drain.
Take ==
  /\ phase = "draining" /\ taken < Len(feed)
  /\ taken' = taken + 1
  /\ Collect(feed[taken + 1])
  /\ Report(feed[taken + 1])
  /\ IF remaining' = {} THEN Leave("complete") ELSE UNCHANGED <<phase, ended>>
  /\ UNCHANGED <<wrapper, asked, connection, feed>>

\* Mutant: a call that has collected something waits for the rest.
TimeoutEmptyHanded ==
  /\ phase = "draining" /\ out = [s \in Symbols |-> "nothing"]
  /\ Leave("timeout")
  /\ UNCHANGED <<wrapper, asked, connection, collected>>

\* wait_for cancels the drain; only the drain is under its timeout.
Timeout ==
  /\ phase = "draining"
  /\ Leave("timeout")
  /\ UNCHANGED <<wrapper, asked, connection, collected>>

\* Subscribing or listening raises, or listen() ends.
FeedFails ==
  /\ phase \in {"subscribing", "draining"}
  /\ Leave("failed")
  /\ UNCHANGED <<wrapper, asked, connection, collected>>

\* CancelledError is no Exception: it passes the call, once __aexit__ is done.
Cancelled ==
  /\ phase \in {"subscribing", "draining"}
  /\ Leave("cancelled")
  /\ UNCHANGED <<wrapper, asked, connection, collected>>

\* A call that is cancelled before the body or after it.
CancelledOutside ==
  /\ phase \in {"called", "entering", "closing"} /\ asked # {}
  /\ phase' = "cancelled"
  /\ UNCHANGED <<wrapper, asked, ended, connection, collected>>

\* __aexit__ returns.
Close ==
  /\ phase = "closing"
  /\ phase' = IF ended = "cancelled" THEN "cancelled" ELSE "returned"
  /\ connection' = "closed"
  /\ UNCHANGED <<wrapper, asked, ended, collected>>

\* __aexit__ raises: its error takes the place of the body's, a cancellation
\* included, and is swallowed.
CloseFails ==
  /\ phase = "closing"
  /\ phase' = "returned"
  /\ UNCHANGED <<wrapper, asked, ended, connection, collected>>

-----------------------------------------------------------------------------
(* The feed: it connects, and delivers events of the symbols asked for,        *)
(* subscribe() returned or not                                                 *)

Open ==
  /\ phase = "entering" /\ connection = "none"
  /\ connection' = "open"
  /\ UNCHANGED <<wrapper, asked, phase, ended, collected>>

Deliver ==
  /\ connection = "open" /\ phase \in {"subscribing", "draining", "closing"}
  /\ Len(feed) < MaxEvents
  /\ \E s \in asked, payload \in Payloads :
       feed' = Append(feed, [symbol |-> s, payload |-> payload])
  /\ UNCHANGED <<wrapper, asked, phase, ended, connection, taken, remaining, out>>

Next ==
  \/ ReturnEmpty \/ Enter \/ Entered \/ EnterFails \/ Subscribe \/ Take \/ Timeout
  \/ FeedFails \/ Cancelled \/ CancelledOutside \/ Close \/ CloseFails
  \/ Open \/ Deliver

Spec == Init /\ [][Next]_vars

\* The event loop runs what is ready, and the timer of the drain fires.  Nothing
\* is assumed of the feed: it need not connect, confirm, deliver or close.
FairSpec ==
  /\ Spec
  /\ WF_vars(ReturnEmpty) /\ WF_vars(Enter) /\ WF_vars(Timeout)

\* A feed that at least closes what it is asked to close.
ClosingSpec == FairSpec /\ WF_vars(Close)

-----------------------------------------------------------------------------
(* Properties *)

\* The type invariant.
TypeOK ==
  /\ wrapper \in Wrappers
  /\ asked \in SUBSET Symbols
  /\ phase \in {"called", "draining"} \cup Unguarded \cup Over
  /\ ended \in {"no", "complete", "timeout", "failed", "cancelled"}
  /\ connection \in {"none", "open", "closed"}
  /\ feed \in Seq(Events)
  /\ taken \in 0..Len(feed)
  /\ remaining \in SUBSET asked
  /\ out \in [Symbols -> Collected \cup {"nothing"}]

\* The events of a symbol that were taken and had a value.
ValuedEvents(s) ==
  {i \in 1..taken : feed[i].symbol = s /\ Extract(feed[i]) # "nothing"}

\* "Collecting the latest value per symbol": a later event without a value does
\* not erase it, events of other symbols in between do not move it, and an
\* interrupted call has what it took.
LatestWins ==
  \A s \in Symbols :
    IF ValuedEvents(s) = {}
      THEN out[s] = "nothing"
      ELSE \E i \in ValuedEvents(s) :
             /\ \A j \in ValuedEvents(s) : j <= i
             /\ out[s] = Extract(feed[i])

Silent(s) == \A i \in 1..taken : feed[i].symbol # s

\* "Until all symbols have reported": the drain goes on as long as a symbol is
\* silent; one that returns by itself has heard every symbol, and not a step
\* before: its last event is the first of its symbol.
EndsWithLastReport ==
  /\ phase = "draining" => \E s \in asked : Silent(s)
  /\ ended = "complete" =>
       /\ \A s \in asked : ~Silent(s)
       /\ \A i \in 1..(taken - 1) : feed[i].symbol # feed[taken].symbol

\* Every call ends, or waits for good on one of the three awaits without a
\* timeout: whatever the feed delivers or withholds, the drain holds up nothing.
OnlyFeedHoldsUp == <>(phase \in Over) \/ <>[](phase \in Unguarded)

\* "Until either all symbols have reported or `timeout` seconds elapse": every
\* call ends, whatever the feed does.
CallEnds == <>(phase \in Over)

=============================================================================
