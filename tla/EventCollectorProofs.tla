------------------------- MODULE EventCollectorProofs -------------------------
(***************************************************************************)
(* Theorems about EventCollector, for any symbols, any numbers and any     *)
(* number of events.                                                       *)
(***************************************************************************)
EXTENDS EventCollector, TLAPS

USE CollectorAssumption

\* The steps that move the call and touch nothing it has collected.
Moving ==
  \/ ReturnEmpty \/ Enter \/ Entered \/ EnterFails \/ Timeout \/ FeedFails
  \/ Cancelled \/ CancelledOutside \/ Close \/ CloseFails \/ Open

LEMMA ExtractTyped ==
  ASSUME NEW e \in Events
  PROVE  Extract(e) \in Collected \cup {"nothing"}
BY DEF Extract, Events, Payloads, Num, Collected

LEMMA CollectTyped ==
  ASSUME NEW e \in Events, out \in [Symbols -> Collected \cup {"nothing"}], Collect(e)
  PROVE  /\ out' \in [Symbols -> Collected \cup {"nothing"}]
         /\ \A s \in Symbols :
              out'[s] = IF s = e.symbol /\ Extract(e) # "nothing"
                          THEN Extract(e) ELSE out[s]
<1>1. Extract(e) \in Collected \cup {"nothing"} /\ e.symbol \in Symbols
  BY ExtractTyped DEF Events
<1>. QED
  BY <1>1 DEF Collect

-----------------------------------------------------------------------------
(* The type invariant *)

LEMMA TypeInit == Init => TypeOK
BY DEF Init, TypeOK

LEMMA TypeStep ==
  ASSUME TypeOK, [Next]_vars
  PROVE  TypeOK'
<1>1. CASE Moving
  BY <1>1 DEF Moving, ReturnEmpty, Enter, Entered, EnterFails, Timeout, FeedFails,
              Cancelled, CancelledOutside, Close, CloseFails, Open,
              Leave, Over, Unguarded, collected, TypeOK
<1>2. CASE Subscribe
  BY <1>2 DEF Subscribe, TypeOK
<1>3. CASE Take
  <2>. DEFINE e == feed[taken + 1]
  <2>1. taken + 1 \in 1..Len(feed) /\ taken' \in 0..Len(feed)
    BY <1>3 DEF Take, TypeOK
  <2>2. e \in Events
    BY <2>1 DEF TypeOK
  <2>3. out' \in [Symbols -> Collected \cup {"nothing"}]
    BY <1>3, <2>2, CollectTyped DEF Take, TypeOK
  <2>4. remaining' \in SUBSET asked
    BY <1>3 DEF Take, Report, TypeOK
  <2>5. /\ phase' \in {"draining", "closing"} /\ ended' \in {ended, "complete"}
        /\ UNCHANGED <<wrapper, asked, connection, feed>>
    BY <1>3 DEF Take, Leave, TypeOK
  <2>. QED
    BY <2>1, <2>3, <2>4, <2>5 DEF TypeOK, Over, Unguarded
<1>4. CASE Deliver
  <2>1. PICK s \in asked, payload \in Payloads :
          feed' = Append(feed, [symbol |-> s, payload |-> payload])
    BY <1>4 DEF Deliver
  <2>2. [symbol |-> s, payload |-> payload] \in Events
    BY DEF Events, TypeOK
  <2>3. feed' \in Seq(Events) /\ Len(feed') = Len(feed) + 1
    BY <2>1, <2>2 DEF TypeOK
  <2>. QED
    BY <1>4, <2>3 DEF Deliver, TypeOK
<1>5. CASE UNCHANGED vars
  BY <1>5 DEF vars, TypeOK
<1>. QED
  BY <1>1, <1>2, <1>3, <1>4, <1>5 DEF Next, Moving

\* Every state is well typed.
THEOREM TypeCorrect == Spec => []TypeOK
BY TypeInit, TypeStep, PTL DEF Spec

-----------------------------------------------------------------------------
(* The latest value *)

LEMMA LatestInit == Init => LatestWins
<1>. SUFFICES ASSUME Init PROVE LatestWins
  OBVIOUS
<1>1. 1..taken = {}
  BY DEF Init
<1>2. \A s \in Symbols : ValuedEvents(s) = {}
  BY <1>1 DEF ValuedEvents
<1>. QED
  BY <1>2 DEF Init, LatestWins

LEMMA LatestStep ==
  ASSUME TypeOK, LatestWins, [Next]_vars
  PROVE  LatestWins'
<1>1. CASE Moving \/ Subscribe \/ UNCHANGED vars
  <2>1. UNCHANGED <<wrapper, feed, taken, out>>
    BY <1>1 DEF Moving, ReturnEmpty, Enter, Entered, EnterFails, Timeout, FeedFails,
              Cancelled, CancelledOutside, Close, CloseFails, Open, Subscribe, collected, vars
  <2>. QED
    BY <2>1 DEF LatestWins, ValuedEvents, Extract
<1>2. CASE Take
  <2>. DEFINE e == feed[taken + 1]
  <2>1. taken \in Nat /\ taken + 1 \in 1..Len(feed) /\ e \in Events
    BY <1>2 DEF Take, TypeOK
  <2>2. taken' = taken + 1 /\ UNCHANGED <<wrapper, feed>>
    BY <1>2 DEF Take
  <2>3. \A s \in Symbols :
          out'[s] = IF s = e.symbol /\ Extract(e) # "nothing"
                      THEN Extract(e) ELSE out[s]
    BY <1>2, <2>1, CollectTyped DEF Take, TypeOK
  <2>4. \A i : Extract(feed[i])' = Extract(feed[i])
    BY <2>2 DEF Extract
  <2>. SUFFICES ASSUME NEW s \in Symbols
                PROVE  IF ValuedEvents(s)' = {}
                         THEN out'[s] = "nothing"
                         ELSE \E i \in ValuedEvents(s)' :
                                /\ \A j \in ValuedEvents(s)' : j <= i
                                /\ out'[s] = Extract(feed[i])'
    BY DEF LatestWins
  <2>5. CASE s = e.symbol /\ Extract(e) # "nothing"
    <3>. PICK n \in Nat : n = taken + 1
      BY <2>1
    <3>1. n \in ValuedEvents(s)'
      BY <2>1, <2>2, <2>4, <2>5 DEF ValuedEvents
    <3>2. \A j \in ValuedEvents(s)' : j <= n
      BY <2>1, <2>2 DEF ValuedEvents
    <3>3. out'[s] = Extract(feed[n])'
      BY <2>3, <2>4, <2>5
    <3>. QED
      BY <3>1, <3>2, <3>3
  <2>6. CASE ~(s = e.symbol /\ Extract(e) # "nothing")
    <3>1. ValuedEvents(s)' = ValuedEvents(s)
      <4>1. \A i \in 1..(taken + 1) : i \in 1..taken \/ i = taken + 1
        BY <2>1
      <4>2. 1..taken \subseteq 1..(taken + 1)
        BY <2>1
      <4>. QED
        BY <2>2, <2>4, <2>6, <4>1, <4>2 DEF ValuedEvents
    <3>2. out'[s] = out[s]
      BY <2>3, <2>6
    <3>. QED
      BY <2>4, <3>1, <3>2 DEF LatestWins
  <2>. QED
    BY <2>5, <2>6
<1>3. CASE Deliver
  <2>1. PICK s0 \in asked, payload \in Payloads :
          feed' = Append(feed, [symbol |-> s0, payload |-> payload])
    BY <1>3 DEF Deliver
  <2>2. UNCHANGED <<wrapper, taken, out>>
    BY <1>3 DEF Deliver
  <2>3. \A i \in 1..taken : feed'[i] = feed[i]
    BY <2>1 DEF TypeOK
  <2>4. \A i \in 1..taken : Extract(feed[i])' = Extract(feed[i])
    BY <2>2, <2>3 DEF Extract
  <2>5. \A s \in Symbols : ValuedEvents(s)' = ValuedEvents(s)
    BY <2>2, <2>3, <2>4 DEF ValuedEvents
  <2>6. \A s \in Symbols : ValuedEvents(s) \subseteq 1..taken
    BY DEF ValuedEvents
  <2>. QED
    BY <2>2, <2>4, <2>5, <2>6 DEF LatestWins
<1>. QED
  BY <1>1, <1>2, <1>3 DEF Next, Moving

\* Whatever the feed delivers and however the call ends, every symbol is mapped
\* to the latest of its values that was taken.
THEOREM LatestValueWins == Spec => []LatestWins
<1>1. TypeOK /\ LatestWins /\ [Next]_vars => LatestWins'
  BY LatestStep
<1>. QED
  BY <1>1, TypeCorrect, LatestInit, PTL DEF Spec

-----------------------------------------------------------------------------
(* The end of a call *)

\* While the drain runs some symbol remains, and those that remain are the silent
\* ones.
Waiting ==
  phase = "draining" =>
    /\ ended = "no"
    /\ remaining # {}
    /\ \A s \in asked : s \in remaining <=> Silent(s)

\* Before the drain nothing is taken.
Undrained ==
  phase \in {"called", "entering", "subscribing"} =>
    taken = 0 /\ ended = "no" /\ (phase # "called" => asked # {})

\* A drain that returned by itself has heard every symbol, the last one just then.
Heard ==
  ended = "complete" =>
    /\ phase # "draining" /\ \A s \in asked : ~Silent(s)
    /\ \A i \in 1..(taken - 1) : feed[i].symbol # feed[taken].symbol

EndInv == Waiting /\ Undrained /\ Heard

LEMMA EndInit == Init => EndInv
BY DEF Init, EndInv, Waiting, Undrained, Heard

LEMMA EndStep ==
  ASSUME TypeOK, EndInv, [Next]_vars
  PROVE  EndInv'
<1>1. CASE Moving
  <2>1. UNCHANGED <<asked, feed, taken, remaining>> /\ phase' # "draining"
    BY <1>1 DEF Moving, ReturnEmpty, Enter, Entered, EnterFails, Timeout, FeedFails,
              Cancelled, CancelledOutside, Close, CloseFails, Open, Leave, collected, EndInv, Waiting
  <2>2. \A s : Silent(s)' = Silent(s)
    BY <2>1 DEF Silent
  <2>3. Undrained'
    BY <1>1 DEF Moving, ReturnEmpty, Enter, Entered, EnterFails, Timeout, FeedFails,
              Cancelled, CancelledOutside, Close, CloseFails, Open,
                Leave, collected, EndInv, Undrained
  <2>4. ended' = "complete" => ended = "complete"
    BY <1>1 DEF Moving, ReturnEmpty, Enter, Entered, EnterFails, Timeout, FeedFails,
              Cancelled, CancelledOutside, Close, CloseFails, Open, Leave
  <2>. QED
    BY <2>1, <2>2, <2>3, <2>4 DEF EndInv, Waiting, Heard
<1>2. CASE Subscribe
  <2>1. phase' = "draining" /\ remaining' = asked /\ asked # {} /\ ended' = "no"
    BY <1>2 DEF Subscribe, EndInv, Undrained
  <2>2. UNCHANGED asked /\ taken' = 0
    BY <1>2 DEF Subscribe, EndInv, Undrained
  <2>3. \A s : Silent(s)'
    BY <2>2 DEF Silent
  <2>. QED
    BY <2>1, <2>2, <2>3 DEF EndInv, Waiting, Undrained, Heard
<1>3. CASE Take
  <2>. DEFINE e == feed[taken + 1]
  <2>1. /\ phase = "draining" /\ taken' = taken + 1 /\ UNCHANGED <<asked, feed>>
        /\ taken \in Nat /\ remaining' = remaining \ {e.symbol} /\ ended = "no"
    BY <1>3 DEF Take, Report, TypeOK, EndInv, Waiting
  <2>2. ASSUME NEW s \in asked
        PROVE  Silent(s)' <=> Silent(s) /\ s # e.symbol
    <3>1. \A i : i \in 1..taken' <=> i \in 1..taken \/ i = taken + 1
      BY <2>1
    <3>. QED
      BY <2>1, <3>1 DEF Silent
  <2>3. \A s \in asked : s \in remaining' <=> Silent(s)'
    BY <2>1, <2>2 DEF EndInv, Waiting
  <2>4. CASE remaining' = {}
    <3>1. phase' = "closing" /\ ended' = "complete"
      BY <1>3, <2>4 DEF Take, Leave
    <3>2. \A s \in asked : ~Silent(s)'
      BY <2>3, <2>4
    <3>3. Silent(e.symbol)
      <4>1. remaining \subseteq asked /\ remaining # {}
        BY <2>1 DEF TypeOK, EndInv, Waiting
      <4>2. e.symbol \in remaining
        BY <2>1, <2>4, <4>1
      <4>. QED
        BY <2>1, <4>1, <4>2 DEF EndInv, Waiting
    <3>4. \A i \in 1..(taken' - 1) : feed'[i].symbol # feed'[taken'].symbol
      BY <2>1, <3>3 DEF Silent
    <3>. QED
      BY <2>1, <3>1, <3>2, <3>4 DEF EndInv, Waiting, Undrained, Heard
  <2>5. CASE remaining' # {}
    <3>1. phase' = "draining" /\ ended' = "no"
      BY <1>3, <2>1, <2>5 DEF Take
    <3>. QED
      BY <2>1, <2>3, <2>5, <3>1 DEF EndInv, Waiting, Undrained, Heard
  <2>. QED
    BY <2>4, <2>5
<1>4. CASE Deliver
  <2>1. PICK s0 \in asked, payload \in Payloads :
          feed' = Append(feed, [symbol |-> s0, payload |-> payload])
    BY <1>4 DEF Deliver
  <2>2. UNCHANGED <<asked, phase, ended, taken, remaining>>
    BY <1>4 DEF Deliver
  <2>3. \A i \in 1..taken : feed'[i] = feed[i]
    BY <2>1 DEF TypeOK
  <2>4. \A s : Silent(s)' = Silent(s)
    BY <2>2, <2>3 DEF Silent
  <2>5. \A i \in 1..(taken - 1) : feed'[i] = feed[i] /\ feed'[taken] = feed[taken]
    BY <2>3 DEF TypeOK
  <2>. QED
    BY <2>2, <2>4, <2>5 DEF EndInv, Waiting, Undrained, Heard
<1>5. CASE UNCHANGED vars
  <2>1. \A s : Silent(s)' = Silent(s)
    BY <1>5 DEF vars, Silent
  <2>. QED
    BY <1>5, <2>1 DEF vars, EndInv, Waiting, Undrained, Heard
<1>. QED
  BY <1>1, <1>2, <1>3, <1>4, <1>5 DEF Next, Moving

\* The drain goes on only while some symbol is silent, and returns by itself with
\* the first report of the last one.
THEOREM EndsOnTime == Spec => []EndsWithLastReport
<1>1. TypeOK /\ EndInv /\ [Next]_vars => EndInv'
  BY EndStep
<1>2. TypeOK /\ EndInv => EndsWithLastReport
  BY DEF TypeOK, EndInv, Waiting, Heard, EndsWithLastReport
<1>. QED
  BY <1>1, <1>2, TypeCorrect, EndInit, PTL DEF Spec

=============================================================================
