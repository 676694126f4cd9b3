--------------------------------- MODULE Fees ---------------------------------
(***************************************************************************)
(* cherrypick.core.fees: what an order costs, in hundred-thousandths of a  *)
(* dollar before rounding (TAF is 0.00329) and in cents after it.          *)
(*                                                                         *)
(* Python's floats stand near the decimal amounts, and round() rounds      *)
(* halves to even of what they hold; ties do not occur among the amounts   *)
(* of the schedule and are rounded to even here.  Every leg of the order   *)
(* has one quote with a bid and an ask; the code counts legs and quotes    *)
(* apart and takes a missing bid or ask for 0.                             *)
(***************************************************************************)
EXTENDS Sequences, Totals

CONSTANTS
  Quotes,      \* what a leg may be quoted at: bid and ask, in cents
  Quantities,  \* contracts of an order
  MaxLegs      \* bound on legs

VARIABLES
  quotes,      \* the legs of the order
  quantity     \* its contracts

vars == <<quotes, quantity>>

Init == quotes = <<>> /\ quantity \in Quantities

\* The order gets another leg.
AddLeg(q) ==
  /\ Len(quotes) < MaxLegs
  /\ quotes' = Append(quotes, q)
  /\ UNCHANGED quantity

Next == \E q \in Quotes : AddLeg(q)

-----------------------------------------------------------------------------
(* Amounts *)

Cent == 1000

RoundCent(x) ==
  LET q == x \div Cent   rest == x % Cent IN
  IF 2 * rest < Cent \/ (2 * rest = Cent /\ q % 2 = 0) THEN q ELSE q + 1

LowerOf(a, b) == IF a < b THEN a ELSE b
UpperOf(a, b) == IF a > b THEN a ELSE b

-----------------------------------------------------------------------------
(* DEFAULT_COSTS and the cost of a fill *)

CommissionOpen   == 100 * Cent
CommissionClose  == 0
CapPerLeg        == 1000 * Cent
PassThroughRate  == 14 * Cent      \* clearing and regulatory

\* Mutant: the cap is per order.
CommissionCappedOnce(legs, n, rate) == LowerOf(legs * n * rate, CapPerLeg)
Commission(legs, n, rate)           == legs * LowerOf(n * rate, CapPerLeg)

PassThrough(legs, n) == legs * n * PassThroughRate

\* Of one leg and contract: an eighth of the spread, at most 15% of the mid.
\* A cent of a quote is a dollar of the contract, 100 * Cent.
SlipOf(q) ==
  LowerOf((UpperOf(q.ask - q.bid, 0) * 100 * Cent) \div 8,
          (15 * UpperOf(q.bid + q.ask, 0) * Cent) \div 2)

Slippage(legs, n) == n * Total([i \in DOMAIN legs |-> SlipOf(legs[i])])

\* apply_entry_costs with CommissionOpen, apply_exit_costs with CommissionClose.
ApplyCosts(legs, n, rate) ==
  LET c == Commission(Len(legs), n, rate)
      p == PassThrough(Len(legs), n)
      s == Slippage(legs, n)
  IN [commission |-> RoundCent(c), passThrough |-> RoundCent(p),
      slippage |-> RoundCent(s), total |-> RoundCent(c + p + s)]

-----------------------------------------------------------------------------
(* The iron condor schedule: no cap, and the TAF on the sells *)

ClearingFee == 10 * Cent
Orf         == 2 * Cent
Taf         == 329

IndexExchangeFee(symbol) ==
  CASE symbol = "SPX" -> 60 * Cent
    [] symbol = "NDX" -> 25 * Cent
    [] symbol = "RUT" -> 18 * Cent
    [] OTHER -> 0

IcFee(symbol, n, legs, sells, rate) ==
  RoundCent(legs * n * (rate + ClearingFee + Orf + IndexExchangeFee(symbol))
              + sells * n * Taf)

Symbols == {"SPX", "XSP", "NDX", "RUT", "DEFAULT"}

\* ic_open_fee_table.
OpenFeeTable == [s \in Symbols |-> IcFee(s, 1, 4, 2, CommissionOpen)]

-----------------------------------------------------------------------------
(* Properties *)

Near(a, b) == a - b \in -1..1

\* Paper fills and condor fees do not depend on how a position is cut into
\* orders, but for the rounding of each to a cent: legs opened or closed apart
\* (a condor by its sides) cost what they cost together, caps included, and
\* contracts bought apart cost no less than together.  An index condor costs
\* what MEICAgent's constants say.  (Without legs nothing is charged.)
CutsCostTheSame ==
  quotes # <<>> =>
    /\ \A rate \in {CommissionOpen, CommissionClose} :
         LET Cost(legs, n) == ApplyCosts(legs, n, rate).total IN
         /\ \A i \in 1..Len(quotes) :
              Near(Cost(quotes, quantity),
                   Cost(SubSeq(quotes, 1, i), quantity)
                     + Cost(SubSeq(quotes, i + 1, Len(quotes)), quantity))
         /\ \A n \in 1..(quantity - 1) :
              Cost(quotes, quantity)
                <= Cost(quotes, n) + Cost(quotes, quantity - n) + 1
    /\ \A s \in Symbols, rate \in {CommissionOpen, CommissionClose} :
         Near(IcFee(s, quantity, 4, 2, rate), 2 * IcFee(s, quantity, 2, 1, rate))
    /\ OpenFeeTable = [SPX |-> 689, XSP |-> 449, NDX |-> 549, RUT |-> 521,
                       DEFAULT |-> 449]

=============================================================================
