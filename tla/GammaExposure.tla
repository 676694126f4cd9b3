---------------------------- MODULE GammaExposure ----------------------------
(***************************************************************************)
(* cherrypick.core.gex: the two engines that turn an option chain into     *)
(* gamma exposure per strike, its walls and its zero crossings.            *)
(*                                                                         *)
(* The dollar gamma of an option (gamma * open interest * multiplier *     *)
(* spot^2 / 100) is one number, at the multiplier that both engines are    *)
(* called with, and in half dollars, so that rounding to whole dollars     *)
(* meets a tie.  It is Missing for an option that compute_gex skips: its   *)
(* greeks or open interest are not cached, or its open interest is zero.   *)
(* Of the option_type, any text, only matters which of the letters C and P *)
(* are in it (".SPXWc" has both).  Prices are in the unit of the strikes,  *)
(* crossings in hundredths of it, as the code rounds them.  Entries come   *)
(* in any order, strikes may repeat.                                       *)
(***************************************************************************)
EXTENDS Sequences, Totals

CONSTANTS
  Strikes,     \* strikes of the chain
  Kinds,       \* [letters: those of its type, scale: its own shares per contract
               \* over the multiplier of the call]
  Amounts,     \* dollar gammas, in half dollars
  Missing,     \* the dollar gamma of an option without data
  Nothing,     \* Python's None
  Spot,        \* the underlying's price
  MaxEntries   \* bound on the length of the chain

VARIABLE chain    \* chain_entries, with what greeks and oi hold for each

Entries == [strike : Strikes, kind : Kinds, amount : Amounts \cup {Missing}]

Init == chain = <<>>

\* The snapshot grows by any entry.
List(e) ==
  /\ Len(chain) < MaxEntries
  /\ chain' = Append(chain, e)

Next == \E e \in Entries : List(e)

-----------------------------------------------------------------------------
(* round() *)

\* The integer nearest to n / d, ties to even.
RoundDiv(n, d) ==
  LET q == IF d > 0 THEN n \div d ELSE (-n) \div (-d)
      rest == IF d > 0 THEN n - q * d ELSE q * d - n
      size == IF d > 0 THEN d ELSE -d
  IN IF 2 * rest < size \/ (2 * rest = size /\ q % 2 = 0) THEN q ELSE q + 1

\* Half dollars to dollars.
RoundDollar(x) == RoundDiv(x, 2)

-----------------------------------------------------------------------------
(* Series: per strike, ascending, the call, put and net exposure *)

Calls(series) == [i \in DOMAIN series |-> series[i].call]
Puts(series)  == [i \in DOMAIN series |-> series[i].put]
Nets(series)  == [i \in DOMAIN series |-> series[i].net]

\* Where the amount is largest.  Python's max and min keep the first of equals.
PeakStrike(series, amounts) ==
  LET best == CHOOSE i \in DOMAIN amounts :
                \A j \in DOMAIN amounts :
                  \/ amounts[j] < amounts[i]
                  \/ amounts[j] = amounts[i] /\ i <= j
  IN series[best].strike

\* A change of sign, zero counting as positive.
Crosses(a, b) == (a < 0 /\ 0 <= b) \/ (a >= 0 /\ 0 > b)

\* Where the line from (k, a) to (l, b) is zero, in hundredths.
ZeroBetween(k, l, a, b) ==
  RoundDiv(100 * (k * (b - a) - a * (l - k)), b - a)

\* One turn of the loop of interpolate_zero_gamma.
ScanStep(scan, s) ==
  LET sum == scan.sum + s.net IN
  [sum  |-> sum,
   at   |-> s.strike,
   flip |-> IF scan.flip = Nothing /\ scan.at # Nothing /\ Crosses(scan.sum, sum)
            THEN ZeroBetween(scan.at, s.strike, scan.sum, sum)
            ELSE scan.flip]

\* Mutant: adjacent strikes are compared instead of the running sum.
LocalZeroGamma(series) ==
  LET at == {i \in 2..Len(series) : Crosses(series[i - 1].net, series[i].net)}
  IN IF at = {} THEN Nothing
     ELSE LET i == CHOOSE i \in at : \A j \in at : i <= j IN
          ZeroBetween(series[i - 1].strike, series[i].strike,
                      series[i - 1].net, series[i].net)

\* Where the cumulative net exposure first crosses zero.
InterpolateZeroGamma(series) ==
  FoldLeft(ScanStep, [sum |-> 0, at |-> Nothing, flip |-> Nothing], series).flip

\* The sign change between adjacent strikes that is nearest to the spot.
NearestZeroGamma(series, spot) ==
  LET at      == {i \in 2..Len(series) :
                    Crosses(series[i - 1].net, series[i].net)}
      Zero(i) == ZeroBetween(series[i - 1].strike, series[i].strike,
                             series[i - 1].net, series[i].net)
      Away(i) == IF Zero(i) < 100 * spot THEN 100 * spot - Zero(i)
                                         ELSE Zero(i) - 100 * spot
  IN IF at = {} THEN Nothing
     ELSE Zero(CHOOSE i \in at :
                 \A j \in at : \/ Away(i) < Away(j)
                               \/ Away(i) = Away(j) /\ i <= j)

-----------------------------------------------------------------------------
(* compute_gex: options without data are left out, as are strikes that are  *)
(* not positive; every type without a C is a put; repeats add up; one       *)
(* multiplier for all; puts are positive until the net                      *)

Counts(e)   == e.amount # Missing /\ e.strike > 0
WithData(c) == {c[i].strike : i \in {j \in DOMAIN c : Counts(c[j])}}

SideOf(e) == IF "C" \in e.kind.letters THEN "call" ELSE "put"

\* sorted().
Ascending(S) ==
  CHOOSE f \in [1..Cardinality(S) -> S] : \A i, j \in DOMAIN f : i < j => f[i] < f[j]

Side(c, k, t) ==
  Total([i \in DOMAIN c |->
           IF c[i].strike = k /\ SideOf(c[i]) = t /\ Counts(c[i])
           THEN c[i].amount ELSE 0])

GexSeries(c) ==
  LET At(k) == [strike |-> k, call |-> Side(c, k, "call"), put |-> Side(c, k, "put"),
                net |-> Side(c, k, "call") - Side(c, k, "put")]
      ks == Ascending(WithData(c))
  IN [i \in DOMAIN ks |-> At(ks[i])]

\* In half dollars.
ComputeGex(c) ==
  LET series == GexSeries(c) IN
  [net      |-> Total(Nets(series)),
   positive |-> Total(Nets(series)) > 0,
   callWall |-> PeakStrike(series, Calls(series)),
   putWall  |-> PeakStrike(series, Puts(series)),
   flip     |-> InterpolateZeroGamma(series)]

-----------------------------------------------------------------------------
(* compute_gex_profile: every strike has a row; a type with a P is negated, *)
(* and stored as a call all the same if it has a C; one with neither goes   *)
(* nowhere; a repeat replaces; each option has its own multiplier; rows are *)
(* rounded to dollars before they are compared                              *)

StrikesOf(c) == {c[i].strike : i \in DOMAIN c}

SlotOf(e) ==
  IF "C" \in e.kind.letters THEN "call"
  ELSE IF "P" \in e.kind.letters THEN "put"
  ELSE "none"

\* An option without data is worth zero.
Signed(e) ==
  LET own == IF e.amount = Missing THEN 0 ELSE e.kind.scale * e.amount
  IN IF "P" \in e.kind.letters THEN -own ELSE own

LastIn(c, k, slot) ==
  LET at == {i \in DOMAIN c : c[i].strike = k /\ SlotOf(c[i]) = slot} IN
  IF at = {} THEN 0 ELSE Signed(c[Max(at)])

ProfileSeries(c) ==
  LET At(k) == [strike |-> k,
                call |-> RoundDollar(LastIn(c, k, "call")),
                put  |-> RoundDollar(LastIn(c, k, "put")),
                net  |-> RoundDollar(LastIn(c, k, "call") + LastIn(c, k, "put"))]
      ks == Ascending(StrikesOf(c))
  IN [i \in DOMAIN ks |-> At(ks[i])]

\* Mutant: the put wall of a series whose puts are negative is its maximum.
PutWallOfMaximum(series) == PeakStrike(series, Puts(series))
PutWall(series)          == PeakStrike(series, [i \in DOMAIN series |-> -series[i].put])

\* In dollars.
Profile(c) ==
  LET series == ProfileSeries(c) IN
  [net      |-> Total(Nets(series)),
   positive |-> Total(Nets(series)) > 0,
   callWall |-> PeakStrike(series, Calls(series)),
   putWall  |-> PutWall(series),
   flip     |-> InterpolateZeroGamma(series)]

-----------------------------------------------------------------------------
(* Properties *)

\* Types of one letter, at the multiplier of the call.
Plain ==
  \A i \in DOMAIN chain :
    chain[i].kind.letters \in {{"C"}, {"P"}} /\ chain[i].kind.scale = 1
Complete == \A i \in DOMAIN chain : Counts(chain[i])
Distinct ==
  \A i, j \in DOMAIN chain :
    chain[i].strike = chain[j].strike /\ SideOf(chain[i]) = SideOf(chain[j]) => i = j
WholeDollars == \A i \in DOMAIN chain : chain[i].amount % 2 = 0

\* Where the trading loop (compute_gex) and the dashboard (compute_gex_profile)
\* read one chain alike, in whatever order each is handed it: if all types have
\* one letter, all options the default multiplier, data and a strike of their
\* own, their totals differ by half a dollar per strike at most, and in whole
\* dollars regime, walls and flip are the same.  On other chains they do not,
\* though the module promises "one implementation": a row without open interest
\* counts as a positive total in the profile, and puts a flip where compute_gex
\* has none.
EnginesAgree ==
  chain # <<>> /\ Plain /\ Complete /\ Distinct =>
    LET gex == ComputeGex(chain)
        pro == Profile(Reverse(chain))
    IN /\ gex.net - 2 * pro.net \in
            (-Len(GexSeries(chain)))..Len(GexSeries(chain))
       /\ WholeDollars => [pro EXCEPT !.net = 2 * @] = gex

\* gamma_flip, on any chain: the flip lies where the total below it first has
\* the other sign than at the lowest strike; without one, the net exposure
\* below every strike, so the regime too, has one sign; and where the whole
\* book flips, some adjacent strikes do, so the local zero gamma exists.
FlipTellsRegime ==
  LET series == GexSeries(chain)
      flip   == InterpolateZeroGamma(series)
      Below(i) == Total(Nets(SubSeq(series, 1, i)))
      Turned == {i \in DOMAIN series : (Below(i) < 0) # (Below(1) < 0)}
  IN IF Turned = {}
     THEN flip = Nothing
     ELSE LET i == CHOOSE i \in Turned : \A j \in Turned : i <= j IN
          /\ flip \in (100 * series[i - 1].strike)..(100 * series[i].strike)
          /\ NearestZeroGamma(series, Spot) # Nothing

=============================================================================
