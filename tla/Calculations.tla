----------------------------- MODULE Calculations -----------------------------
(***************************************************************************)
(* The parts of cherrypick.core that only compute, side by side: the       *)
(* calendar, the two gamma exposure engines, the risk profiles and the     *)
(* fees.  They share nothing, so a behaviour asks one of them and leaves   *)
(* the others at rest.                                                     *)
(***************************************************************************)
EXTENDS MarketCalendar, Sequences

CONSTANTS
  Strikes, Kinds, Amounts, Missing, Nothing, Spot, MaxEntries,
                                                         \* see GammaExposure
  Ladder, DeliberateOnly, Registry, BaseConfig, Absent, Untagged, Tags,
  Stripped, Blank, MinSample, MinWinPct, MinDays, MaxRows, LastDay,
                                                         \* see Profiles
  Quotes, Quantities, MaxLegs                            \* see Fees

\* The profile that a consumer starts under is a rung.
ASSUME LadderAssumption == Len(Ladder) \in Nat /\ Len(Ladder) > 0

\* No profile is called what rows without a profile are called: its group would
\* be theirs too.
ASSUME TagAssumption == \A n \in 1..Len(Ladder) : Ladder[n] # Untagged

\* Strikes, dollar gammas and scales are numbers, and None is none.
ASSUME GexAssumption ==
  /\ Strikes \subseteq Int /\ Amounts \subseteq Int /\ Nothing \notin Int /\ Spot \in Int
  /\ Kinds \subseteq [letters : SUBSET {"C", "P"}, scale : Int]

\* Quotes are numbers, and an order is for a number of contracts.
ASSUME FeesAssumption ==
  Quotes \subseteq [bid : Int, ask : Int] /\ Quantities \subseteq Nat

VARIABLES
  part,                                                  \* what is asked
  chain,                                                 \* see GammaExposure
  base, config, rung, advised, rows, today,              \* see Profiles
  quotes, quantity                                       \* see Fees

Gex  == INSTANCE GammaExposure
Risk == INSTANCE Profiles
Cost == INSTANCE Fees

riskVars == <<base, config, rung, advised, rows, today>>
costVars == <<quotes, quantity>>
calcVars == <<part, vars, chain, riskVars, costVars>>

AtRest ==
  /\ query = "none"
  /\ origin = Date(FirstYear, 1, 1) /\ day = origin

CalcInit ==
  /\ part \in {"calendar", "gex", "profiles", "fees"}
  /\ IF part = "calendar" THEN Init ELSE AtRest
  /\ Gex!Init
  /\ Risk!Init
  /\ IF part = "fees" THEN Cost!Init ELSE quotes = <<>> /\ quantity = 1

AskCalendar == part = "calendar" /\ Next /\ UNCHANGED <<chain, riskVars, costVars>>
AskGex      == part = "gex" /\ Gex!Next /\ UNCHANGED <<vars, riskVars, costVars>>
AskProfiles == part = "profiles" /\ Risk!Next /\ UNCHANGED <<vars, chain, costVars>>
AskFees     == part = "fees" /\ Cost!Next /\ UNCHANGED <<vars, chain, riskVars>>

CalcNext ==
  /\ AskCalendar \/ AskGex \/ AskProfiles \/ AskFees
  /\ UNCHANGED part

CalcSpec == CalcInit /\ [][CalcNext]_calcVars

-----------------------------------------------------------------------------
(* Properties of the parts *)

\* See GammaExposure: on which chains the trading loop and the dashboard agree.
EnginesAgree == Gex!EnginesAgree

\* See GammaExposure: a missing flip means one regime at every strike.
FlipTellsRegime == Gex!FlipTellsRegime

\* See Profiles: the traded configuration forgets every earlier profile.
SwitchLeavesNothing == Risk!SwitchLeavesNothing

\* See Profiles: the advisor climbs one rung at a time, on the profile's own
\* trades, and never onto a deliberate rung.
ClimbsEarned == Risk!ClimbsEarned

\* See Fees: cutting a position into orders changes its cost by rounding only.
CutsCostTheSame == Cost!CutsCostTheSame

=============================================================================
