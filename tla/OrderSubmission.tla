--------------------------- MODULE OrderSubmission ---------------------------
(***************************************************************************)
(* cherrypick.core.broker.place_order with the deploy governor of          *)
(* cherrypick.core.risk: several callers, of one process or of several,    *)
(* submit orders to one account.  Each broker call (the preflight, the     *)
(* balances, the live order) is a step of its own, so other callers' orders *)
(* can come between.                                                       *)
(*                                                                         *)
(* The account is external.  Its capacity (used + available buying power)  *)
(* is constant, its buying power changes only by the orders placed here,   *)
(* and the broker refuses what exceeds the buying power available.  Buying *)
(* power is in whole units; the code's Decimal arithmetic is exact.        *)
(***************************************************************************)
EXTENDS Integers

CONSTANTS
  Callers,       \* concurrent place_order calls
  Capacity,      \* used + available buying power of the account
  InitialUsed,   \* buying power deployed when the model starts
  Consumes,      \* buying power an order may consume; negative: releases
  LimitPcts,     \* values of deploy_limit_pct; 0 stands for None, too
  None,          \* no balances read yet
  MaxCalls       \* bound on calls of place_order

ASSUME AccountAssumption ==
  /\ Capacity \in Nat
  /\ InitialUsed \in 0..Capacity
  /\ Consumes \subseteq Int
  /\ LimitPcts \subseteq Nat
  /\ None \notin Int
  /\ MaxCalls \in Nat

VARIABLES
  used,    \* used_derivative_buying_power of the account
  call,    \* [Callers -> the place_order call each is in]
  calls    \* calls of place_order made so far

orderVars == <<used, call, calls>>

-----------------------------------------------------------------------------
(* risk.evaluate_deploy_limit *)

\* Mutant: no floor at zero.
DeployedRaw(n) == n
Deployed(n)    == IF n < 0 THEN 0 ELSE n

\* Mutant: the cap is compared with what is deployed before the order.
AllowsCurrent(u, consume, pct) == u * 100 <= Capacity * pct

\* `projected <= limit`, without the division.
Allows(u, consume, pct) == Deployed(u + consume) * 100 <= Capacity * pct

-----------------------------------------------------------------------------

Idle == [phase |-> "idle", consume |-> 0, live |-> FALSE, pct |-> 0, seen |-> None]

OrderInit ==
  /\ used = InitialUsed
  /\ call = [c \in Callers |-> Idle]
  /\ calls = 0

Goto(c, phase) == call' = [call EXCEPT ![c].phase = phase]

\* place_order is called and the preflight, a dry run, is on its way.
Begin(c) ==
  /\ call[c].phase = "idle"
  /\ calls < MaxCalls
  /\ calls' = calls + 1
  /\ \E consume \in Consumes, live \in BOOLEAN, pct \in LimitPcts :
       call' = [call EXCEPT ![c] = [phase |-> "preflight", consume |-> consume,
                                    live |-> live, pct |-> pct, seen |-> None]]
  /\ UNCHANGED used

\* The preflight raises or reports errors: nothing else is sent.
PreflightFails(c) ==
  /\ call[c].phase = "preflight"
  /\ Goto(c, "idle")
  /\ UNCHANGED <<used, calls>>

\* Mutant: the dry run falls through to the submission.
AfterChecksSubmit(c) == "submit"

\* `if not live`: a dry run ends here.
AfterChecks(c) == IF call[c].live THEN "submit" ELSE "idle"

\* The preflight is clean.  The governor is consulted if a limit is given.
Preflight(c) ==
  /\ call[c].phase = "preflight"
  /\ Goto(c, IF call[c].pct > 0 THEN "governor" ELSE AfterChecks(c))
  /\ UNCHANGED <<used, calls>>

\* Mutant: a governor that could not verify the account lets the order pass.
UnverifiedPasses(c) == AfterChecks(c)

\* A live order that the governor does not allow is blocked; a dry run ends
\* here in any case.
NotAllowed(c) == "idle"

\* _deploy_governor: live balances, which its report keeps, and the verdict.
Govern(c) ==
  /\ call[c].phase = "governor"
  /\ call' = [call EXCEPT
       ![c].seen = used,
       ![c].phase = IF Allows(used, call[c].consume, call[c].pct)
                      THEN AfterChecks(c)
                      ELSE NotAllowed(c)]
  /\ UNCHANGED <<used, calls>>

\* The buying-power change or the balances cannot be read: fail closed.
GovernUnverified(c) ==
  /\ call[c].phase = "governor"
  /\ Goto(c, NotAllowed(c))
  /\ UNCHANGED <<used, calls>>

\* The live order reaches the broker.  Whether the response arrives or the call
\* raises makes no difference to the account.
Submit(c) ==
  LET after == used + call[c].consume IN
  /\ call[c].phase = "submit"
  /\ after <= Capacity
  /\ used' = Deployed(after)
  /\ Goto(c, "idle")
  /\ UNCHANGED calls

\* The broker refuses the live order, or it never arrives.
Refused(c) ==
  /\ call[c].phase = "submit"
  /\ Goto(c, "idle")
  /\ UNCHANGED <<used, calls>>

OrderNext ==
  \E c \in Callers :
    \/ Begin(c) \/ PreflightFails(c)
    \/ Preflight(c)
    \/ Govern(c) \/ GovernUnverified(c)
    \/ Submit(c) \/ Refused(c)

OrderSpec == OrderInit /\ [][OrderNext]_orderVars

-----------------------------------------------------------------------------
(* Properties *)

\* The type invariant.
OrderTypeOK ==
  /\ used \in 0..Capacity
  /\ call \in [Callers -> [phase : {"idle", "preflight", "governor", "submit"},
                          consume : Consumes \cup {0}, live : BOOLEAN,
                          pct : LimitPcts \cup {0}, seen : 0..Capacity \cup {None}]]
  /\ calls \in 0..MaxCalls

\* Whatever the callers do, the account only moves by a live order whose call
\* asked for it, on a governed path or not: dry runs are inert.
OnlyLiveOrdersMoveAccount ==
  [][used' # used =>
       \E c \in Callers : /\ call[c].live
                         /\ call[c].phase # "idle" /\ call'[c].phase = "idle"
                         /\ used' = Deployed(used + call[c].consume)]_orderVars

\* c's governed order has just moved the account.
GovernedMove(c) == call[c].pct > 0 /\ call'[c] # call[c] /\ used' # used

\* A governed order is never sent before the governor has read the balances, and
\* passes its cap by no more than what other orders deployed since: not at all
\* if nothing did.  That holds of any mix of callers, and of an account over its
\* cap, which takes no governed order that does not bring it all the way back,
\* closing ones included.
WithinCapAsSeen(c) ==
  GovernedMove(c) =>
    /\ call[c].seen # None
    /\ used' * 100 <= Capacity * call[c].pct + 100 * Deployed(used - call[c].seen)

OvershootIsOthers == [][\A c \in Callers : WithinCapAsSeen(c)]_orderVars

\* "it stays correct across restarts and multiple processes": a governed order
\* leaves the account within its cap.  It does not, when callers race.
WithinCap(c) == GovernedMove(c) => used' * 100 <= Capacity * call[c].pct

GovernedUnderCap == [][\A c \in Callers : WithinCap(c)]_orderVars

=============================================================================
