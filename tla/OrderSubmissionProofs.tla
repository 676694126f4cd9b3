------------------------ MODULE OrderSubmissionProofs ------------------------
(***************************************************************************)
(* Theorems about OrderSubmission, for every account, every set of orders  *)
(* and limits, and any number of calls.                                    *)
(***************************************************************************)
EXTENDS CoreLibrary, TLAPS

USE AccountAssumption

LEMMA ConsumeIsInt ==
  ASSUME OrderTypeOK, NEW c \in Callers
  PROVE  call[c].consume \in Int
<1>1. call[c].consume \in Consumes \cup {0}
  BY DEF OrderTypeOK
<1>2. \A n \in Consumes \cup {0} : n \in Int
  OBVIOUS
<1>. QED
  BY <1>1, <1>2

LEMMA PctIsNat ==
  ASSUME OrderTypeOK, NEW c \in Callers
  PROVE  call[c].pct \in Nat
<1>1. call[c].pct \in LimitPcts \cup {0}
  BY DEF OrderTypeOK
<1>2. \A n \in LimitPcts \cup {0} : n \in Nat
  OBVIOUS
<1>. QED
  BY <1>1, <1>2

LEMMA TypeStep ==
  ASSUME OrderTypeOK, [OrderNext]_orderVars
  PROVE  OrderTypeOK'
<1>. USE DEF OrderTypeOK
<1>1. ASSUME NEW c \in Callers, Begin(c) PROVE OrderTypeOK'
  BY <1>1 DEF Begin
<1>2. ASSUME NEW c \in Callers, PreflightFails(c) PROVE OrderTypeOK'
  BY <1>2 DEF PreflightFails, Goto
<1>3. ASSUME NEW c \in Callers, Preflight(c) PROVE OrderTypeOK'
  BY <1>3 DEF Preflight, Goto, AfterChecks
<1>4. ASSUME NEW c \in Callers, Govern(c) PROVE OrderTypeOK'
  BY <1>4 DEF Govern, AfterChecks, NotAllowed
<1>5. ASSUME NEW c \in Callers, GovernUnverified(c) PROVE OrderTypeOK'
  BY <1>5 DEF GovernUnverified, Goto, NotAllowed
<1>6. ASSUME NEW c \in Callers, Submit(c) PROVE OrderTypeOK'
  <2>1. used' \in 0..Capacity
    <3>1. call[c].consume \in Int
      BY ConsumeIsInt
    <3>. QED
      BY <1>6, <3>1 DEF Submit, Deployed
  <2>. QED
    BY <1>6, <2>1 DEF Submit, Goto
<1>7. ASSUME NEW c \in Callers, Refused(c) PROVE OrderTypeOK'
  BY <1>7 DEF Refused, Goto
<1>8. CASE UNCHANGED orderVars
  BY <1>8 DEF orderVars
<1>. QED
  BY <1>1, <1>2, <1>3, <1>4, <1>5, <1>6, <1>7, <1>8 DEF OrderNext

\* The account stays within its capacity, and every call within its protocol.
THEOREM TypeCorrect == OrderSpec => []OrderTypeOK
<1>1. OrderInit => OrderTypeOK
  BY DEF OrderInit, OrderTypeOK, Idle
<1>. QED
  BY <1>1, TypeStep, PTL DEF OrderSpec

-----------------------------------------------------------------------------
(* Dry runs: a call whose checks are over and that is still running is live. *)

LiveAtSubmit == \A c \in Callers : call[c].phase = "submit" => call[c].live

LEMMA LiveStep ==
  ASSUME OrderTypeOK, LiveAtSubmit, [OrderNext]_orderVars
  PROVE  LiveAtSubmit'
<1>. USE DEF OrderTypeOK, LiveAtSubmit
<1>1. ASSUME NEW c \in Callers, Begin(c) PROVE LiveAtSubmit'
  BY <1>1 DEF Begin
<1>2. ASSUME NEW c \in Callers, PreflightFails(c) PROVE LiveAtSubmit'
  BY <1>2 DEF PreflightFails, Goto
<1>3. ASSUME NEW c \in Callers, Preflight(c) PROVE LiveAtSubmit'
  BY <1>3 DEF Preflight, Goto, AfterChecks
<1>4. ASSUME NEW c \in Callers, Govern(c) PROVE LiveAtSubmit'
  BY <1>4 DEF Govern, AfterChecks, NotAllowed
<1>5. ASSUME NEW c \in Callers, GovernUnverified(c) PROVE LiveAtSubmit'
  BY <1>5 DEF GovernUnverified, Goto, NotAllowed
<1>6. ASSUME NEW c \in Callers, Submit(c) \/ Refused(c) PROVE LiveAtSubmit'
  BY <1>6 DEF Submit, Refused, Goto
<1>7. CASE UNCHANGED orderVars
  BY <1>7 DEF orderVars
<1>. QED
  BY <1>1, <1>2, <1>3, <1>4, <1>5, <1>6, <1>7 DEF OrderNext

LEMMA OnlySubmitMoves ==
  ASSUME OrderNext, used' # used
  PROVE  \E c \in Callers : Submit(c)
  BY DEF OrderNext, Begin, PreflightFails, Preflight, Govern, GovernUnverified, Refused

\* Dry runs, blocked orders and failed checks leave the account alone.
THEOREM DryRunsAreInert == OrderSpec => OnlyLiveOrdersMoveAccount
<1>1. OrderInit => LiveAtSubmit
  BY DEF OrderInit, LiveAtSubmit, Idle
<1>2. ASSUME OrderTypeOK, LiveAtSubmit, OrderNext, used' # used
      PROVE  \E c \in Callers : /\ call[c].live
                               /\ call[c].phase # "idle" /\ call'[c].phase = "idle"
                               /\ used' = Deployed(used + call[c].consume)
  <2>1. PICK c \in Callers : Submit(c)
    BY <1>2, OnlySubmitMoves
  <2>2. call'[c].phase = "idle" /\ call[c].phase = "submit"
    BY <1>2, <2>1 DEF Submit, Goto, OrderTypeOK
  <2>. QED
    BY <1>2, <2>1, <2>2 DEF LiveAtSubmit, Submit
<1>. QED
  BY <1>1, <1>2, LiveStep, TypeCorrect, PTL
  DEF OrderSpec, OnlyLiveOrdersMoveAccount, orderVars

-----------------------------------------------------------------------------
(* The cap: the verdict of the governor holds of the balances it saw.        *)

AllowedAsSeen ==
  \A c \in Callers : call[c].phase = "submit" /\ call[c].pct > 0 =>
    call[c].seen # None /\ Allows(call[c].seen, call[c].consume, call[c].pct)

LEMMA AllowedAsSeenStep ==
  ASSUME OrderTypeOK, AllowedAsSeen, [OrderNext]_orderVars
  PROVE  AllowedAsSeen'
<1>. USE DEF OrderTypeOK, AllowedAsSeen
<1>1. ASSUME NEW c \in Callers, Begin(c) PROVE AllowedAsSeen'
  BY <1>1 DEF Begin
<1>2. ASSUME NEW c \in Callers, PreflightFails(c) PROVE AllowedAsSeen'
  BY <1>2 DEF PreflightFails, Goto
<1>3. ASSUME NEW c \in Callers, Preflight(c) PROVE AllowedAsSeen'
  BY <1>3 DEF Preflight, Goto, AfterChecks
<1>4. ASSUME NEW c \in Callers, Govern(c) PROVE AllowedAsSeen'
  BY <1>4 DEF Govern, AfterChecks, NotAllowed
<1>5. ASSUME NEW c \in Callers, GovernUnverified(c) PROVE AllowedAsSeen'
  BY <1>5 DEF GovernUnverified, Goto, NotAllowed
<1>6. ASSUME NEW c \in Callers, Submit(c) \/ Refused(c) PROVE AllowedAsSeen'
  BY <1>6 DEF Submit, Refused, Goto
<1>7. CASE UNCHANGED orderVars
  BY <1>7 DEF orderVars
<1>. QED
  BY <1>1, <1>2, <1>3, <1>4, <1>5, <1>6, <1>7 DEF OrderNext

\* What an order deploys on top of more than was seen exceeds what it would
\* have deployed on top of what was seen by no more than the difference.
LEMMA Drift ==
  ASSUME NEW u \in Int, NEW seen \in Int, NEW consume \in Int, NEW bound \in Int,
         Deployed(seen + consume) * 100 <= bound
  PROVE  Deployed(u + consume) * 100 <= bound + 100 * Deployed(u - seen)
BY DEF Deployed

\* The step in which a governed order moves the account is its submission.
LEMMA GovernedMoveIsSubmit ==
  ASSUME OrderTypeOK, OrderNext, NEW c \in Callers, GovernedMove(c)
  PROVE  Submit(c)
<1>1. PICK d \in Callers : Submit(d)
  BY OnlySubmitMoves DEF GovernedMove
<1>2. d = c
  BY <1>1 DEF GovernedMove, Submit, Goto, OrderTypeOK
<1>. QED
  BY <1>1, <1>2

\* However many callers race, a governed order takes the account past its cap
\* by no more than what the others deployed behind the governor's back.
THEOREM RacesBoundOvershoot == OrderSpec => OvershootIsOthers
<1>1. OrderInit => AllowedAsSeen
  BY DEF OrderInit, AllowedAsSeen, Idle
<1>2. ASSUME OrderTypeOK, AllowedAsSeen, OrderNext, NEW c \in Callers, GovernedMove(c)
      PROVE  /\ call[c].seen # None
             /\ used' * 100 <= Capacity * call[c].pct + 100 * Deployed(used - call[c].seen)
  <2>1. Submit(c)
    BY <1>2, GovernedMoveIsSubmit
  <2>2. call[c].consume \in Int
    BY <1>2, ConsumeIsInt
  <2>6. Capacity * call[c].pct \in Int
    BY <1>2, PctIsNat
  <2>4. call[c].seen # None /\ Allows(call[c].seen, call[c].consume, call[c].pct)
    BY <1>2, <2>1 DEF AllowedAsSeen, Submit, GovernedMove
  <2>3. used \in Int /\ call[c].seen \in Int
    BY <1>2, <2>4 DEF OrderTypeOK
  <2>5. used' = Deployed(used + call[c].consume)
    BY <2>1 DEF Submit
  <2>. QED
    BY <2>2, <2>3, <2>4, <2>5, <2>6, Drift DEF Allows
<1>3. OrderTypeOK /\ AllowedAsSeen /\ [OrderNext]_orderVars
        => [\A c \in Callers : WithinCapAsSeen(c)]_orderVars
  BY <1>2 DEF WithinCapAsSeen
<1>. QED
  BY <1>1, <1>3, AllowedAsSeenStep, TypeCorrect, PTL DEF OrderSpec, OvershootIsOthers

\* A sole caller never takes the account past its cap: nobody else moves the
\* account between the verdict and the order.
SeenIsUsed ==
  \A c \in Callers : call[c].phase = "submit" /\ call[c].pct > 0 =>
                      call[c].seen = used

THEOREM SoleCallerUnderCap ==
  ASSUME \A c, d \in Callers : c = d
  PROVE  OrderSpec => GovernedUnderCap
<1>1. OrderInit => SeenIsUsed
  BY DEF OrderInit, SeenIsUsed, Idle
<1>2. ASSUME OrderTypeOK, SeenIsUsed, OrderNext PROVE SeenIsUsed'
  <2>. USE DEF OrderTypeOK, SeenIsUsed
  <2>1. ASSUME NEW c \in Callers, Begin(c) PROVE SeenIsUsed'
    BY <2>1 DEF Begin
  <2>6. ASSUME NEW c \in Callers, PreflightFails(c) PROVE SeenIsUsed'
    BY <2>6 DEF PreflightFails, Goto
  <2>2. ASSUME NEW c \in Callers, Preflight(c) PROVE SeenIsUsed'
    BY <2>2 DEF Preflight, Goto, AfterChecks
  <2>3. ASSUME NEW c \in Callers, Govern(c) PROVE SeenIsUsed'
    <3>1. call'[c].seen = used /\ used' = used
      BY <1>2, <2>3 DEF Govern
    <3>. QED
      BY <3>1
  <2>4. ASSUME NEW c \in Callers, GovernUnverified(c) PROVE SeenIsUsed'
    BY <2>4 DEF GovernUnverified, Goto, NotAllowed
  <2>5. ASSUME NEW c \in Callers, Submit(c) \/ Refused(c) PROVE SeenIsUsed'
    <3>1. call'[c].phase = "idle"
      BY <1>2, <2>5 DEF Submit, Refused, Goto
    <3>. QED
      BY <3>1
  <2>. QED
    BY <1>2, <2>1, <2>2, <2>3, <2>4, <2>5, <2>6 DEF OrderNext
<1>3. OrderTypeOK /\ SeenIsUsed /\ UNCHANGED orderVars => SeenIsUsed'
  BY DEF SeenIsUsed, orderVars
<1>4. ASSUME OrderTypeOK, SeenIsUsed, AllowedAsSeen, OrderNext, NEW c \in Callers, GovernedMove(c)
      PROVE  used' * 100 <= Capacity * call[c].pct
  <2>1. Submit(c)
    BY <1>4, GovernedMoveIsSubmit
  <2>2. Allows(used, call[c].consume, call[c].pct)
    BY <1>4, <2>1 DEF AllowedAsSeen, SeenIsUsed, Submit, GovernedMove
  <2>. QED
    BY <2>1, <2>2 DEF Submit, Allows
<1>5. OrderTypeOK /\ SeenIsUsed /\ AllowedAsSeen /\ [OrderNext]_orderVars
        => [\A c \in Callers : WithinCap(c)]_orderVars
  BY <1>4 DEF WithinCap
<1>6. OrderInit => AllowedAsSeen
  BY DEF OrderInit, AllowedAsSeen, Idle
<1>. QED
  BY <1>1, <1>2, <1>3, <1>5, <1>6, AllowedAsSeenStep, TypeCorrect, PTL
  DEF OrderSpec, GovernedUnderCap

\* What the run of the library checks, it checks of the parts: every behaviour of
\* CoreLibrary is one of each part's specification.
THEOREM LibraryIsItsParts == LibrarySpec => CalcSpec /\ SessionSpec /\ OrderSpec
<1>1. LibraryInit => CalcInit /\ SessionInit /\ OrderInit
  BY DEF LibraryInit
<1>2. [LibraryNext]_libraryVars
        => [CalcNext]_calcVars /\ [SessionNext]_sessionVars /\ [OrderNext]_orderVars
  <2>1. CASE Calculate
    BY <2>1 DEF Calculate
  <2>2. CASE UseSession
    BY <2>2 DEF UseSession
  <2>3. CASE PlaceOrder
    BY <2>3 DEF PlaceOrder
  <2>4. CASE UNCHANGED libraryVars
    BY <2>4 DEF libraryVars
  <2>. QED
    BY <2>1, <2>2, <2>3, <2>4 DEF LibraryNext
<1>. QED
  BY <1>1, <1>2, PTL DEF LibrarySpec, CalcSpec, SessionSpec, OrderSpec

=============================================================================
