----------------------------- MODULE CoreLibrary -----------------------------
(***************************************************************************)
(* The parts of cherrypick.core that a consumer calls and that share no    *)
(* state: the calculations, the session manager with its secrets, and the  *)
(* placing of orders (a session is an argument to it).  They are checked   *)
(* together: a behaviour asks one part and leaves the others at rest, so   *)
(* every behaviour of each part alone is one of the library's.             *)
(***************************************************************************)
EXTENDS Calculations, Sessions, OrderSubmission

VARIABLE component    \* the part that is asked

libraryVars == <<component, calcVars, sessionVars, orderVars>>

\* One initial state of a part is enough while another is asked.
CalculationsAtRest == part = "gex"
SessionsAtRest ==
  ~threadLocal /\ \A s \in 1..Services, k \in Secrets : keyring[s][k] = "set"

LibraryInit ==
  /\ component \in {"calculations", "auth", "orders"}
  /\ CalcInit /\ SessionInit /\ OrderInit
  /\ component # "calculations" => CalculationsAtRest
  /\ component # "auth" => SessionsAtRest

Calculate  == component = "calculations" /\ CalcNext /\ UNCHANGED <<sessionVars, orderVars>>
UseSession == component = "auth" /\ SessionNext /\ UNCHANGED <<calcVars, orderVars>>
PlaceOrder == component = "orders" /\ OrderNext /\ UNCHANGED <<calcVars, sessionVars>>

LibraryNext ==
  /\ Calculate \/ UseSession \/ PlaceOrder
  /\ UNCHANGED component

LibrarySpec == LibraryInit /\ [][LibraryNext]_libraryVars

=============================================================================
