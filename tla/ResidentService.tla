--------------------------- MODULE ResidentService ---------------------------
(***************************************************************************)
(* What a resident does before it serves: it becomes the local owner of the  *)
(* ledger (LedgerService), then it takes over the application state          *)
(* (ApplicationStateReadiness).  The two protocols share no state: the first *)
(* is conditioned on the rows of the session, the second on the coordinator  *)
(* authority.                                                               *)
(***************************************************************************)
EXTENDS ApplicationStateReadiness

CONSTANTS Manuals, MaxSessions

ASSUME ManualsAreNoResidents == Residents \cap Manuals = {}
ASSUME SessionsAreBounded == MaxSessions \in Nat

VARIABLES ownership, lifecycle, listening, proc, visits, errors

Service == INSTANCE LedgerService

service == <<ownership, lifecycle, listening, proc, visits, errors>>

\* The properties of the sessions, stated in LedgerService.
OwnersAreRight == Service!OwnersAreRight
OnlyOwnerMovesLifecycle == Service!OnlyOwnerMovesLifecycle
=============================================================================
