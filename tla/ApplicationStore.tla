--------------------------- MODULE ApplicationStore ---------------------------
(***************************************************************************)
(* The two sides of the application-state store: effects that are put,        *)
(* resolved and recovered under a fence (ApplicationState), and the           *)
(* coordinators that move the fence (ApplicationStateAuthority).  The first   *)
(* takes from the second what FenceSpec says and nothing else.               *)
(***************************************************************************)
EXTENDS ApplicationState

CONSTANTS
    Transfers,        \* identities of transfers of the store
    MaxTransferEpoch  \* bound: coordinator authority epochs of the transfers

ASSUME NoneIsNoTransfer == None \notin Transfers
ASSUME TransferEpochs == MaxTransferEpoch \in Nat \ {0}

VARIABLES table, phase, request, unread, seen, answer, sealed

Transfer == INSTANCE ApplicationStateAuthority
                WITH MaxEpoch <- MaxTransferEpoch,
                     pc <- phase, call <- request, outcome <- answer

transfer == <<table, phase, request, unread, seen, answer, sealed>>

\* The properties of the transfers, stated in ApplicationStateAuthority.
TransfersBind == Transfer!TransfersBind
FenceSpec == Transfer!FenceSpec
=============================================================================
