---------------------------- MODULE RouteSettles ----------------------------
(***************************************************************************)
(* SwapRoute implements Settlement: between two instruction boundaries the *)
(* funds in `saved' are those of the abstract ledger, and the return of a  *)
(* route is the step that settles its order.                               *)
(***************************************************************************)
EXTENDS SwapRoute

\* What a route's arguments ask for.
OrderOf(r) == [user |-> r.user, payer |-> r.payer, input |-> InMint(r), output |-> OutMint(r),
               via |-> SlotMints(r), amount |-> r.amount, ledger |-> r.ledger]

RouteOrders == {OrderOf(r) : r \in {r \in Routes : ValidRoute(r)}}

Settled == INSTANCE Settlement WITH
               bal <- saved.bal, open <- saved.open, sol <- saved.sol, Orders <- RouteOrders

\* A route that starts is, to everybody who looks at the ledger between two
\* instructions, settled at once and in full or not at all, wherever it fails:
\* whichever accounts and venues the legs name, the other users' tokens and
\* lamports and the user's other tokens are not touched, accounts are opened for
\* the order only and none is lost, the custodian keeps what it held, and the
\* bill is the amount and the deposits (swap_route_v3.rs:52-334).
RouteIsSettled == Settled!Spec
=============================================================================
