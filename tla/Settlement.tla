----------------------------- MODULE Settlement -----------------------------
(***************************************************************************)
(* What a route promises to the people and programs around it, as one      *)
(* atomic step: an order is settled in full or nothing happens.  It says   *)
(* nothing of legs, venues, temporary accounts or failures; SwapRoute does *)
(* all of that between two states of this specification (RouteSettles).    *)
(***************************************************************************)
EXTENDS Integers, FiniteSets

CONSTANTS
    Mints,      \* mints of tokens
    Native,     \* the wrapped-SOL mint
    Users,      \* owners of token accounts
    Sponsor,    \* a payer that owns no tokens
    Titan,      \* the custodian
    Pool,       \* the counterparties
    Rent,       \* the deposit of a token account
    Orders,     \* what users may ask for
    InitFunds,  \* the funds a behaviour may start from
    Transfers   \* <<from, to, mint>> that others may transfer

\* An order: `user' gives `input' for `output'; `payer' pays deposits; the
\* custodian may open accounts of the mints `via'.  A ledger order gives what
\* arrived since the ledger was set, another the amount that it names.
OrderType == [user : Users, payer : Users \cup {Sponsor}, input : Mints, output : Mints,
              via : SUBSET Mints, amount : Nat, ledger : BOOLEAN]

Owners == Users \cup {Titan, Pool}
Payers == Users \cup {Sponsor}

VARIABLES
    bal,        \* tokens per owner and mint
    open,       \* <<owner, mint>> of the accounts that exist
    sol,        \* lamports of the wallets
    ledger      \* per user, a recorded balance

vars == <<bal, open, sol, ledger>>

NoLedger == [mint |-> Native, stored |-> -1]

Init == /\ \E f \in InitFunds : bal = f.bal /\ open = f.open /\ sol = f.sol
        /\ ledger = [u \in Users |-> NoLedger]

Transfer(from, to, m) ==
    /\ \E n \in 1 .. bal[from][m] :
          bal' = [bal EXCEPT ![from][m] = @ - n, ![to][m] = @ + n]
    /\ UNCHANGED <<open, sol, ledger>>

SetLedger(u, m) ==
    /\ <<u, m>> \in open
    /\ ledger' = [ledger EXCEPT ![u] = [mint |-> m, stored |-> bal[u][m]]]
    /\ UNCHANGED <<bal, open, sol>>

-----------------------------------------------------------------------------
(* Settling an order. *)

\* What the user gives.
Given(o) == IF o.ledger THEN bal[o.user][o.input] - ledger[o.user].stored ELSE o.amount

MayGive(o) == o.ledger => ledger[o.user].mint = o.input /\ Given(o) > 0

\* What somebody owns of a mint; lamports are worth as much as wrapped ones.
Worth(b, s, p, m) == (IF p \in Users THEN b[p][m] ELSE 0) + (IF m = Native THEN s[p] ELSE 0)

\* The user gives once, the payer pays for the accounts that are left open;
\* only the user receives, and only the output.
Due(o, p, m) == (IF p = o.user /\ m = o.input THEN Given(o) ELSE 0)
                + (IF p = o.payer /\ m = Native THEN Rent * Cardinality(open' \ open) ELSE 0)

Billed(o) ==
    \A p \in Payers, m \in Mints :
        LET before == Worth(bal, sol, p, m)
            after == Worth(bal', sol', p, m)
        IN  IF p = o.user /\ m = o.output THEN after >= before - Due(o, p, m)
                                          ELSE after = before - Due(o, p, m)

\* Nobody else's accounts are touched; of the user's, those of the two mints.
Untouched(o) ==
    /\ \A u \in Users \ {o.user} : bal'[u] = bal[u]
    /\ \A m \in Mints \ {o.input, o.output} : bal'[o.user][m] = bal[o.user][m]
    /\ \A p \in Payers \ {o.user, o.payer} : sol'[p] = sol[p]

\* Accounts are opened where the order says so, and none is lost.
Accounts(o) ==
    /\ open \subseteq open'
    /\ open' \ open \subseteq ({Titan} \X o.via) \cup {<<o.user, o.output>>}
    /\ \A w \in Owners, m \in Mints : bal'[w][m] > 0 => <<w, m>> \in open'

\* The custodian keeps what it held for others.
Kept == \A m \in Mints : bal'[Titan][m] >= bal[Titan][m]

Settle(o) == /\ MayGive(o)
             /\ Billed(o) /\ Untouched(o) /\ Accounts(o) /\ Kept
             /\ UNCHANGED ledger

Next == \/ \E t \in Transfers : Transfer(t[1], t[2], t[3])
        \/ \E u \in Users, m \in Mints : SetLedger(u, m)
        \/ \E o \in Orders : Settle(o)

Spec == Init /\ [][Next]_vars
=============================================================================
