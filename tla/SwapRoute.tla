----------------------------- MODULE SwapRoute -----------------------------
(***************************************************************************)
(* The on-chain `swap_route_v3` instruction of the Titan route program     *)
(* (program-template/.../instructions/swap_route_v3.rs), one action per    *)
(* stage of SwapRouteV3::execute, run again and again by several users     *)
(* over one ledger of token accounts.                                      *)
(*                                                                         *)
(* A token account is identified by its owner and its mint: it is `open'   *)
(* (allocated) or not, holds `bal' tokens, and its allocation deposit is   *)
(* `Rent' lamports.  The tokens of the Native mint are wrapped lamports.   *)
(* Between two route instructions other instructions move tokens about.    *)
(* An instruction that fails anywhere is rolled back by the runtime.       *)
(***************************************************************************)
EXTENDS Integers, Sequences, FiniteSets, Functions

CONSTANTS
    Mints,      \* mints of tokens
    Native,     \* the wrapped-SOL mint
    Users,      \* users whose tokens are routed
    Sponsor,    \* a fee payer that is not the user of the route
    Titan,      \* the TitanPDA, owner of the route's token accounts
    Pool,       \* the vaults of the venues
    WeightAll,  \* weight_nanos that stands for "all", 1_000_000_000 in the code
    Rent,       \* lamports that a token account's allocation locks
    Routes,     \* the instructions' arguments (SwapSpecInputV2 and accounts)
    InitFunds,  \* the funds a behaviour may start from
    Transfers,  \* <<from, to, mint>> that other instructions may transfer
    MaxSwaps,   \* MAX_SWAPS
    MaxMints,   \* MAX_MINTS
    MaxRoutes,  \* bound on the routes that are started
    ExactIn     \* do venues take exactly the amount they are asked to?

NoLedger == [mint |-> Native, stored |-> -1]

\* One leg: swap.from, swap.to and weight_nanos, and the mints `in' and `out'
\* of the TitanPDA accounts the caller placed among the leg's venue accounts.
LegType == [from : Nat, to : Nat, weight : Nat, in : Mints, out : Mints]

\* `slots' are the first `mints' remaining accounts, TitanPDA's token account
\* of each route mint; the slots are numbered from 0 as in the code.
RouteType == [slots : Seq(Mints), legs : Seq(LegType), amount : Nat,
              ledger : BOOLEAN, user : Users, payer : Users \cup {Sponsor}]

Owners == Users \cup {Titan, Pool}
Payers == Users \cup {Sponsor}
FundsType == [bal : [Owners -> [Mints -> Nat]], open : SUBSET (Owners \X Mints),
              sol : [Payers -> Nat]]

ASSUME PartiesDiffer ==
    /\ Users \cap {Sponsor, Titan, Pool} = {}
    /\ Titan # Pool
    /\ IsFiniteSet(Mints) /\ IsFiniteSet(Users)
\* Tokens are held in open accounts only.
ASSUME InitFundsAssumption ==
    \A f \in InitFunds : /\ f \in FundsType
                         /\ \A o \in Owners, m \in Mints : f.bal[o][m] > 0 => <<o, m>> \in f.open
ASSUME NumbersAssumption ==
    /\ WeightAll \in Nat \ {0}
    /\ Rent \in Nat
    /\ MaxSwaps \in Nat
    /\ MaxMints \in Nat
    /\ MaxRoutes \in Nat
    /\ ExactIn \in BOOLEAN
\* Nobody but this program signs for the TitanPDA.
ASSUME TransfersAssumption ==
    \A t \in Transfers : t \in (Owners \ {Titan}) \X Owners \X Mints /\ t[1] # t[2]
\* A venue trades one mint for another.
ASSUME RoutesAssumption ==
    \A r \in Routes : r \in RouteType /\ \A k \in DOMAIN r.legs : r.legs[k].in # r.legs[k].out


VARIABLES
    bal,        \* tokens in each token account
    open,       \* the token accounts that are allocated
    sol,        \* lamports of the wallets
    ledger,     \* per user: a token account's balance some instruction recorded
    pc,         \* stage of the running route instruction
    route,      \* its arguments
    saved,      \* funds at the last instruction boundary, for the runtime's rollback
    created,    \* created_atas
    watched,    \* titan_pda_ata_bitmap, by mint
    recorded,   \* reserved_balances and titan_pda_ata_balances, by mint
    effective,  \* effective_amount
    madeWsol,   \* created_wsol_input
    leg,        \* index of the next leg
    started     \* routes started so far, for MaxRoutes

funds == <<bal, open, sol>>
stage == <<created, watched, recorded, effective, madeWsol, leg>>
vars == <<bal, open, sol, ledger, pc, route, saved, stage, started>>

Stages == {"idle", "open", "snapshot", "fund", "payIn", "legs", "payOut",
           "close", "check", "done"}

NoRoute == [slots |-> <<>>, legs |-> <<>>]
Funds == [bal |-> bal, open |-> open, sol |-> sol]

-----------------------------------------------------------------------------
(* The arguments. *)

SlotMint(r, i) == r.slots[i + 1]
InMint(r)  == SlotMint(r, 0)
OutMint(r) == SlotMint(r, r.legs[Len(r.legs)].to)
SlotMints(r) == Range(r.slots)
LegMints(r)  == UNION { {r.legs[k].in, r.legs[k].out} : k \in DOMAIN r.legs }

\* The require!s that open execute.
ValidRoute(r) ==
    /\ Len(r.slots) > 1 /\ Len(r.slots) <= MaxMints
    /\ Len(r.legs) > 0 /\ Len(r.legs) <= MaxSwaps
    /\ r.legs[1].from = 0
    /\ \A k \in DOMAIN r.legs : r.legs[k].from < Len(r.slots) /\ r.legs[k].to < Len(r.slots)

\* read_token_ledger: the ledger account must be about the input account.
LedgerMatches(r) == r.ledger => ledger[r.user] # NoLedger /\ ledger[r.user].mint = InMint(r)

\* Variants of LegInput with a bug: no cap on the weight; rounding before the
\* weight is applied.
LegInputUncapped(available, weight) == (available * weight) \div WeightAll
LegInputRoundedEarly(available, weight) ==
    (available \div WeightAll) * (IF weight < WeightAll THEN weight ELSE WeightAll)

\* min(weight_nanos, 1e9) of what is available, rounded down.
LegInput(available, weight) ==
    (available * (IF weight < WeightAll THEN weight ELSE WeightAll)) \div WeightAll

\* u64::saturating_sub
Excess(x, y) == IF x > y THEN x - y ELSE 0

\* Tokens moved between two owners' accounts of a mint.
Move(b, from, to, m, n) ==
    [o \in Owners |-> [b[o] EXCEPT ![m] = IF from = to THEN @
                                          ELSE IF o = from THEN @ - n
                                          ELSE IF o = to THEN @ + n ELSE @]]

CanMove(from, to, m, n) ==
    n > 0 => {<<from, m>>, <<to, m>>} \subseteq open /\ bal[from][m] >= n

-----------------------------------------------------------------------------
(* Between instructions. *)

Idle == /\ pc = "idle" /\ route = NoRoute
        /\ created = {} /\ watched = {} /\ recorded = [m \in Mints |-> 0]
        /\ effective = 0 /\ madeWsol = FALSE /\ leg = 1

ToIdle == /\ pc' = "idle" /\ route' = NoRoute
          /\ created' = {} /\ watched' = {} /\ recorded' = [m \in Mints |-> 0]
          /\ effective' = 0 /\ madeWsol' = FALSE /\ leg' = 1

Init == /\ \E f \in InitFunds : bal = f.bal /\ open = f.open /\ sol = f.sol
        /\ saved = Funds
        /\ ledger = [u \in Users |-> NoLedger]
        /\ started = 0
        /\ Idle

\* Any other instruction that moves tokens.
Transfer(from, to, m, n) ==
    /\ pc = "idle"
    /\ CanMove(from, to, m, n)
    /\ bal' = Move(bal, from, to, m, n)
    /\ saved' = [saved EXCEPT !.bal = bal']
    /\ UNCHANGED <<open, sol, ledger, pc, route, stage, started>>

\* The instruction that records a token account's balance for a later route.
SetLedger(u, m) ==
    /\ pc = "idle" /\ <<u, m>> \in open
    /\ ledger' = [ledger EXCEPT ![u] = [mint |-> m, stored |-> bal[u][m]]]
    /\ UNCHANGED <<funds, pc, route, saved, stage, started>>

-----------------------------------------------------------------------------
(* The stages of SwapRouteV3::execute.                                     *)

\* Lines 58-99: the arguments and the token ledger are checked first.
Begin(r) ==
    /\ pc = "idle"
    /\ ValidRoute(r) /\ LedgerMatches(r)
    /\ started < MaxRoutes /\ started' = started + 1
    /\ pc' = "open" /\ route' = r
    /\ UNCHANGED <<funds, ledger, saved, stage>>

\* Lines 101-129: the payer funds the TitanPDA accounts that are missing.
Missing(r) == {m \in SlotMints(r) : <<Titan, m>> \notin open}

OpenAtas ==
    /\ pc = "open"
    /\ created' = Missing(route)
    /\ sol[route.payer] >= Rent * Cardinality(created')
    /\ sol' = [sol EXCEPT ![route.payer] = @ - Rent * Cardinality(created')]
    /\ open' = open \cup ({Titan} \X created')
    /\ pc' = "snapshot"
    /\ UNCHANGED <<bal, ledger, route, saved, watched, recorded, effective, madeWsol, leg>>

\* A variant of Watched with a bug: the legs' accounts are left out.
WatchedSlotsOnly(r) == SlotMints(r)

\* Lines 131-148: every remaining account that is a TitanPDA token account,
\* those of the legs included, has its balance recorded.
Watched(r) == SlotMints(r) \cup {m \in LegMints(r) : <<Titan, m>> \in open}

Snapshot ==
    /\ pc = "snapshot"
    /\ watched' = Watched(route)
    /\ recorded' = [m \in Mints |-> IF m \in watched' THEN bal[Titan][m] ELSE 0]
    /\ pc' = "fund"
    /\ UNCHANGED <<funds, ledger, route, saved, created, effective, madeWsol, leg>>

\* Variants of FundFromLedger with a bug: nothing checks that the balance grew;
\* the `amount' argument is spent.
FundFromLedgerUnchecked ==
    /\ pc = "fund" /\ route.ledger
    /\ <<route.user, InMint(route)>> \in open
    /\ effective' = bal[route.user][InMint(route)] - ledger[route.user].stored
    /\ pc' = "payIn"
    /\ UNCHANGED <<funds, ledger, route, saved, created, watched, recorded, madeWsol, leg>>

FundFromLedgerAmount ==
    /\ pc = "fund" /\ route.ledger
    /\ <<route.user, InMint(route)>> \in open
    /\ effective' = route.amount
    /\ effective' > 0
    /\ pc' = "payIn"
    /\ UNCHANGED <<funds, ledger, route, saved, created, watched, recorded, madeWsol, leg>>

\* Lines 150-158: what arrived in the input account since the ledger was set.
FundFromLedger ==
    /\ pc = "fund" /\ route.ledger
    /\ <<route.user, InMint(route)>> \in open
    /\ effective' = bal[route.user][InMint(route)] - ledger[route.user].stored
    /\ effective' > 0
    /\ pc' = "payIn"
    /\ UNCHANGED <<funds, ledger, route, saved, created, watched, recorded, madeWsol, leg>>

\* Line 159, the input is not wrapped SOL.
FundPlain ==
    /\ pc = "fund" /\ ~ route.ledger /\ InMint(route) # Native
    /\ effective' = route.amount
    /\ pc' = "payIn"
    /\ UNCHANGED <<funds, ledger, route, saved, created, watched, recorded, madeWsol, leg>>

\* setup_wsol_input_account, the account exists: wrap what it lacks.
Deficit(u, n) == IF bal[u][Native] < n THEN n - bal[u][Native] ELSE 0

\* A variant of TopUpWsol with a bug: it reports the account as made by the
\* route, which is then closed.
TopUpWsolMade ==
    /\ pc = "fund" /\ ~ route.ledger /\ InMint(route) = Native
    /\ <<route.user, Native>> \in open
    /\ effective' = route.amount
    /\ sol[route.user] >= Deficit(route.user, route.amount)
    /\ sol' = [sol EXCEPT ![route.user] = @ - Deficit(route.user, route.amount)]
    /\ bal' = [bal EXCEPT ![route.user][Native] = @ + Deficit(route.user, route.amount)]
    /\ madeWsol' = TRUE
    /\ pc' = "payIn"
    /\ UNCHANGED <<open, ledger, route, saved, created, watched, recorded, leg>>

TopUpWsol ==
    /\ pc = "fund" /\ ~ route.ledger /\ InMint(route) = Native
    /\ <<route.user, Native>> \in open
    /\ effective' = route.amount
    /\ sol[route.user] >= Deficit(route.user, route.amount)
    /\ sol' = [sol EXCEPT ![route.user] = @ - Deficit(route.user, route.amount)]
    /\ bal' = [bal EXCEPT ![route.user][Native] = @ + Deficit(route.user, route.amount)]
    /\ pc' = "payIn"
    /\ UNCHANGED <<open, ledger, route, saved, created, watched, recorded, madeWsol, leg>>

\* setup_wsol_input_account, the account is missing: the payer opens it, the
\* user wraps the amount.
CreateWsol ==
    /\ pc = "fund" /\ ~ route.ledger /\ InMint(route) = Native
    /\ <<route.user, Native>> \notin open
    /\ effective' = route.amount
    /\ sol' = [p \in Payers |-> sol[p] - (IF p = route.payer THEN Rent ELSE 0)
                                       - (IF p = route.user THEN route.amount ELSE 0)]
    /\ \A p \in Payers : sol'[p] >= 0
    /\ bal' = [bal EXCEPT ![route.user][Native] = @ + route.amount]
    /\ open' = open \cup {<<route.user, Native>>}
    /\ madeWsol' = TRUE
    /\ pc' = "payIn"
    /\ UNCHANGED <<ledger, route, saved, created, watched, recorded, leg>>

\* Lines 186-205: the input moves to TitanPDA; an account made for it is
\* closed, all its lamports going to the payer.
Sweep(u) == IF madeWsol THEN Rent + bal[u][Native] - effective ELSE 0

PayIn ==
    /\ pc = "payIn"
    /\ CanMove(route.user, Titan, InMint(route), effective)
    /\ bal' = LET moved == Move(bal, route.user, Titan, InMint(route), effective)
              IN  IF madeWsol THEN [moved EXCEPT ![route.user][Native] = 0] ELSE moved
    /\ sol' = [sol EXCEPT ![route.payer] = @ + Sweep(route.user)]
    /\ open' = IF madeWsol THEN open \ {<<route.user, Native>>} ELSE open
    /\ pc' = "legs"
    /\ UNCHANGED <<ledger, route, saved, stage>>

\* Lines 216-227: the leg's share of what the slot holds above its reserve.
AmountIn(k) == LET m == SlotMint(route, route.legs[k].from)
               IN  LegInput(Excess(bal[Titan][m], recorded[m]), route.legs[k].weight)

\* Lines 207-251, a leg with nothing to trade makes no call.
SkipLeg ==
    /\ pc = "legs" /\ leg <= Len(route.legs)
    /\ AmountIn(leg) = 0
    /\ leg' = leg + 1
    /\ UNCHANGED <<funds, ledger, pc, route, saved, created, watched, recorded, effective, madeWsol>>

\* Lines 207-251, 338-354: the venue is called with TitanPDA's signature over
\* the leg's accounts.  It takes `taken' and gives `given', whatever its price
\* (min_amount_out is 0).
Taken(m) == IF ExactIn THEN {AmountIn(leg)} \cap (0 .. bal[Titan][m])
                       ELSE 0 .. bal[Titan][m]

CallVenue ==
    /\ pc = "legs" /\ leg <= Len(route.legs)
    /\ AmountIn(leg) > 0
    /\ LET k == route.legs[leg] IN
       /\ {<<Titan, k.in>>, <<Pool, k.in>>, <<Titan, k.out>>, <<Pool, k.out>>} \subseteq open
       /\ \E taken \in Taken(k.in), given \in 0 .. bal[Pool][k.out] :
             bal' = Move(Move(bal, Titan, Pool, k.in, taken), Pool, Titan, k.out, given)
    /\ leg' = leg + 1
    /\ UNCHANGED <<open, sol, ledger, pc, route, saved, created, watched, recorded, effective, madeWsol>>

LegsDone ==
    /\ pc = "legs" /\ leg > Len(route.legs)
    /\ pc' = "payOut"
    /\ UNCHANGED <<funds, ledger, route, saved, stage>>

\* Lines 253-288: what the output slot holds above its reserve is the user's.
Traded(m) == Excess(bal[Titan][m], recorded[m])

PayOut ==
    LET m == OutMint(route)
        u == route.user
        fee == IF <<u, m>> \in open THEN 0 ELSE Rent
    IN
    /\ pc = "payOut"
    /\ sol[route.payer] >= fee
    /\ sol' = [sol EXCEPT ![route.payer] = @ - fee]
    /\ open' = open \cup {<<u, m>>}
    /\ bal' = Move(bal, Titan, u, m, Traded(m))
    /\ pc' = "close"
    /\ UNCHANGED <<ledger, route, saved, stage>>

\* A variant of Closable with a bug: accounts that hold tokens are closed too.
ClosableAll == created

\* A variant of Closable with a bug: empty accounts that were there before the
\* route are closed too.
ClosableEmpty == {m \in SlotMints(route) : <<Titan, m>> \in open /\ bal[Titan][m] = 0}

\* Lines 290-320: accounts opened for this route are closed when empty.
Closable == {m \in created : bal[Titan][m] = 0}

CloseAtas ==
    /\ pc = "close"
    /\ open' = open \ ({Titan} \X Closable)
    /\ bal' = [bal EXCEPT ![Titan] = [m \in Mints |-> IF m \in Closable THEN 0 ELSE @[m]]]
    /\ sol' = [sol EXCEPT ![route.payer] = @ + Rent * Cardinality(Closable)]
    /\ pc' = "check"
    /\ UNCHANGED <<ledger, route, saved, stage>>

\* Lines 322-334: nothing recorded has fallen; otherwise ReservedBalanceViolation.
ReservesHold == \A m \in watched : bal[Titan][m] >= recorded[m]

Check ==
    /\ pc = "check"
    /\ ReservesHold
    /\ pc' = "done"
    /\ UNCHANGED <<funds, ledger, route, saved, stage>>

\* The instruction has returned Ok(()).
Commit ==
    /\ pc = "done"
    /\ saved' = Funds
    /\ ToIdle
    /\ UNCHANGED <<funds, ledger>>

\* An error returned by any stage or call, or the compute budget running out:
\* the runtime restores every account.
Abort ==
    /\ pc \notin {"idle", "done"}
    /\ bal' = saved.bal /\ open' = saved.open /\ sol' = saved.sol
    /\ ToIdle
    /\ UNCHANGED <<ledger, saved>>

Step == /\ \/ OpenAtas \/ Snapshot
           \/ FundFromLedger \/ FundPlain \/ TopUpWsol \/ CreateWsol
           \/ PayIn \/ SkipLeg \/ CallVenue \/ LegsDone
           \/ PayOut \/ CloseAtas \/ Check \/ Commit \/ Abort
        /\ UNCHANGED started

Next == \/ \E r \in Routes : Begin(r)
        \/ \E u \in Users, m \in Mints : SetLedger(u, m)
        \/ \E t \in Transfers : \E n \in 1 .. bal[t[1]][t[3]] : Transfer(t[1], t[2], t[3], n)
        \/ Step

Spec == Init /\ [][Next]_vars

-----------------------------------------------------------------------------
(* Types and bookkeeping. *)

\* The type invariant.
TypeOK ==
    /\ Funds \in FundsType
    /\ saved \in FundsType
    /\ ledger \in [Users -> {NoLedger} \cup [mint : Mints, stored : Nat]]
    /\ pc \in Stages
    /\ IF pc = "idle" THEN route = NoRoute
       ELSE route \in RouteType /\ ValidRoute(route) /\ LedgerMatches(route)
    /\ created \in SUBSET Mints
    /\ watched \in SUBSET Mints
    /\ recorded \in [Mints -> Nat]
    /\ effective \in Nat
    /\ madeWsol \in BOOLEAN
    /\ leg \in Nat \ {0}
    /\ started \in 0 .. MaxRoutes

-----------------------------------------------------------------------------
(* What a route that returned Ok promises. *)

Done == pc = "done"

\* TitanPDA never ends a committed route with less of any mint than it began
\* with: what earlier routes left behind, or others deposited, is out of the
\* reach of this one, whichever accounts the caller named in the legs and
\* whatever their venues took with TitanPDA's signature (lines 131-148,
\* 322-334).
ReservesKept == Done => \A m \in Mints : bal[Titan][m] >= saved.bal[Titan][m]

\* The caller's legs name the accounts that the slots announce.
Honest(r) == \A k \in DOMAIN r.legs : /\ r.legs[k].in  = SlotMint(r, r.legs[k].from)
                                     /\ r.legs[k].out = SlotMint(r, r.legs[k].to)

\* With exact-in venues and honest legs the reserve is not even borrowed
\* during the route, whatever the weights (saturating_sub and the cap of
\* weight_nanos, lines 221-227): the final check never fails such a route.
ReserveNeverBorrowed ==
    ExactIn /\ Honest(route) /\ pc \in {"payIn", "legs", "payOut", "close", "check"}
        => \A m \in Mints : bal[Titan][m] >= recorded[m]

\* A route is complete when each mint it brings to TitanPDA, other than the
\* one it pays out, is spent in full by a later leg.
Complete(r) ==
    /\ Honest(r)
    /\ \A j \in 0 .. Len(r.legs) :
         LET m == IF j = 0 THEN InMint(r) ELSE r.legs[j].out
         IN  m # OutMint(r) => \E k \in j + 1 .. Len(r.legs) : /\ r.legs[k].in = m
                                                            /\ r.legs[k].weight >= WeightAll

\* A committed complete route leaves TitanPDA exactly as it found it: no
\* rounding remainder, no intermediate token and no account of its own making
\* stays behind (amounts, lines 221-227; payout, 257-288; closing, 290-320).
NothingStranded ==
    Done /\ ExactIn /\ Complete(route)
        => \A m \in Mints : /\ bal[Titan][m] = saved.bal[Titan][m]
                           /\ <<Titan, m>> \in open <=> <<Titan, m>> \in saved.open

\* What a payer owns of a mint, wrapped or not.
Worth(f, p, m) == (IF p \in Users THEN f.bal[p][m] ELSE 0) + (IF m = Native THEN f.sol[p] ELSE 0)

Opened == Cardinality(open) - Cardinality(saved.open)

\* A committed route charges the user the effective amount of the input mint
\* and nothing else, whether it came from the account, was wrapped to fill it,
\* or went through an account made and closed on the way (lines 150-205,
\* 557-596); the payer bears the deposits of the accounts that stay open, and
\* nobody else pays anything.
ChargedOnce ==
    Done => \A p \in Payers, m \in Mints :
        LET due == (IF p = route.user /\ m = InMint(route) THEN effective ELSE 0)
                   + (IF p = route.payer /\ m = Native THEN Rent * Opened ELSE 0)
        IN  IF p = route.user /\ m = OutMint(route)
            THEN Worth(Funds, p, m) >= Worth(saved, p, m) - due
            ELSE Worth(Funds, p, m) = Worth(saved, p, m) - due

\* A committed ledger route spends only what arrived after the ledger was set,
\* however many routes reuse the same ledger (read_token_ledger, lines
\* 150-158).
LedgerFloor ==
    Done /\ route.ledger => bal[route.user][InMint(route)] >= ledger[route.user].stored

\* Of each mint, no token is made or lost by a committed route: with the
\* wallets' lamports and the accounts' deposits for the native mint.
Total(f, m) == SumFunction([o \in Owners |-> f.bal[o][m]])
               + (IF m = Native THEN SumFunction(f.sol) + Rent * Cardinality(f.open) ELSE 0)

ValueConserved == Done => \A m \in Mints : Total(Funds, m) = Total(saved, m)
=============================================================================
