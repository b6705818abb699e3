--------------------------- MODULE MCSwapRoute ---------------------------
(***************************************************************************)
(* Small instances of SwapRoute for TLC: which routes are submitted, and   *)
(* the funds they start from.                                              *)
(***************************************************************************)
EXTENDS RouteSettles, TLC

CONSTANTS A, B, W, alice, bob

\* The legs an honest builder makes over the given slots.
HonestLegs(slots, weights) ==
    LET k == 0 .. Len(slots) - 1
    IN  {[from |-> i, to |-> j, weight |-> w, in |-> slots[i + 1], out |-> slots[j + 1]] :
            <<i, j, w>> \in {x \in k \X k \X weights : x[1] # x[2]}}

\* Legs whose accounts need not be those of the slots.
AnyLegs(n, ms, weights) ==
    {k \in [from : 0 .. n - 1, to : 0 .. n - 1, weight : weights, in : ms, out : ms] :
        k.in # k.out}

RoutesOver(slots, legs, lengths, amounts, ledgers, payers) ==
    {[slots |-> slots, legs |-> l, amount |-> a, ledger |-> b, user |-> alice, payer |-> p] :
        l \in UNION {[1 .. n -> legs] : n \in lengths}, a \in amounts, b \in ledgers, p \in payers}

\* Funds over the given balances, the accounts in `may' open or not.
FundsOver(bals, must, may, sols) ==
    {f \in [bal : bals, open : {must \cup s : s \in SUBSET may}, sol : sols] :
        \A o \in Owners, m \in Mints : f.bal[o][m] > 0 => <<o, m>> \in f.open}

Pools == {Pool} \X Mints

-----------------------------------------------------------------------------
(* Honest routes: between wrapped SOL and A in both directions, round trips  *)
(* included, and over three mints: chains, splits that meet again, and legs  *)
(* that leave something behind.  TitanPDA may hold what others left, have    *)
(* some of its accounts, or none.                                            *)

ThreeSlots == <<A, B, W>>

HonestRoutes ==
    RoutesOver(ThreeSlots, HonestLegs(ThreeSlots, {1, 3}), {2, 3}, {3}, {FALSE}, {Sponsor})
    \cup UNION {RoutesOver(s, HonestLegs(s, {1, 3}), {1, 2, 3, 4}, {2}, {FALSE}, {alice, Sponsor})
                : s \in {<<W, A>>, <<A, W>>}}

HonestFunds ==
    FundsOver({[o \in {alice, Titan, Pool} |->
                  CASE o = alice -> (A :> 3 @@ B :> 0 @@ W :> w)
                    [] o = Titan -> (A :> t @@ B :> 0 @@ W :> 0)
                    [] o = Pool  -> (A :> 1 @@ B :> 2 @@ W :> 2)] : w \in {0, 3}, t \in {0, 1}},
              Pools \cup {<<alice, A>>, <<Titan, B>>}, {<<alice, W>>, <<Titan, A>>},
              {alice :> 3 @@ Sponsor :> 3})

NoTransfers == {}

-----------------------------------------------------------------------------
(* Slots that repeat a mint, legs whose accounts are not those of the slots, *)
(* and venues that take what they like with TitanPDA's signature; alice sets *)
(* a ledger, receives tokens and routes by it, twice if she likes; the       *)
(* second route may find what the first one left and what bob deposited.     *)

LooseRoutes ==
    UNION {RoutesOver(s, AnyLegs(2, {A, B}, {2}), {1, 2}, {1}, BOOLEAN, {Sponsor})
           : s \in {<<A, B>>, <<A, A>>}}

LooseFunds ==
    FundsOver({[o \in {alice, bob, Titan, Pool} |->
                  CASE o = Titan -> (A :> 1 @@ B :> t)
                    [] o = Pool  -> (A :> 1 @@ B :> 1)
                    [] OTHER     -> (A :> 1 @@ B :> 0)] : t \in {0, 1}},
              Pools \cup ({alice, bob, Titan} \X {A}), {<<Titan, B>>},
              {alice :> 0 @@ bob :> 0 @@ Sponsor :> 2})

LooseTransfers == {<<bob, Titan, A>>, <<Pool, alice, A>>}
=============================================================================
