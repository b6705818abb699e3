-------------------------- MODULE SwapRouteProofs --------------------------
(***************************************************************************)
(* Safety of the route program for every set of users, mints and routes,   *)
(* whatever the venues do.                                                 *)
(***************************************************************************)
EXTENDS SwapRoute, FiniteSetTheorems, TLAPS

Balances == [Owners -> [Mints -> Nat]]
Accounts == SUBSET (Owners \X Mints)
Wallets == [Payers -> Nat]

-----------------------------------------------------------------------------
(* The operators the stages are built from. *)

\* What a move does to each account.
LEMMA MoveAt ==
    ASSUME NEW b \in Balances, NEW from \in Owners, NEW to \in Owners,
           NEW m \in Mints, NEW n \in Nat, NEW o \in Owners, NEW x \in Mints
    PROVE  Move(b, from, to, m, n)[o][x] = IF x # m \/ from = to THEN b[o][x]
                                           ELSE IF o = from THEN b[o][x] - n
                                           ELSE IF o = to THEN b[o][x] + n ELSE b[o][x]
BY DEF Move, Balances

\* A move of what the source holds leaves no account below zero.
LEMMA MoveType ==
    ASSUME NEW b \in Balances, NEW from \in Owners, NEW to \in Owners,
           NEW m \in Mints, NEW n \in Nat, n <= b[from][m]
    PROVE  Move(b, from, to, m, n) \in Balances
<1> SUFFICES ASSUME NEW o \in Owners
             PROVE  [b[o] EXCEPT ![m] = IF from = to THEN @
                                        ELSE IF o = from THEN @ - n
                                        ELSE IF o = to THEN @ + n ELSE @] \in [Mints -> Nat]
  BY DEF Move, Balances
<1>1. b[o] \in [Mints -> Nat] /\ b[o][m] \in Nat
  BY DEF Balances
<1>2. (IF from = to THEN b[o][m] ELSE IF o = from THEN b[o][m] - n
       ELSE IF o = to THEN b[o][m] + n ELSE b[o][m]) \in Nat
  BY <1>1
<1> QED
  BY <1>1, <1>2

\* A transfer the token program accepts is covered by the source.
LEMMA CanMoveCovers ==
    ASSUME bal \in Balances, NEW from \in Owners, NEW to \in Owners, NEW m \in Mints,
           NEW n \in Nat, CanMove(from, to, m, n)
    PROVE  n <= bal[from][m]
<1>1. bal[from][m] \in Nat
  BY DEF Balances
<1> QED
  BY <1>1 DEF CanMove

\* The deposits of finitely many accounts.
LEMMA RentType ==
    ASSUME NEW s \in SUBSET Mints
    PROVE  Rent * Cardinality(s) \in Nat
<1>1. Cardinality(s) \in Nat
  BY PartiesDiffer, FS_Subset, FS_CardinalityType
<1> QED
  BY <1>1, NumbersAssumption

\* The parties and mints of a route that execute has accepted.
LEMMA RouteFacts ==
    ASSUME NEW r \in RouteType, ValidRoute(r)
    PROVE  /\ r.user \in Users /\ r.user \in Owners /\ r.user \in Payers /\ r.payer \in Payers
           /\ r.amount \in Nat
           /\ InMint(r) \in SlotMints(r) /\ OutMint(r) \in SlotMints(r)
           /\ SlotMints(r) \subseteq Mints
           /\ \A k \in DOMAIN r.legs : r.legs[k].in \in Mints /\ r.legs[k].out \in Mints
<1>1. /\ r.slots \in Seq(Mints) /\ r.legs \in Seq(LegType) /\ r.amount \in Nat
      /\ r.user \in Users /\ r.payer \in Payers
  BY DEF RouteType, Payers
<1>2. Len(r.slots) \in Nat /\ Len(r.slots) > 1 /\ DOMAIN r.slots = 1 .. Len(r.slots)
  BY <1>1 DEF ValidRoute
<1>3. Len(r.legs) \in Nat /\ Len(r.legs) > 0 /\ DOMAIN r.legs = 1 .. Len(r.legs)
  BY <1>1 DEF ValidRoute
<1>4. \A k \in DOMAIN r.legs : r.legs[k] \in LegType
  BY <1>1, <1>3
<1>5. InMint(r) \in SlotMints(r)
  BY <1>2 DEF InMint, SlotMint, SlotMints, Range
<1>6. OutMint(r) \in SlotMints(r)
  <2>1. Len(r.legs) \in DOMAIN r.legs
    BY <1>3
  <2>2. r.legs[Len(r.legs)].to \in Nat /\ r.legs[Len(r.legs)].to < Len(r.slots)
    BY <1>4, <2>1 DEF LegType, ValidRoute
  <2> QED
    BY <1>2, <2>2 DEF OutMint, SlotMint, SlotMints, Range
<1>7. SlotMints(r) \subseteq Mints
  BY <1>1, <1>2 DEF SlotMints, Range
<1>8. \A k \in DOMAIN r.legs : r.legs[k].in \in Mints /\ r.legs[k].out \in Mints
  BY <1>4 DEF LegType
<1> QED
  BY <1>1, <1>5, <1>6, <1>7, <1>8 DEF Owners, Payers

-----------------------------------------------------------------------------
(* Type correctness.                                                       *)

\* The input account that a route makes is for wrapped SOL, and is never made by
\* a route that is paid from a ledger.
WsolMade == madeWsol => pc # "idle" /\ InMint(route) = Native /\ ~ route.ledger

TInv == TypeOK /\ WsolMade

LEMMA FundsFacts ==
    ASSUME NEW b, NEW o, NEW s
    PROVE  [bal |-> b, open |-> o, sol |-> s] \in FundsType
             <=> b \in Balances /\ o \in Accounts /\ s \in Wallets
BY DEF FundsType, Balances, Accounts, Wallets

LEMMA InitTypes == Init => TInv
<1> SUFFICES ASSUME Init PROVE TInv
  OBVIOUS
<1>1. PICK f \in InitFunds : bal = f.bal /\ open = f.open /\ sol = f.sol
  BY DEF Init
<1>2. f \in FundsType
  BY InitFundsAssumption
<1>3. bal \in Balances /\ open \in Accounts /\ sol \in Wallets
  BY <1>1, <1>2 DEF FundsType, Balances, Accounts, Wallets
<1>4. Funds \in FundsType /\ saved \in FundsType
  BY <1>3, FundsFacts DEF Init, Funds
<1>5. ledger \in [Users -> {NoLedger} \cup [mint : Mints, stored : Nat]]
  BY DEF Init
<1>6. /\ pc = "idle" /\ route = NoRoute /\ created = {} /\ watched = {}
      /\ recorded = [m \in Mints |-> 0] /\ effective = 0 /\ madeWsol = FALSE /\ leg = 1
  BY DEF Init, Idle
<1>7. started \in 0 .. MaxRoutes
  BY NumbersAssumption DEF Init
<1>8. TypeOK
  <2>1. madeWsol \in BOOLEAN
    BY <1>6, Zenon
  <2>2. /\ pc \in Stages /\ pc = "idle" /\ route = NoRoute /\ created \in SUBSET Mints
        /\ watched \in SUBSET Mints /\ recorded \in [Mints -> Nat] /\ effective \in Nat
        /\ leg \in Nat \ {0}
    BY <1>6 DEF Stages
  <2> QED
    BY <1>4, <1>5, <1>7, <2>1, <2>2 DEF TypeOK
<1> QED
  BY <1>6, <1>8 DEF TInv, WsolMade

\* What TInv says of the state a stage finds.
LEMMA TypeFacts ==
    ASSUME TInv
    PROVE  /\ bal \in Balances /\ open \in Accounts /\ sol \in Wallets
           /\ pc # "idle" => /\ route \in RouteType /\ ValidRoute(route)
                            /\ LedgerMatches(route)
BY FundsFacts DEF TInv, TypeOK, Funds

\* What remains to be shown of a stage of a running route that moves funds.
LEMMA StageTypes ==
    ASSUME TInv, pc # "idle",
           bal' \in Balances, open' \in Accounts, sol' \in Wallets,
           pc' \in Stages \ {"idle"}, UNCHANGED <<ledger, route, saved, started>>,
           created' \in SUBSET Mints, watched' \in SUBSET Mints, recorded' \in [Mints -> Nat],
           effective' \in Nat, leg' \in Nat \ {0},
           madeWsol' = madeWsol \/ (madeWsol' = TRUE /\ InMint(route) = Native /\ ~ route.ledger)
    PROVE  TInv'
<1>1. Funds' \in FundsType
  BY FundsFacts DEF Funds
<1>2. route' \in RouteType /\ ValidRoute(route') /\ LedgerMatches(route)'
  BY TypeFacts DEF LedgerMatches
<1>3. madeWsol' \in BOOLEAN
  BY Zenon DEF TInv, TypeOK
<1>4. pc' # "idle" /\ pc' \in Stages
  OBVIOUS
<1>5. /\ saved' \in FundsType /\ started' \in 0 .. MaxRoutes
      /\ ledger' \in [Users -> {NoLedger} \cup [mint : Mints, stored : Nat]]
  BY DEF TInv, TypeOK
<1>6. TypeOK'
  BY <1>1, <1>2, <1>3, <1>4, <1>5, Zenon DEF TypeOK
<1>7. WsolMade'
  BY <1>4, Zenon DEF TInv, WsolMade
<1> QED
  BY <1>6, <1>7 DEF TInv

LEMMA OpenAtasTypes == ASSUME TInv, OpenAtas, UNCHANGED started PROVE TInv'
<1>1. pc # "idle" /\ route \in RouteType /\ ValidRoute(route)
  BY TypeFacts DEF OpenAtas
<1>2. /\ bal \in Balances /\ open \in Accounts /\ sol \in Wallets
      /\ watched \in SUBSET Mints /\ recorded \in [Mints -> Nat] /\ effective \in Nat
      /\ leg \in Nat \ {0}
  BY TypeFacts DEF TInv, TypeOK
<1>3. created' \in SUBSET Mints
  BY <1>1, RouteFacts DEF OpenAtas, Missing
<1>4. Rent * Cardinality(created') \in Nat
  BY <1>3, RentType
<1>5. sol' \in Wallets
  <2> DEFINE cost == Rent * Cardinality(created')
  <2>1. cost \in Nat /\ sol[route.payer] >= cost /\ sol' = [sol EXCEPT ![route.payer] = @ - cost]
    BY <1>4 DEF OpenAtas
  <2> HIDE DEF cost
  <2>2. route.payer \in Payers
    BY <1>1, RouteFacts
  <2> QED
    BY <1>2, <2>1, <2>2 DEF Wallets
<1>6. open' \in Accounts
  BY <1>2, <1>3 DEF OpenAtas, Accounts, Owners
<1> QED
  BY <1>1, <1>2, <1>3, <1>5, <1>6, StageTypes DEF OpenAtas, Stages

LEMMA SnapshotTypes == ASSUME TInv, Snapshot, UNCHANGED started PROVE TInv'
<1>1. pc # "idle" /\ route \in RouteType /\ ValidRoute(route)
  BY TypeFacts DEF Snapshot
<1>2. /\ bal \in Balances /\ open \in Accounts /\ sol \in Wallets
      /\ created \in SUBSET Mints /\ effective \in Nat /\ leg \in Nat \ {0}
  BY TypeFacts DEF TInv, TypeOK
<1>3. watched' \in SUBSET Mints
  <2>1. LegMints(route) \subseteq Mints
    BY <1>1, RouteFacts DEF LegMints
  <2> QED
    BY <1>1, <2>1, RouteFacts DEF Snapshot, Watched
<1>4. recorded' \in [Mints -> Nat]
  BY <1>2 DEF Snapshot, Balances, Owners
<1> QED
  BY <1>1, <1>2, <1>3, <1>4, StageTypes DEF Snapshot, funds, Stages

LEMMA FundFromLedgerTypes == ASSUME TInv, FundFromLedger, UNCHANGED started PROVE TInv'
<1>1. pc # "idle" /\ route \in RouteType /\ ValidRoute(route) /\ LedgerMatches(route)
  BY TypeFacts DEF FundFromLedger
<1>2. /\ bal \in Balances /\ open \in Accounts /\ sol \in Wallets
      /\ created \in SUBSET Mints /\ watched \in SUBSET Mints /\ recorded \in [Mints -> Nat]
      /\ leg \in Nat \ {0}
      /\ ledger \in [Users -> {NoLedger} \cup [mint : Mints, stored : Nat]]
  BY TypeFacts DEF TInv, TypeOK
<1>3. effective' \in Nat
  <2>1. ledger[route.user].stored \in Int
    BY <1>1, <1>2, RouteFacts DEF NoLedger
  <2>2. bal[route.user][InMint(route)] \in Nat
    BY <1>1, <1>2, RouteFacts DEF Balances
  <2> QED
    BY <2>1, <2>2 DEF FundFromLedger
<1> QED
  BY <1>1, <1>2, <1>3, StageTypes DEF FundFromLedger, funds, Stages

LEMMA FundPlainTypes == ASSUME TInv, FundPlain, UNCHANGED started PROVE TInv'
<1>1. pc # "idle" /\ route \in RouteType /\ ValidRoute(route)
  BY TypeFacts DEF FundPlain
<1>2. /\ bal \in Balances /\ open \in Accounts /\ sol \in Wallets
      /\ created \in SUBSET Mints /\ watched \in SUBSET Mints /\ recorded \in [Mints -> Nat]
      /\ leg \in Nat \ {0}
  BY TypeFacts DEF TInv, TypeOK
<1>3. effective' \in Nat
  BY <1>1, RouteFacts DEF FundPlain
<1> QED
  BY <1>1, <1>2, <1>3, StageTypes DEF FundPlain, funds, Stages

LEMMA TopUpWsolTypes == ASSUME TInv, TopUpWsol, UNCHANGED started PROVE TInv'
<1>1. pc # "idle" /\ route \in RouteType /\ ValidRoute(route)
  BY TypeFacts DEF TopUpWsol
<1>2. /\ bal \in Balances /\ open \in Accounts /\ sol \in Wallets
      /\ created \in SUBSET Mints /\ watched \in SUBSET Mints /\ recorded \in [Mints -> Nat]
      /\ leg \in Nat \ {0}
  BY TypeFacts DEF TInv, TypeOK
<1>3. /\ route.user \in Owners /\ route.user \in Payers /\ route.amount \in Nat
      /\ Native \in Mints
  BY <1>1, RouteFacts DEF TopUpWsol
<1>4. Deficit(route.user, route.amount) \in Nat
  BY <1>2, <1>3 DEF Deficit, Balances
<1>5. sol' \in Wallets
  BY <1>2, <1>3, <1>4 DEF TopUpWsol, Wallets
<1>6. bal' \in Balances
  BY <1>2, <1>3, <1>4 DEF TopUpWsol, Balances
<1> QED
  BY <1>1, <1>2, <1>3, <1>5, <1>6, StageTypes DEF TopUpWsol, Stages

LEMMA CreateWsolTypes == ASSUME TInv, CreateWsol, UNCHANGED started PROVE TInv'
<1>1. pc # "idle" /\ route \in RouteType /\ ValidRoute(route)
  BY TypeFacts DEF CreateWsol
<1>2. /\ bal \in Balances /\ open \in Accounts /\ sol \in Wallets
      /\ created \in SUBSET Mints /\ watched \in SUBSET Mints /\ recorded \in [Mints -> Nat]
      /\ leg \in Nat \ {0}
  BY TypeFacts DEF TInv, TypeOK
<1>3. /\ route.user \in Owners /\ route.user \in Payers /\ route.amount \in Nat
      /\ Native \in Mints
  BY <1>1, RouteFacts DEF CreateWsol
<1>4. sol' \in Wallets
  <2>1. ASSUME NEW p \in Payers PROVE sol'[p] \in Nat
    <3>1. sol[p] \in Nat /\ Rent \in Nat
      BY <1>2, NumbersAssumption DEF Wallets
    <3>2. sol'[p] \in Int
      BY <1>3, <3>1 DEF CreateWsol
    <3> QED
      BY <3>2 DEF CreateWsol
  <2> QED
    BY <2>1 DEF CreateWsol, Wallets
<1>5. bal' \in Balances
  BY <1>2, <1>3 DEF CreateWsol, Balances
<1>6. open' \in Accounts
  BY <1>2, <1>3 DEF CreateWsol, Accounts
<1> QED
  BY <1>1, <1>2, <1>3, <1>4, <1>5, <1>6, StageTypes DEF CreateWsol, Stages

LEMMA PayInTypes == ASSUME TInv, PayIn, UNCHANGED started PROVE TInv'
<1>1. pc # "idle" /\ route \in RouteType /\ ValidRoute(route)
  BY TypeFacts DEF PayIn
<1>2. /\ bal \in Balances /\ open \in Accounts /\ sol \in Wallets
      /\ created \in SUBSET Mints /\ watched \in SUBSET Mints /\ recorded \in [Mints -> Nat]
      /\ effective \in Nat /\ leg \in Nat \ {0}
  BY TypeFacts DEF TInv, TypeOK
<1>3. /\ route.user \in Owners /\ route.payer \in Payers /\ Titan \in Owners
      /\ InMint(route) \in Mints
  BY <1>1, RouteFacts DEF Owners
<1>4. effective <= bal[route.user][InMint(route)]
  BY <1>2, <1>3, CanMoveCovers DEF PayIn
<1> DEFINE moved == Move(bal, route.user, Titan, InMint(route), effective)
<1>5. moved \in Balances
  BY <1>2, <1>3, <1>4, MoveType
<1>6. bal' \in Balances
  <2>1. bal' = moved \/ bal' = [moved EXCEPT ![route.user][Native] = 0]
    BY DEF PayIn
  <2> HIDE DEF moved
  <2> QED
    BY <1>5, <2>1 DEF Balances
<1>7. sol' \in Wallets
  <2>1. Sweep(route.user) \in Nat
    <3>1. CASE madeWsol
      <4>1. InMint(route) = Native
        BY <3>1 DEF TInv, WsolMade
      <4>2. bal[route.user][Native] \in Nat /\ effective <= bal[route.user][Native]
        BY <1>2, <1>3, <1>4, <4>1 DEF Balances
      <4> QED
        BY <1>2, <3>1, <4>2, NumbersAssumption DEF Sweep
    <3>2. CASE ~ madeWsol
      BY <3>2 DEF Sweep
    <3> QED
      BY <3>1, <3>2
  <2> QED
    BY <1>2, <1>3, <2>1 DEF PayIn, Wallets
<1>8. open' \in Accounts
  BY <1>2 DEF PayIn, Accounts
<1> QED
  BY <1>1, <1>2, <1>6, <1>7, <1>8, StageTypes DEF PayIn, stage, Stages

LEMMA SkipLegTypes == ASSUME TInv, SkipLeg, UNCHANGED started PROVE TInv'
<1>1. pc # "idle"
  BY DEF SkipLeg
<1>2. /\ bal \in Balances /\ open \in Accounts /\ sol \in Wallets
      /\ created \in SUBSET Mints /\ watched \in SUBSET Mints /\ recorded \in [Mints -> Nat]
      /\ effective \in Nat /\ leg \in Nat \ {0}
  BY TypeFacts DEF TInv, TypeOK
<1>3. leg' \in Nat \ {0}
  BY <1>2 DEF SkipLeg
<1> QED
  BY <1>1, <1>2, <1>3, StageTypes DEF SkipLeg, funds, Stages

\* A venue takes no more than TitanPDA has and gives no more than it has.
LEMMA CallVenueTypes == ASSUME TInv, CallVenue, UNCHANGED started PROVE TInv'
<1>1. pc # "idle" /\ route \in RouteType /\ ValidRoute(route)
  BY TypeFacts DEF CallVenue
<1>2. /\ bal \in Balances /\ open \in Accounts /\ sol \in Wallets
      /\ created \in SUBSET Mints /\ watched \in SUBSET Mints /\ recorded \in [Mints -> Nat]
      /\ effective \in Nat /\ leg \in Nat \ {0}
  BY TypeFacts DEF TInv, TypeOK
<1>3. leg' \in Nat \ {0}
  BY <1>2 DEF CallVenue
<1>4. bal' \in Balances
  <2> DEFINE in == route.legs[leg].in
             out == route.legs[leg].out
  <2>1. PICK taken \in Taken(in), given \in 0 .. bal[Pool][out] :
           bal' = Move(Move(bal, Titan, Pool, in, taken), Pool, Titan, out, given)
    BY DEF CallVenue
  <2>2. in \in Mints /\ out \in Mints
    <3>1. <<Titan, in>> \in Owners \X Mints /\ <<Titan, out>> \in Owners \X Mints
      BY <1>2 DEF CallVenue, Accounts
    <3> QED
      BY <3>1
  <2> HIDE DEF in, out
  <2>3. Titan \in Owners /\ Pool \in Owners /\ Titan # Pool
    BY PartiesDiffer DEF Owners
  <2>4. bal[Titan][in] \in Nat /\ bal[Pool][out] \in Nat
    BY <1>2, <2>2, <2>3 DEF Balances
  <2>5. taken \in 0 .. bal[Titan][in]
    BY <2>1 DEF Taken
  <2>6. taken \in Nat /\ taken <= bal[Titan][in] /\ given \in Nat /\ given <= bal[Pool][out]
    BY <2>1, <2>4, <2>5
  <2> DEFINE paid == Move(bal, Titan, Pool, in, taken)
  <2>7. paid \in Balances
    BY <1>2, <2>2, <2>3, <2>6, MoveType
  <2>8. paid[Pool][out] >= given
    <3>1. paid[Pool][out] = bal[Pool][out] \/ paid[Pool][out] = bal[Pool][out] + taken
      BY <1>2, <2>2, <2>3, <2>6, MoveAt
    <3> QED
      BY <2>4, <2>6, <3>1
  <2> QED
    BY <2>1, <2>2, <2>3, <2>6, <2>7, <2>8, MoveType
<1> QED
  BY <1>1, <1>2, <1>3, <1>4, StageTypes DEF CallVenue, Stages

LEMMA LegsDoneTypes == ASSUME TInv, LegsDone, UNCHANGED started PROVE TInv'
<1>1. /\ pc # "idle"
      /\ bal \in Balances /\ open \in Accounts /\ sol \in Wallets
      /\ created \in SUBSET Mints /\ watched \in SUBSET Mints /\ recorded \in [Mints -> Nat]
      /\ effective \in Nat /\ leg \in Nat \ {0}
  BY TypeFacts DEF TInv, TypeOK, LegsDone
<1> QED
  BY <1>1, StageTypes DEF LegsDone, funds, stage, Stages

LEMMA PayOutTypes == ASSUME TInv, PayOut, UNCHANGED started PROVE TInv'
<1>1. pc # "idle" /\ route \in RouteType /\ ValidRoute(route)
  BY TypeFacts DEF PayOut
<1>2. /\ bal \in Balances /\ open \in Accounts /\ sol \in Wallets
      /\ created \in SUBSET Mints /\ watched \in SUBSET Mints /\ recorded \in [Mints -> Nat]
      /\ effective \in Nat /\ leg \in Nat \ {0}
  BY TypeFacts DEF TInv, TypeOK
<1>3. /\ route.user \in Owners /\ route.payer \in Payers /\ Titan \in Owners
      /\ OutMint(route) \in Mints
  BY <1>1, RouteFacts DEF Owners
<1>4. bal' \in Balances
  <2>1. /\ bal[Titan][OutMint(route)] \in Nat /\ recorded[OutMint(route)] \in Nat
    BY <1>2, <1>3 DEF Balances
  <2>2. Traded(OutMint(route)) \in Nat /\ Traded(OutMint(route)) <= bal[Titan][OutMint(route)]
    BY <2>1 DEF Traded, Excess
  <2>3. bal' = Move(bal, Titan, route.user, OutMint(route), Traded(OutMint(route)))
    BY DEF PayOut
  <2> QED
    BY <1>2, <1>3, <2>2, <2>3, MoveType
<1>5. sol' \in Wallets
  BY <1>2, <1>3, NumbersAssumption DEF PayOut, Wallets
<1>6. open' \in Accounts
  BY <1>2, <1>3 DEF PayOut, Accounts
<1> QED
  BY <1>1, <1>2, <1>4, <1>5, <1>6, StageTypes DEF PayOut, stage, Stages

LEMMA CloseAtasTypes == ASSUME TInv, CloseAtas, UNCHANGED started PROVE TInv'
<1>1. pc # "idle" /\ route \in RouteType /\ ValidRoute(route)
  BY TypeFacts DEF CloseAtas
<1>2. /\ bal \in Balances /\ open \in Accounts /\ sol \in Wallets
      /\ created \in SUBSET Mints /\ watched \in SUBSET Mints /\ recorded \in [Mints -> Nat]
      /\ effective \in Nat /\ leg \in Nat \ {0}
  BY TypeFacts DEF TInv, TypeOK
<1>3. bal' \in Balances
  BY <1>2 DEF CloseAtas, Balances
<1>4. sol' \in Wallets
  <2> DEFINE back == Rent * Cardinality(Closable)
  <2>1. Closable \in SUBSET Mints
    BY <1>2 DEF Closable
  <2>2. back \in Nat /\ sol' = [sol EXCEPT ![route.payer] = @ + back]
    BY <2>1, RentType DEF CloseAtas
  <2> HIDE DEF back
  <2>3. route.payer \in Payers
    BY <1>1, RouteFacts
  <2> QED
    BY <1>2, <2>2, <2>3 DEF Wallets
<1>5. open' \in Accounts
  BY <1>2 DEF CloseAtas, Accounts
<1> QED
  BY <1>1, <1>2, <1>3, <1>4, <1>5, StageTypes DEF CloseAtas, stage, Stages

LEMMA CheckTypes == ASSUME TInv, Check, UNCHANGED started PROVE TInv'
<1>1. /\ pc # "idle"
      /\ bal \in Balances /\ open \in Accounts /\ sol \in Wallets
      /\ created \in SUBSET Mints /\ watched \in SUBSET Mints /\ recorded \in [Mints -> Nat]
      /\ effective \in Nat /\ leg \in Nat \ {0}
  BY TypeFacts DEF TInv, TypeOK, Check
<1> QED
  BY <1>1, StageTypes DEF Check, funds, stage, Stages

\* Between instructions the stage variables have their resting values.
LEMMA IdleTypes ==
    ASSUME TInv, ToIdle, UNCHANGED <<ledger, started>>,
           Funds' \in FundsType, saved' \in FundsType
    PROVE  TInv'
<1>1. madeWsol' \in BOOLEAN /\ ~ madeWsol'
  BY Zenon DEF ToIdle
<1>2. /\ pc' = "idle" /\ pc' \in Stages /\ route' = NoRoute
      /\ created' \in SUBSET Mints /\ watched' \in SUBSET Mints
      /\ recorded' \in [Mints -> Nat] /\ effective' \in Nat /\ leg' \in Nat \ {0}
  BY DEF ToIdle, Stages
<1>3. /\ started' \in 0 .. MaxRoutes
      /\ ledger' \in [Users -> {NoLedger} \cup [mint : Mints, stored : Nat]]
  BY DEF TInv, TypeOK
<1>4. TypeOK'
  BY <1>1, <1>2, <1>3 DEF TypeOK
<1> QED
  BY <1>1, <1>4 DEF TInv, WsolMade

LEMMA CommitTypes == ASSUME TInv, Commit, UNCHANGED started PROVE TInv'
<1>1. Funds' \in FundsType /\ saved' \in FundsType
  BY DEF Commit, TInv, TypeOK, Funds, funds
<1> QED
  BY <1>1, IdleTypes DEF Commit

LEMMA AbortTypes == ASSUME TInv, Abort, UNCHANGED started PROVE TInv'
<1>1. saved' \in FundsType
  BY DEF Abort, TInv, TypeOK
<1>2. saved \in FundsType
  BY DEF TInv, TypeOK
<1>3. Funds' \in FundsType
  <2>1. saved.bal \in Balances /\ saved.open \in Accounts /\ saved.sol \in Wallets
    BY <1>2 DEF FundsType, Balances, Accounts, Wallets
  <2> QED
    BY <2>1, FundsFacts DEF Abort, Funds
<1> QED
  BY <1>1, <1>3, IdleTypes DEF Abort

LEMMA BeginTypes == ASSUME TInv, NEW r \in Routes, Begin(r) PROVE TInv'
<1>1. r \in RouteType /\ ValidRoute(r)
  BY RoutesAssumption DEF Begin
<1>2. route' \in RouteType /\ ValidRoute(route') /\ LedgerMatches(route)'
  BY <1>1 DEF Begin, LedgerMatches
<1>3. Funds' \in FundsType /\ saved' \in FundsType
  BY DEF Begin, TInv, TypeOK, Funds, funds
<1>4. started' \in 0 .. MaxRoutes
  <2>1. MaxRoutes \in Nat /\ started \in 0 .. MaxRoutes
    BY NumbersAssumption DEF TInv, TypeOK
  <2> QED
    BY <2>1 DEF Begin
<1>5. madeWsol' \in BOOLEAN /\ ~ madeWsol'
  BY Zenon DEF Begin, stage, TInv, TypeOK, WsolMade
<1>6. /\ created' \in SUBSET Mints /\ watched' \in SUBSET Mints /\ recorded' \in [Mints -> Nat]
      /\ effective' \in Nat /\ leg' \in Nat \ {0}
      /\ ledger' \in [Users -> {NoLedger} \cup [mint : Mints, stored : Nat]]
  BY DEF Begin, stage, TInv, TypeOK
<1>7. pc' \in Stages /\ pc' # "idle"
  BY DEF Begin, Stages
<1>8. TypeOK'
  BY <1>2, <1>3, <1>4, <1>5, <1>6, <1>7, Zenon DEF TypeOK
<1> QED
  BY <1>5, <1>8 DEF TInv, WsolMade

LEMMA SetLedgerTypes == ASSUME TInv, NEW u \in Users, NEW m \in Mints, SetLedger(u, m) PROVE TInv'
<1>1. bal[u][m] \in Nat
  BY TypeFacts DEF Balances, Owners
<1>2. ledger' \in [Users -> {NoLedger} \cup [mint : Mints, stored : Nat]]
  BY <1>1 DEF SetLedger, TInv, TypeOK
<1>3. Funds' \in FundsType /\ saved' \in FundsType
  BY DEF SetLedger, TInv, TypeOK, Funds, funds
<1>4. pc = "idle" /\ UNCHANGED <<pc, route, created, watched, recorded, effective, madeWsol, leg, started>>
  BY DEF SetLedger, stage
<1>5. TypeOK'
  BY <1>2, <1>3, <1>4, Zenon DEF TInv, TypeOK
<1> QED
  BY <1>4, <1>5 DEF TInv, WsolMade

LEMMA TransferTypes ==
    ASSUME TInv, NEW t \in Transfers, NEW n \in 1 .. bal[t[1]][t[3]],
           Transfer(t[1], t[2], t[3], n)
    PROVE  TInv'
<1>1. /\ t[1] \in Owners /\ t[2] \in Owners /\ t[3] \in Mints
  BY TransfersAssumption
<1>2. bal \in Balances /\ open \in Accounts /\ sol \in Wallets
  BY TypeFacts
<1>3. bal[t[1]][t[3]] \in Nat
  BY <1>1, <1>2 DEF Balances
<1>4. n \in Nat /\ n <= bal[t[1]][t[3]]
  BY <1>3
<1>5. bal' \in Balances
  BY <1>1, <1>2, <1>4, MoveType DEF Transfer
<1>6. Funds' \in FundsType
  BY <1>2, <1>5, FundsFacts DEF Transfer, Funds
<1>7. saved' \in FundsType
  BY <1>5 DEF Transfer, TInv, TypeOK, FundsType, Balances
<1>8. pc = "idle" /\ UNCHANGED <<ledger, pc, route, created, watched, recorded, effective, madeWsol, leg, started>>
  BY DEF Transfer, stage
<1>9. TypeOK'
  BY <1>6, <1>7, <1>8, Zenon DEF TInv, TypeOK
<1> QED
  BY <1>8, <1>9 DEF TInv, WsolMade

LEMMA NextTypes == TInv /\ [Next]_vars => TInv'
<1> SUFFICES ASSUME TInv, [Next]_vars PROVE TInv'
  OBVIOUS
<1>1. CASE \E r \in Routes : Begin(r)
  BY <1>1, BeginTypes
<1>2. CASE \E u \in Users, m \in Mints : SetLedger(u, m)
  BY <1>2, SetLedgerTypes
<1>3. CASE \E t \in Transfers : \E n \in 1 .. bal[t[1]][t[3]] : Transfer(t[1], t[2], t[3], n)
  BY <1>3, TransferTypes
<1>4. CASE Step
  BY <1>4, OpenAtasTypes, SnapshotTypes, FundFromLedgerTypes, FundPlainTypes, TopUpWsolTypes,
     CreateWsolTypes, PayInTypes, SkipLegTypes, CallVenueTypes, LegsDoneTypes, PayOutTypes,
     CloseAtasTypes, CheckTypes, CommitTypes, AbortTypes DEF Step
<1>5. CASE UNCHANGED vars
  <2>1. UNCHANGED <<bal, open, sol, ledger, pc, route, saved, created, watched, recorded,
                    effective, madeWsol, leg, started>>
    BY <1>5 DEF vars, stage
  <2>2. UNCHANGED Funds
    BY <2>1 DEF Funds
  <2>3. TypeOK' /\ WsolMade'
    BY <2>1, <2>2, Zenon DEF TInv, TypeOK, LedgerMatches, WsolMade
  <2> QED
    BY <2>3 DEF TInv
<1> QED
  BY <1>1, <1>2, <1>3, <1>4, <1>5 DEF Next

LEMMA TypesInductive == Spec => []TInv
BY InitTypes, NextTypes, PTL DEF Spec

\* No account goes below zero at any stage of a route, nor does a wallet, and the
\* amount taken from the user is never negative, whatever the venues do.
THEOREM RouteTypes == Spec => []TypeOK
<1>1. TInv => TypeOK
  BY DEF TInv
<1> QED
  BY TypesInductive, <1>1, PTL
=============================================================================
