------------------------- MODULE RouteSettlesProofs -------------------------
(***************************************************************************)
(* SwapRoute implements Settlement, for every set of users, mints, routes  *)
(* and venues: what a route did to the funds by each stage is what its     *)
(* order allows, and the return of the route settles the order at once.    *)
(***************************************************************************)
EXTENDS RouteSettles, SwapRouteSafety, WellFoundedInduction

\* Tokens are in accounts that exist.
Held(b, o) == \A w \in Owners, m \in Mints : b[w][m] > 0 => <<w, m>> \in o

\* Between instructions the saved funds are the funds.
HInv == /\ Held(bal, open) /\ Held(saved.bal, saved.open)
        /\ pc = "idle" => bal = saved.bal /\ open = saved.open /\ sol = saved.sol /\ created = {}

\* Stages before the input is paid for, and after the output was paid out.
Early == {"open", "snapshot", "fund"}
Late == {"close", "check", "done"}

\* The accounts that exist because of the route: TitanPDA's, the user's
\* wrapped-SOL account until its tokens were taken, and the output account.
Temporary == IF pc = "payIn" /\ madeWsol THEN {<<route.user, Native>>} ELSE {}
Output == IF pc \in Late THEN {<<route.user, OutMint(route)>>} ELSE {}
Extra == ({Titan} \X created) \cup Temporary \cup Output

AInv == pc # "idle" =>
    /\ route \in Routes
    /\ created \subseteq SlotMints(route)
    /\ \A m \in created : <<Titan, m>> \notin saved.open
    /\ pc = "open" => created = {}
    /\ pc \in Early => ~ madeWsol /\ bal = saved.bal
    /\ madeWsol => <<route.user, Native>> \notin saved.open
    /\ IF pc \in {"check", "done"}
       THEN /\ saved.open \subseteq open /\ open \subseteq saved.open \cup Extra
            /\ \A m \in created : <<Titan, m>> \in open => bal[Titan][m] > 0
       ELSE open = saved.open \cup Extra

\* What the user gives is what the order says; an account made for it holds
\* nothing else.
GInv == pc \notin {"idle"} \cup Early =>
    /\ effective = IF route.ledger THEN saved.bal[route.user][InMint(route)] - Ledger
                                   ELSE route.amount
    /\ route.ledger => effective > 0
    /\ pc = "payIn" /\ madeWsol => bal[route.user][Native] = effective

\* Whom the route does not concern.
OInv == pc # "idle" =>
    /\ \A w \in Users \ {route.user} : bal[w] = saved.bal[w]
    /\ \A m \in Mints \ {InMint(route), OutMint(route)} : bal[route.user][m] = saved.bal[route.user][m]
    /\ \A q \in Payers \ {route.user, route.payer} : sol[q] = saved.sol[q]

\* What has been charged so far.
Deposits == Rent * Cardinality(open \ saved.open)
Charge(q, m) == (IF q = route.user /\ m = InMint(route) /\ pc \in Paid THEN effective ELSE 0)
                + (IF q = route.payer /\ m = Native THEN Deposits ELSE 0)
BInvoice == pc # "idle" =>
    \A q \in Payers, m \in Mints :
        IF q = route.user /\ m = OutMint(route) /\ pc \in Late
        THEN Worth(Funds, q, m) >= Worth(saved, q, m) - Charge(q, m)
        ELSE Worth(Funds, q, m) = Worth(saved, q, m) - Charge(q, m)

SettleInv == HInv /\ AInv /\ GInv /\ OInv /\ BInvoice
IInv == TInv /\ RInv /\ SettleInv

-----------------------------------------------------------------------------
(* Deposits. *)

LEMMA AccountsFinite ==
    ASSUME NEW o \in Accounts, NEW s
    PROVE  /\ IsFiniteSet(o) /\ IsFiniteSet(o \ s)
           /\ Cardinality(o) \in Nat /\ Cardinality(o \ s) \in Nat
<1>1. IsFiniteSet({Titan}) /\ IsFiniteSet({Pool})
  BY FS_Singleton
<1>2. IsFiniteSet({Titan} \cup {Pool})
  BY <1>1, FS_Union
<1>3. IsFiniteSet(Users \cup ({Titan} \cup {Pool}))
  BY <1>2, PartiesDiffer, FS_Union
<1>4. Users \cup ({Titan} \cup {Pool}) = Owners
  BY DEF Owners
<1>5. IsFiniteSet(Owners \X Mints)
  BY <1>3, <1>4, PartiesDiffer, FS_Product
<1>6. IsFiniteSet(o)
  BY <1>5, FS_Subset DEF Accounts
<1>7. IsFiniteSet(o \ s)
  BY <1>6, FS_Difference
<1> QED
  BY <1>6, <1>7, FS_CardinalityType

\* TitanPDA has one account of each mint.
LEMMA TitanAccounts ==
    ASSUME NEW c \in SUBSET Mints
    PROVE  {Titan} \X c \in Accounts /\ Cardinality({Titan} \X c) = Cardinality(c)
<1>1. IsFiniteSet({Titan}) /\ Cardinality({Titan}) = 1
  BY FS_Singleton
<1>2. IsFiniteSet(c) /\ Cardinality(c) \in Nat
  BY PartiesDiffer, FS_Subset, FS_CardinalityType
<1>3. Cardinality({Titan} \X c) = Cardinality({Titan}) * Cardinality(c)
  BY <1>1, <1>2, FS_Product
<1>4. {Titan} \X c \in Accounts
  BY DEF Accounts, Owners
<1> QED
  BY <1>1, <1>2, <1>3, <1>4

\* What the accounts of o that were not there before cost, when more are opened.
LEMMA DepositsAdd ==
    ASSUME NEW s \in Accounts, NEW o \in Accounts, NEW a \in Accounts,
           s \subseteq o, a \cap o = {}
    PROVE  /\ Rent * Cardinality((o \cup a) \ s)
                = Rent * Cardinality(o \ s) + Rent * Cardinality(a)
           /\ Rent * Cardinality(o \ s) \in Nat /\ Rent * Cardinality(a) \in Nat
<1> DEFINE old == o \ s
           new == (o \cup a) \ s
           x == Cardinality(old)
           y == Cardinality(a)
<1>1. new = old \cup a /\ old \cap a = {}
  OBVIOUS
<1>2. IsFiniteSet(old) /\ IsFiniteSet(a) /\ x \in Nat /\ y \in Nat
  BY AccountsFinite
<1>3. Cardinality({}) = 0
  BY FS_EmptySet
<1> HIDE DEF old, new
<1>4. Cardinality(old \cup a) = x + y - Cardinality(old \cap a)
  BY <1>2, FS_Union
<1>5. Cardinality(new) = x + y
  <2>1. Cardinality(old \cap a) = 0 /\ Cardinality(new) = Cardinality(old \cup a)
    BY <1>1, <1>3, Zenon
  <2> QED
    BY <1>2, <1>4, <2>1
<1> HIDE DEF x, y
<1>6. Rent * (x + y) = Rent * x + Rent * y /\ Rent * x \in Nat /\ Rent * y \in Nat
  BY <1>2, NumbersAssumption
<1>7. Rent * Cardinality(new) = Rent * x + Rent * y
  BY <1>5, <1>6
<1> QED
  BY <1>6, <1>7, Zenon DEF x, y, old, new

\* The same when some of them are closed again.
LEMMA DepositsRemove ==
    ASSUME NEW s \in Accounts, NEW o \in Accounts, NEW a \in Accounts,
           s \subseteq o, a \subseteq o, a \cap s = {}
    PROVE  /\ Rent * Cardinality((o \ a) \ s)
                = Rent * Cardinality(o \ s) - Rent * Cardinality(a)
           /\ Rent * Cardinality(o \ s) \in Nat /\ Rent * Cardinality(a) \in Nat
           /\ Rent * Cardinality((o \ a) \ s) \in Nat
<1> DEFINE p == o \ a
<1>1. p \in Accounts /\ s \subseteq p /\ a \cap p = {} /\ p \cup a = o
  BY DEF Accounts
<1> HIDE DEF p
<1>2. /\ Rent * Cardinality((p \cup a) \ s)
           = Rent * Cardinality(p \ s) + Rent * Cardinality(a)
      /\ Rent * Cardinality(p \ s) \in Nat /\ Rent * Cardinality(a) \in Nat
  BY <1>1, DepositsAdd
<1>3. /\ Rent * Cardinality(o \ s)
           = Rent * Cardinality(p \ s) + Rent * Cardinality(a)
      /\ Rent * Cardinality(p \ s) \in Nat /\ Rent * Cardinality(a) \in Nat
  BY <1>1, <1>2
<1> QED
  BY <1>3 DEF p

\* One account.
LEMMA OneAccount ==
    ASSUME NEW w \in Owners, NEW m \in Mints
    PROVE  {<<w, m>>} \in Accounts /\ Cardinality({<<w, m>>}) = 1 /\ Rent * Cardinality({<<w, m>>}) = Rent
<1>1. Cardinality({<<w, m>>}) = 1
  BY FS_Singleton
<1> QED
  BY <1>1, NumbersAssumption DEF Accounts

\* The same of the accounts that a stage opens or closes.
LEMMA DepositsMore ==
    ASSUME saved.open \in Accounts, open \in Accounts, saved' = saved,
           NEW a \in Accounts, saved.open \subseteq open, a \cap open = {}, open' = open \cup a
    PROVE  /\ Deposits' = Deposits + Rent * Cardinality(a)
           /\ Deposits \in Nat /\ Rent * Cardinality(a) \in Nat
<1>1. Deposits' = Rent * Cardinality((open \cup a) \ saved.open)
  BY Zenon DEF Deposits
<1> QED
  BY <1>1, DepositsAdd, Zenon DEF Deposits

LEMMA DepositsFewer ==
    ASSUME saved.open \in Accounts, open \in Accounts, saved' = saved,
           NEW a \in Accounts, saved.open \subseteq open, a \subseteq open,
           a \cap saved.open = {}, open' = open \ a
    PROVE  /\ Deposits' = Deposits - Rent * Cardinality(a)
           /\ Deposits \in Nat /\ Rent * Cardinality(a) \in Nat
<1>1. Deposits' = Rent * Cardinality((open \ a) \ saved.open)
  BY Zenon DEF Deposits
<1> QED
  BY <1>1, DepositsRemove, Zenon DEF Deposits

-----------------------------------------------------------------------------
(* The stages. *)

\* What is known at every stage.
LEMMA SettleFacts ==
    ASSUME IInv, pc # "idle"
    PROVE  /\ bal \in Balances /\ open \in Accounts /\ sol \in Wallets
           /\ saved.bal \in Balances /\ saved.open \in Accounts /\ saved.sol \in Wallets
           /\ created \in SUBSET Mints /\ effective \in Nat
           /\ Users \subseteq Owners /\ Users \subseteq Payers
           /\ route.user \in Users /\ route.payer \in Payers /\ route.amount \in Nat
           /\ Titan \in Owners /\ Pool \in Owners /\ Titan # Pool /\ Titan \notin Users /\ Pool \notin Users
           /\ InMint(route) \in Mints /\ OutMint(route) \in Mints
           /\ SlotMints(route) \subseteq Mints
           /\ Deposits \in Nat
<1>1. TInv /\ route \in RouteType /\ ValidRoute(route)
  BY TypeFacts DEF IInv
<1>2. /\ route.user \in Users /\ route.payer \in Payers /\ route.amount \in Nat
      /\ SlotMints(route) \subseteq Mints
  BY <1>1, RouteFacts
<1>3. saved.bal \in Balances /\ saved.open \in Accounts /\ saved.sol \in Wallets
  BY <1>1 DEF TInv, TypeOK, FundsType, Balances, Accounts, Wallets
<1>4. created \in SUBSET Mints /\ effective \in Nat
  BY <1>1 DEF TInv, TypeOK
<1>5. bal \in Balances /\ open \in Accounts /\ sol \in Wallets
  BY <1>1, TypeFacts
<1>6. Deposits \in Nat
  <2>1. Cardinality(open \ saved.open) \in Nat
    BY <1>5, AccountsFinite
  <2> QED
    BY <2>1, NumbersAssumption DEF Deposits
<1>7. Titan # Pool /\ Titan \notin Users /\ Pool \notin Users
  BY PartiesDiffer
<1> QED
  BY <1>1, <1>2, <1>3, <1>4, <1>5, <1>6, <1>7, StageFacts DEF Owners, Payers

\* A stage that moves no funds.
LEMMA QuietSettles ==
    ASSUME IInv, pc # "idle",
           UNCHANGED <<bal, open, sol, ledger, route, saved, created, madeWsol>>,
           \/ pc = "snapshot" /\ pc' = "fund" /\ effective' = effective
           \/ /\ pc = "fund" /\ pc' = "payIn"
              /\ effective' = IF route.ledger THEN bal[route.user][InMint(route)] - Ledger
                                              ELSE route.amount
              /\ route.ledger => effective' > 0
           \/ pc = "legs" /\ pc' \in {"legs", "payOut"} /\ effective' = effective
           \/ pc = "check" /\ pc' = "done" /\ effective' = effective
    PROVE  SettleInv'
<1>1. HInv'
  BY DEF IInv, SettleInv, HInv, Held
<1>2. AInv'
  BY DEF IInv, SettleInv, AInv, Extra, Temporary, Output, Early, Late
<1>3. GInv'
  BY DEF IInv, SettleInv, AInv, GInv, Early, Ledger
<1>4. OInv'
  BY DEF IInv, SettleInv, OInv
<1>5. BInvoice'
  <2>1. \A q \in Payers, m \in Mints : Charge(q, m)' = Charge(q, m)
    BY DEF Charge, Deposits, Paid
  <2>2. Funds' = Funds
    BY DEF Funds
  <2>3. pc' \in Late <=> pc \in Late
    BY DEF Late
  <2> QED
    BY <2>1, <2>2, <2>3 DEF IInv, SettleInv, BInvoice, Worth
<1> QED
  BY <1>1, <1>2, <1>3, <1>4, <1>5 DEF SettleInv

LEMMA OpenAtasSettles == ASSUME IInv, OpenAtas PROVE SettleInv'
<1>1. pc = "open" /\ pc' = "snapshot"
  BY DEF OpenAtas
<1>2. UNCHANGED <<bal, ledger, route, saved, effective, madeWsol>>
  BY DEF OpenAtas
<1>3. open = saved.open /\ ~ madeWsol /\ bal = saved.bal
  BY <1>1 DEF IInv, SettleInv, AInv, Extra, Temporary, Output, Early, Late
<1>4. /\ created' = {m \in SlotMints(route) : <<Titan, m>> \notin open}
      /\ open' = open \cup ({Titan} \X created')
  BY DEF OpenAtas, Missing
<1> DEFINE cost == Rent * Cardinality(created')
<1>5. sol' = [sol EXCEPT ![route.payer] = @ - cost]
  BY DEF OpenAtas
<1> USE SettleFacts, <1>1
<1>6. created' \in SUBSET Mints /\ {Titan} \X created' \in Accounts
  BY <1>4, TitanAccounts
<1>7. HInv'
  BY <1>1, <1>2, <1>4 DEF IInv, SettleInv, HInv, Held
<1>8. AInv'
  BY <1>1, <1>2, <1>3, <1>4 DEF IInv, SettleInv, AInv, Extra, Temporary, Output, Early, Late
<1>9. GInv'
  BY <1>1 DEF GInv, Early
<1>10. OInv'
  BY <1>2, <1>5 DEF IInv, SettleInv, OInv, Wallets
<1>11. BInvoice'
  <2>1. Deposits' = Deposits + cost /\ cost \in Nat
    <3> DEFINE a == {Titan} \X created'
    <3>1. a \in Accounts /\ Cardinality(a) = Cardinality(created')
      BY <1>6, TitanAccounts
    <3>2. a \cap open = {} /\ open' = open \cup a /\ saved.open \subseteq open
      BY <1>3, <1>4
    <3> HIDE DEF a
    <3>3. Deposits' = Deposits + Rent * Cardinality(a) /\ Rent * Cardinality(a) \in Nat
      BY <1>2, <3>1, <3>2, DepositsMore
    <3> QED
      BY <3>1, <3>3
  <2> HIDE DEF cost
  <2> SUFFICES ASSUME NEW q \in Payers, NEW m \in Mints
               PROVE  Worth(Funds', q, m) = Worth(saved, q, m) - Charge(q, m)'
    BY <1>1, <1>2 DEF BInvoice, Late
  <2>2. Worth(Funds, q, m) = Worth(saved, q, m) - Charge(q, m)
    BY <1>1 DEF IInv, SettleInv, BInvoice, Late
  <2>3. sol'[q] = IF q = route.payer THEN sol[q] - cost ELSE sol[q]
    BY <1>5 DEF Wallets
  <2>4. Worth(Funds', q, m) = IF q = route.payer /\ m = Native THEN Worth(Funds, q, m) - cost ELSE Worth(Funds, q, m)
    <3>1. sol[q] \in Nat /\ (q \in Users => bal[q][m] \in Nat)
      BY DEF Wallets, Balances
    <3> QED
      BY <1>2, <2>1, <2>3, <3>1 DEF Worth, Funds
  <2>5. Charge(q, m)' = IF q = route.payer /\ m = Native THEN Charge(q, m) + cost ELSE Charge(q, m)
    BY <1>1, <1>2, <2>1 DEF Charge, Paid
  <2>6. Worth(saved, q, m) \in Int /\ Charge(q, m) \in Int
    BY DEF Worth, Charge, Balances, Wallets
  <2> QED
    BY <2>1, <2>2, <2>4, <2>5, <2>6
<1> QED
  BY <1>7, <1>8, <1>9, <1>10, <1>11 DEF SettleInv

\* What somebody owns, in terms of the variables.
LEMMA WorthAt ==
    ASSUME IInv, pc # "idle", NEW q \in Payers, NEW m \in Mints
    PROVE  /\ Worth(Funds, q, m) = (IF q \in Users THEN bal[q][m] ELSE 0) + (IF m = Native THEN sol[q] ELSE 0)
           /\ q \in Users => q \in Owners /\ bal[q][m] \in Nat
           /\ sol[q] \in Nat
           /\ Worth(Funds, q, m) \in Int /\ Worth(saved, q, m) \in Int /\ Charge(q, m) \in Int
BY SettleFacts DEF Worth, Funds, Charge, Balances, Wallets

LEMMA TopUpWsolSettles == ASSUME IInv, TopUpWsol PROVE SettleInv'
<1> DEFINE d == Deficit(route.user, route.amount)
           u == route.user
<1>1. pc = "fund" /\ pc' = "payIn" /\ ~ route.ledger /\ InMint(route) = Native
  BY DEF TopUpWsol
<1>2. UNCHANGED <<open, ledger, route, saved, created, madeWsol>> /\ effective' = route.amount
  BY DEF TopUpWsol
<1>3. /\ sol' = [sol EXCEPT ![u] = @ - d] /\ bal' = [bal EXCEPT ![u][Native] = @ + d]
      /\ <<u, Native>> \in open
  BY DEF TopUpWsol
<1> USE SettleFacts, <1>1
<1>4. d \in Nat
  BY DEF Deficit, Balances
<1> HIDE DEF d
<1>5. HInv'
  BY <1>2, <1>3, <1>4 DEF IInv, SettleInv, HInv, Held, Balances
<1>6. AInv'
  BY <1>2 DEF IInv, SettleInv, AInv, Extra, Temporary, Output, Early, Late
<1>7. GInv'
  BY <1>2 DEF IInv, SettleInv, AInv, GInv, Early
<1>8. OInv'
  BY <1>2, <1>3 DEF IInv, SettleInv, OInv, Balances, Wallets
<1>9. BInvoice'
  <2> SUFFICES ASSUME NEW q \in Payers, NEW m \in Mints
               PROVE  Worth(Funds', q, m) = Worth(saved, q, m) - Charge(q, m)'
    BY <1>2 DEF BInvoice, Late
  <2>1. Worth(Funds, q, m) = Worth(saved, q, m) - Charge(q, m)
    BY DEF IInv, SettleInv, BInvoice, Late
  <2>2. Charge(q, m)' = Charge(q, m)
    BY <1>2 DEF Charge, Deposits, Paid
  <2>3. sol'[q] = IF q = u THEN sol[q] - d ELSE sol[q]
    BY <1>3 DEF Wallets
  <2>4. q \in Users => bal'[q][m] = IF q = u /\ m = Native THEN bal[q][m] + d ELSE bal[q][m]
    BY <1>3 DEF Balances
  <2>5. Worth(Funds', q, m) = Worth(Funds, q, m)
    BY <1>4, <2>3, <2>4, WorthAt DEF Worth, Funds
  <2> QED
    BY <2>1, <2>2, <2>5
<1> QED
  BY <1>5, <1>6, <1>7, <1>8, <1>9 DEF SettleInv

LEMMA CreateWsolSettles == ASSUME IInv, CreateWsol PROVE SettleInv'
<1> DEFINE u == route.user
           n == route.amount
           a == {<<u, Native>>}
<1>1. pc = "fund" /\ pc' = "payIn" /\ ~ route.ledger /\ InMint(route) = Native
  BY DEF CreateWsol
<1>2. UNCHANGED <<ledger, route, saved, created>> /\ effective' = route.amount /\ madeWsol' = TRUE
  BY DEF CreateWsol
<1>3. /\ sol' = [q \in Payers |-> sol[q] - (IF q = route.payer THEN Rent ELSE 0)
                                       - (IF q = u THEN n ELSE 0)]
      /\ bal' = [bal EXCEPT ![u][Native] = @ + n]
      /\ <<u, Native>> \notin open /\ open' = open \cup a
  BY DEF CreateWsol
<1> USE SettleFacts, <1>1
<1>4. bal[u][Native] = 0
  BY <1>3 DEF IInv, SettleInv, HInv, Held, Balances
<1>5. open = saved.open \cup ({Titan} \X created) /\ ~ madeWsol
  BY DEF IInv, SettleInv, AInv, Extra, Temporary, Output, Early, Late
<1>6. HInv'
  BY <1>2, <1>3 DEF IInv, SettleInv, HInv, Held, Balances
<1>7. AInv'
  BY <1>2, <1>3, <1>5 DEF IInv, SettleInv, AInv, Extra, Temporary, Output, Early, Late
<1>8. GInv'
  BY <1>2, <1>3, <1>4 DEF IInv, SettleInv, AInv, GInv, Early, Balances
<1>9. OInv'
  BY <1>2, <1>3 DEF IInv, SettleInv, OInv, Balances, Wallets
<1>10. Deposits' = Deposits + Rent /\ Rent \in Nat
  <2>1. a \in Accounts /\ Rent * Cardinality(a) = Rent
    BY OneAccount
  <2>2. saved.open \subseteq open /\ a \cap open = {}
    BY <1>3, <1>5
  <2> HIDE DEF a
  <2>3. Deposits' = Deposits + Rent * Cardinality(a)
    BY <1>2, <1>3, <2>1, <2>2, DepositsMore
  <2> QED
    BY <2>1, <2>3, NumbersAssumption
<1>11. BInvoice'
  <2> SUFFICES ASSUME NEW q \in Payers, NEW m \in Mints
               PROVE  Worth(Funds', q, m) = Worth(saved, q, m) - Charge(q, m)'
    BY <1>2 DEF BInvoice, Late
  <2>1. Worth(Funds, q, m) = Worth(saved, q, m) - Charge(q, m)
    BY DEF IInv, SettleInv, BInvoice, Late
  <2>2. Charge(q, m)' = IF q = route.payer /\ m = Native THEN Charge(q, m) + Rent ELSE Charge(q, m)
    BY <1>2, <1>10 DEF Charge, Paid
  <2>3. sol'[q] = sol[q] - (IF q = route.payer THEN Rent ELSE 0) - (IF q = u THEN n ELSE 0)
    BY <1>3 DEF Wallets
  <2>4. q \in Users => bal'[q][m] = IF q = u /\ m = Native THEN bal[q][m] + n ELSE bal[q][m]
    BY <1>3 DEF Balances
  <2>5. Worth(Funds', q, m) = IF q = route.payer /\ m = Native THEN Worth(Funds, q, m) - Rent
                                                              ELSE Worth(Funds, q, m)
    BY <1>10, <2>3, <2>4, WorthAt DEF Worth, Funds
  <2> QED
    BY <1>10, <2>1, <2>2, <2>5, WorthAt
<1> QED
  BY <1>6, <1>7, <1>8, <1>9, <1>11 DEF SettleInv

\* The deposit of an account made for the input returns to the payer, who gets
\* none of the user's tokens with it.
LEMMA PayInSettles == ASSUME IInv, PayIn PROVE SettleInv'
<1> DEFINE u == route.user
           in == InMint(route)
           a == {<<u, Native>>}
           moved == Move(bal, u, Titan, in, effective)
           back == IF madeWsol THEN Rent ELSE 0
<1>1. pc = "payIn" /\ pc' = "legs"
  BY DEF PayIn
<1>2. UNCHANGED <<ledger, route, saved, created, effective, madeWsol>>
  BY DEF PayIn, stage
<1> USE SettleFacts, <1>1
<1>3. /\ bal' = IF madeWsol THEN [moved EXCEPT ![u][Native] = 0] ELSE moved
      /\ sol' = [sol EXCEPT ![route.payer] = @ + Sweep(u)]
      /\ open' = IF madeWsol THEN open \ a ELSE open
      /\ effective > 0 => <<u, in>> \in open /\ <<Titan, in>> \in open
  BY DEF PayIn, CanMove
<1>4. /\ open = saved.open \cup ({Titan} \X created) \cup (IF madeWsol THEN a ELSE {})
      /\ madeWsol => <<u, Native>> \notin saved.open
  BY DEF IInv, SettleInv, AInv, Extra, Temporary, Output, Early, Late
<1>5. madeWsol => in = Native /\ bal[u][Native] = effective
  BY DEF IInv, SettleInv, GInv, Early, TInv, WsolMade
<1>6. Sweep(u) = back /\ back \in Nat
  BY <1>5, NumbersAssumption DEF Sweep
<1>7. effective <= bal[u][in]
  BY CanMoveCovers DEF PayIn
<1> HIDE DEF back
<1>8. moved \in Balances
  BY <1>7, MoveType
<1>9. \A w \in Owners, m \in Mints :
         moved[w][m] = IF m # in THEN bal[w][m]
                       ELSE IF w = u THEN bal[w][m] - effective
                       ELSE IF w = Titan THEN bal[w][m] + effective ELSE bal[w][m]
  BY MoveAt
<1> HIDE DEF moved
<1>10. \A w \in Owners, m \in Mints :
         bal'[w][m] = IF m # in THEN bal[w][m]
                      ELSE IF w = u THEN bal[w][m] - effective
                      ELSE IF w = Titan THEN bal[w][m] + effective ELSE bal[w][m]
  <2>1. CASE madeWsol
    <3>1. bal' = [moved EXCEPT ![u][Native] = 0]
      BY <1>3, <2>1
    <3>2. \A w \in Owners, m \in Mints : bal'[w][m] = IF w = u /\ m = in THEN 0 ELSE moved[w][m]
      BY <1>5, <1>8, <2>1, <3>1 DEF Balances
    <3> QED
      BY <1>5, <1>9, <2>1, <3>2
  <2>2. CASE ~ madeWsol
    BY <1>3, <1>9, <2>2
  <2> QED
    BY <2>1, <2>2
<1>11. bal' \in Balances
  BY <1>3, <1>8 DEF Balances
<1>12. HInv'
  <2> SUFFICES ASSUME NEW w \in Owners, NEW m \in Mints, bal'[w][m] > 0
               PROVE  <<w, m>> \in open'
    BY <1>2 DEF IInv, SettleInv, HInv, Held
  <2>1. bal[w][m] \in Nat
    BY DEF Balances
  <2>2. <<w, m>> \in open
    BY <1>3, <1>10, <2>1 DEF IInv, SettleInv, HInv, Held
  <2>3. madeWsol => <<w, m>> # <<u, Native>>
    BY <1>5, <1>10
  <2> QED
    BY <1>3, <2>2, <2>3
<1>13. AInv'
  <2>1. open' = saved.open \cup ({Titan} \X created)
    BY <1>3, <1>4
  <2> QED
    BY <1>2, <2>1 DEF IInv, SettleInv, AInv, Extra, Temporary, Output, Early, Late
<1>14. GInv'
  BY <1>2 DEF IInv, SettleInv, GInv, Early, Ledger
<1>15. OInv'
  <2>1. ASSUME NEW w \in Users \ {u}
        PROVE  bal'[w] = saved.bal[w]
    <3>1. bal'[w] \in [Mints -> Nat] /\ bal[w] \in [Mints -> Nat]
      BY <1>11 DEF Balances
    <3>2. \A m \in Mints : bal'[w][m] = bal[w][m]
      BY <1>10
    <3>3. bal'[w] = bal[w]
      BY <3>1, <3>2
    <3> QED
      BY <3>3 DEF IInv, SettleInv, OInv
  <2>2. \A m \in Mints \ {in, OutMint(route)} : bal'[u][m] = saved.bal[u][m]
    BY <1>10 DEF IInv, SettleInv, OInv
  <2>3. \A q \in Payers \ {u, route.payer} : sol'[q] = saved.sol[q]
    BY <1>3 DEF IInv, SettleInv, OInv, Wallets
  <2> QED
    BY <1>2, <2>1, <2>2, <2>3 DEF OInv
<1>16. Deposits' = Deposits - back
  <2>1. CASE madeWsol
    <3>1. a \in Accounts /\ Rent * Cardinality(a) = Rent
      BY <1>5, <2>1, OneAccount
    <3>2. saved.open \subseteq open /\ a \subseteq open /\ a \cap saved.open = {} /\ open' = open \ a
      BY <1>3, <1>4, <2>1
    <3> HIDE DEF a
    <3>3. Deposits' = Deposits - Rent * Cardinality(a)
      BY <1>2, <3>1, <3>2, DepositsFewer
    <3> QED
      BY <2>1, <3>1, <3>3 DEF back
  <2>2. CASE ~ madeWsol
    BY <1>2, <1>3, <2>2 DEF Deposits, back
  <2> QED
    BY <2>1, <2>2
<1>17. BInvoice'
  <2> SUFFICES ASSUME NEW q \in Payers, NEW m \in Mints
               PROVE  Worth(Funds', q, m) = Worth(saved, q, m) - Charge(q, m)'
    BY <1>2 DEF BInvoice, Late
  <2>1. Worth(Funds, q, m) = Worth(saved, q, m) - Charge(q, m)
    BY DEF IInv, SettleInv, BInvoice, Late
  <2>2. Charge(q, m)' = Charge(q, m) + (IF q = u /\ m = in THEN effective ELSE 0)
                                     - (IF q = route.payer /\ m = Native THEN back ELSE 0)
    BY <1>2, <1>6, <1>16 DEF Charge, Paid
  <2>3. sol'[q] = IF q = route.payer THEN sol[q] + back ELSE sol[q]
    BY <1>3, <1>6 DEF Wallets
  <2>4. q \in Users => bal'[q][m] = IF q = u /\ m = in THEN bal[q][m] - effective ELSE bal[q][m]
    BY <1>10
  <2>5. Worth(Funds', q, m) = Worth(Funds, q, m)
                              - (IF q = u /\ m = in THEN effective ELSE 0)
                              + (IF q = route.payer /\ m = Native THEN back ELSE 0)
    <3>1. Worth(Funds', q, m) = (IF q \in Users THEN bal'[q][m] ELSE 0) + (IF m = Native THEN sol'[q] ELSE 0)
      BY DEF Worth, Funds
    <3>2. q = u => q \in Users
      OBVIOUS
    <3> QED
      BY <1>6, <2>3, <2>4, <3>1, <3>2, WorthAt
  <2> QED
    BY <1>6, <2>1, <2>2, <2>5, WorthAt
<1> QED
  BY <1>12, <1>13, <1>14, <1>15, <1>17 DEF SettleInv

\* A venue's tokens and TitanPDA's are nobody else's.
LEMMA CallVenueSettles == ASSUME IInv, CallVenue PROVE SettleInv'
<1> DEFINE in == route.legs[leg].in
           out == route.legs[leg].out
<1>1. pc = "legs" /\ pc' = "legs"
  BY DEF CallVenue
<1>2. UNCHANGED <<open, sol, ledger, route, saved, created, effective, madeWsol>>
  BY DEF CallVenue
<1> USE SettleFacts, <1>1
<1>3. PICK taken \in Taken(in), given \in 0 .. bal[Pool][out] :
         bal' = Move(Move(bal, Titan, Pool, in, taken), Pool, Titan, out, given)
  BY DEF CallVenue
<1>4. {<<Titan, in>>, <<Pool, in>>, <<Titan, out>>, <<Pool, out>>} \subseteq open
  BY DEF CallVenue
<1>5. in \in Mints /\ out \in Mints
  <2>1. <<Titan, in>> \in Owners \X Mints /\ <<Titan, out>> \in Owners \X Mints
    BY <1>4 DEF Accounts
  <2> QED
    BY <2>1
<1> HIDE DEF in, out
<1>6. taken \in Nat /\ given \in Nat /\ taken <= bal[Titan][in]
  <2>1. bal[Titan][in] \in Nat /\ bal[Pool][out] \in Nat
    BY <1>5 DEF Balances
  <2>2. taken \in 0 .. bal[Titan][in]
    BY <1>3 DEF Taken
  <2> QED
    BY <1>3, <2>1, <2>2
<1> DEFINE paid == Move(bal, Titan, Pool, in, taken)
<1>7. paid \in Balances
  BY <1>5, <1>6, MoveType
<1>8. \A w \in Owners, m \in Mints : w \notin {Titan, Pool} \/ m \notin {in, out} => paid[w][m] = bal[w][m]
  BY <1>5, <1>6, MoveAt
<1>9. bal' = Move(paid, Pool, Titan, out, given)
  BY <1>3
<1> HIDE DEF paid
<1>10. ASSUME NEW w \in Owners, NEW m \in Mints, w \notin {Titan, Pool} \/ m \notin {in, out}
       PROVE  bal'[w][m] = bal[w][m]
  <2>1. Move(paid, Pool, Titan, out, given)[w][m] = paid[w][m]
    BY <1>5, <1>6, <1>7, <1>10, MoveAt
  <2> QED
    BY <1>8, <1>9, <1>10, <2>1
<1>11. \A w \in Users : bal'[w] = bal[w]
  <2> SUFFICES ASSUME NEW w \in Users PROVE bal'[w] = bal[w]
    OBVIOUS
  <2>1. bal'[w] = [paid[w] EXCEPT ![out] = paid[w][out]]
    BY <1>9 DEF Move
  <2>2. paid[w] \in [Mints -> Nat] /\ bal[w] \in [Mints -> Nat]
    BY <1>7 DEF Balances
  <2>3. \A m \in Mints : paid[w][m] = bal[w][m]
    BY <1>8
  <2> QED
    BY <2>1, <2>2, <2>3
<1>12. HInv'
  BY <1>2, <1>4, <1>10 DEF IInv, SettleInv, HInv, Held
<1>13. AInv'
  BY <1>2 DEF IInv, SettleInv, AInv, Extra, Temporary, Output, Early, Late
<1>14. GInv'
  BY <1>2 DEF IInv, SettleInv, GInv, Early, Ledger
<1>15. OInv'
  BY <1>2, <1>11 DEF IInv, SettleInv, OInv
<1>16. BInvoice'
  <2> SUFFICES ASSUME NEW q \in Payers, NEW m \in Mints
               PROVE  Worth(Funds', q, m) = Worth(saved, q, m) - Charge(q, m)'
    BY <1>2 DEF BInvoice, Late
  <2>1. Worth(Funds, q, m) = Worth(saved, q, m) - Charge(q, m)
    BY DEF IInv, SettleInv, BInvoice, Late
  <2>2. Charge(q, m)' = Charge(q, m)
    BY <1>2 DEF Charge, Deposits, Paid
  <2>3. Worth(Funds', q, m) = Worth(Funds, q, m)
    BY <1>2, <1>11 DEF Worth, Funds
  <2> QED
    BY <2>1, <2>2, <2>3
<1> QED
  BY <1>12, <1>13, <1>14, <1>15, <1>16 DEF SettleInv

LEMMA PayOutSettles == ASSUME IInv, PayOut PROVE SettleInv'
<1> DEFINE u == route.user
           out == OutMint(route)
           a == {<<u, out>>}
           fee == IF <<u, out>> \in open THEN 0 ELSE Rent
           n == Traded(out)
<1>1. pc = "payOut" /\ pc' = "close"
  BY DEF PayOut
<1>2. UNCHANGED <<ledger, route, saved, created, effective, madeWsol>>
  BY DEF PayOut, stage
<1> USE SettleFacts, <1>1
<1>3. /\ bal' = Move(bal, Titan, u, out, n)
      /\ sol' = [sol EXCEPT ![route.payer] = @ - fee]
      /\ open' = open \cup a
  BY DEF PayOut
<1>4. open = saved.open \cup ({Titan} \X created)
  BY DEF IInv, SettleInv, AInv, Extra, Temporary, Output, Early, Late
<1>5. n \in Nat /\ n <= bal[Titan][out] /\ fee \in Nat
  <2>1. bal[Titan][out] \in Nat /\ recorded[out] \in Nat
    BY DEF Balances, IInv, TInv, TypeOK
  <2> QED
    BY <2>1, NumbersAssumption DEF Traded, Excess
<1>6. Deposits' = Deposits + fee
  <2>1. CASE <<u, out>> \in open
    <3>1. open' = open
      BY <1>3, <2>1
    <3> QED
      BY <1>2, <2>1, <3>1 DEF Deposits
  <2>2. CASE <<u, out>> \notin open
    <3>1. a \in Accounts /\ Rent * Cardinality(a) = Rent
      BY OneAccount
    <3>2. saved.open \subseteq open /\ a \cap open = {} /\ open' = open \cup a
      BY <1>3, <1>4, <2>2
    <3> HIDE DEF a
    <3>3. Deposits' = Deposits + Rent * Cardinality(a)
      BY <1>2, <3>1, <3>2, DepositsMore
    <3> QED
      BY <2>2, <3>1, <3>3
  <2> QED
    BY <2>1, <2>2
<1> HIDE DEF n, fee
<1>7. ASSUME NEW w \in Owners, NEW m \in Mints
      PROVE  bal'[w][m] = IF m # out THEN bal[w][m]
                          ELSE IF w = Titan THEN bal[w][m] - n
                          ELSE IF w = u THEN bal[w][m] + n ELSE bal[w][m]
  <2>1. /\ u \in Owners /\ u # Titan /\ bal \in Balances
        /\ Titan \in Owners /\ out \in Mints
    OBVIOUS
  <2> HIDE DEF u, out
  <2>2. Move(bal, Titan, u, out, n)[w][m]
           = IF m # out \/ Titan = u THEN bal[w][m]
             ELSE IF w = Titan THEN bal[w][m] - n
             ELSE IF w = u THEN bal[w][m] + n ELSE bal[w][m]
    BY ONLY <1>5, <2>1, MoveAt
  <2> QED
    BY <1>3, <2>1, <2>2
<1>8. bal' \in Balances
  <2>1. u \in Owners /\ bal \in Balances
    OBVIOUS
  <2> QED
    BY <1>3, <1>5, <2>1, MoveType
<1>9. HInv'
  <2> SUFFICES ASSUME NEW w \in Owners, NEW m \in Mints, bal'[w][m] > 0
               PROVE  <<w, m>> \in open'
    BY <1>2 DEF IInv, SettleInv, HInv, Held
  <2>1. bal[w][m] \in Nat
    BY DEF Balances
  <2>2. <<w, m>> = <<u, out>> \/ bal[w][m] > 0
    BY <1>5, <1>7, <2>1
  <2> QED
    BY <1>3, <2>2 DEF IInv, SettleInv, HInv, Held
<1>10. AInv'
  BY <1>2, <1>3, <1>4 DEF IInv, SettleInv, AInv, Extra, Temporary, Output, Early, Late
<1>11. GInv'
  BY <1>2 DEF IInv, SettleInv, GInv, Early, Ledger
<1>12. OInv'
  <2>1. ASSUME NEW w \in Users \ {u}
        PROVE  bal'[w] = saved.bal[w]
    <3>1. bal'[w] \in [Mints -> Nat] /\ bal[w] \in [Mints -> Nat]
      BY <1>8 DEF Balances
    <3>2. \A m \in Mints : bal'[w][m] = bal[w][m]
      BY <1>7
    <3>3. bal'[w] = bal[w]
      BY <3>1, <3>2
    <3> QED
      BY <3>3 DEF IInv, SettleInv, OInv
  <2>2. \A m \in Mints \ {InMint(route), out} : bal'[u][m] = saved.bal[u][m]
    BY <1>7 DEF IInv, SettleInv, OInv
  <2>3. \A q \in Payers \ {u, route.payer} : sol'[q] = saved.sol[q]
    BY <1>3 DEF IInv, SettleInv, OInv, Wallets
  <2> QED
    BY <1>2, <2>1, <2>2, <2>3 DEF OInv
<1>13. BInvoice'
  <2> SUFFICES ASSUME NEW q \in Payers, NEW m \in Mints
               PROVE  IF q = u /\ m = out
                      THEN Worth(Funds', q, m) >= Worth(saved, q, m) - Charge(q, m)'
                      ELSE Worth(Funds', q, m) = Worth(saved, q, m) - Charge(q, m)'
    BY <1>2 DEF BInvoice, Late
  <2>1. Worth(Funds, q, m) = Worth(saved, q, m) - Charge(q, m)
    BY DEF IInv, SettleInv, BInvoice, Late
  <2>2. Charge(q, m)' = IF q = route.payer /\ m = Native THEN Charge(q, m) + fee ELSE Charge(q, m)
    BY <1>2, <1>5, <1>6 DEF Charge, Paid
  <2>3. sol'[q] = IF q = route.payer THEN sol[q] - fee ELSE sol[q]
    BY <1>3 DEF Wallets
  <2>4. q \in Users => bal'[q][m] = IF q = u /\ m = out THEN bal[q][m] + n ELSE bal[q][m]
    BY <1>7
  <2>5. Worth(Funds', q, m) = Worth(Funds, q, m) - (IF q = route.payer /\ m = Native THEN fee ELSE 0)
                                                 + (IF q = u /\ m = out THEN n ELSE 0)
    <3>1. Worth(Funds', q, m) = (IF q \in Users THEN bal'[q][m] ELSE 0) + (IF m = Native THEN sol'[q] ELSE 0)
      BY DEF Worth, Funds
    <3> QED
      BY <1>5, <2>3, <2>4, <3>1, WorthAt
  <2> QED
    BY <1>5, <2>1, <2>2, <2>5, WorthAt
<1> QED
  BY <1>9, <1>10, <1>11, <1>12, <1>13 DEF SettleInv

LEMMA CloseAtasSettles == ASSUME IInv, CloseAtas PROVE SettleInv'
<1> DEFINE a == {Titan} \X Closable
           back == Rent * Cardinality(Closable)
<1>1. pc = "close" /\ pc' = "check"
  BY DEF CloseAtas
<1>2. UNCHANGED <<ledger, route, saved, created, effective, madeWsol>>
  BY DEF CloseAtas, stage
<1> USE SettleFacts, <1>1
<1>3. /\ open' = open \ a
      /\ bal' = [bal EXCEPT ![Titan] = [m \in Mints |-> IF m \in Closable THEN 0 ELSE @[m]]]
      /\ sol' = [sol EXCEPT ![route.payer] = @ + back]
  BY DEF CloseAtas
<1>4. Closable = {m \in created : bal[Titan][m] = 0} /\ Closable \in SUBSET Mints
  BY DEF Closable
<1>5. /\ open = saved.open \cup ({Titan} \X created) \cup {<<route.user, OutMint(route)>>}
      /\ \A m \in created : <<Titan, m>> \notin saved.open
  BY DEF IInv, SettleInv, AInv, Extra, Temporary, Output, Early, Late
<1>6. Deposits' = Deposits - back /\ back \in Nat
  <2>1. a \in Accounts /\ Cardinality(a) = Cardinality(Closable)
    BY <1>4, TitanAccounts
  <2>2. saved.open \subseteq open /\ a \subseteq open /\ a \cap saved.open = {}
    BY <1>4, <1>5
  <2>3. open' = open \ a
    BY <1>3
  <2> HIDE DEF a
  <2>4. Deposits' = Deposits - Rent * Cardinality(a) /\ Rent * Cardinality(a) \in Nat
    BY <1>2, <2>1, <2>2, <2>3, DepositsFewer
  <2> QED
    BY <2>1, <2>4
<1> HIDE DEF back
<1>7. \A w \in Owners, m \in Mints : bal'[w][m] = bal[w][m]
  BY <1>3, <1>4 DEF Balances
<1>8. \A w \in Users : bal'[w] = bal[w]
  BY <1>3 DEF Balances
<1>9. HInv'
  BY <1>2, <1>3, <1>4, <1>7 DEF IInv, SettleInv, HInv, Held
<1>10. AInv'
  <2>1. saved.open \subseteq open' /\ open' \subseteq saved.open \cup ({Titan} \X created) \cup {<<route.user, OutMint(route)>>}
    BY <1>3, <1>4, <1>5
  <2>2. \A m \in created : <<Titan, m>> \in open' => bal'[Titan][m] > 0
    BY <1>3, <1>4, <1>7 DEF Balances
  <2> QED
    BY <1>2, <2>1, <2>2 DEF IInv, SettleInv, AInv, Extra, Temporary, Output, Early, Late
<1>11. GInv'
  BY <1>2 DEF IInv, SettleInv, GInv, Early, Ledger
<1>12. OInv'
  BY <1>2, <1>3, <1>8 DEF IInv, SettleInv, OInv, Wallets
<1>13. BInvoice'
  <2> DEFINE u == route.user
             out == OutMint(route)
  <2> SUFFICES ASSUME NEW q \in Payers, NEW m \in Mints
               PROVE  IF q = u /\ m = out
                      THEN Worth(Funds', q, m) >= Worth(saved, q, m) - Charge(q, m)'
                      ELSE Worth(Funds', q, m) = Worth(saved, q, m) - Charge(q, m)'
    BY <1>2 DEF BInvoice, Late
  <2>1. IF q = u /\ m = out
        THEN Worth(Funds, q, m) >= Worth(saved, q, m) - Charge(q, m)
        ELSE Worth(Funds, q, m) = Worth(saved, q, m) - Charge(q, m)
    BY DEF IInv, SettleInv, BInvoice, Late
  <2>2. Charge(q, m)' = IF q = route.payer /\ m = Native THEN Charge(q, m) - back ELSE Charge(q, m)
    BY <1>2, <1>6 DEF Charge, Paid
  <2>3. sol'[q] = IF q = route.payer THEN sol[q] + back ELSE sol[q]
    BY <1>3 DEF Wallets
  <2>4. Worth(Funds', q, m) = Worth(Funds, q, m) + (IF q = route.payer /\ m = Native THEN back ELSE 0)
    <3>1. Worth(Funds', q, m) = (IF q \in Users THEN bal'[q][m] ELSE 0) + (IF m = Native THEN sol'[q] ELSE 0)
      BY DEF Worth, Funds
    <3> QED
      BY <1>6, <1>8, <2>3, <3>1, WorthAt
  <2> QED
    BY <1>6, <2>1, <2>2, <2>4, WorthAt
<1> QED
  BY <1>9, <1>10, <1>11, <1>12, <1>13 DEF SettleInv

\* Stages that move no funds.
LEMMA QuietStagesSettle ==
    ASSUME IInv, Snapshot \/ FundFromLedger \/ FundPlain \/ SkipLeg \/ LegsDone \/ Check
    PROVE  SettleInv'
<1>1. CASE Snapshot
  BY <1>1, QuietSettles DEF Snapshot, funds
<1>2. CASE FundFromLedger
  BY <1>2, QuietSettles DEF FundFromLedger, funds, Ledger
<1>3. CASE FundPlain
  BY <1>3, QuietSettles DEF FundPlain, funds
<1>4. CASE SkipLeg
  BY <1>4, QuietSettles DEF SkipLeg, funds
<1>5. CASE LegsDone
  BY <1>5, QuietSettles DEF LegsDone, funds, stage
<1>6. CASE Check
  BY <1>6, QuietSettles DEF Check, funds, stage
<1> QED
  BY <1>1, <1>2, <1>3, <1>4, <1>5, <1>6

-----------------------------------------------------------------------------
(* Instruction boundaries. *)

\* Of a state between instructions only the funds matter.
LEMMA IdleSettles == ASSUME HInv', pc' = "idle" PROVE SettleInv'
BY DEF SettleInv, AInv, GInv, OInv, BInvoice

LEMMA CommitSettles == ASSUME IInv, Commit PROVE SettleInv'
<1>1. /\ pc' = "idle" /\ created' = {} /\ saved' = Funds
      /\ UNCHANGED <<bal, open, sol>>
  BY DEF Commit, ToIdle, funds
<1>2. saved'.bal = bal /\ saved'.open = open /\ saved'.sol = sol
  BY <1>1 DEF Funds
<1>3. HInv'
  BY <1>1, <1>2 DEF IInv, SettleInv, HInv, Held
<1> QED
  BY <1>1, <1>3, IdleSettles

LEMMA AbortSettles == ASSUME IInv, Abort PROVE SettleInv'
<1>1. /\ pc' = "idle" /\ created' = {} /\ saved' = saved
      /\ bal' = saved.bal /\ open' = saved.open /\ sol' = saved.sol
  BY DEF Abort, ToIdle
<1>2. HInv'
  BY <1>1 DEF IInv, SettleInv, HInv, Held
<1> QED
  BY <1>1, <1>2, IdleSettles

\* Other instructions move tokens between accounts that exist.
LEMMA TransferSettles ==
    ASSUME IInv, NEW t \in Transfers, NEW n \in 1 .. bal[t[1]][t[3]],
           Transfer(t[1], t[2], t[3], n)
    PROVE  SettleInv'
<1> DEFINE from == t[1]
           to == t[2]
           m == t[3]
<1>1. /\ pc = "idle" /\ pc' = "idle" /\ UNCHANGED <<open, sol, created>>
      /\ bal' = Move(bal, from, to, m, n) /\ saved' = [saved EXCEPT !.bal = bal']
      /\ CanMove(from, to, m, n)
  BY DEF Transfer, stage
<1>2. from \in Owners /\ to \in Owners /\ m \in Mints /\ from # to
  BY TransfersAssumption
<1>3. bal \in Balances /\ saved \in FundsType
  BY TypeFacts DEF IInv, TInv, TypeOK
<1>4. bal[from][m] \in Nat
  BY <1>2, <1>3 DEF Balances
<1> HIDE DEF from, to, m
<1>5. n \in Nat /\ n > 0 /\ n <= bal[from][m]
  <2>1. n \in 1 .. bal[from][m]
    BY DEF from, m
  <2> QED
    BY <1>4, <2>1
<1>6. <<from, m>> \in open /\ <<to, m>> \in open
  BY <1>1, <1>5 DEF CanMove
<1>7. saved'.bal = bal' /\ saved'.open = saved.open /\ saved'.sol = saved.sol
  BY <1>1, <1>3 DEF FundsType
<1>8. Held(bal', open)
  <2> SUFFICES ASSUME NEW w \in Owners, NEW x \in Mints, bal'[w][x] > 0
               PROVE  <<w, x>> \in open
    BY DEF Held
  <2>1. bal'[w][x] = IF x # m \/ from = to THEN bal[w][x]
                     ELSE IF w = from THEN bal[w][x] - n
                     ELSE IF w = to THEN bal[w][x] + n ELSE bal[w][x]
    BY <1>1, <1>2, <1>3, <1>5, MoveAt
  <2>2. bal[w][x] > 0 \/ <<w, x>> = <<to, m>> \/ <<w, x>> = <<from, m>>
    BY <2>1
  <2> QED
    BY <1>6, <2>2 DEF IInv, SettleInv, HInv, Held
<1>9. HInv'
  BY <1>1, <1>7, <1>8 DEF IInv, SettleInv, HInv, Held
<1> QED
  BY <1>1, <1>9, IdleSettles

LEMMA SetLedgerSettles ==
    ASSUME IInv, NEW u \in Users, NEW m \in Mints, SetLedger(u, m)
    PROVE  SettleInv'
<1>1. pc' = "idle" /\ HInv'
  BY DEF SetLedger, funds, stage, IInv, SettleInv, HInv, Held
<1> QED
  BY <1>1, IdleSettles

\* Nothing has been opened, moved or charged when a route begins.
LEMMA BeginSettles == ASSUME IInv, NEW r \in Routes, Begin(r) PROVE SettleInv'
<1>1. /\ pc = "idle" /\ pc' = "open" /\ route' = r /\ ValidRoute(r)
      /\ UNCHANGED <<bal, open, sol, saved, created, madeWsol, effective>>
  BY DEF Begin, funds, stage
<1>2. bal = saved.bal /\ open = saved.open /\ sol = saved.sol /\ created = {}
  BY <1>1 DEF IInv, SettleInv, HInv
<1>3. ~ madeWsol
  BY <1>1 DEF IInv, TInv, WsolMade
<1>4. HInv'
  BY <1>1 DEF IInv, SettleInv, HInv, Held
<1>5. AInv'
  BY <1>1, <1>2, <1>3 DEF AInv, Extra, Temporary, Output, Early, Late
<1>6. GInv'
  BY <1>1 DEF GInv, Early
<1>7. OInv'
  <2>1. r.user \in Users
    BY <1>1, RoutesAssumption, RouteFacts
  <2> QED
    BY <1>1, <1>2, <2>1 DEF OInv
<1>8. BInvoice'
  <2>1. Deposits' = 0
    <3> DEFINE fresh == open \ saved.open
    <3>1. fresh = {}
      BY <1>2
    <3> HIDE DEF fresh
    <3>2. Cardinality(fresh) = 0
      BY <3>1, FS_EmptySet, Zenon
    <3>3. Deposits' = Rent * Cardinality(fresh)
      BY <1>1, Zenon DEF Deposits, fresh
    <3> QED
      BY <3>2, <3>3, NumbersAssumption
  <2> SUFFICES ASSUME NEW q \in Payers, NEW m \in Mints
               PROVE  Worth(Funds', q, m) = Worth(saved, q, m) - Charge(q, m)'
    BY <1>1 DEF BInvoice, Late
  <2>2. Charge(q, m)' = 0
    BY <1>1, <2>1 DEF Charge, Paid
  <2>3. Worth(Funds', q, m) = Worth(saved, q, m)
    BY <1>1, <1>2 DEF Worth, Funds
  <2>4. Worth(saved, q, m) \in Int
    BY DEF IInv, TInv, TypeOK, FundsType, Worth, Owners
  <2> QED
    BY <2>2, <2>3, <2>4
<1> QED
  BY <1>4, <1>5, <1>6, <1>7, <1>8 DEF SettleInv

LEMMA InitSettles == Init => IInv
<1> SUFFICES ASSUME Init PROVE IInv
  OBVIOUS
<1>1. PICK f \in InitFunds : bal = f.bal /\ open = f.open /\ sol = f.sol
  BY DEF Init
<1>2. Held(bal, open)
  BY <1>1, InitFundsAssumption DEF Held
<1>3. pc = "idle" /\ created = {} /\ saved = Funds
  BY DEF Init, Idle
<1>4. HInv
  BY <1>2, <1>3 DEF HInv, Funds
<1>5. SettleInv
  BY <1>3, <1>4 DEF SettleInv, AInv, GInv, OInv, BInvoice
<1> QED
  BY <1>5, InitTypes, InitReserve DEF IInv

LEMMA NextSettles == IInv /\ [Next]_vars => IInv'
<1> SUFFICES ASSUME IInv, [Next]_vars PROVE SettleInv'
  BY NextTypes, NextReserve DEF IInv
<1>1. CASE \E r \in Routes : Begin(r)
  BY <1>1, BeginSettles
<1>2. CASE \E u \in Users, m \in Mints : SetLedger(u, m)
  BY <1>2, SetLedgerSettles
<1>3. CASE \E t \in Transfers : \E n \in 1 .. bal[t[1]][t[3]] : Transfer(t[1], t[2], t[3], n)
  BY <1>3, TransferSettles
<1>4. CASE Step
  BY <1>4, OpenAtasSettles, QuietStagesSettle, TopUpWsolSettles, CreateWsolSettles, PayInSettles,
     CallVenueSettles, PayOutSettles, CloseAtasSettles, CommitSettles, AbortSettles DEF Step
<1>5. CASE UNCHANGED vars
  <2>1. UNCHANGED <<bal, open, sol, ledger, pc, route, saved, created, watched, recorded,
                    effective, madeWsol, leg, started>>
    BY <1>5 DEF vars, stage
  <2>2. HInv' /\ OInv'
    BY <2>1 DEF IInv, SettleInv, HInv, Held, OInv
  <2>3. AInv' /\ GInv'
    BY <2>1, Zenon DEF IInv, SettleInv, AInv, Extra, Temporary, Output, GInv, Ledger
  <2>4. BInvoice'
    <3>1. \A q \in Payers, m \in Mints : Charge(q, m)' = Charge(q, m)
      BY <2>1 DEF Charge, Deposits
    <3>2. Funds' = Funds
      BY <2>1 DEF Funds
    <3> QED
      BY <2>1, <3>1, <3>2 DEF IInv, SettleInv, BInvoice, Worth
  <2> QED
    BY <2>2, <2>3, <2>4 DEF SettleInv
<1> QED
  BY <1>1, <1>2, <1>3, <1>4, <1>5 DEF Next

LEMMA SettleInductive == Spec => []IInv
BY InitSettles, NextSettles, PTL DEF Spec

-----------------------------------------------------------------------------
(* The refinement.                                                         *)

LEMMA InitImplements == Init => Settled!Init
<1> SUFFICES ASSUME Init PROVE Settled!Init
  OBVIOUS
<1>1. PICK f \in InitFunds : bal = f.bal /\ open = f.open /\ sol = f.sol
  BY DEF Init
<1>2. saved.bal = f.bal /\ saved.open = f.open /\ saved.sol = f.sol
  BY <1>1 DEF Init, Funds
<1> QED
  BY <1>2 DEF Init, NoLedger, Settled!Init, Settled!NoLedger

\* A transfer between two instructions is one of Settlement.
LEMMA TransferImplements ==
    ASSUME IInv, NEW t \in Transfers, NEW n \in 1 .. bal[t[1]][t[3]],
           Transfer(t[1], t[2], t[3], n)
    PROVE  Settled!Transfer(t[1], t[2], t[3])
<1> DEFINE from == t[1]
           to == t[2]
           m == t[3]
           moved == [saved.bal EXCEPT ![from][m] = @ - n, ![to][m] = @ + n]
<1>1. /\ pc = "idle" /\ UNCHANGED ledger
      /\ bal' = Move(bal, from, to, m, n) /\ saved' = [saved EXCEPT !.bal = bal']
  BY DEF Transfer
<1>2. from \in Owners /\ to \in Owners /\ m \in Mints /\ from # to
  BY TransfersAssumption
<1>3. bal \in Balances /\ saved \in FundsType
  BY TypeFacts DEF IInv, TInv, TypeOK
<1>4. bal = saved.bal
  BY <1>1 DEF IInv, SettleInv, HInv
<1>5. saved'.bal = bal' /\ saved'.open = saved.open /\ saved'.sol = saved.sol
  BY <1>1, <1>3 DEF FundsType
<1>6. n \in 1 .. saved.bal[from][m]
  BY <1>4
<1>7. bal' = moved
  <2>1. ASSUME NEW w \in Owners
        PROVE  moved[w] = [bal[w] EXCEPT ![m] = IF w = from THEN @ - n
                                                ELSE IF w = to THEN @ + n ELSE @]
    BY <1>2, <1>3, <1>4 DEF Balances
  <2>2. moved = [w \in Owners |-> moved[w]]
    BY <1>3, <1>4 DEF Balances
  <2> HIDE DEF moved
  <2>3. moved = [w \in Owners |-> [bal[w] EXCEPT ![m] = IF w = from THEN @ - n
                                                     ELSE IF w = to THEN @ + n ELSE @]]
    BY <2>1, <2>2
  <2>4. Move(bal, from, to, m, n)
          = [w \in Owners |-> [bal[w] EXCEPT ![m] = IF w = from THEN @ - n
                                                    ELSE IF w = to THEN @ + n ELSE @]]
    BY <1>2 DEF Move
  <2> QED
    BY <1>1, <2>3, <2>4
<1>8. saved'.bal = [saved.bal EXCEPT ![from][m] = @ - n, ![to][m] = @ + n]
  BY <1>5, <1>7
<1> HIDE DEF from, to, m, moved
<1>9. Settled!Transfer(from, to, m)
  BY <1>1, <1>5, <1>6, <1>8 DEF Settled!Transfer
<1> QED
  BY <1>9 DEF from, to, m

\* So is the instruction that records a balance.
LEMMA SetLedgerImplements ==
    ASSUME IInv, NEW u \in Users, NEW m \in Mints, SetLedger(u, m)
    PROVE  Settled!SetLedger(u, m)
<1>1. bal = saved.bal /\ open = saved.open
  BY DEF SetLedger, IInv, SettleInv, HInv
<1> QED
  BY <1>1 DEF SetLedger, Settled!SetLedger

\* The return of a route settles its order.
LEMMA CommitImplements == ASSUME IInv, Commit PROVE \E o \in RouteOrders : Settled!Settle(o)
<1> DEFINE o == OrderOf(route)
<1>1. /\ pc = "done" /\ ledger' = ledger
      /\ saved'.bal = bal /\ saved'.open = open /\ saved'.sol = sol
  BY DEF Commit, Funds
<1> USE SettleFacts, <1>1
<1>2. /\ o.user = route.user /\ o.payer = route.payer /\ o.input = InMint(route)
      /\ o.output = OutMint(route) /\ o.via = SlotMints(route) /\ o.amount = route.amount
      /\ o.ledger = route.ledger
  BY DEF OrderOf
<1>3. o \in RouteOrders
  BY TypeFacts DEF IInv, SettleInv, AInv, RouteOrders
<1>4. route.ledger => ledger[route.user].mint = InMint(route)
  BY TypeFacts DEF IInv, LedgerMatches
<1> HIDE DEF o
<1>5. Settled!Given(o) = effective
  BY <1>2 DEF Settled!Given, IInv, SettleInv, GInv, Early, Ledger
<1>6. Settled!MayGive(o)
  BY <1>2, <1>4, <1>5 DEF Settled!MayGive, IInv, SettleInv, GInv, Early
<1>7. Settled!Billed(o)
  <2> SUFFICES ASSUME NEW q \in Payers, NEW m \in Mints
               PROVE  LET before == Settled!Worth(saved.bal, saved.sol, q, m)
                          after == Settled!Worth(saved'.bal, saved'.sol, q, m)
                      IN  IF q = o.user /\ m = o.output THEN after >= before - Settled!Due(o, q, m)
                                                        ELSE after = before - Settled!Due(o, q, m)
    BY DEF Settled!Billed, Settled!Payers, Payers
  <2>1. Settled!Worth(saved.bal, saved.sol, q, m) = Worth(saved, q, m)
    BY DEF Settled!Worth, Worth
  <2>2. Settled!Worth(saved'.bal, saved'.sol, q, m) = Worth(Funds, q, m)
    BY DEF Settled!Worth, Worth, Funds
  <2>3. Settled!Due(o, q, m) = Charge(q, m)
    <3>1. Rent * Settled!Cardinality(saved'.open \ saved.open) = Deposits
      <4>1. \A S : Settled!Cardinality(S) = Cardinality(S)
        BY DEF Settled!Cardinality, Cardinality
      <4> QED
        BY <4>1, Zenon DEF Deposits
    <3> QED
      BY <1>2, <1>5, <3>1 DEF Settled!Due, Charge, Paid
  <2>4. IF q = route.user /\ m = OutMint(route)
        THEN Worth(Funds, q, m) >= Worth(saved, q, m) - Charge(q, m)
        ELSE Worth(Funds, q, m) = Worth(saved, q, m) - Charge(q, m)
    BY DEF IInv, SettleInv, BInvoice, Late
  <2> QED
    BY <1>2, <2>1, <2>2, <2>3, <2>4
<1>8. Settled!Untouched(o)
  BY <1>2 DEF Settled!Untouched, Settled!Payers, Payers, IInv, SettleInv, OInv
<1>9. Settled!Accounts(o)
  <2>1. /\ saved.open \subseteq open
        /\ open \subseteq saved.open \cup ({Titan} \X SlotMints(route)) \cup {<<route.user, OutMint(route)>>}
    BY DEF IInv, SettleInv, AInv, Extra, Temporary, Output, Late
  <2>2. Held(bal, open)
    BY DEF IInv, SettleInv, HInv
  <2> QED
    BY <1>2, <2>1, <2>2 DEF Settled!Accounts, Settled!Owners, Owners, Held
<1>10. Settled!Kept
  BY ReservesFollow DEF Settled!Kept, ReservesKept, Done, IInv
<1> QED
  BY <1>3, <1>6, <1>7, <1>8, <1>9, <1>10 DEF Settled!Settle

LEMMA NextImplements == ASSUME IInv, [Next]_vars PROVE [Settled!Next]_(Settled!vars)
<1>1. CASE \E r \in Routes : Begin(r)
  BY <1>1 DEF Begin, Settled!vars
<1>2. CASE \E u \in Users, m \in Mints : SetLedger(u, m)
  BY <1>2, SetLedgerImplements DEF Settled!Next
<1>3. CASE \E t \in Transfers : \E n \in 1 .. bal[t[1]][t[3]] : Transfer(t[1], t[2], t[3], n)
  BY <1>3, TransferImplements DEF Settled!Next
<1>4. CASE Step
  <2>1. CASE Commit
    BY <2>1, CommitImplements DEF Settled!Next
  <2>2. CASE ~ Commit
    <3>1. UNCHANGED <<saved, ledger>>
      BY <1>4, <2>2 DEF Step, OpenAtas, Snapshot, FundFromLedger, FundPlain, TopUpWsol, CreateWsol,
         PayIn, SkipLeg, CallVenue, LegsDone, PayOut, CloseAtas, Check, Abort
    <3> QED
      BY <3>1 DEF Settled!vars
  <2> QED
    BY <2>1, <2>2
<1>5. CASE UNCHANGED vars
  BY <1>5 DEF vars, Settled!vars
<1> QED
  BY <1>1, <1>2, <1>3, <1>4, <1>5 DEF Next

\* A route that starts is, to everybody who looks at the ledger between two
\* instructions, settled at once and in full or not at all, wherever it fails
\* and whatever accounts the caller named and the venues did: each stage of
\* SwapRouteV3::execute is invisible until the instruction returns Ok, and then
\* the funds are what one step of Settlement makes them (swap_route_v3.rs:52-334).
THEOREM RouteImplementsSettlement == Spec => RouteIsSettled
<1>1. IInv /\ [Next]_vars => [Settled!Next]_(Settled!vars)
  BY NextImplements
<1> QED
  BY SettleInductive, InitImplements, <1>1, PTL DEF Spec, RouteIsSettled, Settled!Spec

\* A committed route charges the effective amount once and the deposits of the
\* accounts that stay open to the payer, and nobody anything else, through every
\* way the input is funded and every account it makes and closes on the way
\* (lines 150-205, 253-320, 557-596).
THEOREM RouteChargesOnce == Spec => []ChargedOnce
<1>1. IInv => ChargedOnce
  <2> SUFFICES ASSUME IInv, pc = "done", NEW q \in Payers, NEW m \in Mints
               PROVE  LET due == (IF q = route.user /\ m = InMint(route) THEN effective ELSE 0)
                                 + (IF q = route.payer /\ m = Native THEN Rent * Opened ELSE 0)
                      IN  IF q = route.user /\ m = OutMint(route)
                          THEN Worth(Funds, q, m) >= Worth(saved, q, m) - due
                          ELSE Worth(Funds, q, m) = Worth(saved, q, m) - due
    BY DEF ChargedOnce, Done
  <2>1. Opened = Cardinality(open \ saved.open)
    <3>1. saved.open \subseteq open
      BY DEF IInv, SettleInv, AInv
    <3>2. open \in Accounts /\ saved.open \in Accounts
      BY SettleFacts
    <3> DEFINE kept == open \cap saved.open
               fresh == open \ saved.open
    <3>3. kept = saved.open
      BY <3>1
    <3>4. IsFiniteSet(open) /\ Cardinality(open) \in Nat
      BY <3>2, AccountsFinite
    <3>5. Cardinality(fresh) = Cardinality(open) - Cardinality(kept)
      BY <3>4, FS_Difference
    <3>6. Cardinality(saved.open) \in Nat
      BY <3>2, AccountsFinite
    <3> HIDE DEF kept
    <3>7. Cardinality(kept) = Cardinality(saved.open)
      BY <3>3, Zenon
    <3> QED
      BY <3>4, <3>5, <3>6, <3>7 DEF Opened
  <2>2. Rent * Opened = Deposits
    BY <2>1 DEF Deposits
  <2>3. IF q = route.user /\ m = OutMint(route)
        THEN Worth(Funds, q, m) >= Worth(saved, q, m) - Charge(q, m)
        ELSE Worth(Funds, q, m) = Worth(saved, q, m) - Charge(q, m)
    BY DEF IInv, SettleInv, BInvoice, Late
  <2> QED
    BY <2>2, <2>3 DEF Charge, Paid
<1> QED
  BY SettleInductive, <1>1, PTL

-----------------------------------------------------------------------------
(* Nothing stays behind.                                                   *)

\* What a complete route brings to TitanPDA on top of its reserve is spent in
\* full by a leg still to come, or is the output.
Spent(m) == \E k \in leg .. Len(route.legs) : route.legs[k].in = m /\ route.legs[k].weight >= WeightAll

SInv ==
    /\ pc \notin Paid => leg = 1
    /\ ExactIn /\ pc # "idle" /\ Complete(route) => \A m \in watched :
         /\ pc \in {"fund", "payIn"} \cup Late => bal[Titan][m] = recorded[m]
         /\ pc = "legs" /\ bal[Titan][m] > recorded[m] => m = OutMint(route) \/ Spent(m)
         /\ pc = "payOut" /\ m # OutMint(route) => bal[Titan][m] = recorded[m]

\* The invariants a stage starts from.
EInv == IInv /\ BInv /\ SInv

\* A weight of "all" leaves nothing of what is available (line 225).
LEMMA LegInputAll ==
    ASSUME NEW a \in Nat, NEW w \in Nat, w >= WeightAll
    PROVE  LegInput(a, w) = a
<1> DEFINE q == (a * WeightAll) \div WeightAll
<1>1. WeightAll \in Nat /\ WeightAll > 0
  BY NumbersAssumption
<1>2. LegInput(a, w) = q
  BY <1>1 DEF LegInput
<1>3. LegInput(a, w) \in Nat /\ LegInput(a, w) <= a
  BY LegInputBounded
<1>4. a * WeightAll \in Nat
  BY <1>1
<1>5. a * WeightAll < (q + 1) * WeightAll
  BY <1>1, <1>4
<1>6. q \in Nat /\ q <= a
  BY <1>2, <1>3
<1> HIDE DEF q
<1>7. q >= a
  <2> SUFFICES ASSUME q + 1 <= a PROVE FALSE
    BY <1>6
  <2>1. (q + 1) * WeightAll <= a * WeightAll
    BY <1>1, <1>6
  <2>2. (q + 1) * WeightAll \in Nat
    BY <1>1, <1>6
  <2> QED
    BY <1>4, <1>5, <2>1, <2>2
<1> QED
  BY <1>2, <1>6, <1>7

\* The leg that runs next, of a complete route.
LEMMA NextLeg ==
    ASSUME IInv, pc = "legs", leg <= Len(route.legs), Complete(route)
    PROVE  /\ leg \in Nat \ {0} /\ Len(route.legs) \in Nat
           /\ route.legs[leg].in \in Mints /\ route.legs[leg].out \in Mints
           /\ route.legs[leg].weight \in Nat
           /\ route.legs[leg].in # route.legs[leg].out
           /\ SlotMint(route, route.legs[leg].from) = route.legs[leg].in
           /\ route.legs[leg].out # OutMint(route) =>
                 \E k \in leg + 1 .. Len(route.legs) : /\ route.legs[k].in = route.legs[leg].out
                                                       /\ route.legs[k].weight >= WeightAll
<1>1. route \in RouteType /\ route \in Routes /\ leg \in Nat \ {0}
  BY TypeFacts DEF IInv, TInv, TypeOK, SettleInv, AInv
<1>2. route.legs \in Seq(LegType)
  BY <1>1 DEF RouteType
<1>3. leg \in DOMAIN route.legs /\ route.legs[leg] \in LegType /\ Len(route.legs) \in Nat
  BY <1>1, <1>2
<1>4. leg \in 0 .. Len(route.legs) /\ leg # 0
  BY <1>1, <1>3
<1> QED
  BY <1>1, <1>3, <1>4, RoutesAssumption DEF Complete, Honest, LegType

\* What the input payment, an exact-in venue and the payout do to TitanPDA.
LEMMA PayInTitan ==
    ASSUME IInv, PayIn, NEW m \in Mints, m # InMint(route)
    PROVE  bal'[Titan][m] = bal[Titan][m]
<1> DEFINE u == route.user
           in == InMint(route)
           moved == Move(bal, u, Titan, in, effective)
<1>1. /\ bal \in Balances /\ u \in Owners /\ Titan \in Owners /\ u # Titan
      /\ in \in Mints /\ effective \in Nat
  BY SettleFacts DEF PayIn
<1>2. effective <= bal[u][in]
  BY <1>1, CanMoveCovers DEF PayIn
<1>3. bal' = IF madeWsol THEN [moved EXCEPT ![u][Native] = 0] ELSE moved
  BY DEF PayIn
<1> HIDE DEF u
<1>4. in # m
  OBVIOUS
<1> HIDE DEF in
<1>5. moved \in Balances /\ moved[Titan][m] = bal[Titan][m]
  BY <1>1, <1>2, <1>4, MoveType, MoveAt
<1> HIDE DEF moved
<1> QED
  BY <1>1, <1>3, <1>5 DEF Balances

LEMMA ExactCall ==
    ASSUME IInv, CallVenue, ExactIn, Complete(route)
    PROVE  LET in == route.legs[leg].in
               out == route.legs[leg].out
           IN  /\ \A m \in Mints \ {in, out} : bal'[Titan][m] = bal[Titan][m]
               /\ bal'[Titan][in] = bal[Titan][in] - LegInput(Excess(bal[Titan][in], recorded[in]),
                                                            route.legs[leg].weight)
<1> DEFINE in == route.legs[leg].in
           out == route.legs[leg].out
           want == LegInput(Excess(bal[Titan][in], recorded[in]), route.legs[leg].weight)
<1>1. pc = "legs" /\ leg <= Len(route.legs)
  BY DEF CallVenue
<1>2. /\ in \in Mints /\ out \in Mints /\ in # out
      /\ SlotMint(route, route.legs[leg].from) = in
  BY <1>1, NextLeg
<1>3. PICK taken \in Taken(in), given \in 0 .. bal[Pool][out] :
         bal' = Move(Move(bal, Titan, Pool, in, taken), Pool, Titan, out, given)
  BY DEF CallVenue
<1>4. /\ bal \in Balances /\ Titan \in Owners /\ Pool \in Owners /\ Titan # Pool
  BY <1>1, SettleFacts
<1>5. taken = AmountIn(leg) /\ taken \in 0 .. bal[Titan][in]
  BY <1>3 DEF Taken
<1>6. taken = want
  BY <1>2, <1>5 DEF AmountIn
<1> HIDE DEF in, out, want
<1>7. bal[Titan][in] \in Nat /\ bal[Pool][out] \in Nat
  BY <1>2, <1>4 DEF Balances
<1>8. taken \in Nat /\ taken <= bal[Titan][in] /\ given \in Nat
  BY <1>3, <1>5, <1>7
<1> DEFINE paid == Move(bal, Titan, Pool, in, taken)
<1>9. paid \in Balances
  BY <1>2, <1>4, <1>8, MoveType
<1>10. ASSUME NEW m \in Mints
       PROVE  paid[Titan][m] = IF m = in THEN bal[Titan][m] - taken ELSE bal[Titan][m]
  BY <1>2, <1>4, <1>8, MoveAt
<1>11. bal' = Move(paid, Pool, Titan, out, given)
  BY <1>3
<1> HIDE DEF paid
<1>12. ASSUME NEW m \in Mints, m # out
       PROVE  bal'[Titan][m] = paid[Titan][m]
  BY <1>2, <1>4, <1>8, <1>9, <1>11, <1>12, MoveAt
<1>13. \A m \in Mints \ {in, out} : bal'[Titan][m] = bal[Titan][m]
  BY <1>10, <1>12
<1>14. bal'[Titan][in] = bal[Titan][in] - want
  BY <1>2, <1>6, <1>10, <1>12
<1> QED
  BY <1>13, <1>14 DEF in, out, want

LEMMA PayOutTitan ==
    ASSUME IInv, PayOut, NEW m \in Mints
    PROVE  bal'[Titan][m] = IF m = OutMint(route) THEN bal[Titan][m] - Traded(m) ELSE bal[Titan][m]
<1> DEFINE u == route.user
           out == OutMint(route)
           n == Traded(out)
<1>1. /\ bal \in Balances /\ u \in Owners /\ Titan \in Owners /\ u # Titan /\ out \in Mints
  BY SettleFacts DEF PayOut
<1>2. n \in Nat
  BY <1>1 DEF Traded, Excess, Balances, IInv, TInv, TypeOK
<1>3. bal' = Move(bal, Titan, u, out, n)
  BY DEF PayOut
<1> HIDE DEF u, out, n
<1>4. bal'[Titan][m] = IF m = out THEN bal[Titan][m] - n ELSE bal[Titan][m]
  BY <1>1, <1>2, <1>3, MoveAt
<1> QED
  BY <1>4 DEF out, n

\* What is known of TitanPDA's balances during a complete route.
LEMMA SpentFacts ==
    ASSUME EInv, pc # "idle"
    PROVE  /\ \A m \in Mints : bal[Titan][m] \in Nat /\ recorded[m] \in Nat
           /\ watched \subseteq Mints
           /\ leg \in Nat \ {0} /\ Len(route.legs) \in Nat
           /\ ExactIn /\ Complete(route) /\ pc \in Recording =>
                 \A m \in Mints : bal[Titan][m] >= recorded[m]
<1>1. /\ bal \in Balances /\ recorded \in [Mints -> Nat] /\ watched \in SUBSET Mints /\ Titan \in Owners
  BY StageFacts DEF EInv, IInv
<1>2. route.legs \in Seq(LegType) /\ leg \in Nat \ {0}
  BY TypeFacts DEF EInv, IInv, TInv, TypeOK, RouteType
<1> QED
  BY <1>1, <1>2 DEF Balances, EInv, BInv, Complete

LEMMA SnapshotSpent == ASSUME EInv, Snapshot PROVE SInv'
<1>1. /\ pc = "snapshot" /\ pc' = "fund" /\ UNCHANGED <<bal, route, leg>>
      /\ recorded' = [m \in Mints |-> IF m \in watched' THEN bal[Titan][m] ELSE 0]
      /\ watched' = Watched(route)
  BY DEF Snapshot, funds
<1>2. Watched(route) \subseteq Mints
  BY <1>1, TypeFacts, RouteFacts DEF EInv, IInv, Watched, LegMints
<1>3. \A m \in watched' : bal'[Titan][m] = recorded'[m]
  BY <1>1, <1>2
<1>4. leg' = 1
  BY <1>1 DEF EInv, SInv, Paid
<1> QED
  BY <1>1, <1>3, <1>4 DEF SInv

LEMMA FundSpent ==
    ASSUME EInv, FundFromLedger \/ FundPlain \/ TopUpWsol \/ CreateWsol
    PROVE  SInv'
<1>1. /\ pc = "fund" /\ pc' = "payIn" /\ UNCHANGED <<route, watched, recorded>>
      /\ \A m \in Mints : bal'[Titan][m] = bal[Titan][m]
  BY FundEffect DEF EInv, IInv
<1>2. leg' = leg
  BY DEF FundFromLedger, FundPlain, TopUpWsol, CreateWsol
<1> QED
  BY <1>1, <1>2, SpentFacts DEF EInv, SInv, Paid, Late

LEMMA PayInSpent == ASSUME EInv, PayIn PROVE SInv'
<1>1. /\ pc = "payIn" /\ pc' = "legs" /\ UNCHANGED <<route, watched, recorded>>
  BY PayInEffect DEF EInv, IInv
<1>2. leg' = leg /\ leg = 1
  BY DEF PayIn, stage, EInv, SInv, Paid
<1>3. ASSUME ExactIn, Complete(route), NEW m \in watched,
             bal'[Titan][m] > recorded[m], m # OutMint(route)
      PROVE  Spent(m)
  <2>1. bal[Titan][m] = recorded[m] /\ m \in Mints
    BY <1>1, <1>3, SpentFacts DEF EInv, SInv
  <2>2. m = InMint(route)
    BY <1>3, <2>1, <1>1, SpentFacts, PayInTitan DEF EInv
  <2>3. 0 \in 0 .. Len(route.legs)
    BY <1>1, SpentFacts
  <2>4. \E k \in 0 + 1 .. Len(route.legs) : route.legs[k].in = m /\ route.legs[k].weight >= WeightAll
    BY <1>3, <2>2, <2>3 DEF Complete
  <2> QED
    BY <1>2, <2>4 DEF Spent
<1> QED
  BY <1>1, <1>2, <1>3 DEF SInv, Spent, Paid, Late

\* A leg with nothing to trade is no full leg of a mint that is still held.
LEMMA SkipLegSpent == ASSUME EInv, SkipLeg PROVE SInv'
<1>1. /\ pc = "legs" /\ pc' = "legs" /\ leg <= Len(route.legs) /\ AmountIn(leg) = 0
      /\ UNCHANGED <<bal, route, watched, recorded>> /\ leg' = leg + 1
  BY DEF SkipLeg, funds
<1>2. ASSUME ExactIn, Complete(route), NEW m \in watched,
             bal[Titan][m] > recorded[m], m # OutMint(route)
      PROVE  \E k \in leg + 1 .. Len(route.legs) : /\ route.legs[k].in = m
                                                  /\ route.legs[k].weight >= WeightAll
  <2>1. PICK k \in leg .. Len(route.legs) : route.legs[k].in = m /\ route.legs[k].weight >= WeightAll
    BY <1>1, <1>2 DEF EInv, SInv, Spent
  <2>2. CASE k = leg
    <3>1. SlotMint(route, route.legs[leg].from) = m /\ route.legs[leg].weight \in Nat
      BY <1>1, <1>2, <2>1, <2>2, NextLeg DEF EInv
    <3>2. /\ Excess(bal[Titan][m], recorded[m]) \in Nat
          /\ Excess(bal[Titan][m], recorded[m]) > 0
      BY <1>1, <1>2, SpentFacts DEF Excess
    <3>3. AmountIn(leg) = Excess(bal[Titan][m], recorded[m])
      BY <2>1, <2>2, <3>1, <3>2, LegInputAll DEF AmountIn
    <3> QED
      BY <1>1, <3>2, <3>3
  <2>3. CASE k # leg
    BY <1>1, <2>1, <2>3, SpentFacts
  <2> QED
    BY <2>2, <2>3
<1> QED
  BY <1>1, <1>2 DEF SInv, Spent, Paid, Late

\* A full leg spends what it finds, and what it brings is spent by another.
LEMMA CallVenueSpent == ASSUME EInv, CallVenue PROVE SInv'
<1> DEFINE in == route.legs[leg].in
           out == route.legs[leg].out
<1>1. /\ pc = "legs" /\ pc' = "legs" /\ leg <= Len(route.legs)
      /\ UNCHANGED <<route, watched, recorded>> /\ leg' = leg + 1
  BY DEF CallVenue
<1>2. ASSUME ExactIn, Complete(route), NEW m \in watched,
             bal'[Titan][m] > recorded[m], m # OutMint(route)
      PROVE  \E k \in leg + 1 .. Len(route.legs) : /\ route.legs[k].in = m
                                                  /\ route.legs[k].weight >= WeightAll
  <2>1. m \in Mints /\ bal[Titan][m] \in Nat /\ recorded[m] \in Nat /\ bal[Titan][m] >= recorded[m]
    BY <1>1, <1>2, SpentFacts DEF Recording
  <2>2. in # out /\ route.legs[leg].weight \in Nat
    BY <1>1, <1>2, NextLeg DEF EInv
  <2>3. CASE m = out
    BY <1>1, <1>2, <2>3, NextLeg DEF EInv
  <2>4. CASE m = in
    <3> DEFINE spare == Excess(bal[Titan][m], recorded[m])
               took == LegInput(spare, route.legs[leg].weight)
    <3>1. spare \in Nat /\ spare = bal[Titan][m] - recorded[m]
      BY <2>1 DEF Excess
    <3>2. took \in Nat
      BY <2>2, <3>1, LegInputBounded
    <3>3. bal'[Titan][m] = bal[Titan][m] - took
      BY <1>2, <2>4, ExactCall DEF EInv
    <3>4. route.legs[leg].weight >= WeightAll => took = spare
      BY <2>2, <3>1, LegInputAll
    <3> HIDE DEF spare, took
    <3>5. bal[Titan][m] > recorded[m]
      BY <1>2, <2>1, <3>2, <3>3
    <3>6. ~ (route.legs[leg].weight >= WeightAll)
      BY <1>2, <2>1, <3>1, <3>3, <3>4
    <3>7. PICK k \in leg .. Len(route.legs) : route.legs[k].in = m /\ route.legs[k].weight >= WeightAll
      BY <1>1, <1>2, <3>5 DEF EInv, SInv, Spent
    <3>8. k # leg
      BY <3>6, <3>7
    <3> QED
      BY <1>1, <3>7, <3>8, SpentFacts
  <2>5. CASE m # in /\ m # out
    <3>1. bal'[Titan][m] = bal[Titan][m]
      BY <1>2, <2>1, <2>5, ExactCall DEF EInv
    <3>2. PICK k \in leg .. Len(route.legs) : route.legs[k].in = m /\ route.legs[k].weight >= WeightAll
      BY <1>1, <1>2, <3>1 DEF EInv, SInv, Spent
    <3>3. k # leg
      BY <2>5, <3>2
    <3> QED
      BY <1>1, <3>2, <3>3, SpentFacts
  <2> QED
    BY <2>3, <2>4, <2>5
<1> QED
  BY <1>1, <1>2 DEF SInv, Spent, Paid, Late

LEMMA LegsDoneSpent == ASSUME EInv, LegsDone PROVE SInv'
<1>1. /\ pc = "legs" /\ pc' = "payOut" /\ leg > Len(route.legs)
      /\ UNCHANGED <<bal, route, watched, recorded>>
  BY DEF LegsDone, funds, stage
<1>2. ASSUME ExactIn, Complete(route), NEW m \in watched, m # OutMint(route)
      PROVE  bal[Titan][m] = recorded[m]
  <2>1. /\ bal[Titan][m] \in Nat /\ recorded[m] \in Nat /\ bal[Titan][m] >= recorded[m]
        /\ leg \in Nat /\ Len(route.legs) \in Nat
    BY <1>1, <1>2, SpentFacts DEF Recording
  <2>2. ~ Spent(m)
    BY <1>1, <2>1 DEF Spent
  <2>3. ~ (bal[Titan][m] > recorded[m])
    BY <1>1, <1>2, <2>2 DEF EInv, SInv
  <2> QED
    BY <2>1, <2>3
<1> QED
  BY <1>1, <1>2 DEF SInv, Paid, Late

LEMMA PayOutSpent == ASSUME EInv, PayOut PROVE SInv'
<1>1. /\ pc = "payOut" /\ pc' = "close" /\ UNCHANGED <<route, watched, recorded>>
  BY DEF PayOut, stage
<1>2. ASSUME ExactIn, Complete(route), NEW m \in watched
      PROVE  bal'[Titan][m] = recorded[m]
  <2>1. m \in Mints /\ bal[Titan][m] \in Nat /\ recorded[m] \in Nat /\ bal[Titan][m] >= recorded[m]
    BY <1>1, <1>2, SpentFacts DEF Recording
  <2>2. bal'[Titan][m] = IF m = OutMint(route) THEN bal[Titan][m] - Traded(m) ELSE bal[Titan][m]
    BY <2>1, PayOutTitan DEF EInv
  <2>3. Traded(m) = bal[Titan][m] - recorded[m]
    BY <2>1 DEF Traded, Excess
  <2>4. m # OutMint(route) => bal[Titan][m] = recorded[m]
    BY <1>1, <1>2 DEF EInv, SInv
  <2> QED
    BY <2>1, <2>2, <2>3, <2>4
<1> QED
  BY <1>1, <1>2 DEF SInv, Paid

LEMMA NextSpent == EInv /\ [Next]_vars => SInv'
<1> SUFFICES ASSUME EInv, [Next]_vars PROVE SInv'
  OBVIOUS
<1>1. CASE \E r \in Routes : Begin(r)
  BY <1>1 DEF Begin, stage, EInv, SInv, Paid, Late
<1>2. CASE \E u \in Users, m \in Mints : SetLedger(u, m)
  BY <1>2 DEF SetLedger, stage, EInv, SInv, Paid
<1>3. CASE \E t \in Transfers : \E n \in 1 .. bal[t[1]][t[3]] : Transfer(t[1], t[2], t[3], n)
  BY <1>3 DEF Transfer, stage, EInv, SInv, Paid
<1>4. CASE Step
  <2>1. CASE OpenAtas
    BY <2>1 DEF OpenAtas, EInv, SInv, Paid, Late
  <2>2. CASE CloseAtas
    <3>1. /\ pc = "close" /\ pc' = "check" /\ UNCHANGED <<route, watched, recorded>>
          /\ \A o \in Owners, m \in Mints : bal'[o][m] = bal[o][m]
      BY <2>2, CloseAtasEffect DEF EInv, IInv
    <3> QED
      BY <3>1, SpentFacts DEF EInv, SInv, Paid, Late, Owners
  <2>3. CASE Check
    BY <2>3 DEF Check, funds, stage, EInv, SInv, Paid, Late
  <2>4. CASE Commit \/ Abort
    BY <2>4 DEF Commit, Abort, ToIdle, SInv
  <2> QED
    BY <1>4, <2>1, <2>2, <2>3, <2>4, SnapshotSpent, FundSpent, PayInSpent, SkipLegSpent,
       CallVenueSpent, LegsDoneSpent, PayOutSpent DEF Step
<1>5. CASE UNCHANGED vars
  <2>1. UNCHANGED <<bal, pc, route, watched, recorded, leg>>
    BY <1>5 DEF vars, stage
  <2> QED
    BY <2>1 DEF EInv, SInv, Spent
<1> QED
  BY <1>1, <1>2, <1>3, <1>4, <1>5 DEF Next

LEMMA SpentInductive == Spec => []EInv
<1>1. Init => EInv
  <2>1. Init => SInv
    BY DEF Init, Idle, SInv
  <2> QED
    BY <2>1, InitSettles, InitReserveDuring DEF EInv
<1>2. EInv /\ [Next]_vars => EInv'
  BY NextSettles, NextReserveDuring, NextSpent DEF EInv, IInv
<1> QED
  BY <1>1, <1>2, PTL DEF Spec

\* A committed complete route leaves TitanPDA's tokens and accounts exactly as
\* it found them, whatever the weights, splits and prices: rounding, capping and
\* saturation (lines 216-227) leave no remainder, the payout takes all of the
\* output (lines 257-288), and every account made for the route is closed (lines
\* 290-320).
THEOREM RouteStrandsNothing == Spec => []NothingStranded
<1>1. EInv => NothingStranded
  <2> SUFFICES ASSUME EInv, pc = "done", ExactIn, Complete(route), NEW m \in Mints
               PROVE  /\ bal[Titan][m] = saved.bal[Titan][m]
                      /\ <<Titan, m>> \in open <=> <<Titan, m>> \in saved.open
    BY DEF NothingStranded, Done
  <2>1. bal[Titan][m] = saved.bal[Titan][m]
    <3>1. CASE m \in watched
      BY <3>1 DEF EInv, IInv, RInv, SInv, Late
    <3>2. CASE m \notin watched
      BY <3>2 DEF EInv, IInv, RInv
    <3> QED
      BY <3>1, <3>2
  <2>2. /\ saved.open \subseteq open
        /\ open \subseteq saved.open \cup ({Titan} \X created) \cup {<<route.user, OutMint(route)>>}
        /\ m \in created /\ <<Titan, m>> \in open => bal[Titan][m] > 0
    BY DEF EInv, IInv, SettleInv, AInv, Extra, Temporary, Output, Late
  <2>3. route.user # Titan /\ Titan \in Owners
    BY SettleFacts DEF EInv
  <2>4. saved.bal[Titan][m] > 0 => <<Titan, m>> \in saved.open
    BY <2>3 DEF EInv, IInv, SettleInv, HInv, Held
  <2> QED
    BY <2>1, <2>2, <2>3, <2>4
<1> QED
  BY SpentInductive, <1>1, PTL

-----------------------------------------------------------------------------
(* Sums.  A sum over a finite set is defined by a recursive function; that  *)
(* there is one, and what follows from it, is shown of a smallest set        *)
(* where it would fail.                                                      *)

\* A sum over a set takes its elements in an order of CHOOSE's making.
Pick(s) == CHOOSE x \in s : TRUE
Rest(s) == s \ {Pick(s)}
Sums(f, T, h) == h = [s \in SUBSET T |-> IF s = {} THEN 0 ELSE f[Pick(s)] + h[Rest(s)]]
Solution(f, T) == CHOOSE h : Sums(f, T, h)

LEMMA SumDef == \A f, T : SumFunctionOnSet(f, T) = Solution(f, T)[T]
BY DEF SumFunctionOnSet, FoldFunctionOnSet, MapThenFoldSet, Solution, Sums, Pick, Rest

LEMMA PickRest ==
    ASSUME NEW s, s # {}
    PROVE  /\ Pick(s) \in s /\ Rest(s) \subseteq s /\ Rest(s) # s
           /\ Pick(s) \notin Rest(s) /\ s = Rest(s) \cup {Pick(s)}
BY DEF Pick, Rest

\* Of the subsets of a finite set with some property, one has no smaller one.
LEMMA Smallest ==
    ASSUME NEW S, IsFiniteSet(S), NEW B, B \subseteq SUBSET S, B # {}
    PROVE  \E s \in B : \A t \in B : t \subseteq s => t = s
<1>1. IsWellFoundedOn(StrictSubsetOrdering(S), SUBSET S)
  BY FS_StrictSubsetOrderingWellFounded, FS_FiniteSubsetsOfFinite
<1>2. PICK s \in B : \A t \in B : ~ (<<t, s>> \in StrictSubsetOrdering(S))
  BY <1>1, WFMin
<1>3. \A t \in B : t \subseteq s => t = s
  BY <1>2 DEF StrictSubsetOrdering
<1> QED
  BY <1>3

\* Two ways of summing up agree where both are defined.
LEMMA SumsAgree ==
    ASSUME NEW f, NEW T, IsFiniteSet(T), NEW U, U \subseteq T, NEW g, NEW h,
           Sums(f, T, g), Sums(f, U, h)
    PROVE  \A s \in SUBSET U : g[s] = h[s]
<1> DEFINE B == {s \in SUBSET U : g[s] # h[s]}
<1> SUFFICES ASSUME B # {} PROVE FALSE
  OBVIOUS
<1>1. PICK s \in B : \A t \in B : t \subseteq s => t = s
  <2>1. B \subseteq SUBSET T
    OBVIOUS
  <2> HIDE DEF B
  <2> QED
    BY <2>1, Smallest
<1>2. /\ g[s] = IF s = {} THEN 0 ELSE f[Pick(s)] + g[Rest(s)]
      /\ h[s] = IF s = {} THEN 0 ELSE f[Pick(s)] + h[Rest(s)]
  BY <1>1 DEF Sums
<1>3. CASE s = {}
  BY <1>1, <1>2, <1>3
<1>4. CASE s # {}
  <2>1. Rest(s) \subseteq s /\ Rest(s) # s
    BY <1>4, PickRest
  <2>2. g[Rest(s)] = h[Rest(s)]
    BY <1>1, <2>1
  <2> QED
    BY <1>1, <1>2, <1>4, <2>2
<1> QED
  BY <1>3, <1>4

\* There is a way of summing up.
LEMMA SumsExist ==
    ASSUME NEW f, NEW T, IsFiniteSet(T)
    PROVE  Sums(f, T, Solution(f, T))
<1> DEFINE B == {U \in SUBSET T : ~ \E h : Sums(f, U, h)}
<1>1. SUFFICES B = {}
  <2>1. \E h : Sums(f, T, h)
    BY <1>1
  <2> QED
    BY <2>1 DEF Solution
<1> SUFFICES ASSUME B # {} PROVE FALSE
  OBVIOUS
<1>2. PICK U \in B : \A t \in B : t \subseteq U => t = U
  <2>1. B \subseteq SUBSET T
    OBVIOUS
  <2> HIDE DEF B
  <2> QED
    BY <2>1, Smallest
<1>3. \A s \in SUBSET U : s # U => Sums(f, s, Solution(f, s))
  BY <1>2 DEF Solution
<1> DEFINE V(s) == Solution(f, s)[s]
           h == [s \in SUBSET U |-> IF s = {} THEN 0 ELSE f[Pick(s)] + V(Rest(s))]
<1>4. ASSUME NEW s \in SUBSET U, s # U PROVE h[s] = V(s)
  <2>1. Sums(f, s, Solution(f, s))
    BY <1>3, <1>4
  <2>2. V(s) = IF s = {} THEN 0 ELSE f[Pick(s)] + Solution(f, s)[Rest(s)]
    BY <2>1 DEF Sums
  <2>3. ASSUME s # {} PROVE Solution(f, s)[Rest(s)] = V(Rest(s))
    <3>1. Rest(s) \subseteq s /\ Rest(s) # U /\ Rest(s) \in SUBSET U
      BY <1>4, <2>3, PickRest
    <3>2. Sums(f, Rest(s), Solution(f, Rest(s)))
      BY <1>3, <3>1
    <3>3. IsFiniteSet(s)
      BY FS_Subset, <1>2
    <3>4. \A t \in SUBSET Rest(s) : Solution(f, s)[t] = Solution(f, Rest(s))[t]
      BY <2>1, <3>1, <3>2, <3>3, SumsAgree
    <3> QED
      BY <3>4
  <2> QED
    BY <2>2, <2>3
<1>5. ASSUME NEW s \in SUBSET U, s # {} PROVE h[Rest(s)] = V(Rest(s))
  <2>1. Rest(s) \in SUBSET U /\ Rest(s) # U
    BY <1>5, PickRest
  <2> HIDE DEF h, V
  <2> QED
    BY <2>1, <1>4
<1>6. h = [s \in SUBSET U |-> IF s = {} THEN 0 ELSE f[Pick(s)] + h[Rest(s)]]
  <2>1. \A s \in SUBSET U : (IF s = {} THEN 0 ELSE f[Pick(s)] + V(Rest(s)))
                             = (IF s = {} THEN 0 ELSE f[Pick(s)] + h[Rest(s)])
    BY <1>5
  <2> HIDE DEF V
  <2> QED
    BY <2>1
<1>7. Sums(f, U, h)
  BY <1>6 DEF Sums
<1> HIDE DEF h
<1> QED
  BY <1>2, <1>7

\* A sum is one of its terms and the sum of the others.
LEMMA SumStep ==
    ASSUME NEW f, NEW S, IsFiniteSet(S)
    PROVE  SumFunctionOnSet(f, S)
             = IF S = {} THEN 0 ELSE f[Pick(S)] + SumFunctionOnSet(f, Rest(S))
<1>1. Sums(f, S, Solution(f, S))
  BY SumsExist
<1>2. Solution(f, S)[S] = IF S = {} THEN 0 ELSE f[Pick(S)] + Solution(f, S)[Rest(S)]
  BY <1>1 DEF Sums
<1>3. ASSUME S # {} PROVE Solution(f, S)[Rest(S)] = Solution(f, Rest(S))[Rest(S)]
  <2>1. Rest(S) \subseteq S
    BY <1>3, PickRest
  <2>2. IsFiniteSet(Rest(S))
    BY <2>1, FS_Subset
  <2>3. Sums(f, Rest(S), Solution(f, Rest(S)))
    BY <2>2, SumsExist
  <2> QED
    BY <1>1, <2>1, <2>3, SumsAgree
<1> QED
  BY <1>2, <1>3, SumDef

\* A sum changes by what one of its terms changes by.
LEMMA SumChange ==
    ASSUME NEW D, IsFiniteSet(D), NEW f \in [D -> Int], NEW g \in [D -> Int],
           NEW a \in D, \A x \in D \ {a} : g[x] = f[x]
    PROVE  /\ SumFunctionOnSet(f, D) \in Int
           /\ SumFunctionOnSet(g, D) = SumFunctionOnSet(f, D) + g[a] - f[a]
<1> DEFINE F(s) == SumFunctionOnSet(f, s)
           G(s) == SumFunctionOnSet(g, s)
           Good(s) == F(s) \in Int /\ G(s) = IF a \in s THEN F(s) + g[a] - f[a] ELSE F(s)
           B == {s \in SUBSET D : ~ Good(s)}
<1>1. SUFFICES B = {}
  <2>1. Good(D)
    BY <1>1
  <2> QED
    BY <2>1
<1> SUFFICES ASSUME B # {} PROVE FALSE
  OBVIOUS
<1>2. PICK s \in B : \A t \in B : t \subseteq s => t = s
  <2>1. B \subseteq SUBSET D
    OBVIOUS
  <2> HIDE DEF B
  <2> QED
    BY <2>1, Smallest
<1>3. s \subseteq D /\ IsFiniteSet(s)
  BY <1>2, FS_Subset
<1>4. /\ F(s) = IF s = {} THEN 0 ELSE f[Pick(s)] + F(Rest(s))
      /\ G(s) = IF s = {} THEN 0 ELSE g[Pick(s)] + G(Rest(s))
  BY <1>3, SumStep
<1>5. ASSUME s # {} PROVE Good(s)
  <2>1. /\ Pick(s) \in D /\ Rest(s) \subseteq s /\ Rest(s) # s
        /\ Pick(s) \notin Rest(s) /\ s = Rest(s) \cup {Pick(s)}
    BY <1>3, <1>5, PickRest
  <2>2. Good(Rest(s))
    <3> HIDE DEF Good
    <3> QED
      BY <1>2, <1>3, <2>1
  <2> DEFINE p == Pick(s)
             x == F(Rest(s))
             y == G(Rest(s))
  <2>3. /\ F(s) = f[p] + x /\ G(s) = g[p] + y
        /\ x \in Int /\ y = (IF a \in Rest(s) THEN x + g[a] - f[a] ELSE x)
    BY <1>4, <1>5, <2>2
  <2>4. f[p] \in Int /\ g[p] \in Int /\ f[a] \in Int /\ g[a] \in Int /\ (p # a => g[p] = f[p])
    BY <2>1
  <2>5. a \in s <=> a \in Rest(s) \/ a = p
    BY <2>1
  <2>6. a = p => a \notin Rest(s)
    BY <2>1
  <2> HIDE DEF F, G, p, x, y
  <2>7. CASE a = p
    BY <2>3, <2>4, <2>5, <2>6, <2>7
  <2>8. CASE a # p
    BY <2>3, <2>4, <2>5, <2>8
  <2> QED
    BY <2>7, <2>8
<1>6. ASSUME s = {} PROVE Good(s)
  BY <1>4, <1>6
<1> QED
  BY <1>2, <1>5, <1>6

-----------------------------------------------------------------------------
(* What a route is worth.                                                  *)

\* The funds by kind: tokens of a mint, lamports of wallets, deposits of accounts.
Tokens(b, m) == SumFunction([o \in Owners |-> b[o][m]])
Lamports(s) == SumFunction(s)
Locked(o) == Rent * Cardinality(o)
Value(b, o, s, m) == Tokens(b, m) + (IF m = Native THEN Lamports(s) + Locked(o) ELSE 0)

LEMMA PartiesFinite == IsFiniteSet(Owners) /\ IsFiniteSet(Payers)
<1>1. IsFiniteSet({Titan}) /\ IsFiniteSet({Pool}) /\ IsFiniteSet({Sponsor})
  BY FS_Singleton
<1>2. IsFiniteSet({Titan} \cup {Pool})
  BY <1>1, FS_Union
<1>3. IsFiniteSet(Users \cup ({Titan} \cup {Pool})) /\ IsFiniteSet(Users \cup {Sponsor})
  BY <1>1, <1>2, PartiesDiffer, FS_Union
<1>4. Users \cup ({Titan} \cup {Pool}) = Owners /\ Users \cup {Sponsor} = Payers
  BY DEF Owners, Payers
<1> QED
  BY <1>3, <1>4

\* One account of a mint changes.
LEMMA TokensPoint ==
    ASSUME NEW b \in Balances, NEW c \in Balances, NEW w \in Owners, NEW m \in Mints,
           \A v \in Owners \ {w} : c[v][m] = b[v][m]
    PROVE  Tokens(b, m) \in Int /\ Tokens(c, m) = Tokens(b, m) + c[w][m] - b[w][m]
<1> DEFINE f == [o \in Owners |-> b[o][m]]
           g == [o \in Owners |-> c[o][m]]
<1>1. f \in [Owners -> Int] /\ g \in [Owners -> Int]
  BY DEF Balances
<1>2. \A v \in Owners \ {w} : g[v] = f[v]
  OBVIOUS
<1>3. DOMAIN f = Owners /\ DOMAIN g = Owners
  OBVIOUS
<1>4. f[w] = b[w][m] /\ g[w] = c[w][m]
  OBVIOUS
<1>5. Tokens(b, m) = SumFunctionOnSet(f, Owners) /\ Tokens(c, m) = SumFunctionOnSet(g, Owners)
  BY <1>3 DEF Tokens, SumFunction
<1> HIDE DEF f, g
<1>6. /\ SumFunctionOnSet(f, Owners) \in Int
      /\ SumFunctionOnSet(g, Owners) = SumFunctionOnSet(f, Owners) + g[w] - f[w]
  BY <1>1, <1>2, PartiesFinite, SumChange
<1> QED
  BY <1>4, <1>5, <1>6

\* No account of a mint changes.
LEMMA TokensSame ==
    ASSUME NEW b, NEW c, NEW m, \A v \in Owners : c[v][m] = b[v][m]
    PROVE  Tokens(c, m) = Tokens(b, m)
<1>1. [o \in Owners |-> b[o][m]] = [o \in Owners |-> c[o][m]]
  OBVIOUS
<1> QED
  BY <1>1, Zenon DEF Tokens

LEMMA LamportsPoint ==
    ASSUME NEW s \in Wallets, NEW t \in Wallets, NEW p \in Payers,
           \A q \in Payers \ {p} : t[q] = s[q]
    PROVE  Lamports(s) \in Int /\ Lamports(t) = Lamports(s) + t[p] - s[p]
<1>1. s \in [Payers -> Int] /\ t \in [Payers -> Int] /\ DOMAIN s = Payers /\ DOMAIN t = Payers
  BY DEF Wallets
<1>2. /\ SumFunctionOnSet(s, Payers) \in Int
      /\ SumFunctionOnSet(t, Payers) = SumFunctionOnSet(s, Payers) + t[p] - s[p]
  BY <1>1, PartiesFinite, SumChange
<1> QED
  BY <1>1, <1>2 DEF Lamports, SumFunction

\* A move makes and loses nothing.
LEMMA TokensMove ==
    ASSUME NEW b \in Balances, NEW from \in Owners, NEW to \in Owners, NEW m \in Mints,
           NEW n \in Nat, n <= b[from][m], NEW x \in Mints
    PROVE  Tokens(Move(b, from, to, m, n), x) = Tokens(b, x)
<1> DEFINE d == Move(b, from, to, m, n)
           c == [w \in Owners |-> [y \in Mints |-> IF w = from /\ y = m THEN b[w][y] - n ELSE b[w][y]]]
<1>1. d \in Balances
  BY MoveType
<1>2. \A w \in Owners : d[w][x] = IF x # m \/ from = to THEN b[w][x]
                                  ELSE IF w = from THEN b[w][x] - n
                                  ELSE IF w = to THEN b[w][x] + n ELSE b[w][x]
  BY MoveAt
<1>3. \A w \in Owners : b[w][x] \in Nat
  BY DEF Balances
<1>4. c \in Balances
  BY DEF Balances
<1>5. \A w \in Owners : c[w][x] = IF w = from /\ x = m THEN b[w][x] - n ELSE b[w][x]
  OBVIOUS
<1> HIDE DEF c, d
<1>6. CASE x # m \/ from = to
  <2>1. \A w \in Owners : d[w][x] = b[w][x]
    BY <1>2, <1>6
  <2> QED
    BY <2>1, TokensSame DEF d
<1>7. CASE x = m /\ from # to
  <2>1. Tokens(b, x) \in Int /\ Tokens(c, x) = Tokens(b, x) + c[from][x] - b[from][x]
    <3>1. \A w \in Owners \ {from} : c[w][x] = b[w][x]
      BY <1>5
    <3> QED
      BY <1>4, <3>1, TokensPoint
  <2>2. Tokens(d, x) = Tokens(c, x) + d[to][x] - c[to][x]
    <3>1. \A w \in Owners \ {to} : d[w][x] = c[w][x]
      BY <1>2, <1>5, <1>7
    <3> QED
      BY <1>1, <1>4, <3>1, TokensPoint
  <2>3. c[from][x] = b[from][x] - n /\ d[to][x] = b[to][x] + n /\ c[to][x] = b[to][x]
    BY <1>2, <1>5, <1>7
  <2>4. Tokens(d, x) = Tokens(b, x)
    BY <1>3, <2>1, <2>2, <2>3
  <2> QED
    BY <2>4 DEF d
<1> QED
  BY <1>6, <1>7

\* The deposits of accounts that are opened and closed.
LEMMA LockedAdd ==
    ASSUME NEW o \in Accounts, NEW a \in Accounts, a \cap o = {}
    PROVE  /\ Locked(o \cup a) = Locked(o) + Rent * Cardinality(a)
           /\ Locked(o) \in Nat /\ Rent * Cardinality(a) \in Nat
<1>1. {} \in Accounts /\ {} \subseteq o
  BY DEF Accounts
<1>2. /\ Rent * Cardinality((o \cup a) \ {}) = Rent * Cardinality(o \ {}) + Rent * Cardinality(a)
      /\ Rent * Cardinality(o \ {}) \in Nat /\ Rent * Cardinality(a) \in Nat
  BY <1>1, DepositsAdd
<1>3. (o \cup a) \ {} = o \cup a /\ o \ {} = o
  OBVIOUS
<1> QED
  BY <1>2, <1>3, Zenon DEF Locked

LEMMA LockedRemove ==
    ASSUME NEW o \in Accounts, NEW a \in Accounts, a \subseteq o
    PROVE  /\ Locked(o \ a) = Locked(o) - Rent * Cardinality(a)
           /\ Locked(o) \in Nat /\ Rent * Cardinality(a) \in Nat
<1> DEFINE p == o \ a
<1>1. p \in Accounts /\ a \cap p = {} /\ p \cup a = o
  BY DEF Accounts
<1> HIDE DEF p
<1>2. /\ Locked(p \cup a) = Locked(p) + Rent * Cardinality(a)
      /\ Locked(p) \in Nat /\ Rent * Cardinality(a) \in Nat
  BY <1>1, LockedAdd
<1>3. Locked(p \cup a) = Locked(o)
  BY <1>1
<1>4. /\ Locked(p) = Locked(o) - Rent * Cardinality(a)
      /\ Locked(o) \in Nat /\ Rent * Cardinality(a) \in Nat
  BY <1>2, <1>3
<1> QED
  BY <1>4 DEF p

LEMMA ValueType ==
    ASSUME NEW b \in Balances, NEW o \in Accounts, NEW s \in Wallets, NEW m \in Mints
    PROVE  Tokens(b, m) \in Int /\ Lamports(s) \in Int /\ Locked(o) \in Int
<1>1. Titan \in Owners /\ Sponsor \in Payers
  BY DEF Owners, Payers
<1>2. Tokens(b, m) \in Int /\ Lamports(s) \in Int
  BY <1>1, TokensPoint, LamportsPoint
<1>3. Cardinality(o) \in Nat
  BY AccountsFinite
<1> QED
  BY <1>2, <1>3, NumbersAssumption DEF Locked

\* Between instructions nothing is promised; during one the value is that of
\* its beginning.
ConservedInv == pc # "idle" =>
    \A m \in Mints : Value(bal, open, sol, m) = Value(saved.bal, saved.open, saved.sol, m)

LEMMA NextFunds == ASSUME TInv' PROVE bal' \in Balances /\ open' \in Accounts /\ sol' \in Wallets
BY DEF TInv, TypeOK, Funds, FundsType, Balances, Accounts, Wallets

\* Lamports and deposits make up for each other, tokens stay.
LEMMA ValueMoves ==
    ASSUME bal \in Balances, open \in Accounts, sol \in Wallets,
           bal' \in Balances, open' \in Accounts, sol' \in Wallets, NEW m \in Mints, NEW n \in Int,
           Tokens(bal', m) = Tokens(bal, m) + (IF m = Native THEN n ELSE 0),
           Lamports(sol') + Locked(open') = Lamports(sol) + Locked(open) - n
    PROVE  Value(bal', open', sol', m) = Value(bal, open, sol, m)
<1>1. /\ Tokens(bal, m) \in Int /\ Lamports(sol) \in Int /\ Locked(open) \in Int
      /\ Tokens(bal', m) \in Int /\ Lamports(sol') \in Int /\ Locked(open') \in Int
  BY ValueType
<1> QED
  BY <1>1 DEF Value

LEMMA OpenAtasConserves ==
    ASSUME IInv, IInv', OpenAtas, NEW m \in Mints
    PROVE  Value(bal', open', sol', m) = Value(bal, open, sol, m)
<1> DEFINE a == {Titan} \X created'
           cost == Rent * Cardinality(created')
           p == route.payer
<1>1. /\ bal' = bal /\ open' = open \cup a /\ sol' = [sol EXCEPT ![p] = @ - cost]
      /\ created' = {x \in SlotMints(route) : <<Titan, x>> \notin open} /\ pc = "open"
  BY DEF OpenAtas, Missing
<1>2. /\ bal \in Balances /\ open \in Accounts /\ sol \in Wallets
      /\ bal' \in Balances /\ open' \in Accounts /\ sol' \in Wallets
      /\ p \in Payers /\ created' \in SUBSET Mints
  BY <1>1, SettleFacts, NextFunds DEF IInv
<1>3. a \in Accounts /\ Cardinality(a) = Cardinality(created') /\ a \cap open = {}
  <2>1. a \in Accounts /\ Cardinality(a) = Cardinality(created')
    BY <1>2, TitanAccounts
  <2>2. a \cap open = {}
    BY <1>1
  <2> QED
    BY <2>1, <2>2
<1>4. Locked(open') = Locked(open) + cost /\ cost \in Nat
  <2> HIDE DEF a
  <2>1. Locked(open \cup a) = Locked(open) + Rent * Cardinality(a) /\ Rent * Cardinality(a) \in Nat
    BY <1>2, <1>3, LockedAdd
  <2> QED
    BY <1>1, <1>3, <2>1
<1> HIDE DEF cost, p
<1>5. Lamports(sol) \in Int /\ Lamports(sol') = Lamports(sol) + sol'[p] - sol[p]
  BY <1>1, <1>2, LamportsPoint DEF Wallets
<1>6. sol'[p] = sol[p] - cost /\ sol[p] \in Nat
  BY <1>1, <1>2 DEF Wallets
<1>7. Locked(open) \in Int /\ Tokens(bal, m) \in Int
  BY <1>2, ValueType
<1>8. Lamports(sol') + Locked(open') = Lamports(sol) + Locked(open) - 0
  BY <1>4, <1>5, <1>6, <1>7
<1>9. Tokens(bal', m) = Tokens(bal, m) + (IF m = Native THEN 0 ELSE 0)
  BY <1>1, <1>7
<1> QED
  BY <1>2, <1>8, <1>9, ValueMoves

LEMMA TopUpWsolConserves ==
    ASSUME IInv, IInv', TopUpWsol, NEW m \in Mints
    PROVE  Value(bal', open', sol', m) = Value(bal, open, sol, m)
<1> DEFINE u == route.user
           d == Deficit(route.user, route.amount)
<1>1. /\ sol' = [sol EXCEPT ![u] = @ - d] /\ bal' = [bal EXCEPT ![u][Native] = @ + d]
      /\ open' = open /\ pc = "fund" /\ InMint(route) = Native
  BY DEF TopUpWsol
<1>2. /\ bal \in Balances /\ open \in Accounts /\ sol \in Wallets /\ Native \in Mints
      /\ bal' \in Balances /\ open' \in Accounts /\ sol' \in Wallets /\ u \in Payers /\ u \in Owners /\ route.amount \in Nat
  BY <1>1, SettleFacts, NextFunds DEF IInv
<1>3. d \in Nat
  BY <1>2 DEF Deficit, Balances
<1> HIDE DEF d, u
<1>4. Lamports(sol) \in Int /\ Lamports(sol') = Lamports(sol) + sol'[u] - sol[u]
  BY <1>1, <1>2, LamportsPoint DEF Wallets
<1>5. sol'[u] = sol[u] - d /\ sol[u] \in Nat
  BY <1>1, <1>2 DEF Wallets
<1>6. \A w \in Owners : bal'[w][m] = IF w = u /\ m = Native THEN bal[w][m] + d ELSE bal[w][m]
  BY <1>1, <1>2 DEF Balances
<1>7. Tokens(bal, m) \in Int /\ Tokens(bal', m) = Tokens(bal, m) + bal'[u][m] - bal[u][m]
  BY <1>2, <1>6, TokensPoint
<1>8. bal[u][m] \in Nat /\ Locked(open) \in Int
  BY <1>2, ValueType DEF Balances
<1>9. Tokens(bal', m) = Tokens(bal, m) + (IF m = Native THEN d ELSE 0)
  BY <1>2, <1>3, <1>6, <1>7, <1>8
<1>10. Lamports(sol') + Locked(open') = Lamports(sol) + Locked(open) - d
  BY <1>1, <1>3, <1>4, <1>5, <1>8
<1> QED
  BY <1>2, <1>3, <1>9, <1>10, ValueMoves

LEMMA CreateWsolConserves ==
    ASSUME IInv, IInv', CreateWsol, NEW m \in Mints
    PROVE  Value(bal', open', sol', m) = Value(bal, open, sol, m)
<1> DEFINE u == route.user
           p == route.payer
           n == route.amount
           a == {<<u, Native>>}
           t == [sol EXCEPT ![p] = @ - Rent]
<1>1. /\ sol' = [q \in Payers |-> sol[q] - (IF q = p THEN Rent ELSE 0) - (IF q = u THEN n ELSE 0)]
      /\ bal' = [bal EXCEPT ![u][Native] = @ + n] /\ \A q \in Payers : sol'[q] >= 0
      /\ open' = open \cup a /\ a \cap open = {} /\ pc = "fund" /\ InMint(route) = Native
  BY DEF CreateWsol
<1>2. /\ bal \in Balances /\ open \in Accounts /\ sol \in Wallets /\ Native \in Mints
      /\ bal' \in Balances /\ sol' \in Wallets /\ open' \in Accounts
      /\ u \in Payers /\ p \in Payers /\ u \in Owners /\ n \in Nat
  BY <1>1, SettleFacts, NextFunds DEF IInv
<1>3. a \in Accounts /\ Rent * Cardinality(a) = Rent /\ Rent \in Nat
  BY <1>2, OneAccount, NumbersAssumption
<1> HIDE DEF u, p, n, a
<1>4. Locked(open') = Locked(open) + Rent /\ Locked(open) \in Nat
  BY <1>1, <1>2, <1>3, LockedAdd
<1>5. /\ \A q \in Payers : t[q] = IF q = p THEN sol[q] - Rent ELSE sol[q]
      /\ \A q \in Payers : sol'[q] = IF q = u THEN t[q] - n ELSE t[q]
  BY <1>1, <1>2, <1>3 DEF Wallets
<1>6. t \in Wallets
  <2>1. \A q \in Payers : sol[q] \in Nat /\ t[q] \in Int /\ t[q] >= 0
    BY <1>1, <1>2, <1>3, <1>5 DEF Wallets
  <2> QED
    BY <1>2, <1>3, <2>1 DEF Wallets
<1> HIDE DEF t
<1>7. Lamports(sol) \in Int /\ Lamports(t) = Lamports(sol) + t[p] - sol[p]
  BY <1>2, <1>5, <1>6, LamportsPoint
<1>8. Lamports(t) \in Int /\ Lamports(sol') = Lamports(t) + sol'[u] - t[u]
  BY <1>2, <1>5, <1>6, LamportsPoint
<1>9. t[p] = sol[p] - Rent /\ sol'[u] = t[u] - n /\ sol[p] \in Nat /\ t[u] \in Nat
  BY <1>2, <1>5, <1>6 DEF Wallets
<1>10. Lamports(sol') + Locked(open') = Lamports(sol) + Locked(open) - n
  BY <1>2, <1>3, <1>4, <1>7, <1>8, <1>9
<1>11. \A w \in Owners : bal'[w][m] = IF w = u /\ m = Native THEN bal[w][m] + n ELSE bal[w][m]
  BY <1>1, <1>2 DEF Balances
<1>12. Tokens(bal, m) \in Int /\ Tokens(bal', m) = Tokens(bal, m) + bal'[u][m] - bal[u][m]
  BY <1>2, <1>11, TokensPoint
<1>13. bal[u][m] \in Nat
  BY <1>2 DEF Balances
<1>14. Tokens(bal', m) = Tokens(bal, m) + (IF m = Native THEN n ELSE 0)
  BY <1>2, <1>11, <1>12, <1>13
<1> QED
  BY <1>2, <1>10, <1>14, ValueMoves

LEMMA PayInConserves ==
    ASSUME IInv, IInv', PayIn, NEW m \in Mints
    PROVE  Value(bal', open', sol', m) = Value(bal, open, sol, m)
<1> DEFINE u == route.user
           p == route.payer
           in == InMint(route)
           a == {<<u, Native>>}
           moved == Move(bal, u, Titan, in, effective)
           back == IF madeWsol THEN Rent ELSE 0
<1>1. /\ bal' = IF madeWsol THEN [moved EXCEPT ![u][Native] = 0] ELSE moved
      /\ sol' = [sol EXCEPT ![p] = @ + Sweep(u)]
      /\ open' = IF madeWsol THEN open \ a ELSE open
      /\ CanMove(u, Titan, in, effective) /\ pc = "payIn"
  BY DEF PayIn
<1>2. /\ bal \in Balances /\ open \in Accounts /\ sol \in Wallets
      /\ bal' \in Balances /\ open' \in Accounts /\ sol' \in Wallets
      /\ p \in Payers /\ u \in Owners /\ Titan \in Owners /\ in \in Mints /\ effective \in Nat
      /\ u # Titan
  BY <1>1, SettleFacts, NextFunds DEF IInv
<1>3. madeWsol => in = Native /\ bal[u][Native] = effective /\ a \subseteq open
  BY <1>1 DEF IInv, SettleInv, AInv, GInv, Extra, Temporary, Early, TInv, WsolMade
<1>4. Sweep(u) = back /\ back \in Nat /\ Rent \in Nat
  BY <1>2, <1>3, NumbersAssumption DEF Sweep
<1> HIDE DEF u, p, in, a
<1>5. effective <= bal[u][in]
  BY <1>1, <1>2, CanMoveCovers
<1>6. moved \in Balances /\ Tokens(moved, m) = Tokens(bal, m)
  BY <1>2, <1>5, MoveType, TokensMove
<1>7. moved[u][in] = bal[u][in] - effective
  BY <1>2, MoveAt
<1> HIDE DEF moved, back
<1>8. Tokens(bal', m) = Tokens(moved, m)
  <2>1. CASE madeWsol
    <3>1. moved[u][Native] = 0
      BY <1>2, <1>3, <1>7, <2>1
    <3>2. bal' = [moved EXCEPT ![u][Native] = 0]
      BY <1>1, <2>1
    <3>3. \A w \in Owners : bal'[w][m] = moved[w][m]
      BY <1>6, <3>1, <3>2 DEF Balances
    <3> QED
      BY <3>3, TokensSame
  <2>2. CASE ~ madeWsol
    BY <1>1, <2>2
  <2> QED
    BY <2>1, <2>2
<1>9. Locked(open) \in Int /\ Locked(open') = Locked(open) - back
  <2>1. CASE madeWsol
    <3>1. a \in Accounts /\ Rent * Cardinality(a) = Rent
      BY <1>2, <1>3, <2>1, OneAccount DEF a
    <3>2. open' = open \ a /\ a \subseteq open
      BY <1>1, <1>3, <2>1
    <3>3. Locked(open \ a) = Locked(open) - Rent * Cardinality(a) /\ Locked(open) \in Nat
      BY <1>2, <3>1, <3>2, LockedRemove
    <3> QED
      BY <2>1, <3>1, <3>2, <3>3 DEF back
  <2>2. CASE ~ madeWsol
    <3>1. Locked(open) \in Int
      BY <1>2, ValueType
    <3> QED
      BY <1>1, <2>2, <3>1 DEF back
  <2> QED
    BY <2>1, <2>2
<1>10. Lamports(sol) \in Int /\ Lamports(sol') = Lamports(sol) + sol'[p] - sol[p]
  BY <1>1, <1>2, LamportsPoint DEF Wallets
<1>11. sol'[p] = sol[p] + back /\ sol[p] \in Nat
  BY <1>1, <1>2, <1>4 DEF Wallets
<1>12. Lamports(sol') + Locked(open') = Lamports(sol) + Locked(open) - 0
  BY <1>4, <1>9, <1>10, <1>11
<1>13. Tokens(bal, m) \in Int
  BY <1>2, ValueType
<1>14. Tokens(bal', m) = Tokens(bal, m) + (IF m = Native THEN 0 ELSE 0)
  BY <1>6, <1>8, <1>13
<1> QED
  BY <1>2, <1>12, <1>14, ValueMoves

LEMMA CallVenueConserves ==
    ASSUME IInv, IInv', CallVenue, NEW m \in Mints
    PROVE  Value(bal', open', sol', m) = Value(bal, open, sol, m)
<1> DEFINE in == route.legs[leg].in
           out == route.legs[leg].out
<1>1. /\ open' = open /\ sol' = sol /\ pc = "legs"
      /\ {<<Titan, in>>, <<Pool, in>>, <<Titan, out>>, <<Pool, out>>} \subseteq open
  BY DEF CallVenue
<1>2. PICK taken \in Taken(in), given \in 0 .. bal[Pool][out] :
         bal' = Move(Move(bal, Titan, Pool, in, taken), Pool, Titan, out, given)
  BY DEF CallVenue
<1>3. /\ bal \in Balances /\ open \in Accounts
      /\ Titan \in Owners /\ Pool \in Owners /\ Titan # Pool
  BY <1>1, SettleFacts
<1>4. in \in Mints /\ out \in Mints
  <2>1. <<Titan, in>> \in Owners \X Mints /\ <<Titan, out>> \in Owners \X Mints
    BY <1>1, <1>3 DEF Accounts
  <2> QED
    BY <2>1
<1> HIDE DEF in, out
<1>5. taken \in Nat /\ given \in Nat /\ taken <= bal[Titan][in] /\ given <= bal[Pool][out]
  <2>1. bal[Titan][in] \in Nat /\ bal[Pool][out] \in Nat
    BY <1>3, <1>4 DEF Balances
  <2>2. taken \in 0 .. bal[Titan][in]
    BY <1>2 DEF Taken
  <2> QED
    BY <1>2, <2>1, <2>2
<1> DEFINE paid == Move(bal, Titan, Pool, in, taken)
<1>6. paid \in Balances /\ Tokens(paid, m) = Tokens(bal, m)
  BY <1>3, <1>4, <1>5, MoveType, TokensMove
<1>7. given <= paid[Pool][out]
  <2>1. paid[Pool][out] = IF out # in THEN bal[Pool][out] ELSE bal[Pool][out] + taken
    BY <1>3, <1>4, <1>5, MoveAt
  <2>2. bal[Pool][out] \in Nat
    BY <1>3, <1>4 DEF Balances
  <2> HIDE DEF paid
  <2> QED
    BY <1>5, <2>1, <2>2
<1>8. bal' = Move(paid, Pool, Titan, out, given)
  BY <1>2
<1> HIDE DEF paid
<1>9. Tokens(Move(paid, Pool, Titan, out, given), m) = Tokens(paid, m)
  BY <1>3, <1>4, <1>5, <1>6, <1>7, TokensMove
<1>10. Tokens(bal', m) = Tokens(bal, m)
  BY <1>6, <1>8, <1>9
<1> QED
  BY <1>1, <1>10 DEF Value

LEMMA PayOutConserves ==
    ASSUME IInv, IInv', PayOut, NEW m \in Mints
    PROVE  Value(bal', open', sol', m) = Value(bal, open, sol, m)
<1> DEFINE u == route.user
           p == route.payer
           out == OutMint(route)
           a == {<<u, out>>}
           fee == IF <<u, out>> \in open THEN 0 ELSE Rent
           n == Traded(out)
<1>1. /\ bal' = Move(bal, Titan, u, out, n) /\ sol' = [sol EXCEPT ![p] = @ - fee]
      /\ open' = open \cup a /\ pc = "payOut"
  BY DEF PayOut
<1>2. /\ bal \in Balances /\ open \in Accounts /\ sol \in Wallets
      /\ bal' \in Balances /\ open' \in Accounts /\ sol' \in Wallets
      /\ p \in Payers /\ u \in Owners /\ Titan \in Owners /\ out \in Mints
  BY <1>1, SettleFacts, NextFunds DEF IInv
<1>3. n \in Nat /\ n <= bal[Titan][out]
  <2>1. bal[Titan][out] \in Nat /\ recorded[out] \in Nat
    BY <1>2 DEF Balances, IInv, TInv, TypeOK
  <2> QED
    BY <2>1 DEF Traded, Excess
<1> HIDE DEF u, p, out, n
<1>4. Tokens(bal', m) = Tokens(bal, m)
  BY <1>1, <1>2, <1>3, TokensMove
<1>5. Locked(open) \in Int /\ fee \in Nat /\ Locked(open') = Locked(open) + fee
  <2>1. CASE <<u, out>> \in open
    <3>1. open' = open
      BY <1>1, <2>1
    <3>2. Locked(open) \in Int
      BY <1>2, ValueType
    <3> QED
      BY <2>1, <3>1, <3>2
  <2>2. CASE <<u, out>> \notin open
    <3>1. a \in Accounts /\ Rent * Cardinality(a) = Rent /\ Rent \in Nat
      BY <1>2, OneAccount, NumbersAssumption
    <3>2. a \cap open = {}
      BY <2>2
    <3> HIDE DEF a
    <3>3. Locked(open \cup a) = Locked(open) + Rent * Cardinality(a) /\ Locked(open) \in Nat
      BY <1>2, <3>1, <3>2, LockedAdd
    <3> QED
      BY <1>1, <2>2, <3>1, <3>3
  <2> QED
    BY <2>1, <2>2
<1> HIDE DEF fee, a
<1>6. Lamports(sol) \in Int /\ Lamports(sol') = Lamports(sol) + sol'[p] - sol[p]
  BY <1>1, <1>2, LamportsPoint DEF Wallets
<1>7. sol'[p] = sol[p] - fee /\ sol[p] \in Nat
  BY <1>1, <1>2 DEF Wallets
<1>8. Lamports(sol') + Locked(open') = Lamports(sol) + Locked(open) - 0
  BY <1>5, <1>6, <1>7
<1>9. Tokens(bal, m) \in Int
  BY <1>2, ValueType
<1>10. Tokens(bal', m) = Tokens(bal, m) + (IF m = Native THEN 0 ELSE 0)
  BY <1>4, <1>9
<1> QED
  BY <1>2, <1>8, <1>10, ValueMoves

LEMMA CloseAtasConserves ==
    ASSUME IInv, IInv', CloseAtas, NEW m \in Mints
    PROVE  Value(bal', open', sol', m) = Value(bal, open, sol, m)
<1> DEFINE p == route.payer
           c == Closable
           a == {Titan} \X c
           back == Rent * Cardinality(c)
<1>1. /\ bal' = [bal EXCEPT ![Titan] = [x \in Mints |-> IF x \in c THEN 0 ELSE @[x]]]
      /\ open' = open \ a /\ sol' = [sol EXCEPT ![p] = @ + back] /\ pc = "close"
  BY DEF CloseAtas
<1>2. /\ bal \in Balances /\ open \in Accounts /\ sol \in Wallets
      /\ bal' \in Balances /\ open' \in Accounts /\ sol' \in Wallets
      /\ p \in Payers /\ Titan \in Owners /\ created \in SUBSET Mints
  BY <1>1, SettleFacts, NextFunds DEF IInv
<1>3. c = {x \in created : bal[Titan][x] = 0} /\ c \in SUBSET Mints
  BY <1>2 DEF Closable
<1>4. a \subseteq open
  BY <1>1, <1>3 DEF IInv, SettleInv, AInv, Extra, Late
<1> HIDE DEF p, c
<1>5. a \in Accounts /\ Cardinality(a) = Cardinality(c)
  BY <1>3, TitanAccounts
<1> HIDE DEF a
<1>6. Locked(open) \in Int /\ back \in Int /\ Locked(open') = Locked(open) - back
  <2>1. /\ Locked(open \ a) = Locked(open) - Rent * Cardinality(a)
        /\ Locked(open) \in Nat /\ Rent * Cardinality(a) \in Nat
    BY <1>2, <1>4, <1>5, LockedRemove
  <2> QED
    BY <1>1, <1>5, <2>1
<1> HIDE DEF back
<1>7. Lamports(sol) \in Int /\ Lamports(sol') = Lamports(sol) + sol'[p] - sol[p]
  BY <1>1, <1>2, LamportsPoint DEF Wallets
<1>8. sol'[p] = sol[p] + back /\ sol[p] \in Nat
  BY <1>1, <1>2 DEF Wallets
<1>9. Lamports(sol') + Locked(open') = Lamports(sol) + Locked(open) - 0
  BY <1>6, <1>7, <1>8
<1>10. \A w \in Owners : bal'[w][m] = bal[w][m]
  BY <1>1, <1>2, <1>3 DEF Balances
<1>11. Tokens(bal, m) \in Int /\ Tokens(bal', m) = Tokens(bal, m)
  BY <1>2, <1>10, ValueType, TokensSame
<1>12. Tokens(bal', m) = Tokens(bal, m) + (IF m = Native THEN 0 ELSE 0)
  BY <1>11
<1> QED
  BY <1>2, <1>9, <1>12, ValueMoves

LEMMA NextConserves == IInv /\ IInv' /\ ConservedInv /\ [Next]_vars => ConservedInv'
<1> SUFFICES ASSUME IInv, IInv', ConservedInv, [Next]_vars, pc' # "idle", NEW m \in Mints
             PROVE  Value(bal', open', sol', m) = Value(saved'.bal, saved'.open, saved'.sol, m)
  BY DEF ConservedInv
<1>1. CASE \E r \in Routes : Begin(r)
  <2>1. pc = "idle" /\ UNCHANGED <<bal, open, sol, saved>>
    BY <1>1 DEF Begin, funds
  <2>2. bal = saved.bal /\ open = saved.open /\ sol = saved.sol
    BY <2>1 DEF IInv, SettleInv, HInv
  <2> QED
    BY <2>1, <2>2
<1>2. ASSUME UNCHANGED <<bal, open, sol, saved>>, pc # "idle"
      PROVE  Value(bal', open', sol', m) = Value(saved'.bal, saved'.open, saved'.sol, m)
  BY <1>2 DEF ConservedInv
<1>3. ASSUME Value(bal', open', sol', m) = Value(bal, open, sol, m), saved' = saved, pc # "idle"
      PROVE  Value(bal', open', sol', m) = Value(saved'.bal, saved'.open, saved'.sol, m)
  BY <1>3 DEF ConservedInv
<1>4. CASE Step
  <2>1. CASE OpenAtas
    BY <1>3, <2>1, OpenAtasConserves DEF OpenAtas
  <2>2. CASE Snapshot \/ FundFromLedger \/ FundPlain \/ SkipLeg \/ LegsDone \/ Check
    BY <1>2, <2>2 DEF Snapshot, FundFromLedger, FundPlain, SkipLeg, LegsDone, Check, funds
  <2>3. CASE TopUpWsol
    BY <1>3, <2>3, TopUpWsolConserves DEF TopUpWsol
  <2>4. CASE CreateWsol
    BY <1>3, <2>4, CreateWsolConserves DEF CreateWsol
  <2>5. CASE PayIn
    BY <1>3, <2>5, PayInConserves DEF PayIn
  <2>6. CASE CallVenue
    BY <1>3, <2>6, CallVenueConserves DEF CallVenue
  <2>7. CASE PayOut
    BY <1>3, <2>7, PayOutConserves DEF PayOut
  <2>8. CASE CloseAtas
    BY <1>3, <2>8, CloseAtasConserves DEF CloseAtas
  <2>9. CASE Commit \/ Abort
    BY <2>9 DEF Commit, Abort, ToIdle
  <2> QED
    BY <1>4, <2>1, <2>2, <2>3, <2>4, <2>5, <2>6, <2>7, <2>8, <2>9 DEF Step
<1>5. CASE \/ \E u \in Users, x \in Mints : SetLedger(u, x)
           \/ \E t \in Transfers : \E n \in 1 .. bal[t[1]][t[3]] : Transfer(t[1], t[2], t[3], n)
  BY <1>5 DEF SetLedger, Transfer
<1>6. CASE UNCHANGED vars
  BY <1>2, <1>6 DEF vars
<1> QED
  BY <1>1, <1>4, <1>5, <1>6 DEF Next

\* Of each mint, no token is made or lost by a committed route, wrapped lamports
\* and deposits included, for every set of users and mints, whatever was opened,
\* wrapped, swept, traded and closed on the way.
THEOREM RouteConservesValue == Spec => []ValueConserved
<1>1. Init => ConservedInv
  BY DEF Init, Idle, ConservedInv
<1>2. IInv /\ ConservedInv => ValueConserved
  <2> SUFFICES ASSUME ConservedInv, pc = "done", NEW m \in Mints
               PROVE  Total(Funds, m) = Total(saved, m)
    BY DEF ValueConserved, Done
  <2>1. \A f : Total(f, m) = Value(f.bal, f.open, f.sol, m)
    BY DEF Total, Value, Tokens, Lamports, Locked
  <2>2. Value(bal, open, sol, m) = Value(saved.bal, saved.open, saved.sol, m)
    BY DEF ConservedInv
  <2>3. Funds.bal = bal /\ Funds.open = open /\ Funds.sol = sol
    BY DEF Funds
  <2> QED
    BY <2>1, <2>2, <2>3
<1> QED
  BY SettleInductive, <1>1, <1>2, NextConserves, PTL DEF Spec
=============================================================================
