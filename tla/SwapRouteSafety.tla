--------------------------- MODULE SwapRouteSafety ---------------------------
(***************************************************************************)
(* What the route program promises about TitanPDA's reserves and about     *)
(* token ledgers, for every set of parties, mints and routes.  The types   *)
(* proved in SwapRouteProofs carry these proofs.                           *)
(***************************************************************************)
EXTENDS SwapRouteProofs

Recording == {"fund", "payIn", "legs", "payOut", "close", "check"}
Paid == {"legs", "payOut", "close", "check", "done"}

\* The balances that the final check compares are those the route began with;
\* every TitanPDA account that it can touch is among them, and no other changes.
RInv ==
    /\ pc \in {"idle", "open", "snapshot"} => bal = saved.bal
    /\ pc \in Recording \cup {"done"} =>
         /\ SlotMints(route) \subseteq watched
         /\ \A m \in LegMints(route) : <<Titan, m>> \in open => m \in watched
         /\ \A m \in watched : recorded[m] = saved.bal[Titan][m]
         /\ \A m \in Mints \ watched : bal[Titan][m] = saved.bal[Titan][m]
    /\ pc = "done" => \A m \in watched : bal[Titan][m] >= recorded[m]

\* With exact-in venues and honest legs, TitanPDA never holds less than recorded.
BInv == ExactIn /\ Honest(route) /\ pc \in Recording => \A m \in Mints : bal[Titan][m] >= recorded[m]

\* A ledger route takes what came on top of the ledger's balance, and later
\* stages take nothing from the user.
Ledger == ledger[route.user].stored
LInv == route.ledger =>
    /\ pc = "payIn" => bal[route.user][InMint(route)] = Ledger + effective
    /\ pc \in Paid => bal[route.user][InMint(route)] >= Ledger

-----------------------------------------------------------------------------
(* The share of a leg. *)

\* A leg's input is at most what its slot holds above the reserve, whatever the
\* weight (line 225).
LEMMA LegInputBounded ==
    ASSUME NEW a \in Nat, NEW w \in Nat
    PROVE  LegInput(a, w) \in Nat /\ LegInput(a, w) <= a
<1> DEFINE c == IF w < WeightAll THEN w ELSE WeightAll
           q == (a * c) \div WeightAll
<1>1. WeightAll \in Nat /\ WeightAll > 0
  BY NumbersAssumption
<1>2. c \in Nat /\ c <= WeightAll
  BY <1>1
<1> HIDE DEF c
<1>3. a * c \in Nat /\ a * c <= a * WeightAll
  BY <1>1, <1>2
<1>4. q \in Nat /\ q * WeightAll <= a * c
  BY <1>1, <1>3
<1> HIDE DEF q
<1>5. q <= a
  <2> SUFFICES ASSUME q >= a + 1 PROVE FALSE
    BY <1>4
  <2>1. q * WeightAll >= (a + 1) * WeightAll
    BY <1>1, <1>4
  <2>2. (a + 1) * WeightAll = a * WeightAll + WeightAll
    BY <1>1
  <2>3. a * WeightAll \in Nat /\ q * WeightAll \in Nat
    BY <1>1, <1>4
  <2> QED
    BY <1>1, <1>3, <1>4, <2>1, <2>2, <2>3
<1> QED
  BY <1>4, <1>5 DEF LegInput, c, q

-----------------------------------------------------------------------------
(* What a stage does to TitanPDA's and to the user's tokens.               *)

\* What TInv says of the accounts a stage works on.
LEMMA StageFacts ==
    ASSUME TInv, pc # "idle"
    PROVE  /\ bal \in Balances /\ open \in Accounts /\ saved.bal \in Balances
           /\ watched \in SUBSET Mints /\ recorded \in [Mints -> Nat] /\ effective \in Nat
           /\ route.user \in Owners /\ route.user # Titan /\ route.user # Pool
           /\ Titan \in Owners /\ Pool \in Owners /\ Titan # Pool
           /\ InMint(route) \in SlotMints(route) /\ InMint(route) \in Mints
           /\ OutMint(route) \in SlotMints(route) /\ OutMint(route) \in Mints
           /\ route.ledger => Ledger \in Int
<1>1. route \in RouteType /\ ValidRoute(route) /\ route.user \in Users
  BY TypeFacts, RouteFacts
<1>2. route.ledger => Ledger \in Int
  BY <1>1 DEF TInv, TypeOK, NoLedger, Ledger
<1>3. saved.bal \in Balances
  BY DEF TInv, TypeOK, FundsType, Balances
<1>4. route.user # Titan /\ route.user # Pool /\ Titan # Pool
  BY <1>1, PartiesDiffer
<1> QED
  BY <1>1, <1>2, <1>3, <1>4, TypeFacts, RouteFacts DEF TInv, TypeOK, Owners

\* Opening and filling the user's wrapped-SOL account leaves TitanPDA alone.
LEMMA FundEffect ==
    ASSUME TInv, FundFromLedger \/ FundPlain \/ TopUpWsol \/ CreateWsol
    PROVE  /\ pc = "fund" /\ pc' = "payIn"
           /\ UNCHANGED <<ledger, route, saved, watched, recorded>>
           /\ \A m \in Mints : bal'[Titan][m] = bal[Titan][m]
           /\ \A m \in Mints : <<Titan, m>> \in open' => <<Titan, m>> \in open
<1>1. pc # "idle"
  BY DEF FundFromLedger, FundPlain, TopUpWsol, CreateWsol
<1> USE StageFacts, <1>1
<1>2. CASE FundFromLedger
  BY <1>2 DEF FundFromLedger, funds
<1>3. CASE FundPlain
  BY <1>3 DEF FundPlain, funds
<1>4. CASE TopUpWsol
  BY <1>4 DEF TopUpWsol, Balances
<1>5. CASE CreateWsol
  BY <1>5 DEF CreateWsol, Balances
<1> QED
  BY <1>2, <1>3, <1>4, <1>5

\* Of TitanPDA's tokens, PayIn adds to the input mint's; the user pays no more
\* than the effective amount unless the account was made by the route.
LEMMA PayInEffect ==
    ASSUME TInv, PayIn
    PROVE  /\ pc = "payIn" /\ pc' = "legs"
           /\ UNCHANGED <<ledger, route, saved, watched, recorded>>
           /\ \A m \in Mints : bal'[Titan][m] >= bal[Titan][m]
           /\ \A m \in Mints \ SlotMints(route) : bal'[Titan][m] = bal[Titan][m]
           /\ \A m \in Mints : <<Titan, m>> \in open' => <<Titan, m>> \in open
           /\ route.ledger => bal'[route.user][InMint(route)] = bal[route.user][InMint(route)] - effective
<1>1. pc = "payIn" /\ pc' = "legs" /\ UNCHANGED <<ledger, route, saved, watched, recorded>>
  BY DEF PayIn, stage
<1>2. /\ bal \in Balances /\ effective \in Nat /\ Titan \in Owners
      /\ InMint(route) \in Mints /\ InMint(route) \in SlotMints(route)
      /\ route.user \in Owners /\ route.user # Titan
  BY <1>1, StageFacts
<1> DEFINE moved == Move(bal, route.user, Titan, InMint(route), effective)
<1>3. ASSUME NEW m \in Mints
      PROVE  moved[Titan][m] = IF m = InMint(route) THEN bal[Titan][m] + effective ELSE bal[Titan][m]
  BY <1>2, MoveAt
<1>4. moved[route.user][InMint(route)] = bal[route.user][InMint(route)] - effective
  BY <1>2, MoveAt
<1>5. moved \in Balances
  BY <1>2, CanMoveCovers, MoveType DEF PayIn
<1>6. bal' = IF madeWsol THEN [moved EXCEPT ![route.user][Native] = 0] ELSE moved
  BY DEF PayIn
<1> HIDE DEF moved
<1>7. \A m \in Mints : bal'[Titan][m] = moved[Titan][m]
  BY <1>2, <1>5, <1>6 DEF Balances
<1>8. \A m \in Mints : bal[Titan][m] \in Nat
  BY <1>2 DEF Balances
<1>9. \A m \in Mints : <<Titan, m>> \in open' => <<Titan, m>> \in open
  BY DEF PayIn
<1>10. route.ledger => bal' = moved
  BY <1>6 DEF TInv, WsolMade
<1> QED
  BY <1>1, <1>2, <1>3, <1>4, <1>7, <1>8, <1>9, <1>10

\* A venue moves tokens of the leg's two mints between TitanPDA's open accounts
\* and its own; an exact-in venue takes no more than lies above the reserve.
LEMMA CallVenueEffect ==
    ASSUME TInv, CallVenue
    PROVE  /\ pc = "legs" /\ pc' = "legs"
           /\ UNCHANGED <<open, ledger, route, saved, watched, recorded>>
           /\ \A m \in Mints : \/ m \in LegMints(route) /\ <<Titan, m>> \in open
                              \/ bal'[Titan][m] = bal[Titan][m]
           /\ \A m \in Mints : bal'[route.user][m] = bal[route.user][m]
           /\ ExactIn /\ Honest(route) => \A m \in Mints :
                 bal[Titan][m] >= recorded[m] => bal'[Titan][m] >= recorded[m]
<1>1. /\ pc = "legs" /\ pc' = "legs"
      /\ UNCHANGED <<open, ledger, route, saved, watched, recorded>>
  BY DEF CallVenue
<1> DEFINE in == route.legs[leg].in
           out == route.legs[leg].out
<1>2. PICK taken \in Taken(in), given \in 0 .. bal[Pool][out] :
         bal' = Move(Move(bal, Titan, Pool, in, taken), Pool, Titan, out, given)
  BY DEF CallVenue
<1>3. <<Titan, in>> \in open /\ <<Titan, out>> \in open
  BY DEF CallVenue
<1>4. leg \in DOMAIN route.legs /\ route.legs[leg] \in LegType
  <2>1. route \in RouteType /\ leg \in Nat \ {0} /\ leg <= Len(route.legs)
    BY <1>1, TypeFacts DEF CallVenue, TInv, TypeOK
  <2>2. route.legs \in Seq(LegType)
    BY <2>1 DEF RouteType
  <2> QED
    BY <2>1, <2>2
<1>5. in \in Mints /\ out \in Mints /\ in \in LegMints(route) /\ out \in LegMints(route)
  BY <1>4 DEF LegMints, LegType
<1>6. /\ bal \in Balances /\ Titan \in Owners /\ Pool \in Owners /\ Titan # Pool
      /\ route.user \in Owners /\ route.user # Titan /\ route.user # Pool
      /\ recorded \in [Mints -> Nat]
  BY <1>1, StageFacts
<1>7. bal[Titan][in] \in Nat /\ bal[Pool][out] \in Nat
  BY <1>5, <1>6 DEF Balances
<1>8. taken \in 0 .. bal[Titan][in]
  BY <1>2 DEF Taken
<1>9. ExactIn => taken = AmountIn(leg)
  BY <1>2 DEF Taken
<1> HIDE DEF in, out
<1>10. taken \in Nat /\ taken <= bal[Titan][in] /\ given \in Nat
  BY <1>2, <1>7, <1>8
<1> DEFINE paid == Move(bal, Titan, Pool, in, taken)
<1>11. paid \in Balances
  BY <1>5, <1>6, <1>10, MoveType
<1>12. ASSUME NEW m \in Mints
       PROVE  /\ paid[Titan][m] = IF m = in THEN bal[Titan][m] - taken ELSE bal[Titan][m]
              /\ paid[route.user][m] = bal[route.user][m]
  BY <1>5, <1>6, <1>10, MoveAt
<1>13. bal' = Move(paid, Pool, Titan, out, given)
  BY <1>2
<1> HIDE DEF paid
<1>14. ASSUME NEW m \in Mints
       PROVE  /\ bal'[Titan][m] = IF m = out THEN paid[Titan][m] + given ELSE paid[Titan][m]
              /\ bal'[route.user][m] = paid[route.user][m]
  BY <1>5, <1>6, <1>10, <1>11, <1>13, MoveAt
<1>15. \A m \in Mints : \/ m \in LegMints(route) /\ <<Titan, m>> \in open
                        \/ bal'[Titan][m] = bal[Titan][m]
  BY <1>3, <1>5, <1>12, <1>14
<1>16. \A m \in Mints : bal'[route.user][m] = bal[route.user][m]
  BY <1>12, <1>14
<1>17. ASSUME ExactIn, Honest(route), NEW m \in Mints, bal[Titan][m] >= recorded[m]
       PROVE  bal'[Titan][m] >= recorded[m]
  <2>1. bal[Titan][m] \in Nat /\ recorded[m] \in Nat
    BY <1>6 DEF Balances
  <2>2. m = in => bal[Titan][m] - taken >= recorded[m]
    <3> SUFFICES ASSUME m = in PROVE bal[Titan][m] - taken >= recorded[m]
      OBVIOUS
    <3>1. SlotMint(route, route.legs[leg].from) = m
      BY <1>4, <1>17 DEF Honest, in
    <3>2. taken = LegInput(Excess(bal[Titan][m], recorded[m]), route.legs[leg].weight)
      BY <1>9, <1>17, <3>1 DEF AmountIn
    <3>3. /\ Excess(bal[Titan][m], recorded[m]) \in Nat
          /\ Excess(bal[Titan][m], recorded[m]) = bal[Titan][m] - recorded[m]
      BY <1>17, <2>1 DEF Excess
    <3>4. route.legs[leg].weight \in Nat
      BY <1>4 DEF LegType
    <3>5. taken <= Excess(bal[Titan][m], recorded[m])
      BY <3>2, <3>3, <3>4, LegInputBounded
    <3> QED
      BY <1>10, <2>1, <3>3, <3>5
  <2> QED
    BY <1>10, <1>12, <1>14, <1>17, <2>1, <2>2
<1> QED
  BY <1>1, <1>15, <1>16, <1>17

\* PayOut leaves TitanPDA its reserve of the output mint, and adds to the user's
\* tokens.
LEMMA PayOutEffect ==
    ASSUME TInv, PayOut
    PROVE  /\ pc = "payOut" /\ pc' = "close"
           /\ UNCHANGED <<ledger, route, saved, watched, recorded>>
           /\ \A m \in Mints \ SlotMints(route) : bal'[Titan][m] = bal[Titan][m]
           /\ \A m \in Mints : bal[Titan][m] >= recorded[m] => bal'[Titan][m] >= recorded[m]
           /\ \A m \in Mints : <<Titan, m>> \in open' => <<Titan, m>> \in open
           /\ \A m \in Mints : bal'[route.user][m] >= bal[route.user][m]
<1>1. pc = "payOut" /\ pc' = "close" /\ UNCHANGED <<ledger, route, saved, watched, recorded>>
  BY DEF PayOut, stage
<1> DEFINE out == OutMint(route)
           n == Traded(out)
<1>2. /\ bal \in Balances /\ recorded \in [Mints -> Nat] /\ out \in Mints
      /\ Titan \in Owners /\ route.user \in Owners /\ route.user # Titan
      /\ out \in SlotMints(route)
  BY <1>1, StageFacts
<1>3. \A o \in Owners, m \in Mints : bal[o][m] \in Nat
  BY <1>2 DEF Balances
<1>4. n \in Nat /\ (bal[Titan][out] >= recorded[out] => bal[Titan][out] - n >= recorded[out])
  BY <1>2, <1>3 DEF Traded, Excess
<1>5. bal' = Move(bal, Titan, route.user, out, n)
  BY DEF PayOut
<1>6. \A m \in Mints : <<Titan, m>> \in open' => <<Titan, m>> \in open
  BY <1>2 DEF PayOut
<1> HIDE DEF out, n
<1>7. ASSUME NEW m \in Mints
      PROVE  /\ bal'[Titan][m] = IF m = out THEN bal[Titan][m] - n ELSE bal[Titan][m]
             /\ bal'[route.user][m] = IF m = out THEN bal[route.user][m] + n ELSE bal[route.user][m]
  BY <1>2, <1>4, <1>5, MoveAt
<1> QED
  BY <1>1, <1>2, <1>3, <1>4, <1>6, <1>7

\* Closing empty accounts moves no token.
LEMMA CloseAtasEffect ==
    ASSUME TInv, CloseAtas
    PROVE  /\ pc = "close" /\ pc' = "check"
           /\ UNCHANGED <<ledger, route, saved, watched, recorded>>
           /\ \A o \in Owners, m \in Mints : bal'[o][m] = bal[o][m]
           /\ \A m \in Mints : <<Titan, m>> \in open' => <<Titan, m>> \in open
<1>1. pc = "close" /\ pc' = "check" /\ UNCHANGED <<ledger, route, saved, watched, recorded>>
  BY DEF CloseAtas, stage
<1>2. bal \in Balances /\ Titan \in Owners
  BY <1>1, StageFacts
<1>3. \A o \in Owners, m \in Mints : bal'[o][m] = bal[o][m]
  BY <1>2 DEF CloseAtas, Closable, Balances
<1> QED
  BY <1>1, <1>3 DEF CloseAtas

-----------------------------------------------------------------------------
(* The reserve.                                                            *)

\* A stage between the snapshot and the final check keeps RInv if it leaves the
\* accounts that were not recorded alone and opens none for TitanPDA.
LEMMA StageKeepsRInv ==
    ASSUME RInv, pc \in Recording, pc' \in Recording,
           UNCHANGED <<route, saved, watched, recorded>>,
           \A m \in Mints \ watched : bal'[Titan][m] = bal[Titan][m],
           \A m \in Mints : <<Titan, m>> \in open' => <<Titan, m>> \in open,
           LegMints(route) \subseteq Mints
    PROVE  RInv'
BY DEF RInv, Recording

LEMMA InitReserve == Init => RInv
BY DEF Init, Idle, Funds, RInv, Recording

LEMMA NextReserve == TInv /\ RInv /\ [Next]_vars => RInv'
<1> SUFFICES ASSUME TInv, RInv, [Next]_vars PROVE RInv'
  OBVIOUS
<1>1. CASE \E r \in Routes : Begin(r)
  BY <1>1 DEF Begin, funds, RInv, Recording
<1>2. CASE \E u \in Users, m \in Mints : SetLedger(u, m)
  BY <1>2 DEF SetLedger, funds, RInv, Recording
<1>3. CASE \E t \in Transfers : \E n \in 1 .. bal[t[1]][t[3]] : Transfer(t[1], t[2], t[3], n)
  <2>1. saved \in FundsType
    BY DEF TInv, TypeOK
  <2>2. saved'.bal = bal'
    BY <1>3, <2>1 DEF Transfer, FundsType
  <2>3. pc' = "idle"
    BY <1>3 DEF Transfer
  <2> QED
    BY <2>2, <2>3 DEF RInv, Recording
<1>4. CASE Step
  <2> USE <1>4
  <2>a. pc # "idle" => /\ LegMints(route) \subseteq Mints
                     /\ SlotMints(route) \subseteq Mints
    BY TypeFacts, RouteFacts DEF LegMints
  <2>1. CASE OpenAtas
    BY <2>1 DEF OpenAtas, RInv, Recording
  <2>2. CASE Snapshot
    <3>1. pc = "snapshot" /\ pc' = "fund" /\ UNCHANGED <<bal, open, saved, route>>
      BY <2>2 DEF Snapshot, funds
    <3>2. /\ watched' = Watched(route)
          /\ recorded' = [m \in Mints |-> IF m \in watched' THEN bal[Titan][m] ELSE 0]
      BY <2>2 DEF Snapshot
    <3>3. watched' \subseteq Mints /\ SlotMints(route) \subseteq watched'
      BY <2>a, <3>1, <3>2 DEF Watched
    <3>4. \A m \in LegMints(route) : <<Titan, m>> \in open => m \in watched'
      BY <3>2 DEF Watched
    <3>5. bal = saved.bal
      BY <3>1 DEF RInv
    <3>6. \A m \in watched' : recorded'[m] = saved.bal[Titan][m]
      BY <3>2, <3>3, <3>5
    <3>7. \A m \in Mints \ watched' : bal[Titan][m] = saved.bal[Titan][m]
      BY <3>5
    <3> QED
      BY <3>1, <3>3, <3>4, <3>6, <3>7 DEF RInv, Recording
  <2>3. CASE FundFromLedger \/ FundPlain \/ TopUpWsol \/ CreateWsol
    <3>1. /\ pc = "fund" /\ pc' = "payIn" /\ UNCHANGED <<route, saved, watched, recorded>>
          /\ \A m \in Mints : bal'[Titan][m] = bal[Titan][m]
          /\ \A m \in Mints : <<Titan, m>> \in open' => <<Titan, m>> \in open
      BY <2>3, FundEffect
    <3> QED
      BY <2>a, <3>1, StageKeepsRInv DEF Recording
  <2>4. CASE PayIn
    <3>1. /\ pc = "payIn" /\ pc' = "legs" /\ UNCHANGED <<route, saved, watched, recorded>>
          /\ \A m \in Mints \ SlotMints(route) : bal'[Titan][m] = bal[Titan][m]
          /\ \A m \in Mints : <<Titan, m>> \in open' => <<Titan, m>> \in open
      BY <2>4, PayInEffect
    <3>2. SlotMints(route) \subseteq watched
      BY <3>1 DEF RInv, Recording
    <3> QED
      BY <2>a, <3>1, <3>2, StageKeepsRInv DEF Recording
  <2>5. CASE SkipLeg \/ LegsDone
    BY <2>5, <2>a, StageKeepsRInv DEF SkipLeg, LegsDone, funds, stage, Recording
  <2>6. CASE CallVenue
    <3>1. /\ pc = "legs" /\ pc' = "legs" /\ UNCHANGED <<open, route, saved, watched, recorded>>
          /\ \A m \in Mints : \/ m \in LegMints(route) /\ <<Titan, m>> \in open
                             \/ bal'[Titan][m] = bal[Titan][m]
      BY <2>6, CallVenueEffect
    <3>2. \A m \in LegMints(route) : <<Titan, m>> \in open => m \in watched
      BY <3>1 DEF RInv, Recording
    <3> QED
      BY <2>a, <3>1, <3>2, StageKeepsRInv DEF Recording
  <2>7. CASE PayOut
    <3>1. /\ pc = "payOut" /\ pc' = "close" /\ UNCHANGED <<route, saved, watched, recorded>>
          /\ \A m \in Mints \ SlotMints(route) : bal'[Titan][m] = bal[Titan][m]
          /\ \A m \in Mints : <<Titan, m>> \in open' => <<Titan, m>> \in open
      BY <2>7, PayOutEffect
    <3>2. SlotMints(route) \subseteq watched
      BY <3>1 DEF RInv, Recording
    <3> QED
      BY <2>a, <3>1, <3>2, StageKeepsRInv DEF Recording
  <2>8. CASE CloseAtas
    <3>1. /\ pc = "close" /\ pc' = "check" /\ UNCHANGED <<route, saved, watched, recorded>>
          /\ \A m \in Mints : bal'[Titan][m] = bal[Titan][m]
          /\ \A m \in Mints : <<Titan, m>> \in open' => <<Titan, m>> \in open
      BY <2>8, CloseAtasEffect DEF Owners
    <3> QED
      BY <2>a, <3>1, StageKeepsRInv DEF Recording
  <2>9. CASE Check
    BY <2>9 DEF Check, ReservesHold, funds, stage, RInv, Recording
  <2>10. CASE Commit
    BY <2>10 DEF Commit, ToIdle, Funds, funds, RInv, Recording
  <2>11. CASE Abort
    BY <2>11 DEF Abort, ToIdle, RInv, Recording
  <2> QED
    BY <2>1, <2>2, <2>3, <2>4, <2>5, <2>6, <2>7, <2>8, <2>9, <2>10, <2>11 DEF Step
<1>5. CASE UNCHANGED vars
  BY <1>5 DEF vars, stage, RInv
<1> QED
  BY <1>1, <1>2, <1>3, <1>4, <1>5 DEF Next

LEMMA ReserveInductive == Spec => [](TInv /\ RInv)
BY InitTypes, NextTypes, InitReserve, NextReserve, PTL DEF Spec

LEMMA ReservesFollow == TInv /\ RInv => ReservesKept
<1> SUFFICES ASSUME TInv, RInv, pc = "done", NEW m \in Mints
             PROVE  bal[Titan][m] >= saved.bal[Titan][m]
  BY DEF ReservesKept, Done
<1>1. bal[Titan][m] \in Nat
  BY StageFacts DEF Balances
<1>2. CASE m \in watched
  BY <1>2 DEF RInv
<1>3. CASE m \notin watched
  BY <1>1, <1>3 DEF RInv
<1> QED
  BY <1>2, <1>3

\* No route that is committed leaves TitanPDA with less of any mint than it had
\* when the instruction began, whichever accounts the caller named and whatever
\* the venues took with TitanPDA's signature (lines 131-148, 322-334): the mints
\* the final check does not look at cannot have been touched.
THEOREM RouteKeepsReserves == Spec => []ReservesKept
BY ReserveInductive, ReservesFollow, PTL

-----------------------------------------------------------------------------
(* The reserve during an honest route. *)

\* A stage keeps BInv if it takes TitanPDA's tokens from above what is recorded.
LEMMA StageKeepsBInv ==
    ASSUME BInv, pc \in Recording, UNCHANGED <<route, recorded>>,
           ExactIn /\ Honest(route) => \A m \in Mints :
              bal[Titan][m] >= recorded[m] => bal'[Titan][m] >= recorded[m]
    PROVE  BInv'
BY DEF BInv, Honest

LEMMA NextReserveDuring == TInv /\ BInv /\ [Next]_vars => BInv'
<1> SUFFICES ASSUME TInv, BInv, [Next]_vars PROVE BInv'
  OBVIOUS
<1>1. CASE (\E r \in Routes : Begin(r)) \/ (\E u \in Users, m \in Mints : SetLedger(u, m))
  BY <1>1 DEF Begin, SetLedger, BInv, Recording
<1>2. CASE \E t \in Transfers : \E n \in 1 .. bal[t[1]][t[3]] : Transfer(t[1], t[2], t[3], n)
  BY <1>2 DEF Transfer, BInv, Recording
<1>3. CASE Step
  <2> USE <1>3
  <2>1. CASE OpenAtas
    BY <2>1 DEF OpenAtas, BInv, Recording
  <2>2. CASE Snapshot
    <3>1. \A m \in Mints : bal[Titan][m] \in Nat
      BY <2>2, StageFacts DEF Snapshot, Balances
    <3>2. /\ bal' = bal
          /\ recorded' = [m \in Mints |-> IF m \in watched' THEN bal[Titan][m] ELSE 0]
      BY <2>2 DEF Snapshot, funds
    <3>3. \A m \in Mints : bal'[Titan][m] >= recorded'[m]
      BY <3>1, <3>2
    <3> QED
      BY <3>3 DEF BInv
  <2>3. CASE FundFromLedger \/ FundPlain \/ TopUpWsol \/ CreateWsol
    <3>1. /\ pc = "fund" /\ UNCHANGED <<route, recorded>>
          /\ \A m \in Mints : bal'[Titan][m] = bal[Titan][m]
      BY <2>3, FundEffect
    <3> QED
      BY <3>1, StageKeepsBInv DEF Recording
  <2>4. CASE PayIn
    <3>1. /\ pc = "payIn" /\ UNCHANGED <<route, recorded>>
          /\ \A m \in Mints : bal'[Titan][m] >= bal[Titan][m]
      BY <2>4, PayInEffect
    <3>2. \A m \in Mints : bal[Titan][m] \in Nat /\ recorded[m] \in Nat
      BY <3>1, StageFacts DEF Balances
    <3>3. bal' \in Balances
      BY <2>4, PayInTypes, TypeFacts, FundsFacts DEF TInv, TypeOK, Funds, Step
    <3>4. \A m \in Mints : bal[Titan][m] >= recorded[m] => bal'[Titan][m] >= recorded[m]
      <4>1. \A m \in Mints : bal'[Titan][m] \in Nat
        BY <3>1, <3>3, StageFacts DEF Balances
      <4> QED
        BY <3>1, <3>2, <4>1
    <3> QED
      BY <3>1, <3>4, StageKeepsBInv DEF Recording
  <2>5. CASE SkipLeg \/ LegsDone
    BY <2>5, StageKeepsBInv DEF SkipLeg, LegsDone, funds, stage, Recording
  <2>6. CASE CallVenue
    <3>1. /\ pc = "legs" /\ UNCHANGED <<route, recorded>>
          /\ ExactIn /\ Honest(route) => \A m \in Mints :
                bal[Titan][m] >= recorded[m] => bal'[Titan][m] >= recorded[m]
      BY <2>6, CallVenueEffect
    <3> QED
      BY <3>1, StageKeepsBInv DEF Recording
  <2>7. CASE PayOut
    <3>1. /\ pc = "payOut" /\ UNCHANGED <<route, recorded>>
          /\ \A m \in Mints : bal[Titan][m] >= recorded[m] => bal'[Titan][m] >= recorded[m]
      BY <2>7, PayOutEffect
    <3> QED
      BY <3>1, StageKeepsBInv DEF Recording
  <2>8. CASE CloseAtas
    <3>1. /\ pc = "close" /\ UNCHANGED <<route, recorded>>
          /\ \A m \in Mints : bal'[Titan][m] = bal[Titan][m]
      BY <2>8, CloseAtasEffect DEF Owners
    <3> QED
      BY <3>1, StageKeepsBInv DEF Recording
  <2>9. CASE Check \/ Commit \/ Abort
    BY <2>9 DEF Check, Commit, Abort, ToIdle, BInv, Recording
  <2> QED
    BY <2>1, <2>2, <2>3, <2>4, <2>5, <2>6, <2>7, <2>8, <2>9 DEF Step
<1>4. CASE UNCHANGED vars
  BY <1>4 DEF vars, stage, BInv, Honest
<1> QED
  BY <1>1, <1>2, <1>3, <1>4 DEF Next

LEMMA InitReserveDuring == Init => BInv
BY DEF Init, Idle, BInv, Recording

\* If venues take exactly what they are asked to and the legs name the slots'
\* accounts, TitanPDA holds its reserve at every stage, for every weight, split
\* and cap (lines 221-227): the final check fails no such route.
THEOREM ReserveUntouched == Spec => []ReserveNeverBorrowed
<1>1. BInv => ReserveNeverBorrowed
  BY DEF BInv, ReserveNeverBorrowed, Recording
<1>2. Spec => [](TInv /\ BInv)
  BY InitTypes, NextTypes, InitReserveDuring, NextReserveDuring, PTL DEF Spec
<1> QED
  BY <1>1, <1>2, PTL

-----------------------------------------------------------------------------
(* Ledger routes. *)

\* The user's input balance after the input was paid is never taken from again.
LEMMA StageKeepsLInv ==
    ASSUME TInv, LInv, pc \in Paid, pc' \in Paid, UNCHANGED <<route, ledger>>,
           bal'[route.user][InMint(route)] >= bal[route.user][InMint(route)],
           bal'[route.user][InMint(route)] \in Nat
    PROVE  LInv'
<1>1. pc # "idle" /\ pc' # "payIn"
  BY DEF Paid
<1>2. bal[route.user][InMint(route)] \in Nat /\ (route.ledger => Ledger \in Int)
  BY <1>1, StageFacts DEF Balances
<1>3. Ledger' = Ledger /\ InMint(route') = InMint(route)
  BY DEF Ledger
<1> QED
  BY <1>1, <1>2, <1>3 DEF LInv

LEMMA NextLedger == TInv /\ LInv /\ [Next]_vars => LInv'
<1> SUFFICES ASSUME TInv, LInv, [Next]_vars PROVE LInv'
  OBVIOUS
<1>1. CASE (\E r \in Routes : Begin(r)) \/ (\E u \in Users, m \in Mints : SetLedger(u, m))
  BY <1>1 DEF Begin, SetLedger, LInv, Paid
<1>2. CASE \E t \in Transfers : \E n \in 1 .. bal[t[1]][t[3]] : Transfer(t[1], t[2], t[3], n)
  BY <1>2 DEF Transfer, LInv, Paid
<1>3. CASE Step
  <2> USE <1>3
  <2>a. TInv' /\ (pc' # "idle" => bal' \in Balances)
    <3>1. TInv'
      BY NextTypes DEF Next
    <3> QED
      BY <3>1, FundsFacts DEF TInv, TypeOK, Funds
  <2>b. pc # "idle" => route.user \in Owners /\ InMint(route) \in Mints
    BY StageFacts
  <2>1. CASE OpenAtas \/ Snapshot \/ Commit \/ Abort
    BY <2>1 DEF OpenAtas, Snapshot, Commit, Abort, ToIdle, LInv, Paid
  <2>2. CASE FundPlain \/ TopUpWsol \/ CreateWsol
    BY <2>2 DEF FundPlain, TopUpWsol, CreateWsol, LInv
  <2>3. CASE FundFromLedger
    <3>1. /\ pc = "fund" /\ pc' = "payIn" /\ UNCHANGED <<bal, ledger, route>>
          /\ effective' = bal[route.user][InMint(route)] - Ledger
      BY <2>3 DEF FundFromLedger, funds, Ledger
    <3>2. bal[route.user][InMint(route)] \in Nat /\ (route.ledger => Ledger \in Int)
      BY <3>1, StageFacts DEF Balances
    <3>3. route.ledger => bal[route.user][InMint(route)] = Ledger + effective'
      BY <3>1, <3>2
    <3>4. Ledger' = Ledger /\ InMint(route') = InMint(route)
      BY <3>1 DEF Ledger
    <3> QED
      BY <3>1, <3>3, <3>4 DEF LInv, Paid
  <2>4. CASE PayIn
    <3>1. /\ pc = "payIn" /\ pc' = "legs" /\ UNCHANGED <<ledger, route>>
          /\ route.ledger => bal'[route.user][InMint(route)]
                              = bal[route.user][InMint(route)] - effective
      BY <2>4, PayInEffect
    <3>2. /\ effective \in Nat /\ bal[route.user][InMint(route)] \in Nat
          /\ route.ledger => Ledger \in Int
      BY <3>1, StageFacts DEF Balances
    <3>3. route.ledger => bal[route.user][InMint(route)] = Ledger + effective
      BY <3>1 DEF LInv
    <3>4. route.ledger => bal'[route.user][InMint(route)] >= Ledger
      BY <3>1, <3>2, <3>3
    <3>5. Ledger' = Ledger /\ InMint(route') = InMint(route)
      BY <3>1 DEF Ledger
    <3> QED
      BY <3>1, <3>4, <3>5 DEF LInv
  <2>5. CASE SkipLeg \/ LegsDone \/ Check
    <3>1. pc \in Paid /\ pc' \in Paid /\ UNCHANGED <<bal, ledger, route>>
      BY <2>5 DEF SkipLeg, LegsDone, Check, funds, Paid
    <3>2. bal[route.user][InMint(route)] \in Nat
      BY <3>1, StageFacts DEF Balances, Paid
    <3> QED
      BY <3>1, <3>2, StageKeepsLInv
  <2>6. CASE CallVenue
    <3>1. /\ pc = "legs" /\ pc' = "legs" /\ UNCHANGED <<ledger, route>>
          /\ bal'[route.user][InMint(route)] = bal[route.user][InMint(route)]
      BY <2>6, <2>b, CallVenueEffect
    <3>2. bal[route.user][InMint(route)] \in Nat
      BY <3>1, StageFacts DEF Balances
    <3> QED
      BY <3>1, <3>2, StageKeepsLInv DEF Paid
  <2>7. CASE PayOut
    <3>1. /\ pc = "payOut" /\ pc' = "close" /\ UNCHANGED <<ledger, route>>
          /\ bal'[route.user][InMint(route)] >= bal[route.user][InMint(route)]
      BY <2>7, <2>b, PayOutEffect
    <3>2. bal'[route.user][InMint(route)] \in Nat
      BY <2>a, <2>b, <3>1 DEF Balances
    <3> QED
      BY <3>1, <3>2, StageKeepsLInv DEF Paid
  <2>8. CASE CloseAtas
    <3>1. /\ pc = "close" /\ pc' = "check" /\ UNCHANGED <<ledger, route>>
          /\ bal'[route.user][InMint(route)] = bal[route.user][InMint(route)]
      BY <2>8, <2>b, CloseAtasEffect
    <3>2. bal[route.user][InMint(route)] \in Nat
      BY <3>1, StageFacts DEF Balances
    <3> QED
      BY <3>1, <3>2, StageKeepsLInv DEF Paid
  <2> QED
    BY <2>1, <2>2, <2>3, <2>4, <2>5, <2>6, <2>7, <2>8 DEF Step
<1>4. CASE UNCHANGED vars
  BY <1>4 DEF vars, stage, LInv, Ledger
<1> QED
  BY <1>1, <1>2, <1>3, <1>4 DEF Next

LEMMA InitLedger == Init => LInv
BY DEF Init, Idle, LInv, Paid

\* A route paid from a token ledger leaves the user what the input account held
\* when the ledger was set, although nothing ever consumes the ledger and routes
\* may reuse it (lines 150-158, 356-388).
THEOREM RouteKeepsLedgerFloor == Spec => []LedgerFloor
<1>1. LInv => LedgerFloor
  BY DEF LInv, LedgerFloor, Done, Ledger, Paid
<1>2. Spec => [](TInv /\ LInv)
  BY InitTypes, NextTypes, InitLedger, NextLedger, PTL DEF Spec
<1> QED
  BY <1>1, <1>2, PTL
=============================================================================
