------------------------- MODULE QuotePricingProofs -------------------------
(***************************************************************************)
(* What `bounds' over compute_quote returns, for every width and gap, and  *)
(* whatever the curves, the sizes they fill and the probes are.            *)
(***************************************************************************)
EXTENDS QuotePricing, WellFoundedInduction, TLAPS

\* The search keeps a size at the inner end of a bracket when it was quoted.
ProbesKept ==
    /\ pc = "above" => lowerHigh \in Usable \/ lowerHigh = MAX
    /\ pc = "last" => lowerHigh \in Usable /\ upperLow \in Usable
    /\ pc = "decide" => lowerHigh = MAX \/ (lowerHigh \in Usable /\ upperLow \in Usable)
    /\ pc \in {"refineLower", "refineUpper", "done"} => lowerHigh \in Usable /\ upperLow \in Usable

BoundsInv == market \in Markets /\ ProbesKept

-----------------------------------------------------------------------------
(* Concave curves. *)

\* A set of naturals has a least one.
LEMMA Least ==
    ASSUME NEW B, B \subseteq Nat, B # {}
    PROVE  \E n \in B : \A k \in B : ~ (k < n)
<1>1. IsWellFoundedOn(OpToRel(<, Nat), Nat)
  BY NatLessThanWellFounded
<1>2. PICK n \in B : \A k \in B : ~ (<<k, n>> \in OpToRel(<, Nat))
  BY <1>1, WFMin
<1>3. \A k \in B : ~ (k < n)
  BY <1>2 DEF OpToRel
<1> QED
  BY <1>3

\* A curve each of whose atoms moves it no more than the one before.
IsConcave(c) == \A x, y \in 0 .. MAX - 1 : x < y => c[y + 1] - c[y] <= c[x + 1] - c[x]
Rise(c, x) == c[x + 1] - c[x]

\* Products are ordered as their factors are.
LEMMA Monotone ==
    ASSUME NEW a \in Int, NEW b \in Int, NEW k \in Nat, a <= b
    PROVE  a * k <= b * k
OBVIOUS

LEMMA Cancels ==
    ASSUME NEW a \in Int, NEW b \in Int, NEW k \in Nat, k > 0, a * k <= b * k
    PROVE  a <= b
OBVIOUS

\* Over equal widths a concave curve rises less the later they begin.
LEMMA EqualWidths ==
    ASSUME NEW c \in [Sizes -> Int], IsConcave(c), NEW x \in Sizes, NEW y \in Sizes, x <= y,
           NEW n \in Nat, y + n <= MAX
    PROVE  c[y + n] - c[y] <= c[x + n] - c[x]
<1> DEFINE Bad(k) == ~ (c[y + k] - c[y] <= c[x + k] - c[x])
           B == {k \in Nat : y + k <= MAX /\ Bad(k)}
<1> SUFFICES ASSUME B # {} PROVE FALSE
  OBVIOUS
<1>1. MAX \in Nat /\ x \in Nat /\ y \in Nat
  BY PricingAssumption DEF Sizes
<1>2. PICK k \in B : \A j \in B : ~ (j < k)
  <2>1. B \subseteq Nat
    OBVIOUS
  <2> HIDE DEF B
  <2> QED
    BY <2>1, Least
<1>3. k \in Nat /\ y + k <= MAX /\ Bad(k)
  BY <1>2
<1>4. k # 0
  BY <1>1, <1>3 DEF Sizes
<1> DEFINE j == k - 1
<1>5. j \in Nat /\ k = j + 1 /\ y + j <= MAX
  BY <1>1, <1>3, <1>4
<1>6. ~ Bad(j)
  BY <1>2, <1>5
<1>7. /\ x + j \in 0 .. MAX - 1 /\ y + j \in 0 .. MAX - 1
      /\ x \in Sizes /\ y \in Sizes /\ x + j \in Sizes /\ y + j \in Sizes
      /\ (x + j) + 1 \in Sizes /\ (y + j) + 1 \in Sizes
  BY <1>1, <1>3, <1>5 DEF Sizes
<1>8. c[(y + j) + 1] - c[y + j] <= c[(x + j) + 1] - c[x + j]
  <2>1. x + j < y + j \/ x = y
    BY <1>1, <1>5
  <2> QED
    BY <1>7, <2>1 DEF IsConcave
<1>9. /\ c[x] \in Int /\ c[y] \in Int /\ c[x + j] \in Int /\ c[y + j] \in Int
      /\ c[(x + j) + 1] \in Int /\ c[(y + j) + 1] \in Int
  BY <1>7
<1>10. c[(y + j) + 1] - c[y] <= c[(x + j) + 1] - c[x]
  BY <1>6, <1>8, <1>9
<1>11. (y + j) + 1 = y + k /\ (x + j) + 1 = x + k
  BY <1>1, <1>5
<1> QED
  BY <1>3, <1>10, <1>11

\* Ahead of a point a concave curve is below its tangent.
LEMMA Ahead ==
    ASSUME NEW c \in [Sizes -> Int], IsConcave(c), NEW x \in 0 .. MAX - 1,
           NEW n \in Nat, x + n <= MAX
    PROVE  c[x + n] - c[x] <= n * Rise(c, x)
<1> DEFINE r == Rise(c, x)
           Bad(k) == ~ (c[x + k] - c[x] <= k * r)
           B == {k \in Nat : x + k <= MAX /\ Bad(k)}
<1> SUFFICES ASSUME B # {} PROVE FALSE
  OBVIOUS
<1>1. MAX \in Nat /\ x \in Nat /\ x \in Sizes /\ x + 1 \in Sizes
  BY PricingAssumption DEF Sizes
<1>2. r \in Int
  BY <1>1 DEF Rise
<1>3. PICK k \in B : \A j \in B : ~ (j < k)
  <2>1. B \subseteq Nat
    OBVIOUS
  <2> HIDE DEF B
  <2> QED
    BY <2>1, Least
<1>4. k \in Nat /\ x + k <= MAX /\ Bad(k)
  BY <1>3
<1>5. k # 0
  <2>1. c[x + 0] - c[x] <= 0 /\ 0 * r = 0
    BY <1>1, <1>2
  <2> QED
    BY <1>4, <2>1
<1> DEFINE j == k - 1
<1>6. j \in Nat /\ k = j + 1 /\ x + j <= MAX
  BY <1>1, <1>4, <1>5
<1>7. ~ Bad(j)
  BY <1>3, <1>6
<1>8. x + j \in 0 .. MAX - 1 /\ x + j \in Sizes /\ (x + j) + 1 \in Sizes
  BY <1>1, <1>4, <1>6 DEF Sizes
<1>9. c[(x + j) + 1] - c[x + j] <= r
  <2>1. x < x + j \/ x + j = x
    BY <1>1, <1>6
  <2> QED
    BY <1>1, <1>8, <2>1 DEF IsConcave, Rise
<1>10. c[x] \in Int /\ c[x + j] \in Int /\ c[(x + j) + 1] \in Int
  BY <1>1, <1>8
<1>11. (x + j) + 1 = x + k
  BY <1>1, <1>6
<1> HIDE DEF r
<1>12. k * r = j * r + r /\ j * r \in Int
  BY <1>2, <1>6
<1> QED
  BY <1>2, <1>4, <1>7, <1>9, <1>10, <1>11, <1>12

\* So it is behind a point.
LEMMA Behind ==
    ASSUME NEW c \in [Sizes -> Int], IsConcave(c), NEW v \in 1 .. MAX,
           NEW n \in Nat, n <= v
    PROVE  n * Rise(c, v - 1) <= c[v] - c[v - n]
<1> DEFINE r == Rise(c, v - 1)
           Bad(k) == ~ (k * r <= c[v] - c[v - k])
           B == {k \in Nat : k <= v /\ Bad(k)}
<1> SUFFICES ASSUME B # {} PROVE FALSE
  OBVIOUS
<1>1. MAX \in Nat /\ v \in Nat /\ v \in Sizes /\ v - 1 \in 0 .. MAX - 1 /\ v - 1 \in Sizes /\ (v - 1) + 1 = v
  BY PricingAssumption DEF Sizes
<1>2. r \in Int /\ r = c[v] - c[v - 1]
  BY <1>1 DEF Rise
<1>3. PICK k \in B : \A j \in B : ~ (j < k)
  <2>1. B \subseteq Nat
    OBVIOUS
  <2> HIDE DEF B
  <2> QED
    BY <2>1, Least
<1>4. k \in Nat /\ k <= v /\ Bad(k)
  BY <1>3
<1>5. k # 0
  <2>1. 0 <= c[v] - c[v - 0] /\ 0 * r = 0
    BY <1>1, <1>2
  <2> QED
    BY <1>4, <2>1
<1> DEFINE j == k - 1
<1>6. j \in Nat /\ k = j + 1 /\ j <= v
  BY <1>1, <1>4, <1>5
<1>7. ~ Bad(j)
  BY <1>3, <1>6
<1>8. v - k \in 0 .. MAX - 1 /\ v - k \in Sizes /\ (v - k) + 1 = v - j /\ v - j \in Sizes
  BY <1>1, <1>4, <1>6 DEF Sizes
<1>9. r <= c[v - j] - c[v - k]
  <2>1. v - k < v - 1 \/ v - k = v - 1
    BY <1>1, <1>4, <1>6
  <2> QED
    BY <1>1, <1>2, <1>8, <2>1 DEF IsConcave
<1>10. c[v] \in Int /\ c[v - j] \in Int /\ c[v - k] \in Int
  BY <1>1, <1>8
<1> HIDE DEF r
<1>11. k * r = j * r + r /\ j * r \in Int
  BY <1>2, <1>6
<1> QED
  BY <1>2, <1>4, <1>7, <1>9, <1>10, <1>11

\* Of two chords that do not overlap the later one is not steeper.
LEMMA Chords ==
    ASSUME NEW c \in [Sizes -> Int], IsConcave(c), NEW u \in Sizes, NEW v \in Sizes,
           NEW x \in Sizes, NEW y \in Sizes, u < v, v <= x, x < y
    PROVE  (c[y] - c[x]) * (v - u) <= (c[v] - c[u]) * (y - x)
<1> DEFINE w == v - u
           h == y - x
           later == c[y] - c[x]
           early == c[v] - c[u]
           s == Rise(c, x)
           r == Rise(c, v - 1)
<1>1. /\ MAX \in Nat /\ u \in Nat /\ v \in Nat /\ x \in Nat /\ y \in Nat
      /\ w \in Nat /\ h \in Nat /\ v \in 1 .. MAX /\ x \in 0 .. MAX - 1 /\ v - 1 \in 0 .. MAX - 1
      /\ x + h = y /\ v - w = u /\ x + h <= MAX /\ w <= v /\ (v - 1) + 1 = v /\ v - 1 < x
  BY PricingAssumption DEF Sizes
<1>2. later <= h * s
  BY <1>1, Ahead
<1>3. w * r <= early
  BY <1>1, Behind
<1>4. s <= r
  BY <1>1 DEF IsConcave, Rise
<1>5. later \in Int /\ early \in Int /\ s \in Int /\ r \in Int
  BY <1>1 DEF Rise, Sizes
<1> HIDE DEF w, h, later, early, s, r
<1>6. s * h <= r * h
  BY <1>1, <1>4, <1>5, Monotone
<1>7. later <= r * h
  BY <1>1, <1>2, <1>5, <1>6
<1>8. later * w <= (r * h) * w
  BY <1>1, <1>5, <1>7, Monotone
<1>9. (w * r) * h <= early * h
  BY <1>1, <1>3, <1>5, Monotone
<1>10. (w * r) * h = (r * h) * w
  BY <1>1, <1>5
<1>11. later * w <= early * h
  BY <1>1, <1>5, <1>8, <1>9, <1>10
<1> QED
  BY <1>11 DEF w, h, later, early

\* The chord over a first part of an interval is at least as steep as the
\* chord over the whole, and the chord over a last part at most as steep.
LEMMA ChordFirst ==
    ASSUME NEW c \in [Sizes -> Int], IsConcave(c), NEW u \in Sizes, NEW v \in Sizes,
           NEW b \in Sizes, u < v, v <= b
    PROVE  (c[b] - c[u]) * (v - u) <= (c[v] - c[u]) * (b - u)
<1> DEFINE w == v - u
           h == b - v
           later == c[b] - c[v]
           early == c[v] - c[u]
           all == c[b] - c[u]
           width == b - u
<1>1. /\ w \in Nat /\ h \in Nat /\ later \in Int /\ early \in Int
      /\ width = h + w /\ all = later + early
  BY PricingAssumption DEF Sizes
<1>2. later * w <= early * h
  <2>1. CASE v < b
    <3>1. v <= v
      BY PricingAssumption DEF Sizes
    <3> QED
      BY <2>1, <3>1, Chords
  <2>2. CASE v = b
    <3>1. later = 0 /\ h = 0
      BY <2>2, PricingAssumption DEF Sizes
    <3> HIDE DEF w, h, later, early
    <3> QED
      BY <1>1, <3>1
  <2> QED
    BY <2>1, <2>2, PricingAssumption DEF Sizes
<1> HIDE DEF w, h, later, early, all, width
<1>3. all * w = later * w + early * w /\ early * width = early * h + early * w
  BY <1>1
<1>4. later * w \in Int /\ early * w \in Int /\ early * h \in Int
  BY <1>1
<1>5. all * w <= early * width
  BY <1>2, <1>3, <1>4
<1> QED
  BY <1>5 DEF w, early, all, width

LEMMA ChordLast ==
    ASSUME NEW c \in [Sizes -> Int], IsConcave(c), NEW a \in Sizes, NEW x \in Sizes,
           NEW b \in Sizes, a <= x, x < b
    PROVE  (c[b] - c[x]) * (b - a) <= (c[b] - c[a]) * (b - x)
<1> DEFINE w == x - a
           h == b - x
           later == c[b] - c[x]
           early == c[x] - c[a]
           all == c[b] - c[a]
           width == b - a
<1>1. /\ w \in Nat /\ h \in Nat /\ later \in Int /\ early \in Int
      /\ width = h + w /\ all = later + early
  BY PricingAssumption DEF Sizes
<1>2. later * w <= early * h
  <2>1. CASE a < x
    <3>1. x <= x
      BY PricingAssumption DEF Sizes
    <3> QED
      BY <2>1, <3>1, Chords
  <2>2. CASE a = x
    <3>1. early = 0 /\ w = 0
      BY <2>2, PricingAssumption DEF Sizes
    <3> HIDE DEF w, h, later, early
    <3> QED
      BY <1>1, <3>1
  <2> QED
    BY <2>1, <2>2, PricingAssumption DEF Sizes
<1> HIDE DEF w, h, later, early, all, width
<1>3. all * h = later * h + early * h /\ later * width = later * h + later * w
  BY <1>1
<1>4. later * h \in Int /\ later * w \in Int /\ early * h \in Int
  BY <1>1
<1>5. later * width <= all * h
  BY <1>2, <1>3, <1>4
<1> QED
  BY <1>5 DEF h, later, all, width

\* Chords that compare in parts compare in whole atoms, up to an atom in each
\* quantity.
LEMMA Truncated ==
    ASSUME NEW S \in Nat \ {0}, NEW P \in Int, NEW C \in Int, NEW D \in Int, NEW E \in Int,
           NEW w \in Nat, NEW h \in Nat,
           S * P <= D + S - 1, E <= S * C + S - 1, D * w <= E * h
    PROVE  P * w <= C * h + h + w
<1> DEFINE sp == S * P
           sc == S * C
           dw == D * w
           eh == E * h
           pw == P * w
           ch == C * h
           sw == S * w
           sh == S * h
<1>1. /\ sp \in Int /\ sc \in Int /\ dw \in Int /\ eh \in Int /\ pw \in Int /\ ch \in Int
      /\ sw \in Nat /\ sh \in Nat
  OBVIOUS
<1>2. sp * w <= (D + S - 1) * w /\ E * h <= (sc + S - 1) * h
  BY <1>1, Monotone
<1>3. sp * w = pw * S /\ sc * h = ch * S
  OBVIOUS
<1>4. (D + S - 1) * w = dw + sw - w /\ (sc + S - 1) * h = sc * h + sh - h
  OBVIOUS
<1>5. pw * S <= dw + sw - w /\ eh <= ch * S + sh - h
  BY <1>2, <1>3, <1>4
<1>6. dw <= eh
  OBVIOUS
<1>7. (ch + h + w) * S = ch * S + sh + sw
  OBVIOUS
<1>8. pw * S \in Int /\ ch * S \in Int /\ (ch + h + w) * S \in Int
  OBVIOUS
<1> HIDE DEF sp, sc, dw, eh, pw, ch, sw, sh
<1>9. pw * S <= (ch + h + w) * S
  <2> DEFINE l == pw * S
             r == ch * S
             t == (ch + h + w) * S
  <2>1. l \in Int /\ r \in Int /\ t \in Int
    BY <1>8
  <2>2. l <= dw + sw - w /\ eh <= r + sh - h /\ t = r + sh + sw
    BY <1>5, <1>7
  <2> HIDE DEF l, r, t
  <2>3. l <= t
    BY <1>1, <1>6, <2>1, <2>2
  <2> QED
    BY <2>3 DEF l, t
<1>10. pw <= ch + h + w
  BY <1>1, <1>9, Cancels
<1> QED
  BY <1>10 DEF pw, ch

-----------------------------------------------------------------------------
(* The quote. *)

\* The VM's answers are whole atoms.
LEMMA OutIsNat ==
    ASSUME NEW m \in Markets, NEW side \in Sides, NEW x
    PROVE  SimulateOut(m, side, x) \in Nat
<1>1. Scale \in Nat \ {0} /\ m \in MarketType
  BY PricingAssumption
<1>2. ASSUME x \in m.fills[side] PROVE m.curve[side][x] \in Nat
  BY <1>1, <1>2 DEF MarketType
<1>3. \A n \in Nat : n \div Scale \in Nat
  BY <1>1
<1> QED
  BY <1>2, <1>3 DEF SimulateOut, Refused

\* Whichever chord is reported, its rise is positive: the next step moves the
\* output, or the last one did, or the average does.
LEMMA MarginalPositive ==
    ASSUME NEW m \in Markets, NEW side \in Sides, NEW a, NEW out \in Nat, out > 0
    PROVE  Marginal(m, side, a, out)[1] > 0
<1> DEFINE h == Step(m, side)
           up == SimulateOut(m, side, SatAdd(a, h))
           down == SimulateOut(m, side, SatSub(a, h))
<1>1. up \in Nat /\ down \in Nat
  BY OutIsNat
<1>2. Marginal(m, side, a, out) = CASE up > out -> <<up - out, h>>
          [] up <= out /\ down # Refused /\ out > down -> <<out - down, h>>
          [] OTHER -> <<out, a>>
  BY DEF Marginal
<1> HIDE DEF up, down, h
<1>3. CASE up > out
  BY <1>1, <1>2, <1>3
<1>4. CASE up <= out /\ down # Refused /\ out > down
  BY <1>1, <1>2, <1>4
<1>5. CASE ~ (up > out) /\ ~ (up <= out /\ down # Refused /\ out > down)
  BY <1>1, <1>2, <1>5
<1> QED
  BY <1>3, <1>4, <1>5

\* A quote in full is a live venue's, of what the VM pays for the amount, at
\* the marginal price there.
LEMMA ValidIsFilled ==
    ASSUME NEW m \in Markets, NEW in, NEW out, NEW x \in Sizes,
           ValidQuote(QuoteOf(m, Request(in, out, x)))
    PROVE  LET r == Request(in, out, x)
               side == SideOf(r)
               n == SimulateOut(m, side, x)
           IN  /\ m.live /\ side \in Sides /\ x # 0 /\ n \in Nat /\ n > 0
               /\ QuoteOf(m, r).out = n
               /\ QuoteOf(m, r).price = Marginal(m, side, x, n)
<1> DEFINE r == Request(in, out, x)
           side == SideOf(r)
           n == SimulateOut(m, side, x)
<1>1. r.exactIn = TRUE /\ r.amount = x /\ x \in Nat
  BY PricingAssumption DEF Request, Sizes
<1>2. side \in Sides \cup {"none"}
  BY DEF SideOf, Sides
<1>3. m.live \in BOOLEAN
  BY PricingAssumption DEF MarketType
<1>4. QuoteOf(m, r).err = "" /\ ~ QuoteOf(m, r).short /\ QuoteOf(m, r).out > 0
  BY DEF ValidQuote
<1> HIDE DEF r
<1>6. side # "none"
  <2> SUFFICES ASSUME side = "none" PROVE FALSE
    OBVIOUS
  <2>1. QuoteOf(m, r) = Err("InvalidMint")
    BY <1>1 DEF QuoteOf
  <2> QED
    BY <1>4, <2>1 DEF Err
<1>7. m.live
  <2> SUFFICES ASSUME ~ m.live PROVE FALSE
    OBVIOUS
  <2>1. QuoteOf(m, r) = Err("NotInitialized")
    BY <1>1, <1>6 DEF QuoteOf, Gate
  <2> QED
    BY <1>4, <2>1 DEF Err
<1>8. QuoteOf(m, r) = CASE x = 0 -> Ok(0, FALSE, Spot(m, side))
                        [] x > 0 /\ n = Refused -> Ok(0, TRUE, Zero)
                        [] OTHER -> Ok(n, FALSE, Marginal(m, side, x, n))
  BY <1>1, <1>6, <1>7 DEF QuoteOf, Gate
<1> HIDE DEF side, n
<1>9. x # 0 /\ n # Refused
  <2>1. \A p : Ok(0, FALSE, p).out = 0 /\ Ok(0, TRUE, p).out = 0
    BY DEF Ok
  <2>2. x = 0 => QuoteOf(m, r) = Ok(0, FALSE, Spot(m, side))
    BY <1>1, <1>8
  <2>3. x > 0 /\ n = Refused => QuoteOf(m, r) = Ok(0, TRUE, Zero)
    BY <1>1, <1>8
  <2>4. QuoteOf(m, r).out > 0
    BY <1>4
  <2>5. QuoteOf(m, r).out # 0
    BY <2>4
  <2>6. x # 0
    BY <2>1, <2>2, <2>5, Zenon
  <2>7. x > 0
    BY <1>1, <2>6
  <2>8. n # Refused
    BY <2>1, <2>3, <2>5, <2>7, Zenon
  <2> QED
    BY <2>6, <2>8
<1>10. n \in Nat /\ n > 0
  BY <1>2, <1>6, <1>9, OutIsNat DEF n, Refused
<1>11. QuoteOf(m, r).out = n /\ QuoteOf(m, r).price = Marginal(m, side, x, n)
  <2>1. QuoteOf(m, r) = Ok(n, FALSE, Marginal(m, side, x, n))
    BY <1>1, <1>8, <1>9
  <2>2. \A p : Ok(n, FALSE, p).out = n /\ Ok(n, FALSE, p).price = p
    BY DEF Ok
  <2> QED
    BY <2>1, <2>2
<1> QED
  BY <1>2, <1>6, <1>7, <1>9, <1>10, <1>11 DEF r, side, n

\* A quote in full is a live venue's, and its price is positive.
LEMMA ValidIsPriced ==
    ASSUME NEW m \in Markets, NEW in, NEW out, NEW x \in Sizes,
           ValidQuote(QuoteOf(m, Request(in, out, x)))
    PROVE  m.live /\ QuoteOf(m, Request(in, out, x)).price[1] > 0
<1> DEFINE r == Request(in, out, x)
           side == SideOf(r)
           n == SimulateOut(m, side, x)
<1>1. /\ m.live /\ side \in Sides /\ n \in Nat /\ n > 0
      /\ QuoteOf(m, r).price = Marginal(m, side, x, n)
  BY ValidIsFilled
<1> HIDE DEF side, n, r
<1> QED
  BY <1>1, MarginalPositive DEF r

\* The sizes that the search may keep are quoted in full.
LEMMA UsableIsPriced ==
    ASSUME market \in Markets, NEW x \in Usable
    PROVE  x \in Sizes /\ ValidQuote(At(x)) /\ Price(x)[1] > 0 /\ market.live
<1>1. x \in Sizes /\ ValidQuote(At(x))
  BY DEF Usable
<1> QED
  BY <1>1, ValidIsPriced DEF At, Price

-----------------------------------------------------------------------------
(* The marginal price. *)

\* The curve of the side that is quoted, and what it pays in whole atoms.
Curve == market.curve[Side]
Paid(x) == SimulateOut(market, Side, x)

\* An amount that is not refused is filled, with the whole atoms of the curve.
LEMMA SimulatedWhole ==
    ASSUME market \in Markets, Side \in Sides, NEW x, SimulateOut(market, Side, x) # Refused
    PROVE  LET n == SimulateOut(market, Side, x)
           IN  /\ x \in Sizes /\ x # 0 /\ n \in Nat /\ n > 0
               /\ Scale * n <= Curve[x] /\ Curve[x] <= Scale * n + Scale - 1
<1> DEFINE side == Side
           n == SimulateOut(market, side, x)
           y == market.curve[side][x]
<1>1. Scale \in Nat \ {0} /\ market \in MarketType /\ side \in Sides
  BY PricingAssumption
<1>2. n # Refused /\ n \in Nat
  BY <1>1, OutIsNat
<1>3. y = Curve[x]
  BY DEF Curve
<1> HIDE DEF side
<1>4. x \in market.fills[side]
  BY <1>2 DEF SimulateOut
<1>5. market.fills[side] \in SUBSET (Sizes \ {0}) /\ market.curve[side] \in [Sizes -> Nat]
  BY <1>1 DEF MarketType
<1>6. x \in Sizes /\ x # 0 /\ y \in Nat
  BY <1>4, <1>5
<1>7. n = y \div Scale
  BY <1>4 DEF SimulateOut
<1> HIDE DEF y, n
<1>8. Scale * n <= y /\ y <= Scale * n + Scale - 1
  BY <1>1, <1>6, <1>7
<1>9. n > 0
  BY <1>2 DEF Refused
<1> QED
  BY <1>2, <1>3, <1>6, <1>8, <1>9 DEF n, side

\* The sizes the search may keep: what they pay, and how they are priced.
LEMMA UsableQuote ==
    ASSUME market \in Markets, NEW x \in Usable
    PROVE  /\ market.live /\ Side \in Sides
           /\ Out(x) = SimulateOut(market, Side, x)
           /\ Price(x) = Marginal(market, Side, x, Out(x))
           /\ Out(x) # Refused
<1> DEFINE in == market.tokens[pair[1]]
           out == market.tokens[pair[2]]
           r == Request(in, out, x)
<1>1. x \in Sizes /\ ValidQuote(QuoteOf(market, r))
  BY DEF Usable, At
<1>2. Side = SideOf(r)
  BY DEF Side, SideOf, Request
<1>3. Out(x) = QuoteOf(market, r).out /\ Price(x) = QuoteOf(market, r).price
  BY DEF Out, Price, At
<1> HIDE DEF in, out
<1>4. LET side == SideOf(r)
          n == SimulateOut(market, side, x)
      IN  /\ market.live /\ side \in Sides /\ x # 0 /\ n \in Nat /\ n > 0
          /\ QuoteOf(market, r).out = n
          /\ QuoteOf(market, r).price = Marginal(market, side, x, n)
  BY <1>1, ValidIsFilled
<1> HIDE DEF r
<1> QED
  BY <1>2, <1>3, <1>4 DEF Refused

\* The step is an atom at least.
LEMMA StepPositive ==
    ASSUME market \in Markets, Side \in Sides
    PROVE  H \in Nat /\ H > 0
<1> DEFINE side == Side
<1>1. side \in Sides
  OBVIOUS
<1>2. H = Step(market, side)
  BY DEF H
<1> HIDE DEF side
<1>3. market.probe[side] \in Nat
  BY <1>1, PricingAssumption DEF MarketType, Sizes
<1> QED
  BY <1>2, <1>3 DEF Step

\* The curve counts parts of an atom; SimulateOut's are whole.
LEMMA CurveType ==
    ASSUME market \in Markets, Side \in Sides
    PROVE  Curve \in [Sizes -> Int] /\ (\A x \in Sizes : Curve[x] \in Nat)
           /\ (Concave => IsConcave(Curve))
<1>1. Curve \in [Sizes -> Nat]
  <2> DEFINE side == Side
  <2>1. side \in Sides
    OBVIOUS
  <2>2. Curve = market.curve[side]
    BY DEF Curve
  <2> HIDE DEF side
  <2> QED
    BY <2>1, <2>2, PricingAssumption DEF MarketType
<1>2. \A x \in 0 .. MAX - 1 : Slope(x) = Curve[x + 1] - Curve[x]
  BY DEF Slope, Curve
<1>3. Concave => IsConcave(Curve)
  BY <1>2 DEF Concave, IsConcave
<1> QED
  BY <1>1, <1>3

\* Which chord a price is: over the step ahead, cut at u64::MAX; over the step
\* behind; or the average from zero.
PricedAhead(x) ==
    \E y \in Sizes :
        /\ x < y /\ y <= x + H /\ (y = x + H \/ (y = MAX /\ MAX < x + H))
        /\ Paid(x) < Paid(y) /\ Price(x) = <<Paid(y) - Paid(x), H>>
NotAhead(x) == ~ (Paid(SatAdd(x, H)) > Paid(x))
MovedBehind(x) == x > H /\ Paid(x - H) # Refused /\ Paid(x) > Paid(x - H)
PricedBehind(x) == NotAhead(x) /\ MovedBehind(x) /\ Price(x) = <<Paid(x) - Paid(x - H), H>>
PricedAverage(x) == NotAhead(x) /\ ~ MovedBehind(x) /\ Price(x) = <<Paid(x), x>>

\* The three chords of a marginal price, and when each is taken.
LEMMA ThreeChords ==
    ASSUME market \in Markets, NEW x \in Usable
    PROVE  PricedAhead(x) \/ PricedBehind(x) \/ PricedAverage(x)
<1> DEFINE u == SatAdd(x, H)
           d == SatSub(x, H)
           up == Paid(u)
           down == Paid(d)
           n == Paid(x)
<1>1. /\ Side \in Sides /\ H \in Nat /\ H > 0 /\ x \in Nat /\ x <= MAX /\ MAX \in Nat
      /\ n # Refused /\ Price(x) = Marginal(market, Side, x, n)
  BY UsableQuote, StepPositive, PricingAssumption DEF Paid, Usable, Sizes
<1>2. Price(x) = CASE up > n -> <<up - n, H>>
          [] up <= n /\ down # Refused /\ n > down -> <<n - down, H>>
          [] OTHER -> <<n, x>>
  BY <1>1 DEF Marginal, H, Paid
<1>3. \A z : Paid(z) \in Nat
  BY <1>1, OutIsNat DEF Paid
<1>4. H \in Nat /\ H > 0 /\ x \in Nat /\ x <= MAX /\ MAX \in Nat
  BY <1>1
<1>5. up \in Nat /\ n \in Nat /\ down \in Nat
  BY <1>3
<1>6. CASE up > n
  <2>1. Price(x) = <<up - n, H>>
    <3> HIDE DEF up, n, down
    <3> QED
      BY <1>2, <1>5, <1>6
  <2>2. (u = x + H /\ x + H <= MAX) \/ (u = MAX /\ MAX < x + H)
    BY <1>4 DEF SatAdd
  <2>3. n \in Nat /\ up \in Nat
    BY <1>3
  <2>4. u # x /\ n < up
    <3>1. n # up
      BY <1>6, <2>3
    <3> QED
      BY <1>6, <2>3, <3>1
  <2>5. x < u /\ u <= x + H /\ u \in Sizes
    <3> HIDE DEF u
    <3> QED
      BY <1>1, <2>2, <2>4 DEF Sizes
  <2> HIDE DEF u
  <2> QED
    BY <2>1, <2>2, <2>4, <2>5 DEF PricedAhead
<1>7. CASE ~ (up > n)
  <2>1. NotAhead(x)
    BY <1>7 DEF NotAhead
  <2>2. Paid(0) = Refused
    <3> DEFINE side == Side
    <3>1. market.fills[side] \in SUBSET (Sizes \ {0})
      BY <1>1, PricingAssumption DEF MarketType
    <3>2. 0 \notin market.fills[side]
      BY <3>1
    <3> QED
      BY <3>2 DEF Paid, SimulateOut
  <2>3. (down # Refused /\ n > down) <=> MovedBehind(x)
    <3>1. CASE x > H
      BY <1>1, <3>1 DEF SatSub, MovedBehind
    <3>2. CASE ~ (x > H)
      BY <1>1, <2>2, <3>2 DEF SatSub, MovedBehind
    <3> QED
      BY <3>1, <3>2
  <2>4. up <= n
    BY <1>3, <1>7
  <2>5. CASE MovedBehind(x)
    <3>1. d = x - H
      BY <1>1, <2>5 DEF MovedBehind, SatSub
    <3>2. Price(x) = <<n - down, H>>
      BY <1>2, <1>7, <2>3, <2>4, <2>5
    <3> QED
      BY <2>1, <2>5, <3>1, <3>2 DEF PricedBehind
  <2>6. CASE ~ MovedBehind(x)
    <3>1. Price(x) = <<n, x>>
      BY <1>2, <1>7, <2>3, <2>6
    <3> QED
      BY <2>1, <2>6, <3>1 DEF PricedAverage
  <2> QED
    BY <2>5, <2>6
<1> QED
  BY <1>6, <1>7

\* On a measurable curve the chord ahead is taken wherever the size a step
\* ahead is quoted, and the average nowhere that the size a step behind is.
LEMMA MeasuredAhead ==
    ASSUME market \in Markets, Measurable, NEW x \in Usable, x + H \in Usable
    PROVE  Paid(x + H) > Paid(x) /\ ~ NotAhead(x)
<1>1. /\ Out(x) = Paid(x) /\ Out(x + H) = Paid(x + H) /\ x + H \in Sizes
  BY UsableQuote DEF Paid, Usable
<1>2. Out(x + H) > Out(x)
  BY DEF Measurable
<1>3. /\ Side \in Sides /\ H \in Nat
  BY UsableQuote, StepPositive
<1>4. SatAdd(x, H) = x + H
  BY <1>1, <1>3, PricingAssumption DEF SatAdd, Sizes, Usable
<1> QED
  BY <1>1, <1>2, <1>4 DEF NotAhead

LEMMA MeasuredBehind ==
    ASSUME market \in Markets, Measurable, NEW x \in Usable, x > H, x - H \in Usable
    PROVE  MovedBehind(x)
<1> DEFINE y == x - H
<1>1. /\ Side \in Sides /\ H \in Nat /\ x \in Nat
  BY UsableQuote, StepPositive, PricingAssumption DEF Usable, Sizes
<1>2. y + H = x /\ y \in Usable
  BY <1>1
<1> HIDE DEF y
<1>3. Out(x) > Out(y)
  BY <1>2 DEF Measurable
<1>4. Out(x) = Paid(x) /\ Out(y) = Paid(y) /\ Out(y) # Refused
  BY <1>2, UsableQuote DEF Paid
<1> QED
  BY <1>3, <1>4 DEF MovedBehind, y

\* What a quote sees of a rise of the curve: whole atoms, one off at most.
LEMMA RiseWhole ==
    ASSUME market \in Markets, Side \in Sides, NEW x, NEW y,
           Paid(x) # Refused, Paid(y) # Refused
    PROVE  LET C == Paid(y) - Paid(x)
               E == Curve[y] - Curve[x]
           IN  /\ Paid(x) \in Nat /\ Paid(y) \in Nat /\ C \in Int /\ E \in Int
               /\ x \in Sizes /\ y \in Sizes
               /\ Scale * C <= E + Scale - 1 /\ E <= Scale * C + Scale - 1
               /\ (C > 0 => E > 0)
<1> DEFINE m == Paid(x)
           n == Paid(y)
           k == Curve[x]
           l == Curve[y]
<1>1. /\ m \in Nat /\ Scale * m <= k /\ k <= Scale * m + Scale - 1 /\ x \in Sizes
      /\ n \in Nat /\ Scale * n <= l /\ l <= Scale * n + Scale - 1 /\ y \in Sizes
  BY SimulatedWhole DEF Paid
<1>2. k \in Nat /\ l \in Nat /\ Scale \in Nat \ {0}
  BY <1>1, CurveType, PricingAssumption
<1> HIDE DEF m, n, k, l
<1>3. Scale * (n - m) = Scale * n - Scale * m /\ Scale * n \in Nat /\ Scale * m \in Nat
  BY <1>1, <1>2
<1>4. Scale * (n - m) <= (l - k) + Scale - 1 /\ l - k <= Scale * (n - m) + Scale - 1
  BY <1>1, <1>2, <1>3
<1>5. n - m > 0 => l - k > 0
  <2> SUFFICES ASSUME n - m > 0 PROVE l - k > 0
    OBVIOUS
  <2>1. 1 * Scale <= (n - m) * Scale
    BY <1>1, <1>2, Monotone
  <2>2. Scale <= Scale * (n - m)
    BY <1>1, <1>2, <2>1
  <2> QED
    BY <1>1, <1>2, <1>3, <1>4, <2>2
<1>6. n - m \in Int /\ l - k \in Int
  BY <1>1, <1>2
<1> QED
  BY <1>1, <1>4, <1>5, <1>6 DEF m, n, k, l

\* The chord ahead of a is at least as steep as any that starts there.
LEMMA NotBelowChord ==
    ASSUME market \in Markets, Measurable, NEW a \in Usable, NEW b \in Usable,
           a + H \in Usable, a + H <= b
    PROVE  \E P \in Int : /\ Price(a) = <<P, H>>
                          /\ (Out(b) - Out(a)) * H <= P * (b - a) + (b - a) + H
<1> DEFINE v == a + H
           P == Paid(v) - Paid(a)
           C == Paid(b) - Paid(a)
           w == b - a
<1>1. /\ Side \in Sides /\ H \in Nat /\ H > 0 /\ Scale \in Nat \ {0}
      /\ a \in Sizes /\ b \in Sizes /\ v \in Sizes /\ MAX \in Nat
      /\ Out(a) = Paid(a) /\ Out(b) = Paid(b)
      /\ Paid(a) # Refused /\ Paid(b) # Refused /\ Paid(v) # Refused
  BY UsableQuote, StepPositive, PricingAssumption DEF Paid, Usable
<1>2. Price(a) = <<P, H>>
  <2>1. PricedAhead(a)
    BY MeasuredAhead, ThreeChords DEF PricedBehind, PricedAverage
  <2>2. PICK y \in Sizes : /\ y = a + H \/ (y = MAX /\ MAX < a + H)
                           /\ Price(a) = <<Paid(y) - Paid(a), H>>
    BY <2>1 DEF PricedAhead
  <2>3. y = v
    BY <1>1, <2>2 DEF Sizes
  <2> HIDE DEF v
  <2> QED
    BY <2>2, <2>3
<1>3. Curve \in [Sizes -> Int] /\ IsConcave(Curve)
  BY <1>1, CurveType DEF Measurable
<1> DEFINE D == Curve[v] - Curve[a]
           E == Curve[b] - Curve[a]
<1>4. /\ P \in Int /\ D \in Int /\ D <= Scale * P + Scale - 1
      /\ C \in Int /\ E \in Int /\ Scale * C <= E + Scale - 1
  BY <1>1, RiseWhole
<1>5. E * (v - a) <= D * (b - a)
  <2>1. a < v /\ v <= b
    BY <1>1 DEF Sizes
  <2> HIDE DEF v
  <2> QED
    BY <1>1, <1>3, <2>1, ChordFirst
<1>6. v - a = H /\ w \in Nat
  BY <1>1 DEF Sizes
<1>7. E * H <= D * w
  BY <1>5, <1>6
<1> HIDE DEF v, P, C, w, D, E
<1>8. C * H <= P * w + w + H
  BY <1>1, <1>4, <1>6, <1>7, Truncated
<1> QED
  BY <1>1, <1>2, <1>4, <1>8 DEF C, w

\* The price at b is at most as steep as any chord of a step or more that ends
\* there, be it the chord ahead, also where u64::MAX cuts it, or behind.
LEMMA NotAboveChord ==
    ASSUME market \in Markets, Measurable, NEW a \in Usable, NEW b \in Usable,
           b - H \in Usable, a <= b - H
    PROVE  \E P \in Int : /\ Price(b) = <<P, H>>
                          /\ P * (b - a) <= (Out(b) - Out(a)) * H + H + (b - a)
<1> DEFINE u == b - H
           C == Paid(b) - Paid(a)
           w == b - a
           E == Curve[b] - Curve[a]
<1>1. /\ Side \in Sides /\ H \in Nat /\ H > 0 /\ Scale \in Nat \ {0}
      /\ a \in Sizes /\ b \in Sizes /\ u \in Sizes /\ MAX \in Nat
      /\ Out(a) = Paid(a) /\ Out(b) = Paid(b)
      /\ Paid(a) # Refused /\ Paid(b) # Refused /\ Paid(u) # Refused
  BY UsableQuote, StepPositive, PricingAssumption DEF Paid, Usable
<1>2. /\ w \in Nat /\ w > 0 /\ a < b /\ a \in Nat /\ b \in Nat /\ H <= w
      /\ b - u = H /\ u < b /\ a <= u
  BY <1>1 DEF Sizes
<1>3. Curve \in [Sizes -> Int] /\ IsConcave(Curve)
  BY <1>1, CurveType DEF Measurable
<1>4. C \in Int /\ E \in Int /\ E <= Scale * C + Scale - 1
  BY <1>1, RiseWhole
<1>5. \E P, D \in Int : Price(b) = <<P, H>> /\ Scale * P <= D + Scale - 1 /\ D * w <= E * H
  <2>1. CASE PricedAhead(b)
    <3>1. PICK y \in Sizes : /\ b < y /\ y <= b + H
                             /\ Paid(b) < Paid(y) /\ Price(b) = <<Paid(y) - Paid(b), H>>
      BY <2>1 DEF PricedAhead
    <3> DEFINE P == Paid(y) - Paid(b)
               D == Curve[y] - Curve[b]
               d == y - b
    <3>2. Paid(b) \in Nat /\ Paid(y) \in Nat
      BY <1>1, OutIsNat DEF Paid
    <3>3. Paid(y) # Refused /\ P > 0
      BY <3>1, <3>2 DEF Refused
    <3>4. P \in Int /\ D \in Int /\ D > 0 /\ Scale * P <= D + Scale - 1
      BY <1>1, <3>3, RiseWhole
    <3>5. D * (b - a) <= E * (y - b)
      BY <1>1, <1>2, <1>3, <3>1, Chords
    <3>6. d \in Nat /\ d <= H /\ d > 0
      BY <1>1, <1>2, <3>1 DEF Sizes
    <3> HIDE DEF P, D, d, E, w
    <3>7. D * w <= E * d
      BY <3>5 DEF d, w
    <3>8. E * d <= E * H
      <4>1. E > 0
        <5> SUFFICES ASSUME E <= 0 PROVE FALSE
          BY <1>4
        <5>1. E * d <= 0 * d
          BY <1>4, <3>6, Monotone
        <5>2. 1 * w <= D * w
          BY <1>2, <3>4, Monotone
        <5>3. E * d \in Int /\ D * w \in Int
          BY <1>2, <1>4, <3>4, <3>6
        <5> QED
          BY <1>2, <3>6, <3>7, <5>1, <5>2, <5>3
      <4>2. d * E <= H * E
        BY <1>1, <1>4, <3>6, <4>1, Monotone
      <4> QED
        BY <1>1, <1>4, <3>6, <4>2
    <3>9. D * w <= E * H
      <4>1. D * w \in Int /\ E * d \in Int /\ E * H \in Int
        BY <1>1, <1>2, <1>4, <3>4, <3>6
      <4> QED
        BY <3>7, <3>8, <4>1
    <3> QED
      BY <3>1, <3>4, <3>9 DEF P
  <2>2. CASE PricedBehind(b)
    <3> DEFINE P == Paid(b) - Paid(u)
               D == Curve[b] - Curve[u]
    <3>1. Price(b) = <<P, H>>
      BY <2>2 DEF PricedBehind
    <3>2. P \in Int /\ D \in Int /\ Scale * P <= D + Scale - 1
      BY <1>1, RiseWhole
    <3>3. D * (b - a) <= E * (b - u)
      <4> HIDE DEF u
      <4> QED
        BY <1>1, <1>2, <1>3, ChordLast
    <3>4. D * w <= E * H
      BY <1>2, <3>3
    <3> HIDE DEF P, D, E, w
    <3> QED
      BY <3>1, <3>2, <3>4
  <2>3. ~ PricedAverage(b)
    <3>1. u # 0
      BY <1>1, SimulatedWhole DEF Paid
    <3>2. b > H
      BY <1>1, <1>2, <3>1 DEF Sizes
    <3> QED
      BY <3>2, MeasuredBehind DEF PricedAverage
  <2> QED
    BY <2>1, <2>2, <2>3, ThreeChords
<1>6. PICK P, D \in Int : Price(b) = <<P, H>> /\ Scale * P <= D + Scale - 1 /\ D * w <= E * H
  BY <1>5
<1> HIDE DEF u, C, w, E
<1>7. P * w <= C * H + H + w
  BY <1>1, <1>2, <1>4, <1>6, Truncated
<1> QED
  BY <1>1, <1>6, <1>7 DEF C, w

\* A price that is one atom per step and one per width above or below a chord,
\* as MeanValue says it of fractions.
LEMMA AsFractions ==
    ASSUME NEW P \in Int, NEW C \in Int, NEW h \in Nat, NEW w \in Nat
    PROVE  /\ P * w <= C * h + h + w => P * w * h * w <= (C * h * w + 1 * w * (h + w)) * h
           /\ C * h <= P * w + w + h => C * h * h * w <= (P * h * w + 1 * h * (h + w)) * w
<1> DEFINE p == P * w
           c == C * h
           k == h * w
<1>1. p \in Int /\ c \in Int /\ k \in Nat
  OBVIOUS
<1>2. P * w * h * w = p * k /\ (C * h * w + 1 * w * (h + w)) * h = (c + h + w) * k
  OBVIOUS
<1>3. C * h * h * w = c * k /\ (P * h * w + 1 * h * (h + w)) * w = (p + w + h) * k
  OBVIOUS
<1>4. p <= c + h + w => p * k <= (c + h + w) * k
  <2> HIDE DEF p, c, k
  <2> QED
    BY <1>1, Monotone
<1>5. c <= p + w + h => c * k <= (p + w + h) * k
  <2> HIDE DEF p, c, k
  <2> QED
    BY <1>1, Monotone
<1> QED
  BY <1>2, <1>3, <1>4, <1>5

\* amount = 0 is quoted at the average over the first probe.
LEMMA SpotQuote ==
    ASSUME market \in Markets, market.live, Side \in Sides, market.probe[Side] \in Usable
    PROVE  H \in Usable /\ Price(0) = <<Out(H), H>>
<1> DEFINE in == market.tokens[pair[1]]
           out == market.tokens[pair[2]]
           r == Request(in, out, 0)
           side == Side
           h == market.probe[side]
<1>1. h \in Usable /\ side \in Sides
  OBVIOUS
<1>2. H = Step(market, side)
  BY DEF H
<1>3. Out(h) = SimulateOut(market, side, h) /\ Out(h) # Refused
  BY <1>1, UsableQuote
<1>4. side = SideOf(r)
  BY DEF Side, SideOf, Request
<1>5. Price(0) = QuoteOf(market, r).price
  BY DEF Price, At
<1>6. r.exactIn = TRUE /\ r.amount = 0
  BY DEF Request
<1> HIDE DEF r, in, out, side
<1>7. h \in Nat /\ h # 0
  <2>1. h \in Nat
    BY <1>1, PricingAssumption DEF Usable, Sizes
  <2>2. h # 0
    BY <1>3, SimulatedWhole DEF side
  <2> QED
    BY <2>1, <2>2
<1>8. H = h
  BY <1>2, <1>7 DEF Step
<1>9. QuoteOf(market, r) = Ok(0, FALSE, Spot(market, side))
  <2>1. side # "none"
    BY <1>1 DEF Sides
  <2>2. QuoteOf(market, r) = CASE 0 = 0 -> Ok(0, FALSE, Spot(market, side))
                        [] 0 > 0 /\ SimulateOut(market, side, 0) = Refused -> Ok(0, TRUE, Zero)
                        [] OTHER -> Ok(SimulateOut(market, side, 0), FALSE,
                                Marginal(market, side, 0, SimulateOut(market, side, 0)))
    BY <1>4, <1>6, <2>1 DEF QuoteOf, Gate
  <2> QED
    BY <2>2
<1>10. Spot(market, side) = <<Out(h), h>>
  <2>1. Spot(market, side) = IF SimulateOut(market, side, h) = Refused THEN Zero
                             ELSE <<SimulateOut(market, side, h), h>>
    BY DEF Spot
  <2> HIDE DEF h
  <2> QED
    BY <1>3, <2>1
<1>11. Price(0) = <<Out(h), h>>
  <2>1. \A p : Ok(0, FALSE, p).price = p
    BY DEF Ok
  <2> QED
    BY <1>5, <1>9, <1>10, <2>1
<1> HIDE DEF h
<1> QED
  BY <1>1, <1>8, <1>11

\* A rise of no more than the first step's is seen as no more, up to an atom.
LEMMA FirstStep ==
    ASSUME NEW S \in Nat \ {0}, NEW P \in Int, NEW n \in Int, NEW D \in Int, NEW k \in Int,
           S * P <= D + S - 1, D <= k, k <= S * n + S - 1
    PROVE  P <= n + 1
<1> DEFINE sp == P * S
           sn == n * S
<1>1. sp \in Int /\ sn \in Int /\ S * P = sp /\ S * n = sn
  OBVIOUS
<1>2. (n + 2) * S = sn + S + S
  OBVIOUS
<1> HIDE DEF sp, sn
<1>3. sp < sn + S + S
  BY <1>1
<1> SUFFICES ASSUME P >= n + 2 PROVE FALSE
  OBVIOUS
<1>4. (n + 2) * S <= P * S
  BY Monotone
<1> QED
  BY <1>1, <1>2, <1>3, <1>4 DEF sp


-----------------------------------------------------------------------------
(* The search. *)

LEMMA BoundsNextInv == BoundsInv /\ [Next]_vars => BoundsInv'
<1> SUFFICES ASSUME BoundsInv, [Next]_vars PROVE BoundsInv'
  OBVIOUS
<1>1. ASSUME NEW i \in 1 .. 2, NEW j \in 1 .. 2, Bounds(i, j) PROVE BoundsInv'
  BY <1>1 DEF Bounds, BoundsInv, ProbesKept
<1>2. CASE UNCHANGED vars
  BY <1>2 DEF vars, searchVars, BoundsInv, ProbesKept, Usable, At
<1>3. CASE Again
  BY <1>3 DEF Again, BoundsInv, ProbesKept
<1>4. CASE Probe
  <2>1. market' = market /\ Usable' = Usable /\ market \in Markets
    BY <1>4 DEF Probe, Usable, At, BoundsInv
  <2>2. MAX \in Nat /\ MAX > 1
    BY PricingAssumption
  <2>3. Search!Next /\ ProbesKept
    BY <1>4 DEF Probe, BoundsInv
  <2>4. CASE Search!FirstInvalid \/ Search!FirstValid
    BY <2>1, <2>3, <2>4 DEF Search!FirstInvalid, Search!FirstValid, ProbesKept, BoundsInv
  <2>5. CASE Search!StartAbove
    <3>1. lowerHigh \in Usable \/ lowerHigh = MAX
      BY <2>3, <2>5 DEF Search!StartAbove, ProbesKept
    <3>2. Search!Double(MAX) = MAX
      BY <2>2 DEF Search!Double
    <3>3. /\ lowerHigh' = lowerHigh /\ upperLow' = lowerHigh
          /\ pc' = IF Search!Double(lowerHigh) <= lowerHigh THEN "decide" ELSE "last"
      BY <2>5 DEF Search!StartAbove
    <3>4. lowerHigh = MAX => pc' = "decide"
      BY <2>2, <3>2, <3>3
    <3>5. ProbesKept'
      BY <2>1, <3>1, <3>3, <3>4 DEF ProbesKept
    <3> QED
      BY <2>1, <3>5 DEF BoundsInv
  <2>6. CASE Search!LastValid \/ Search!LastInvalid
    BY <2>1, <2>3, <2>6 DEF Search!LastValid, Search!LastInvalid, ProbesKept, BoundsInv
  <2>7. CASE Search!Decide
    BY <2>1, <2>3, <2>7 DEF Search!Decide, ProbesKept, BoundsInv
  <2>8. CASE Search!RefineLower \/ Search!RefineUpper
    BY <2>1, <2>3, <2>8 DEF Search!RefineLower, Search!RefineUpper, ProbesKept, BoundsInv
  <2>9. CASE Search!LowerRefined \/ Search!UpperRefined
    BY <2>1, <2>3, <2>9 DEF Search!LowerRefined, Search!UpperRefined, ProbesKept, BoundsInv
  <2> QED
    BY <2>3, <2>4, <2>5, <2>6, <2>7, <2>8, <2>9 DEF Search!Next
<1> QED
  BY <1>1, <1>2, <1>3, <1>4 DEF Next, NoToken

LEMMA BoundsInductive == Spec => []BoundsInv
<1>1. Init => BoundsInv
  BY DEF Init, BoundsInv, ProbesKept
<1> QED
  BY <1>1, BoundsNextInv, PTL DEF Spec

-----------------------------------------------------------------------------
(* What a router may assume of the range. *)

\* The range of an interval is quoted.
LEMMA RangeIsUsable ==
    ASSUME BoundsInv, Done, Measurable
    PROVE  /\ market \in Markets /\ InRange \subseteq Usable
           /\ \A x \in Usable : x \in Nat
           /\ Search!lower \in Nat /\ Search!upper \in Nat
<1>1. market \in Markets /\ lowerHigh \in Usable /\ upperLow \in Usable
  BY DEF BoundsInv, ProbesKept, Done
<1>2. Search!IsInterval
  BY DEF Measurable, Concave
<1> QED
  BY <1>1, <1>2 DEF Search!IsInterval, InRange, Search!lower, Search!upper, Usable, Sizes

LEMMA MeanValueHolds == BoundsInv => MeanValue
<1> SUFFICES ASSUME BoundsInv, Done, Measurable,
                    NEW a \in InRange, NEW b \in InRange, b - a >= H
             PROVE  LET chord == Out(b) - Out(a)
                        w == b - a
                        NotAbove(p, q, atoms) ==
                          p[1] * q[2] * H * w <= (q[1] * H * w + atoms * q[2] * (H + w)) * p[2]
                    IN  /\ NotAbove(Price(b), <<chord, w>>, 1)
                        /\ NotAbove(<<chord, w>>, Price(a), 1)
  BY DEF MeanValue
<1> DEFINE w == b - a
           C == Out(b) - Out(a)
<1>1. market \in Markets /\ a \in Usable /\ b \in Usable /\ a \in Nat /\ b \in Nat
  BY RangeIsUsable
<1>2. H \in Nat /\ H > 0 /\ C \in Int
  BY <1>1, UsableQuote, StepPositive, OutIsNat
<1>3. w \in Nat /\ a + H <= b /\ a <= b - H
  BY <1>1, <1>2
<1>4. a + H \in Usable /\ b - H \in Usable
  <2>1. a + H \in InRange /\ b - H \in InRange
    BY <1>1, <1>2, <1>3, RangeIsUsable DEF InRange
  <2> QED
    BY <2>1, RangeIsUsable
<1>5. PICK P \in Int : Price(b) = <<P, H>> /\ P * (b - a) <= (Out(b) - Out(a)) * H + H + (b - a)
  BY <1>1, <1>3, <1>4, NotAboveChord
<1>6. PICK Q \in Int : Price(a) = <<Q, H>> /\ (Out(b) - Out(a)) * H <= Q * (b - a) + (b - a) + H
  BY <1>1, <1>3, <1>4, NotBelowChord
<1>7. P * w <= C * H + H + w /\ C * H <= Q * w + w + H
  BY <1>5, <1>6
<1> HIDE DEF w, C
<1>8. P * w * H * w <= (C * H * w + 1 * w * (H + w)) * H
  BY <1>2, <1>3, <1>7, AsFractions
<1>9. C * H * H * w <= (Q * H * w + 1 * H * (H + w)) * w
  BY <1>2, <1>3, <1>7, AsFractions
<1> QED
  BY <1>5, <1>6, <1>8, <1>9 DEF w, C

LEMMA SpotIsBestHolds == BoundsInv => SpotIsBest
<1> SUFFICES ASSUME BoundsInv, Done, Measurable, market.probe[Side] \in Usable,
                    2 * H \in InRange, NEW x \in InRange
             PROVE  Leq(Price(x), <<Price(0)[1] + 1, Price(0)[2]>>)
  BY DEF SpotIsBest
<1> DEFINE n == Paid(H)
<1>1. /\ market \in Markets /\ market.live /\ Side \in Sides /\ x \in Usable
      /\ H \in Usable /\ Price(0) = <<n, H>>
  BY RangeIsUsable, UsableQuote, SpotQuote DEF Paid
<1>2. /\ H \in Nat /\ H > 0 /\ x \in Nat /\ x # 0 /\ n \in Nat /\ Scale \in Nat \ {0} /\ MAX \in Nat
      /\ x \in Sizes /\ H \in Sizes /\ 0 \in Sizes
      /\ Paid(x) # Refused /\ Paid(H) # Refused
  <2>1. Paid(x) # Refused /\ Paid(H) # Refused
    BY <1>1, UsableQuote DEF Paid
  <2>2. x # 0 /\ x \in Sizes /\ H \in Sizes /\ n \in Nat
    BY <1>1, <2>1, SimulatedWhole DEF Paid
  <2> QED
    BY <1>1, <2>1, <2>2, StepPositive, PricingAssumption DEF Sizes
<1>3. /\ 2 * H <= Search!upper /\ x <= Search!upper /\ Search!upper <= MAX
      /\ Search!lower <= x /\ Search!upper \in Nat /\ Search!lower \in Nat
  BY <1>2, RangeIsUsable DEF InRange, BoundsInv, ProbesKept, Done, Usable, Sizes, Search!upper
<1>4. /\ Curve \in [Sizes -> Int] /\ IsConcave(Curve)
      /\ Curve[0] \in Int /\ Curve[0] >= 0 /\ Curve[H] \in Int /\ Curve[x] \in Int
  BY <1>1, <1>2, CurveType DEF Measurable
<1>5. Curve[H] <= Scale * n + Scale - 1 /\ Scale * Paid(x) <= Curve[x] /\ Paid(x) \in Nat
  BY <1>1, <1>2, SimulatedWhole DEF Paid
<1>6. ASSUME NEW P \in Int, NEW D \in Int, Price(x) = <<P, H>>,
             Scale * P <= D + Scale - 1, D <= Curve[H]
      PROVE  Leq(Price(x), <<Price(0)[1] + 1, Price(0)[2]>>)
  <2>1. P <= n + 1
    BY <1>2, <1>4, <1>5, <1>6, FirstStep
  <2> HIDE DEF n
  <2>2. P * H <= (n + 1) * H
    BY <1>2, <2>1, Monotone
  <2> QED
    BY <1>1, <1>6, <2>2 DEF Leq
<1>7. CASE PricedAhead(x)
  <2>1. PICK y \in Sizes : /\ x < y /\ y <= x + H /\ (y = x + H \/ (y = MAX /\ MAX < x + H))
                           /\ Paid(x) < Paid(y) /\ Price(x) = <<Paid(y) - Paid(x), H>>
    BY <1>7 DEF PricedAhead
  <2> DEFINE P == Paid(y) - Paid(x)
             D == Curve[y] - Curve[x]
  <2>2. Paid(y) # Refused /\ P > 0
    BY <1>1, <1>2, <2>1, OutIsNat DEF Paid, Refused
  <2>3. P \in Int /\ D \in Int /\ D > 0 /\ Scale * P <= D + Scale - 1
    BY <1>1, <1>2, <2>2, RiseWhole
  <2>4. D <= Curve[H]
    <3>1. CASE y = x + H
      <4>0. x + H <= MAX /\ 0 <= x
        BY <1>2, <3>1 DEF Sizes
      <4>1. Curve[x + H] - Curve[x] <= Curve[0 + H] - Curve[0]
        BY <1>2, <1>4, <4>0, EqualWidths
      <4>2. 0 + H = H
        BY <1>2
      <4>3. D = Curve[x + H] - Curve[x]
        BY <3>1
      <4> HIDE DEF D
      <4> QED
        BY <1>4, <2>3, <4>1, <4>2, <4>3
    <3>2. CASE y = MAX /\ MAX < x + H
      <4> DEFINE d == y - x
                 E == Curve[H] - Curve[0]
      <4>1. H <= x /\ 0 < H /\ d \in Nat /\ d <= H /\ H - 0 = H /\ E \in Int
        BY <1>2, <1>3, <1>4, <2>1, <3>2 DEF Sizes
      <4>2. D * (H - 0) <= E * (y - x)
        BY <1>2, <1>4, <2>1, <4>1, Chords
      <4> HIDE DEF D, d, E
      <4>3. D * H <= E * d
        BY <4>1, <4>2 DEF d
      <4>4. E > 0
        <5> SUFFICES ASSUME E <= 0 PROVE FALSE
          BY <4>1
        <5>1. E * d <= 0 * d
          BY <4>1, Monotone
        <5>2. 1 * H <= D * H
          BY <1>2, <2>3, Monotone
        <5>3. E * d \in Int /\ D * H \in Int
          BY <1>2, <2>3, <4>1
        <5> QED
          BY <1>2, <4>1, <4>3, <5>1, <5>2, <5>3
      <4>5. d * E <= H * E
        BY <1>2, <4>1, <4>4, Monotone
      <4>6. E * d \in Int /\ D * H \in Int /\ d * E = E * d /\ H * E = E * H /\ E * H \in Int
        BY <1>2, <2>3, <4>1
      <4>7. D * H <= E * H
        BY <4>3, <4>5, <4>6
      <4>8. D <= E
        BY <1>2, <2>3, <4>1, <4>7, Cancels
      <4> QED
        BY <1>4, <2>3, <4>1, <4>8 DEF E
    <3> QED
      BY <2>1, <3>1, <3>2
  <2> HIDE DEF D
  <2> QED
    BY <1>6, <2>1, <2>3, <2>4
<1>8. CASE PricedBehind(x)
  <2> DEFINE u == x - H
             P == Paid(x) - Paid(u)
             D == Curve[x] - Curve[u]
  <2>1. Price(x) = <<P, H>> /\ x > H /\ Paid(u) # Refused
    BY <1>8 DEF PricedBehind, MovedBehind
  <2>2. P \in Int /\ D \in Int /\ Scale * P <= D + Scale - 1 /\ u \in Sizes
    BY <1>1, <1>2, <2>1, RiseWhole
  <2>3. u + H = x /\ 0 <= u
    BY <1>2, <2>1
  <2> HIDE DEF u
  <2>4. D <= Curve[H]
    <3>1. u + H <= MAX /\ 0 + H = H
      BY <1>2, <2>3 DEF Sizes
    <3>2. Curve[u + H] - Curve[u] <= Curve[0 + H] - Curve[0]
      BY <1>2, <1>4, <2>2, <2>3, <3>1, EqualWidths
    <3> QED
      BY <1>4, <2>2, <2>3, <3>1, <3>2
  <2> HIDE DEF D, P
  <2> QED
    BY <1>6, <2>1, <2>2, <2>4
<1>9. CASE PricedAverage(x)
  <2>1. Price(x) = <<Paid(x), x>>
    BY <1>9 DEF PricedAverage
  <2>2. ~ (x + H <= Search!upper)
    <3> SUFFICES ASSUME x + H <= Search!upper PROVE FALSE
      OBVIOUS
    <3>1. x + H \in Usable
      BY <1>2, <1>3, RangeIsUsable DEF InRange
    <3> QED
      BY <1>1, <1>9, <3>1, MeasuredAhead DEF PricedAverage
  <2>3. H <= x /\ 0 < H
    BY <1>2, <1>3, <2>2
  <2>4. (Curve[x] - Curve[0]) * (H - 0) <= (Curve[H] - Curve[0]) * (x - 0)
    BY <1>2, <1>4, <2>3, ChordFirst
  <2> DEFINE m == Paid(x)
             k == Curve[x]
             f == Curve[H]
             z == Curve[0]
  <2>5. (k - z) * H <= (f - z) * x /\ z >= 0 /\ Scale * m <= k /\ f <= Scale * n + Scale - 1
        /\ k \in Int /\ f \in Int /\ z \in Nat /\ m \in Nat /\ n \in Nat
    BY <1>2, <1>4, <1>5, <2>4
  <2> HIDE DEF m, k, f, z, n
  <2>6. k * H <= f * x
    <3>1. H * z <= x * z
      BY <1>2, <2>3, <2>5, Monotone
    <3>2. (k - z) * H = k * H - H * z /\ (f - z) * x = f * x - x * z
      BY <1>2, <2>5
    <3>3. k * H \in Int /\ H * z \in Int /\ f * x \in Int /\ x * z \in Int
      BY <1>2, <2>5
    <3> QED
      BY <2>5, <3>1, <3>2, <3>3
  <2>7. (m * H) * Scale <= ((n + 1) * x) * Scale
    <3>1. (Scale * m) * H <= k * H
      BY <1>2, <2>5, Monotone
    <3>2. f <= Scale * (n + 1)
      <4>1. Scale * (n + 1) = Scale * n + Scale /\ Scale * n \in Int
        BY <1>2, <2>5
      <4> QED
        BY <1>2, <2>5, <4>1
    <3>3. f * x <= (Scale * (n + 1)) * x
      BY <1>2, <2>5, <3>2, Monotone
    <3>4. (Scale * m) * H = (m * H) * Scale /\ (Scale * (n + 1)) * x = ((n + 1) * x) * Scale
      BY <1>2, <2>5
    <3>5. /\ (m * H) * Scale \in Int /\ k * H \in Int /\ f * x \in Int
          /\ ((n + 1) * x) * Scale \in Int
      BY <1>2, <2>5
    <3> QED
      BY <2>6, <3>1, <3>3, <3>4, <3>5
  <2>8. m * H <= (n + 1) * x
    BY <1>2, <2>5, <2>7, Cancels
  <2> QED
    BY <1>1, <2>1, <2>8 DEF Leq, m
<1> QED
  BY <1>1, <1>7, <1>8, <1>9, ThreeChords

\* Both ends of a range are quoted in full at a positive price, and so is every
\* size between them when the curve fills an interval: whether the chord is
\* taken ahead, behind or from zero, on curves that are flat, not monotone, or
\* end within a step (quote.rs:138-173, bounds.rs:264-280).
THEOREM RangesArePriced == Spec => []RangeIsPriced
<1>1. BoundsInv => RangeIsPriced
  <2> SUFFICES ASSUME BoundsInv, Done,
                      NEW x \in IF Search!IsInterval THEN InRange ELSE {Search!lower, Search!upper}
               PROVE  ValidQuote(At(x)) /\ Price(x)[1] > 0
    BY DEF RangeIsPriced
  <2>1. market \in Markets /\ lowerHigh \in Usable /\ upperLow \in Usable
    BY DEF BoundsInv, ProbesKept, Done
  <2>2. x \in Usable
    <3>1. CASE Search!IsInterval
      BY <2>1, <3>1 DEF Search!IsInterval, InRange, Search!lower, Search!upper
    <3>2. CASE ~ Search!IsInterval
      BY <2>1, <3>2 DEF Search!lower, Search!upper
    <3> QED
      BY <3>1, <3>2
  <2> QED
    BY <2>1, <2>2, UsableIsPriced
<1> QED
  BY BoundsInductive, <1>1, PTL

\* A venue that is not initialized has no range, whatever its curves would
\* fill: the gate of compute_quote precedes every simulation (quote.rs:44-49),
\* and the search returns nothing that was not quoted (bounds.rs:271).
THEOREM DarkVenuesHaveNoRange == Spec => []DarkHasNoRange
<1>1. BoundsInv => DarkHasNoRange
  BY UsableIsPriced DEF BoundsInv, ProbesKept, DarkHasNoRange, Done
<1> QED
  BY BoundsInductive, <1>1, PTL

\* Up to an atom in each quantity, the price at b is no better than any chord
\* of a step or more that ends there, and the price at a no worse than any that
\* starts there: for a chord ahead, one that u64::MAX cuts, and one behind, on
\* every concave curve that each step moves (trading_venue/mod.rs, "Pricing
\* requirements" 3; quote.rs:138-173).
THEOREM PricesBracketChords == Spec => []MeanValue
  BY BoundsInductive, MeanValueHolds, PTL

\* No size of a range wider than two probes is quoted better than the spot
\* price, up to an atom per step, whichever chord its price is
\* (quote.rs:129-136).
THEOREM SpotRanksBest == Spec => []SpotIsBest
  BY BoundsInductive, SpotIsBestHolds, PTL
=============================================================================
