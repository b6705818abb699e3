---------------------------- MODULE QuotePricing ----------------------------
(***************************************************************************)
(* compute_quote (src/quay/quote.rs), and the default `bounds' of a venue  *)
(* (src/trading_venue/mod.rs), which runs the search of BoundarySearch     *)
(* over it.  The pricing VM is a table: a strategy's curve, in parts of an *)
(* atom, of which the quote sees whole atoms, for the sizes it fills.      *)
(* A price is a fraction <<num, den>>, the double of the code unrounded.   *)
(***************************************************************************)
EXTENDS Integers, Sequences

CONSTANTS
    MAX,        \* u64::MAX
    GAP,        \* the width at which the search stops
    Base, Quote,\* the venue's mints
    Scale,      \* parts of an atom that the VM computes with
    Markets     \* the states a venue may be quoted in

Sizes == 0 .. MAX
Sides == {"sell", "buy"}

\* What a quote reads of a venue: is it initialized(), tokens, and per side the
\* curve, the sizes that it fills, and the probe.
MarketType ==
    [live : BOOLEAN, tokens : {<<>>, <<Base, Quote>>},
     curve : [Sides -> [Sizes -> Nat]], fills : [Sides -> SUBSET (Sizes \ {0})],
     probe : [Sides -> Sizes]]

ASSUME PricingAssumption ==
    /\ MAX \in Nat /\ MAX > 1
    /\ Base # Quote /\ Scale \in Nat \ {0}
    /\ \A m \in Markets : m \in MarketType /\ (m.live => m.tokens # <<>>)

VARIABLES
    market,     \* the venue; `bounds' borrows it, so that it does not change
    pair,       \* the token indices `bounds' was called with
    pc, lowerLow, lowerHigh, upperLow, upperHigh    \* the search

searchVars == <<pc, lowerLow, lowerHigh, upperLow, upperHigh>>
vars == <<market, pair, searchVars>>

-----------------------------------------------------------------------------
(* The quote. *)

Request(in, out, amount) == [in |-> in, out |-> out, amount |-> amount, exactIn |-> TRUE]

SideOf(r) == CASE <<r.in, r.out>> = <<Base, Quote>> -> "sell"
               [] <<r.in, r.out>> = <<Quote, Base>> -> "buy"
               [] OTHER -> "none"

Zero == <<0, 1>>
Leq(p, q) == p[1] * q[2] <= q[1] * p[2]

Err(e) == [err |-> e, out |-> 0, short |-> FALSE, price |-> Zero]
Ok(out, short, price) == [err |-> "", out |-> out, short |-> short, price |-> price]

\* simulate_out; the curve refuses what it would pay nothing for.
Refused == 0
SimulateOut(m, side, x) == IF x \in m.fills[side] THEN m.curve[side][x] \div Scale ELSE Refused

SatAdd(x, h) == IF x + h > MAX THEN MAX ELSE x + h
SatSub(x, h) == IF x > h THEN x - h ELSE 0
Step(m, side) == IF m.probe[side] > 1 THEN m.probe[side] ELSE 1

\* A variant of Spot with a bug: the probe is twice the step.
SpotDouble(m, side) ==
    LET out == SimulateOut(m, side, SatAdd(m.probe[side], m.probe[side]))
    IN  IF out = Refused THEN Zero ELSE <<out, 2 * m.probe[side]>>

\* amount = 0: the average over the first probe.
Spot(m, side) ==
    LET out == SimulateOut(m, side, m.probe[side])
    IN  IF out = Refused THEN Zero ELSE <<out, m.probe[side]>>

\* Variants of Marginal with a bug: a step that moves nothing is reported; the
\* average rate is always reported.
MarginalFlat(m, side, a, out) ==
    LET h == Step(m, side)
        up == SimulateOut(m, side, SatAdd(a, h))
    IN  IF up >= out THEN <<up - out, h>> ELSE <<out, a>>
MarginalAverage(m, side, a, out) == <<out, a>>

\* The chord over one step ahead; else over one step back; else the average.
Marginal(m, side, a, out) ==
    LET h == Step(m, side)
        up == SimulateOut(m, side, SatAdd(a, h))
        down == SimulateOut(m, side, SatSub(a, h))
    IN  CASE up > out -> <<up - out, h>>
          [] up <= out /\ down # Refused /\ out > down -> <<out - down, h>>
          [] OTHER -> <<out, a>>

\* A variant of Gate with a bug: a halted venue whose state is loaded is quoted.
GateLoaded(m) == m.tokens # <<>>

\* Lines 42-64: initialized(), which includes that the tokens are there.
Gate(m) == m.live

\* compute_quote
QuoteOf(m, r) ==
    LET side == SideOf(r)
        out == SimulateOut(m, side, r.amount)
    IN  CASE ~ r.exactIn -> Err("ExactOutNotSupported")
          [] r.exactIn /\ side = "none" -> Err("InvalidMint")
          [] r.exactIn /\ side # "none" /\ ~ Gate(m) -> Err("NotInitialized")
          [] OTHER -> CASE r.amount = 0 -> Ok(0, FALSE, Spot(m, side))
                        [] r.amount > 0 /\ out = Refused -> Ok(0, TRUE, Zero)
                        [] OTHER -> Ok(out, FALSE, Marginal(m, side, r.amount, out))

-----------------------------------------------------------------------------
(* bounds, over the quote. *)

\* directions_num, counted from 1.
Directions(m) == {d \in (DOMAIN m.tokens) \X (DOMAIN m.tokens) : d[1] # d[2]}

At(x) == QuoteOf(market, Request(market.tokens[pair[1]], market.tokens[pair[2]], x))

\* valid_quote
ValidQuote(q) == q.err = "" /\ ~ q.short /\ q.out > 0

Usable == IF pair = <<>> THEN {} ELSE {x \in Sizes : ValidQuote(At(x))}

Search == INSTANCE BoundarySearch WITH valid <- Usable, Predicates <- {}

Init == /\ market \in Markets
        /\ pair = <<>>
        /\ pc = "idle" /\ lowerLow = 0 /\ lowerHigh = 0 /\ upperLow = 0 /\ upperHigh = 0

\* bounds(i, j), up to its first probe.
Bounds(i, j) ==
    /\ pc = "idle" /\ <<i, j>> \in Directions(market)
    /\ pair' = <<i, j>>
    /\ pc' = "first"
    /\ lowerLow' = 0 /\ lowerHigh' = 1 /\ upperLow' = 0 /\ upperHigh' = 0
    /\ UNCHANGED market

\* get_token fails, as on a venue that was never refreshed: `bounds' returns
\* the error and nothing changes.
NoToken(i, j) ==
    /\ pc = "idle" /\ ~ {i, j} \subseteq DOMAIN market.tokens
    /\ UNCHANGED vars

Probe == UNCHANGED <<market, pair>> /\ Search!Next

\* The router asks for the other direction.
Again ==
    /\ pc \in Search!Ends
    /\ pair' = <<>>
    /\ pc' = "idle" /\ lowerLow' = 0 /\ lowerHigh' = 0 /\ upperLow' = 0 /\ upperHigh' = 0
    /\ UNCHANGED market

Next == \/ \E i, j \in 1 .. 2 : Bounds(i, j) \/ NoToken(i, j)
        \/ Probe
        \/ Again

Spec == Init /\ [][Next]_vars

-----------------------------------------------------------------------------
(* What a router may assume of the quotes in the range it was given.       *)

Done == pc = "done"
InRange == Search!lower .. Search!upper
Side == SideOf([in |-> market.tokens[pair[1]], out |-> market.tokens[pair[2]]])
H == Step(market, Side)
Price(x) == At(x).price
Out(x) == At(x).out

\* Both ends of the range, and everything between them when the curve fills
\* one interval of sizes, are quoted in full at a positive price, also where
\* the curve is flat, not monotone, or ends within a step
\* (trading_venue/mod.rs: "`price > 0' for any valid quote"; quote.rs:162-173).
RangeIsPriced ==
    Done => \A x \in IF Search!IsInterval THEN InRange ELSE {Search!lower, Search!upper} :
                ValidQuote(At(x)) /\ Price(x)[1] > 0

\* Curves the price can be measured on: concave, filling an interval, and
\* moved by every step of the size that the market maker set.
Slope(x) == market.curve[Side][x + 1] - market.curve[Side][x]
Concave == /\ Search!IsInterval
           /\ \A x, y \in 0 .. MAX - 1 : x < y => Slope(y) <= Slope(x)
Measurable == /\ Concave
              /\ \A x \in Usable : x + H \in Usable => Out(x + H) > Out(x)

\* The chord between a and b is bracketed by the prices at its ends, when they
\* are a step apart or more, up to an atom of truncation in each quantity: the
\* mean value theorem the router relies on (trading_venue/mod.rs, "Pricing
\* requirements" 3), across the switch from forward to backward differences.
MeanValue ==
    Done /\ Measurable =>
        \A a, b \in InRange : b - a >= H =>
            LET chord == Out(b) - Out(a)
                w == b - a
                NotAbove(p, q, atoms) == \* p <= q + atoms / H + atoms / w
                    p[1] * q[2] * H * w <= (q[1] * H * w + atoms * q[2] * (H + w)) * p[2]
            IN  /\ NotAbove(Price(b), <<chord, w>>, 1)
                /\ NotAbove(<<chord, w>>, Price(a), 1)

\* Where the range is wider than two probes and the probe is filled, no size is
\* quoted better than the spot price, up to an atom per step: a router that
\* ranks venues by their spot prices does not underrate one (quote.rs:129-136).
SpotIsBest ==
    Done /\ Measurable /\ market.probe[Side] \in Usable /\ 2 * H \in InRange =>
        \A x \in InRange : Leq(Price(x), <<Price(0)[1] + 1, Price(0)[2]>>)

\* A venue that is not initialized has no range, whatever its curves would
\* fill (quote.rs:44-49, bounds.rs:271).
DarkHasNoRange == ~ market.live => ~ Done

\* "Monotonic (non-increasing) price / concavity" (trading_venue/mod.rs:
\* Pricing requirements 2), on curves that truncation does not touch.
Exact == \A x \in Sizes : market.curve[Side][x] % Scale = 0
PriceFalls ==
    Done /\ Measurable /\ Exact => \A a, b \in InRange : a < b => Leq(Price(b), Price(a))
=============================================================================
