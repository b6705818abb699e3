--------------------------- MODULE MCQuotePricing ---------------------------
(***************************************************************************)
(* Curves for TLC: concave ones of three pieces, over several intervals of *)
(* sizes, and any curve at all over the smallest sizes.                    *)
(***************************************************************************)
EXTENDS QuotePricing

Least(x, y) == IF x < y THEN x ELSE y

\* Slopes s[1] >= s[2] >= s[3], changing at k[1] and k[2].
Pieces(s, k) == [x \in Sizes |-> s[1] * Least(x, k[1])
                                 + s[2] * (Least(x, k[2]) - Least(x, k[1]))
                                 + s[3] * (x - Least(x, k[2]))]

ConcaveCurves ==
    {Pieces(s, k) : s \in {s \in {2, 4, 7} \X {1, 2, 4} \X {0, 1, 2} : s[1] >= s[2] /\ s[2] >= s[3]},
                    k \in {<<3, 8>>, <<3, 11>>, <<6, 11>>}}

WildCurves == {[x \in Sizes |-> IF x \in DOMAIN f THEN Scale * f[x] ELSE 0] : f \in [1 .. 4 -> 0 .. 3]}

MarketOf(live, c, sizes, p) ==
    [live |-> live, tokens |-> <<Base, Quote>>, curve |-> [s \in Sides |-> c],
     fills |-> [sell |-> sizes, buy |-> sizes], probe |-> [sell |-> p, buy |-> p + 1]]

Unrefreshed == [live |-> FALSE, tokens |-> <<>>, curve |-> [s \in Sides |-> [x \in Sizes |-> 0]],
                fills |-> [s \in Sides |-> {}], probe |-> [s \in Sides |-> 0]]

SomeMarkets ==
    {MarketOf(TRUE, c, lo .. hi, p) : c \in ConcaveCurves, lo \in {1, 4}, hi \in {7, 13, MAX}, p \in {0, 2, 3}}
    \cup {MarketOf(TRUE, c, 1 .. 4, p) : c \in WildCurves, p \in {1, 2}}
    \cup {MarketOf(FALSE, c, 1 .. MAX, 2) : c \in ConcaveCurves}
    \cup {Unrefreshed}
=============================================================================
