--------------------------- MODULE BoundarySearch ---------------------------
(***************************************************************************)
(* find_boundaries (src/trading_venue/bounds.rs): the search, by probing   *)
(* the venue's quote, of the range of input sizes it can be asked for.     *)
(* A probe is abstracted to its answer: `valid' is the set of sizes whose  *)
(* quote is Ok, has liquidity and a positive output (valid_quote); an      *)
(* error counts as invalid.  One step is one turn of a loop.               *)
(***************************************************************************)
EXTENDS Integers

CONSTANTS
    MAX,          \* u64::MAX
    GAP,          \* the width at which refinement stops, 100 in the code
    Predicates    \* the sets of valid sizes that venues may have

Sizes == 0 .. MAX

ASSUME MaxAssumption == MAX \in Nat /\ MAX > 1
\* Below 2 the halves' rounding could stop a refinement from progressing.
ASSUME GapAssumption == GAP \in Nat /\ GAP >= 2
ASSUME PredicatesAssumption == Predicates \subseteq SUBSET Sizes

VARIABLES
    valid,                  \* the sizes the venue quotes
    pc,                     \* the loop the search is in, or how it ended
    lowerLow, lowerHigh,    \* bracket of the first valid size
    upperLow, upperHigh     \* bracket of the last valid size

vars == <<valid, pc, lowerLow, lowerHigh, upperLow, upperHigh>>

Loops == {"first", "above", "last", "decide", "refineLower", "refineUpper"}
Ends == {"done", "collapsed", "none"}

\* A variant of Double with a bug: the product is not cut to the width.
DoubleWide(x) == 2 * x

\* saturating_mul(SCALING_FACTOR)
Double(x) == IF 2 * x > MAX THEN MAX ELSE 2 * x

\* A variant of Mid with a bug: (low + high) / 2, where the sum wraps.
MidWrapped(low, high) == ((low + high) % (MAX + 1)) \div 2

\* The halves are taken before the sum, which cannot overflow.
Mid(low, high) == high \div 2 + low \div 2

Init == /\ valid \in Predicates
        /\ pc = "first"
        /\ lowerLow = 0 /\ lowerHigh = 1
        /\ upperLow = 0 /\ upperHigh = 0

-----------------------------------------------------------------------------
(* find_boundaries_coarse.                                                 *)

\* A variant of FirstInvalid with a bug: the size is doubled before it is kept.
FirstInvalidOrder ==
    /\ pc = "first" /\ lowerHigh \notin valid
    /\ lowerHigh' = Double(lowerHigh)
    /\ lowerLow' = lowerHigh'
    /\ pc' = IF lowerHigh' = MAX THEN "above" ELSE "first"
    /\ UNCHANGED <<valid, upperLow, upperHigh>>

\* Lines 74-90: double until a probe is valid or the size saturates.
FirstInvalid ==
    /\ pc = "first" /\ lowerHigh \notin valid
    /\ lowerLow' = lowerHigh
    /\ lowerHigh' = Double(lowerHigh)
    /\ pc' = IF lowerHigh' = MAX THEN "above" ELSE "first"
    /\ UNCHANGED <<valid, upperLow, upperHigh>>

FirstValid ==
    /\ pc = "first" /\ lowerHigh \in valid
    /\ pc' = "above"
    /\ UNCHANGED <<valid, lowerLow, lowerHigh, upperLow, upperHigh>>

\* Lines 93-99.
StartAbove ==
    /\ pc = "above"
    /\ upperLow' = lowerHigh
    /\ upperHigh' = Double(lowerHigh)
    /\ pc' = IF upperHigh' <= upperLow' THEN "decide" ELSE "last"
    /\ UNCHANGED <<valid, lowerLow, lowerHigh>>

\* A variant of LastValid with a bug: nobody looks whether the size saturated.
LastValidForever ==
    /\ pc = "last" /\ upperHigh \in valid
    /\ upperLow' = upperHigh
    /\ upperHigh' = Double(upperHigh)
    /\ UNCHANGED <<valid, pc, lowerLow, lowerHigh>>

\* Lines 100-113: double until a probe is invalid or the size saturates.
LastValid ==
    /\ pc = "last" /\ upperHigh \in valid
    /\ upperLow' = upperHigh
    /\ upperHigh' = Double(upperHigh)
    /\ pc' = IF upperHigh' = MAX THEN "decide" ELSE "last"
    /\ UNCHANGED <<valid, lowerLow, lowerHigh>>

LastInvalid ==
    /\ pc = "last" /\ upperHigh \notin valid
    /\ pc' = "decide"
    /\ UNCHANGED <<valid, lowerLow, lowerHigh, upperLow, upperHigh>>

-----------------------------------------------------------------------------
(* find_boundaries.                                                        *)

\* A variant of Decide with a bug: nobody looks whether a valid size was found.
DecideAlways ==
    /\ pc = "decide"
    /\ pc' = IF lowerLow = upperHigh THEN "collapsed" ELSE "refineLower"
    /\ UNCHANGED <<valid, lowerLow, lowerHigh, upperLow, upperHigh>>

\* Lines 263-275: BoundarySearchFailed, NoQuotableValue, or on to refinement.
Decide ==
    /\ pc = "decide"
    /\ pc' = CASE lowerLow = upperHigh -> "collapsed"
               [] lowerLow # upperHigh /\ lowerHigh = MAX -> "none"
               [] OTHER -> "refineLower"
    /\ UNCHANGED <<valid, lowerLow, lowerHigh, upperLow, upperHigh>>

\* refine_lower, lines 164-179.
RefineLower ==
    LET mid == Mid(lowerLow, lowerHigh) IN
    /\ pc = "refineLower" /\ lowerHigh - lowerLow > GAP
    /\ \/ mid \in valid /\ lowerHigh' = mid /\ UNCHANGED lowerLow
       \/ mid \notin valid /\ lowerLow' = mid /\ UNCHANGED lowerHigh
    /\ UNCHANGED <<valid, pc, upperLow, upperHigh>>

LowerRefined ==
    /\ pc = "refineLower" /\ lowerHigh - lowerLow <= GAP
    /\ pc' = "refineUpper"
    /\ UNCHANGED <<valid, lowerLow, lowerHigh, upperLow, upperHigh>>

\* A variant of RefineUpper with a bug: the sides of refine_lower.
RefineUpperSwapped ==
    LET mid == Mid(upperLow, upperHigh) IN
    /\ pc = "refineUpper" /\ upperHigh - upperLow > GAP
    /\ \/ mid \in valid /\ upperHigh' = mid /\ UNCHANGED upperLow
       \/ mid \notin valid /\ upperLow' = mid /\ UNCHANGED upperHigh
    /\ UNCHANGED <<valid, pc, lowerLow, lowerHigh>>

\* refine_upper, lines 227-242.
RefineUpper ==
    LET mid == Mid(upperLow, upperHigh) IN
    /\ pc = "refineUpper" /\ upperHigh - upperLow > GAP
    /\ \/ mid \in valid /\ upperLow' = mid /\ UNCHANGED upperHigh
       \/ mid \notin valid /\ upperHigh' = mid /\ UNCHANGED upperLow
    /\ UNCHANGED <<valid, pc, lowerLow, lowerHigh>>

UpperRefined ==
    /\ pc = "refineUpper" /\ upperHigh - upperLow <= GAP
    /\ pc' = "done"
    /\ UNCHANGED <<valid, lowerLow, lowerHigh, upperLow, upperHigh>>

Next == \/ FirstInvalid \/ FirstValid \/ StartAbove \/ LastValid \/ LastInvalid
        \/ Decide \/ RefineLower \/ LowerRefined \/ RefineUpper \/ UpperRefined

Spec == Init /\ [][Next]_vars

\* The search is a sequential computation.
FairSpec == Spec /\ WF_vars(Next)

\* The result of a search that returns Ok.
lower == lowerHigh
upper == upperLow

-----------------------------------------------------------------------------
\* The type invariant.
TypeOK ==
    /\ valid \in SUBSET Sizes
    /\ pc \in Loops \cup Ends
    /\ lowerLow \in Sizes /\ lowerHigh \in Sizes
    /\ upperLow \in Sizes /\ upperHigh \in Sizes

\* Whatever the venue quotes, with holes or not, a range that is returned is not
\* empty and the venue quotes both its ends (bounds.rs:264-280).
EndsAreValid == pc = "done" => lower \in valid /\ upper \in valid /\ lower <= upper

\* The error "search space collapsed" (bounds.rs:264-268) cannot happen, not
\* even for a venue that quotes nothing.
NeverCollapses == pc # "collapsed"

\* The venue quotes one interval of sizes.
IsInterval == \A x, z \in valid : x .. z \subseteq valid

\* For a venue that quotes an interval, no size it quotes is more than GAP
\* outside the range that is returned (bounds.rs:130, 192).
WithinGap ==
    pc = "done" /\ IsInterval => \A x \in valid : lower - GAP <= x /\ x <= upper + GAP

\* The search ends, for every venue (the loops of lines 74, 100, 164, 227).
Terminates == <>(pc \in Ends)

\* Each turn of a refinement narrows its bracket (lines 164-177, 227-240).
Narrows ==
    [][/\ RefineLower => lowerHigh' - lowerLow' < lowerHigh - lowerLow /\ lowerLow' < lowerHigh'
       /\ RefineUpper => upperHigh' - upperLow' < upperHigh - upperLow /\ upperLow' < upperHigh']_vars

\* "`NoQuotableValue' if no valid quote exists at any input" (bounds.rs:257).
NoneMeansNone == pc = "none" /\ IsInterval => valid = {}
=============================================================================
