------------------------ MODULE BoundarySearchProofs ------------------------
(***************************************************************************)
(* The safety of find_boundaries for every width, every gap of at least 2  *)
(* and every venue.  IInv says, loop by loop, what the brackets enclose.   *)
(***************************************************************************)
EXTENDS BoundarySearch, TLAPS

Bracketed == {"decide", "refineLower", "refineUpper", "done"}
Refining == {"refineLower", "refineUpper", "done"}

\* The brackets do not cross.
Ordered ==
    /\ lowerLow < lowerHigh
    /\ pc = "first" => lowerHigh < MAX
    /\ pc = "last" => lowerHigh <= upperLow /\ upperLow < upperHigh
    /\ pc \in Bracketed => lowerHigh <= upperLow /\ upperLow <= upperHigh

\* The inner ends of the brackets were probed and are valid.
InnerValid ==
    /\ pc = "above" => lowerHigh \in valid \/ lowerHigh = MAX
    /\ pc = "last" => lowerHigh \in valid /\ upperLow \in valid
    /\ pc = "decide" => lowerHigh = MAX \/ (lowerHigh \in valid /\ upperLow \in valid)
    /\ pc \in Refining => lowerHigh \in valid /\ upperLow \in valid

\* The outer ends were probed and are not, or there is nothing beyond them.
OuterInvalid ==
    /\ lowerLow \in valid => lowerLow = 0
    /\ pc \in Bracketed => upperHigh \notin valid \/ upperHigh = MAX

\* A bracket is left when it is no wider than GAP.
Narrowed ==
    /\ pc \in {"refineUpper", "done"} => lowerHigh - lowerLow <= GAP
    /\ pc = "done" => upperHigh - upperLow <= GAP

IInv == TypeOK /\ Ordered /\ InnerValid /\ OuterInvalid /\ Narrowed /\ NeverCollapses

-----------------------------------------------------------------------------
(* The arithmetic of the probes. *)

\* Doubling stays within the width and grows until it saturates.
LEMMA DoubleGrows ==
    ASSUME NEW x \in Sizes, x > 0
    PROVE  /\ Double(x) \in Sizes
           /\ x <= Double(x)
           /\ x < MAX => x < Double(x)
BY MaxAssumption DEF Double, Sizes

\* The middle of a bracket wider than GAP is strictly inside it, though each
\* half is rounded down before the sum.
LEMMA MidInside ==
    ASSUME NEW low \in Sizes, NEW high \in Sizes, high - low > GAP
    PROVE  Mid(low, high) \in Sizes /\ low < Mid(low, high) /\ Mid(low, high) < high
<1>1. high - low >= 3 /\ low \in Nat /\ high \in Nat /\ high <= MAX
  BY MaxAssumption, GapAssumption DEF Sizes
<1>2. high \div 2 \in Nat /\ low \div 2 \in Nat
  BY <1>1
<1>3. 2 * (high \div 2) <= high /\ high <= 2 * (high \div 2) + 1
  BY <1>1
<1>4. 2 * (low \div 2) <= low /\ low <= 2 * (low \div 2) + 1
  BY <1>1
<1>5. 2 * (high \div 2 + low \div 2) > 2 * low
  BY <1>1, <1>2, <1>3, <1>4
<1>6. low < high \div 2 + low \div 2 /\ high \div 2 + low \div 2 < high
  BY <1>1, <1>2, <1>3, <1>4, <1>5
<1> QED
  BY <1>1, <1>2, <1>6, MaxAssumption DEF Mid, Sizes

-----------------------------------------------------------------------------
(* The inductive invariant. *)

LEMMA InitInv == Init => IInv
<1> SUFFICES ASSUME Init PROVE IInv
  OBVIOUS
<1>1. TypeOK
  BY MaxAssumption, PredicatesAssumption DEF Init, TypeOK, Sizes, Loops, Ends
<1>2. Ordered /\ InnerValid /\ OuterInvalid /\ Narrowed /\ NeverCollapses
  BY MaxAssumption DEF Init, Ordered, InnerValid, OuterInvalid, Narrowed, NeverCollapses,
                       Bracketed, Refining
<1> QED
  BY <1>1, <1>2 DEF IInv

\* Each turn of each loop preserves what the brackets enclose.
LEMMA NextInv == IInv /\ [Next]_vars => IInv'
<1> SUFFICES ASSUME IInv, [Next]_vars PROVE IInv'
  OBVIOUS
<1> USE MaxAssumption, GapAssumption
<1> USE DEF IInv, TypeOK, Ordered, InnerValid, OuterInvalid, Narrowed, NeverCollapses,
            Bracketed, Refining, Loops, Ends
<1>1. CASE FirstInvalid
  <2>1. lowerHigh > 0 /\ lowerHigh < MAX
    BY <1>1 DEF FirstInvalid, Sizes
  <2>2. Double(lowerHigh) \in Sizes /\ lowerHigh < Double(lowerHigh)
    BY <2>1, DoubleGrows
  <2> QED
    BY <1>1, <2>1, <2>2 DEF FirstInvalid, Sizes
<1>2. CASE FirstValid
  BY <1>2 DEF FirstValid
<1>3. CASE StartAbove
  <2>1. lowerHigh > 0
    BY <1>3 DEF StartAbove, Sizes
  <2>2. /\ Double(lowerHigh) \in Sizes
        /\ lowerHigh <= Double(lowerHigh)
        /\ lowerHigh < MAX => lowerHigh < Double(lowerHigh)
    BY <2>1, DoubleGrows
  <2> QED
    BY <1>3, <2>1, <2>2 DEF StartAbove, Sizes
<1>4. CASE LastValid
  <2>1. upperHigh > 0
    BY <1>4 DEF LastValid, Sizes
  <2>2. /\ Double(upperHigh) \in Sizes
        /\ upperHigh <= Double(upperHigh)
        /\ upperHigh < MAX => upperHigh < Double(upperHigh)
    BY <2>1, DoubleGrows
  <2>3. upperHigh = MAX => Double(upperHigh) = MAX
    BY <2>2 DEF Sizes
  <2> QED
    BY <1>4, <2>1, <2>2, <2>3 DEF LastValid, Sizes
<1>5. CASE LastInvalid
  BY <1>5 DEF LastInvalid, Sizes
<1>6. CASE Decide
  <2>1. lowerLow # upperHigh
    BY <1>6 DEF Decide, Sizes
  <2> QED
    BY <1>6, <2>1 DEF Decide
<1>7. CASE RefineLower
  <2>1. /\ Mid(lowerLow, lowerHigh) \in Sizes
        /\ lowerLow < Mid(lowerLow, lowerHigh)
        /\ Mid(lowerLow, lowerHigh) < lowerHigh
    BY <1>7, MidInside DEF RefineLower
  <2> QED
    BY <1>7, <2>1 DEF RefineLower, Sizes
<1>8. CASE LowerRefined
  BY <1>8 DEF LowerRefined
<1>9. CASE RefineUpper
  <2>1. /\ Mid(upperLow, upperHigh) \in Sizes
        /\ upperLow < Mid(upperLow, upperHigh)
        /\ Mid(upperLow, upperHigh) < upperHigh
    BY <1>9, MidInside DEF RefineUpper
  <2> QED
    BY <1>9, <2>1 DEF RefineUpper, Sizes
<1>10. CASE UpperRefined
  BY <1>10 DEF UpperRefined
<1>11. CASE UNCHANGED vars
  BY <1>11 DEF vars
<1> QED
  BY <1>1, <1>2, <1>3, <1>4, <1>5, <1>6, <1>7, <1>8, <1>9, <1>10, <1>11 DEF Next

LEMMA Inductive == Spec => []IInv
BY InitInv, NextInv, PTL DEF Spec

-----------------------------------------------------------------------------
(* What follows. *)

\* Probes, brackets and the results stay within u64, whatever the venue quotes:
\* the doublings saturate and the middles do not overflow.
THEOREM TypesKept == Spec => []TypeOK
<1>1. IInv => TypeOK
  BY DEF IInv
<1> QED
  BY Inductive, <1>1, PTL

\* The search never reports a collapsed search space (bounds.rs:264-268): that
\* error path is dead code.
THEOREM CollapseIsDead == Spec => []NeverCollapses
<1>1. IInv => NeverCollapses
  BY DEF IInv
<1> QED
  BY Inductive, <1>1, PTL

\* A range that is returned is not empty and the venue quotes both its ends,
\* however many holes the set of valid sizes has (bounds.rs:264-280).
THEOREM EndsValid == Spec => []EndsAreValid
<1>1. IInv => EndsAreValid
  BY DEF IInv, Ordered, InnerValid, Bracketed, Refining, EndsAreValid, lower, upper
<1> QED
  BY Inductive, <1>1, PTL

\* If the venue quotes one interval, the range misses at most GAP sizes of it at
\* either end (bounds.rs:130, 192).
THEOREM GapBounded == Spec => []WithinGap
<1>1. IInv => WithinGap
  <2> SUFFICES ASSUME IInv, pc = "done", IsInterval, NEW x \in valid
               PROVE  lower - GAP <= x /\ x <= upper + GAP
    BY DEF WithinGap
  <2>1. /\ x \in Sizes /\ lowerLow \in Sizes /\ lowerHigh \in Sizes
        /\ upperLow \in Sizes /\ upperHigh \in Sizes
    BY DEF IInv, TypeOK
  <2>2. x >= lowerLow
    <3> SUFFICES ASSUME x < lowerLow PROVE FALSE
      BY <2>1, MaxAssumption DEF Sizes
    <3>1. lowerHigh \in valid /\ lowerLow < lowerHigh
      BY DEF IInv, Ordered, InnerValid, Refining
    <3>2. lowerLow \in x .. lowerHigh
      BY <2>1, <3>1, MaxAssumption DEF Sizes
    <3>3. lowerLow \in valid
      BY <3>1, <3>2 DEF IsInterval
    <3> QED
      BY <2>1, <3>3, MaxAssumption DEF IInv, OuterInvalid, Sizes
  <2>3. x <= upperHigh
    <3> SUFFICES ASSUME x > upperHigh PROVE FALSE
      BY <2>1, MaxAssumption DEF Sizes
    <3>1. upperLow \in valid /\ upperLow <= upperHigh
      BY DEF IInv, Ordered, InnerValid, Bracketed, Refining
    <3>2. upperHigh \in upperLow .. x
      BY <2>1, <3>1, MaxAssumption DEF Sizes
    <3>3. upperHigh \in valid
      BY <3>1, <3>2 DEF IsInterval
    <3> QED
      BY <2>1, <3>3, MaxAssumption DEF IInv, OuterInvalid, Bracketed, Sizes
  <2>4. lowerHigh - lowerLow <= GAP /\ upperHigh - upperLow <= GAP
    BY DEF IInv, Narrowed
  <2> QED
    BY <2>1, <2>2, <2>3, <2>4, MaxAssumption, GapAssumption DEF lower, upper, Sizes
<1> QED
  BY Inductive, <1>1, PTL

\* Each turn of a refinement narrows its bracket and leaves it non-empty, so
\* that neither loop of lines 164-177 and 227-240 can turn for ever.
THEOREM RefinementNarrows == Spec => Narrows
<1> DEFINE Narrower ==
      /\ RefineLower => lowerHigh' - lowerLow' < lowerHigh - lowerLow /\ lowerLow' < lowerHigh'
      /\ RefineUpper => upperHigh' - upperLow' < upperHigh - upperLow /\ upperLow' < upperHigh'
<1>1. IInv => Narrower
  <2> SUFFICES ASSUME IInv PROVE Narrower
    OBVIOUS
  <2>1. /\ lowerLow \in Sizes /\ lowerHigh \in Sizes
        /\ upperLow \in Sizes /\ upperHigh \in Sizes
    BY DEF IInv, TypeOK
  <2>2. ASSUME RefineLower
        PROVE  lowerHigh' - lowerLow' < lowerHigh - lowerLow /\ lowerLow' < lowerHigh'
    <3>1. /\ Mid(lowerLow, lowerHigh) \in Sizes
          /\ lowerLow < Mid(lowerLow, lowerHigh)
          /\ Mid(lowerLow, lowerHigh) < lowerHigh
      BY <2>1, <2>2, MidInside DEF RefineLower
    <3> QED
      BY <2>1, <2>2, <3>1, MaxAssumption DEF RefineLower, Sizes
  <2>3. ASSUME RefineUpper
        PROVE  upperHigh' - upperLow' < upperHigh - upperLow /\ upperLow' < upperHigh'
    <3>1. /\ Mid(upperLow, upperHigh) \in Sizes
          /\ upperLow < Mid(upperLow, upperHigh)
          /\ Mid(upperLow, upperHigh) < upperHigh
      BY <2>1, <2>3, MidInside DEF RefineUpper
    <3> QED
      BY <2>1, <2>3, <3>1, MaxAssumption DEF RefineUpper, Sizes
  <2> QED
    BY <2>2, <2>3
<1> QED
  BY Inductive, <1>1, PTL DEF Narrows
=============================================================================
