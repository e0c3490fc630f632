-------------------------- MODULE ImpliedVol_proofs --------------------------
(***************************************************************************)
(* Proofs about ImpliedVol, for every grid, tolerance and price function:  *)
(* the bisection keeps its bracket, converges, and what it returns prices  *)
(* the option at its mark.                                                 *)
(***************************************************************************)
EXTENDS ImpliedVol, TLAPS

\* After n rounds the bracket is Widths[n] wide, which is Tol or more as long as
\* the loop goes on; so the loop ends before Widths does.
Halved ==
  /\ phase \in {"called", "loop"} => iter \in 0..Steps /\ hi - lo = Widths[iter] /\ hi - lo >= Tol
  /\ phase = "called" => iter = 0 /\ lo = VolLow /\ hi = VolHigh /\ result = NoVol
  /\ phase = "loop" => ~OutOfBounds

IndInv == /\ TypeOK
          /\ Halved
          /\ Bracketed
          /\ FittedPricesTheMark
          /\ NoneOnlyOutOfBounds

\* The middle of a bracket of two units or more is inside it, and halves it.
LEMMA MiddleInside ==
  ASSUME TypeOK, Halved, phase = "loop"
  PROVE  /\ iter < Steps /\ iter \in Nat
         /\ lo \in Nat /\ hi \in Nat /\ mid \in Vols
         /\ lo < mid /\ mid < hi
         /\ mid - lo = Widths[iter + 1] /\ hi - mid = Widths[iter + 1]
<1>1. iter \in 0..Steps /\ hi - lo = Widths[iter] /\ hi - lo > 1 /\ Steps \in Nat
  BY IVAssumption DEF Halved
<1>2. iter # Steps
  BY <1>1, IVAssumption
<1>3. iter \in 0..(Steps - 1) /\ iter \in Nat /\ iter < Steps
  BY <1>1, <1>2
<1>4. /\ Widths[iter] = 2 * Widths[iter + 1]
      /\ Widths[iter + 1] \in Nat
  <2>1. iter + 1 \in 0..Steps
    BY <1>3, <1>1
  <2> QED BY <1>3, <2>1, IVAssumption
<1>5. lo \in Nat /\ hi \in Nat /\ VolLow <= lo /\ hi <= VolHigh /\ VolLow \in Nat /\ VolHigh \in Nat
  BY IVAssumption DEF TypeOK, Vols
<1>6. mid = lo + Widths[iter + 1]
  BY <1>1, <1>4, <1>5 DEF mid, Middle
<1> QED BY <1>1, <1>3, <1>4, <1>5, <1>6 DEF Vols

\* The middle of any two volatilities lies between them.
LEMMA MiddleBetween ==
  ASSUME NEW a \in Nat, NEW b \in Nat, a < b
  PROVE  Middle(a, b) \in Nat /\ a <= Middle(a, b) /\ Middle(a, b) <= b
BY DEF Middle

\* Prices and the mark are integers.
LEMMA PriceTyped ==
  ASSUME TypeOK
  PROVE  mark \in Int /\ \A v \in Vols : price[v] \in Int
BY IVAssumption DEF TypeOK, Vols

\* The call begins with the whole interval, which is as wide as Widths says.
LEMMA IndInit == Init => IndInv
<1> SUFFICES ASSUME Init PROVE IndInv
  OBVIOUS
<1>1. VolLow \in Vols /\ VolHigh \in Vols /\ 0 \in 0..Steps
  BY IVAssumption DEF Vols
<1>2. maxIter \in Nat
  BY IVAssumption DEF Init
<1>3. TypeOK
  BY <1>1, <1>2 DEF Init, TypeOK
<1>4. Halved
  BY <1>1, IVAssumption DEF Init, Halved
<1> QED BY <1>3, <1>4 DEF Init, IndInv, Bracketed, FittedPricesTheMark, Returned, NoneOnlyOutOfBounds

\* One round narrows the bracket about the mark.
LEMMA HalveStep ==
  ASSUME IndInv, Halve
  PROVE  IndInv'
<1> USE DEF IndInv
<1>1. phase = "loop" /\ iter < maxIter /\ maxIter \in Nat /\ UNCHANGED args
  BY IVAssumption DEF Halve, InLoop, TypeOK
<1>2. /\ iter < Steps /\ iter \in Nat
      /\ lo \in Nat /\ hi \in Nat /\ mid \in Vols
      /\ lo < mid /\ mid < hi
      /\ mid - lo = Widths[iter + 1] /\ hi - mid = Widths[iter + 1]
  BY <1>1, MiddleInside
<1>3. mark \in Int /\ (\A v \in Vols : price[v] \in Int) /\ lo \in Vols /\ hi \in Vols
  BY PriceTyped DEF TypeOK
<1>4. price[lo] <= mark /\ mark <= price[hi]
  BY <1>1 DEF Bracketed
<1>5. /\ lo' \in Vols /\ hi' \in Vols /\ lo' < hi'
      /\ hi' - lo' = Widths[iter + 1]
      /\ price[lo'] <= mark /\ mark <= price[hi']
  <2>1. CASE price[mid] < mark
    <3>1. lo' = mid /\ hi' = hi
      BY <2>1 DEF Halve, Narrow
    <3> QED BY <2>1, <3>1, <1>2, <1>3, <1>4
  <2>2. CASE ~(price[mid] < mark)
    <3>1. lo' = lo /\ hi' = mid
      BY <2>2 DEF Halve, Narrow
    <3>2. mark <= price[mid]
      BY <2>2, <1>2, <1>3
    <3> QED BY <3>1, <3>2, <1>2, <1>3, <1>4
  <2> QED BY <2>1, <2>2
<1>6. /\ iter' = iter + 1 /\ iter' \in 0..maxIter /\ iter' \in 0..Steps
      /\ Steps \in Nat /\ Tol \in Nat /\ NoVol \notin Nat
  BY <1>1, <1>2, IVAssumption DEF Halve
<1>7. ~OutOfBounds /\ ~OutOfBounds'
  BY <1>1 DEF Halved, OutOfBounds, args
<1>8. lo' \in Nat /\ hi' \in Nat
  BY <1>5, IVAssumption DEF Vols
<1>9. CASE hi' - lo' < Tol
  <2>1. phase' = "returned" /\ result' = Middle(lo', hi')
    BY <1>9 DEF Halve, Returns
  <2>2. result' \in Nat /\ lo' <= result' /\ result' <= hi'
    BY <2>1, <1>5, <1>8, MiddleBetween
  <2>3. result' \in Vols /\ result' # NoVol
    BY <2>2, <1>5, <1>6, <1>8, IVAssumption DEF Vols
  <2>4. TypeOK'
    BY <2>1, <2>3, <1>1, <1>5, <1>6 DEF TypeOK, args
  <2>5. FittedPricesTheMark'
    BY <2>2, <1>1, <1>5, <1>9 DEF FittedPricesTheMark, args
  <2> QED BY <2>1, <2>3, <2>4, <2>5 DEF Halved, Bracketed, NoneOnlyOutOfBounds
<1>10. CASE ~(hi' - lo' < Tol)
  <2>1. phase' = "loop" /\ result' = result
    BY <1>10, <1>1 DEF Halve
  <2>2. hi' - lo' >= Tol
    <3>1. hi' - lo' \in Int /\ Tol \in Int
      BY <1>6, <1>8
    <3> QED BY <1>10, <3>1
  <2>3. TypeOK'
    BY <2>1, <1>1, <1>5, <1>6 DEF TypeOK, args
  <2>4. Halved' /\ Bracketed'
    BY <2>1, <2>2, <1>1, <1>5, <1>6, <1>7 DEF Halved, Bracketed, args
  <2> QED BY <2>1, <2>3, <2>4 DEF FittedPricesTheMark, Returned, NoneOnlyOutOfBounds
<1> QED BY <1>9, <1>10

\* Every step keeps the invariant.
LEMMA IndStep == IndInv /\ [Next]_vars => IndInv'
<1> SUFFICES ASSUME IndInv, [Next]_vars PROVE IndInv'
  OBVIOUS
<1> USE DEF IndInv
<1>1. CASE Reject
  <2>1. OutOfBounds' /\ phase' = "returned" /\ result' = NoVol /\ TypeOK'
    BY <1>1 DEF Reject, Returns, OutOfBounds, args, TypeOK
  <2> QED BY <2>1 DEF Halved, Bracketed, FittedPricesTheMark, Returned, NoneOnlyOutOfBounds
<1>2. CASE EnterLoop
  <2>1. phase = "called" /\ phase' = "loop" /\ ~OutOfBounds' /\ UNCHANGED <<args, lo, hi, iter, result>>
    BY <1>2 DEF EnterLoop, OutOfBounds, args
  <2>2. TypeOK' /\ Halved'
    BY <2>1 DEF TypeOK, Halved, args
  <2>3. price[VolLow] <= mark /\ mark <= price[VolHigh]
    <3>1. VolLow \in Vols /\ VolHigh \in Vols
      BY IVAssumption DEF Vols
    <3> QED BY <1>2, <3>1, PriceTyped DEF EnterLoop, OutOfBounds
  <2>4. lo = VolLow /\ hi = VolHigh /\ VolLow < VolHigh
    BY <2>1, IVAssumption DEF Halved
  <2>5. Bracketed'
    BY <2>1, <2>3, <2>4 DEF Bracketed, args
  <2> QED BY <2>1, <2>2, <2>5 DEF FittedPricesTheMark, Returned, NoneOnlyOutOfBounds
<1>3. CASE Hit
  <2>1. /\ phase' = "returned" /\ result' = mid /\ Near(mid)
        /\ UNCHANGED <<args, lo, hi, iter>> /\ mid \in Vols
    BY <1>3, MiddleInside DEF Hit, InLoop, Returns
  <2>2. mid # NoVol
    BY <2>1, IVAssumption DEF Vols
  <2>3. TypeOK'
    BY <2>1 DEF TypeOK, args
  <2>4. PricedWithinTol(result)'
    <3>1. mark \in Int /\ price[mid] \in Int /\ Tol \in Int
      BY <2>1, PriceTyped, IVAssumption
    <3>2. mark - Tol <= price[mid] /\ price[mid] <= mark + Tol
      BY <3>1, <2>1 DEF Near
    <3> QED BY <3>2, <2>1 DEF PricedWithinTol, args
  <2> QED BY <2>1, <2>2, <2>3, <2>4
          DEF Halved, Bracketed, FittedPricesTheMark, NoneOnlyOutOfBounds
<1>4. CASE Halve
  BY <1>4, HalveStep
<1>5. CASE GiveUp
  <2>1. /\ phase' = "returned" /\ result' = NoVol
        /\ UNCHANGED <<args, lo, hi, iter>> /\ iter = maxIter /\ iter < Steps
    BY <1>5, MiddleInside DEF GiveUp, Returns
  <2>2. TypeOK'
    BY <2>1 DEF TypeOK, args
  <2>3. NoneOnlyOutOfBounds'
    BY <2>1, IVAssumption DEF NoneOnlyOutOfBounds, args, TypeOK
  <2> QED BY <2>1, <2>2, <2>3 DEF Halved, Bracketed, FittedPricesTheMark, Returned
<1>6. CASE UNCHANGED vars
  BY <1>6 DEF vars, args, TypeOK, Halved, OutOfBounds, Bracketed, FittedPricesTheMark,
              Returned, PricedWithinTol, NoneOnlyOutOfBounds
<1> QED BY <1>1, <1>2, <1>3, <1>4, <1>5, <1>6 DEF Next

\* Every reachable state satisfies the invariant.
LEMMA Invariance == Spec => []IndInv
BY IndInit, IndStep, PTL DEF Spec

\* The state of a fit stays well typed: what it returns is between the volatility
\* bounds, and it makes no more rounds than max_iter.
THEOREM TypeCorrect == Spec => []TypeOK
BY Invariance, PTL DEF IndInv

\* The bracket of the bisection always encloses the mark.
THEOREM BracketKept == Spec => []Bracketed
BY Invariance, PTL DEF IndInv

\* A volatility that is returned prices the option at its mark, or is next to where
\* the price crosses it.
THEOREM Fitted == Spec => []FittedPricesTheMark
BY Invariance, PTL DEF IndInv

\* With enough rounds, None means a degenerate or out-of-bounds input.
THEOREM Converges == Spec => []NoneOnlyOutOfBounds
BY Invariance, PTL DEF IndInv

\* Where vega is 1 or more, the volatility behind the price is recovered within tol.
THEOREM Recovered == Spec => []RoundTrip
<1>1. IndInv => RoundTrip
  <2> SUFFICES ASSUME IndInv, Returned, Sensitive, NEW v \in Vols, price[v] = mark
               PROVE  WithinTol(v)
    BY DEF RoundTrip
  <2>1. /\ mark \in Int /\ (\A u \in Vols : price[u] \in Int) /\ Tol \in Nat
        /\ \A u \in Vols : u \in Nat
    BY PriceTyped, IVAssumption DEF IndInv, Vols
  <2>2. result \in Vols
    BY DEF IndInv, TypeOK, Returned
  <2>3. CASE PricedWithinTol(result)
    <3>1. CASE result < v
      <4>1. price[v] - price[result] >= v - result
        BY <3>1, <2>2 DEF Sensitive
      <4> QED BY <4>1, <3>1, <2>1, <2>2, <2>3 DEF PricedWithinTol, WithinTol
    <3>2. CASE v < result
      <4>1. price[result] - price[v] >= result - v
        BY <3>2, <2>2 DEF Sensitive
      <4> QED BY <4>1, <3>2, <2>1, <2>2, <2>3 DEF PricedWithinTol, WithinTol
    <3>3. CASE v = result
      BY <3>3, <2>1, <2>2 DEF WithinTol
    <3> QED BY <3>1, <3>2, <3>3, <2>1, <2>2
  <2>4. CASE ~PricedWithinTol(result)
    <3>1. PICK a, b \in Vols : /\ a <= result /\ result <= b /\ b - a < Tol
                               /\ price[a] <= mark /\ mark <= price[b]
      BY <2>4 DEF IndInv, FittedPricesTheMark
    <3>2. a <= v
      <4> SUFFICES ASSUME v < a PROVE FALSE
        BY <2>1
      <4>1. price[a] - price[v] >= a - v
        BY DEF Sensitive
      <4> QED BY <4>1, <3>1, <2>1
    <3>3. v <= b
      <4> SUFFICES ASSUME b < v PROVE FALSE
        BY <2>1
      <4>1. price[v] - price[b] >= v - b
        BY DEF Sensitive
      <4> QED BY <4>1, <3>1, <2>1
    <3> QED BY <3>1, <3>2, <3>3, <2>1, <2>2 DEF WithinTol
  <2> QED BY <2>3, <2>4
<1> QED BY <1>1, Invariance, PTL
=============================================================================
