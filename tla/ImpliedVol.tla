------------------------------ MODULE ImpliedVol ------------------------------
(***************************************************************************)
(* implied_vol_from_price (greeks_service/kernels/black_scholes.py): the   *)
(* bisection that fits a volatility to an option's mark price.             *)
(*                                                                         *)
(* Volatilities are points of a grid between _IV_LOW and _IV_HIGH, as fine *)
(* as the halvings of that interval need; prices are integers in the same  *)
(* unit, since one `tol` is compared with both.  _bs_price is any function *)
(* of the volatility: spot, strike, time, rates and right are fixed during *)
(* a call.                                                                 *)
(***************************************************************************)
EXTENDS Integers

CONSTANTS
  VolLow, VolHigh,  \* _IV_LOW, _IV_HIGH
  Steps,            \* halvings of the interval that leave one unit
  Widths,           \* width of the interval after each number of halvings
  Tol,              \* tol
  Prices,           \* what _bs_price may be, as functions of the volatility
  Marks,            \* mark_price
  MaxIters,         \* max_iter
  NoVol             \* None

ASSUME IVAssumption ==
  /\ VolLow \in Nat /\ VolHigh \in Nat /\ Steps \in Nat
  /\ Widths \in [0..Steps -> Nat]
  /\ Widths[0] = VolHigh - VolLow /\ Widths[Steps] = 1
  /\ \A n \in 0..(Steps - 1) : Widths[n] = 2 * Widths[n + 1] /\ Widths[n + 1] > 0
  /\ Tol \in Nat /\ Tol > 1 /\ Widths[0] >= Tol
  /\ Prices \subseteq [VolLow..VolHigh -> Int]
  /\ Marks \subseteq Int /\ MaxIters \subseteq Nat
  /\ NoVol \notin Nat

Vols == VolLow..VolHigh

VARIABLES
  price,   \* argument: the option, as its price for each volatility
  mark,    \* argument: mark_price
  usable,  \* arguments: spot, strike and time_to_expiry are positive
  maxIter, \* argument: max_iter
  phase,   \* where the call is
  lo, hi,  \* the bracket
  iter,    \* rounds of the loop done
  result   \* what the call returned

args == <<price, mark, usable, maxIter>>
vars == <<args, phase, lo, hi, iter, result>>

Init ==
  /\ price \in Prices /\ mark \in Marks /\ usable \in BOOLEAN /\ maxIter \in MaxIters
  /\ phase = "called"
  /\ lo = VolLow /\ hi = VolHigh
  /\ iter = 0
  /\ result = NoVol

Returns(vol) == phase' = "returned" /\ result' = vol

\* Degenerate inputs, or a price no volatility in the interval can give.
OutOfBounds == \/ ~usable \/ mark <= 0
               \/ mark < price[VolLow] \/ mark > price[VolHigh]

Reject == /\ phase = "called" /\ OutOfBounds
          /\ Returns(NoVol)
          /\ UNCHANGED <<args, lo, hi, iter>>

EnterLoop == /\ phase = "called" /\ ~OutOfBounds
             /\ phase' = "loop"
             /\ UNCHANGED <<args, lo, hi, iter, result>>

Middle(low, high) == (low + high) \div 2

mid == Middle(lo, hi)

\* Fault seeded in Near: the difference is compared without its abs().
NearUnsigned(vol) == price[vol] - mark <= Tol

\* abs(price_mid - mark_price) <= tol
Near(vol) == price[vol] - mark <= Tol /\ mark - price[vol] <= Tol

\* Fault seeded in InLoop: one round too many.
InLoopOneMore == phase = "loop" /\ iter <= maxIter

InLoop == phase = "loop" /\ iter < maxIter

Hit == /\ InLoop /\ Near(mid)
       /\ Returns(mid)
       /\ UNCHANGED <<args, lo, hi, iter>>

\* Fault seeded in Narrow: the halves are swapped.
NarrowSwapped ==
  IF price[mid] < mark THEN lo' = lo /\ hi' = mid
                       ELSE lo' = mid /\ hi' = hi

Narrow == IF price[mid] < mark THEN lo' = mid /\ hi' = hi
                               ELSE lo' = lo /\ hi' = mid

\* Fault seeded in Halve: the bracket is never found narrow enough.
HalveOnly == /\ InLoop /\ ~Near(mid)
             /\ Narrow
             /\ iter' = iter + 1
             /\ UNCHANGED <<args, phase, result>>

\* One round that does not hit the price; it returns when the bracket is narrow.
Halve == /\ InLoop /\ ~Near(mid)
         /\ Narrow
         /\ iter' = iter + 1
         /\ IF hi' - lo' < Tol THEN Returns(Middle(lo', hi'))
                               ELSE UNCHANGED <<phase, result>>
         /\ UNCHANGED args

\* The loop is exhausted: "did not converge".
GiveUp == /\ phase = "loop" /\ iter = maxIter
          /\ Returns(NoVol)
          /\ UNCHANGED <<args, lo, hi, iter>>

Next == Reject \/ EnterLoop \/ Hit \/ Halve \/ GiveUp

Spec == Init /\ [][Next]_vars

-----------------------------------------------------------------------------
(* Properties *)

TypeOK ==
  /\ price \in Prices /\ mark \in Marks /\ usable \in BOOLEAN /\ maxIter \in MaxIters
  /\ phase \in {"called", "loop", "returned"}
  /\ lo \in Vols /\ hi \in Vols
  /\ iter \in 0..maxIter
  /\ result \in Vols \cup {NoVol}

\* Bisection keeps a bracket: the prices at its ends enclose the mark, in every
\* round, whether the price rises with the volatility or not.
Bracketed ==
  phase = "loop" => lo < hi /\ price[lo] <= mark /\ mark <= price[hi]

Returned == phase = "returned" /\ result # NoVol
PricedWithinTol(vol) == mark - Tol <= price[vol] /\ price[vol] <= mark + Tol

\* A fitted volatility prices the option at its mark within tol, or lies where the
\* price crosses the mark within tol of volatility.
FittedPricesTheMark ==
  Returned =>
    \/ PricedWithinTol(result)
    \/ \E u, v \in Vols : /\ u <= result /\ result <= v /\ v - u < Tol
                          /\ price[u] <= mark /\ mark <= price[v]

\* "Convergence fails within max_iter iterations" (black_scholes.py:333) never
\* happens if max_iter is the halvings the interval needs (_IV_MAX_ITER is above
\* three times that): a price within the bounds has a fitted volatility.
NoneOnlyOutOfBounds ==
  phase = "returned" /\ result = NoVol /\ maxIter >= Steps => OutOfBounds

\* Each unit of volatility adds a unit to the price or more (vega is at least 1).
Sensitive == \A u, v \in Vols : u < v => price[v] - price[u] >= v - u

WithinTol(v) == result - v <= Tol /\ v - result <= Tol

\* The volatility behind a price is recovered within tol if vega is at least 1,
\* the round trip of the kernel's tests (test_black_scholes.py:387). The docstring's
\* "Convergence tolerance on IV" (black_scholes.py:344) promises it of every vega, and
\* the code does not: it stops at the first price within tol.
RoundTrip ==
  Returned /\ Sensitive => \A v \in Vols : price[v] = mark => WithinTol(v)
=============================================================================
