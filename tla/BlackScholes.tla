------------------------------ MODULE BlackScholes ------------------------------
(***************************************************************************)
(* BlackScholesKernel.compute and _bs_price (greeks_service/kernels/       *)
(* black_scholes.py).  Prices, rates, volatilities and square roots of     *)
(* times are integers, in units in which their products are exact; a       *)
(* quotient is kept as <<numerator, denominator>>.  log, exp, the normal   *)
(* distribution and its density are constants of which only the symmetry   *)
(* is assumed, and of the distribution that up to its last digit alone.    *)
(***************************************************************************)
EXTENDS Integers

CONSTANTS
  Prices, Rates, Vols,  \* what a spot or strike, a rate or yield, a volatility may be
  Roots,                \* square roots of times to expiry
  Log,                  \* math.log(float(spot / strike))
  Disc,                 \* math.exp(-float(rate * time)), in units of 1/One
  Vanishing, Endless,   \* spots and strikes whose quotient is the float 0.0, or inf
  Overflowing,          \* rates and roots of which math.exp makes no float
  Points,               \* what d1, d2 and their negatives may be
  Cdf, Pdf, One,        \* _norm_cdf, _norm_pdf, and the unit of both
  Largest,              \* the largest square Decimal can hold
  Unasked               \* no answer yet

VARIABLES
  market,  \* the arguments of compute(), but for right
  greeks   \* what it answered for each spelling of right

vars == <<market, greeks>>

Rights == {"CALL", "call", "PUT", "put"}
Markets == [spot : Prices, strike : Prices, rootT : Roots,
            rate : Rates, yield : Rates, vol : Vols]

Time(m) == m.rootT * m.rootT
DiscQ(m) == Disc[m.yield][m.rootT]
DiscR(m) == Disc[m.rate][m.rootT]

\* Fault seeded in D1: the variance is not halved.
D1Unhalved(m) ==
  <<2 * Log[m.spot][m.strike] + (2 * (m.rate - m.yield) + 2 * m.vol * m.vol) * Time(m),
    2 * m.vol * m.rootT>>

\* (ln(S/K) + (r - q + vol^2 / 2) T) / (vol sqrt(T)), both halves doubled
D1(m) ==
  <<2 * Log[m.spot][m.strike] + (2 * (m.rate - m.yield) + m.vol * m.vol) * Time(m),
    2 * m.vol * m.rootT>>
\* d1 - vol sqrt(T)
D2(m) == <<D1(m)[1] - 2 * m.vol * m.vol * Time(m), D1(m)[2]>>
Neg(x) == <<-x[1], x[2]>>

\* The logarithm, or a discount factor, raises: compute() and _bs_price catch it.
Unfit(m) == \/ <<m.spot, m.strike>> \in Vanishing
            \/ \E rate \in {m.rate, m.yield} : <<rate, m.rootT>> \in Overflowing

\* Of a zero price, time or volatility, or a negative one.
Degenerate(m) == m.spot <= 0 \/ m.strike <= 0 \/ Time(m) <= 0 \/ m.vol <= 0

ASSUME KernelAssumption ==
  /\ Prices \subseteq Int /\ Rates \subseteq Int /\ Vols \subseteq Int /\ Roots \subseteq Nat
  /\ One \in Nat /\ Largest \in Nat
  /\ Log \in [Prices -> [Prices -> Int]]
  /\ \A s, k \in Prices : Log[s][k] = -Log[k][s]
  /\ Disc \in [Rates -> [Roots -> Nat]]
  /\ Vanishing \subseteq Prices \X Prices /\ Endless \subseteq Prices \X Prices
  /\ Overflowing \subseteq Rates \X Roots
  /\ Points \subseteq Int \X Int
  /\ Cdf \in [Points -> Int] /\ Pdf \in [Points -> Int]
  /\ \A x \in Points : /\ Neg(x) \in Points
                       /\ Cdf[x] + Cdf[Neg(x)] - One \in {-1, 0, 1}
  /\ \A m \in Markets : ~Degenerate(m) => D1(m) \in Points /\ D2(m) \in Points

\* Fault seeded in Upper: the case of right matters.
UpperNot(right) == right

\* right.upper()
Upper(right) == IF right \in {"CALL", "call"} THEN "CALL" ELSE "PUT"

\* Fault seeded in Carry: the dividend term of a put has the sign of a call's.
CarrySign(m, right) ==
  IF right = "CALL"
  THEN m.yield * m.spot * DiscQ(m) * Cdf[D1(m)] - m.rate * m.strike * DiscR(m) * Cdf[D2(m)]
  ELSE m.rate * m.strike * DiscR(m) * Cdf[Neg(D2(m))]
       + m.yield * m.spot * DiscQ(m) * Cdf[Neg(D1(m))]

\* What theta has of the rate and the yield.
Carry(m, right) ==
  IF right = "CALL"
  THEN m.yield * m.spot * DiscQ(m) * Cdf[D1(m)] - m.rate * m.strike * DiscR(m) * Cdf[D2(m)]
  ELSE m.rate * m.strike * DiscR(m) * Cdf[Neg(D2(m))]
       - m.yield * m.spot * DiscQ(m) * Cdf[Neg(D1(m))]

Delta(m, right) == DiscQ(m) * (IF right = "CALL" THEN Cdf[D1(m)] ELSE Cdf[D1(m)] - One)
\* per 1% of the rate
Rho(m, right) ==
  <<IF right = "CALL" THEN m.strike * Time(m) * DiscR(m) * Cdf[D2(m)]
    ELSE -m.strike * Time(m) * DiscR(m) * Cdf[Neg(D2(m))], 100>>
\* per calendar day
Theta(m, right) ==
  <<2 * m.rootT * Carry(m, right) - m.spot * DiscQ(m) * Pdf[D1(m)] * m.vol,
    2 * m.rootT * 365>>
Gamma(m) == <<DiscQ(m) * Pdf[D1(m)], m.spot * m.vol * m.rootT>>
\* per 1% of volatility
Vega(m) == <<m.spot * DiscQ(m) * Pdf[D1(m)] * m.rootT, 100>>
Vanna(m) == <<-DiscQ(m) * Pdf[D1(m)] * D2(m)[1], m.vol * D2(m)[2]>>

\* Fault seeded in Volga: d1 is squared.
VolgaSquared(m) ==
  <<Vega(m)[1] * D1(m)[1] * D1(m)[1], Vega(m)[2] * m.vol * D1(m)[2] * D1(m)[2]>>

Volga(m) ==
  <<Vega(m)[1] * D1(m)[1] * D2(m)[1], Vega(m)[2] * m.vol * D1(m)[2] * D2(m)[2]>>

\* The exception compute() lets through, for all that its docstring says "never
\* raises" (black_scholes.py:212), and the result that is all zeros.
Raised == [raised |-> "decimal.Overflow"]
Zero == [zero |-> TRUE]

Greeks(m, right) ==
  [delta |-> Delta(m, right), rho |-> Rho(m, right), theta |-> Theta(m, right),
   gamma |-> Gamma(m), vega |-> Vega(m), vanna |-> Vanna(m), volga |-> Volga(m)]

\* In the order of the code: log(0.0) is the first to raise, then the square of the
\* volatility, then exp; and an infinite logarithm has a density of 0 multiplied with
\* an infinite d2, which is InvalidOperation.
Compute(m, right) ==
  IF Degenerate(m) \/ <<m.spot, m.strike>> \in Vanishing THEN Zero
  ELSE IF m.vol * m.vol > Largest THEN Raised
  ELSE IF Unfit(m) \/ <<m.spot, m.strike>> \in Endless THEN Zero
  ELSE Greeks(m, Upper(right))

\* _bs_price, which implied_vol_from_price inverts with volatilities whose square is
\* a Decimal
BsPrice(m, right) ==
  IF Degenerate(m) \/ Unfit(m) THEN 0
  ELSE IF right = "CALL"
  THEN m.spot * DiscQ(m) * Cdf[D1(m)] - m.strike * DiscR(m) * Cdf[D2(m)]
  ELSE m.strike * DiscR(m) * Cdf[Neg(D2(m))] - m.spot * DiscQ(m) * Cdf[Neg(D1(m))]

Init == market \in Markets /\ greeks = [right \in Rights |-> Unasked]

Ask(right) == /\ greeks[right] = Unasked
              /\ greeks' = [greeks EXCEPT ![right] = Compute(market, right)]
              /\ UNCHANGED market

Next == \E right \in Rights : Ask(right)

Spec == Init /\ [][Next]_vars

-----------------------------------------------------------------------------
(* Properties *)

Given(right) == greeks[right] \notin {Unasked, Zero, Raised}
Within(x, bound) == -bound <= x /\ x <= bound
Abs(x) == IF x < 0 THEN -x ELSE x

\* Theta, delta and gamma, which are computed by three formulas, and the price the
\* fit of volatilities uses, which is a fourth, solve the equation the model is
\* named for, theta + (r - q) S delta + vol^2 S^2 gamma / 2 = r V ("using the classic
\* Black-Scholes-Merton model", black_scholes.py:4): for a call exactly, for a put
\* up to the last digit of _norm_cdf.
PricingEquation ==
  \A right \in Rights : Given(right) =>
    LET g == greeks[right]
        scale == g.theta[2] * g.gamma[2]
        drift == market.rate - market.yield
    IN Within(2 * 365 * g.theta[1] * g.gamma[2]
              + 2 * drift * market.spot * g.delta * scale
              + market.vol * market.vol * market.spot * market.spot * g.gamma[1] * g.theta[2]
              - 2 * market.rate * BsPrice(market, Upper(right)) * scale,
              IF Upper(right) = "CALL" THEN 0
              ELSE 2 * Abs(drift) * market.spot * DiscQ(market) * scale)

\* A call on an asset is a put on the cash it is paid in: the same holding seen
\* from the other side, with spot and strike, rate and yield exchanged.
Dual(m) == [m EXCEPT !.spot = m.strike, !.strike = m.spot, !.rate = m.yield, !.yield = m.rate]
Other(right) == IF right = "CALL" THEN "PUT" ELSE "CALL"

\* The price of an option is the price of its dual, and its rho ("per 1% move in
\* risk-free rate", black_scholes.py:70) the delta of its dual, the other way round:
\* a slip in a sign of d1 or d2, or in a discount factor, breaks this.  (The dual may
\* have no greeks: of two quotients, each the inverse of the other, one may be inf.)
PutCallDuality ==
  \A right \in Rights :
    LET rho == greeks[right].rho
        face == market.strike * Time(market)
        dual == Compute(Dual(market), Other(Upper(right)))
    IN Given(right) /\ dual # Zero =>
       /\ BsPrice(market, Upper(right)) = BsPrice(Dual(market), Other(Upper(right)))
       /\ Within(100 * rho[1] + face * dual.delta * rho[2],
                 face * DiscR(market) * rho[2])

\* A call less a put is the discounted asset less the discounted strike, in price, in
\* delta ("delta_call - delta_put = e^(-q*T)", test_black_scholes.py:269) and in rho,
\* however right is spelt: of delta exactly, of the others up to the last digit of
\* _norm_cdf.
PutCallParity ==
  \A c \in {"CALL", "call"}, p \in {"PUT", "put"} : Given(c) /\ Given(p) =>
    LET call == greeks[c]  put == greeks[p]
        asset == market.spot * DiscQ(market)
        cash == market.strike * DiscR(market)
        units == call.rho[2] * put.rho[2]
    IN /\ call.delta - put.delta = DiscQ(market) * One
       /\ Within(BsPrice(market, Upper(c)) - BsPrice(market, Upper(p)) - (asset - cash) * One,
                 asset + cash)
       /\ Within(100 * (call.rho[1] * put.rho[2] - put.rho[1] * call.rho[2])
                   - cash * Time(market) * One * units,
                 cash * Time(market) * units)

Same(a, b) == a[1] * b[2] = b[1] * a[2]

\* How the greeks of volatility follow the log of forward / strike, and in which unit
\* (black_scholes.py:69-72).  With f twice that log and w the variance to expiry,
\* vega is S^2 vol T gamma, vanna S 2w = -vega (f - w) and volga vol 4w = vega (f^2 - w^2).
\* Volga is negative then where |f| < w, near the money, for all that a test says it
\* "is always non-negative" (test_black_scholes.py:583), of strikes of which none is.
VolgaFollowsMoneyness ==
  \A right \in Rights : Given(right) =>
    LET g == greeks[right]
        w == market.vol * market.vol * Time(market)
        f == 2 * (Log[market.spot][market.strike] + (market.rate - market.yield) * Time(market))
    IN /\ Same(<<100 * g.vega[1], g.vega[2]>>,
               <<market.spot * market.spot * market.vol * Time(market) * g.gamma[1], g.gamma[2]>>)
       /\ Same(<<g.vanna[1] * market.spot * 2 * w, g.vanna[2]>>,
               <<-100 * g.vega[1] * (f - w), g.vega[2]>>)
       /\ Same(<<g.volga[1] * market.vol * 4 * w, g.volga[2]>>,
               <<g.vega[1] * (f - w) * (f + w), g.vega[2]>>)
=============================================================================
