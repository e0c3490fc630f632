-------------------------- MODULE BlackScholes_proofs --------------------------
(***************************************************************************)
(* Proofs about BlackScholes, for all prices, rates, volatilities and      *)
(* times, and for every logarithm, discount factor, distribution and       *)
(* density with the assumed symmetries.                                    *)
(***************************************************************************)
EXTENDS BlackScholes, TLAPS

-----------------------------------------------------------------------------
(* Algebra *)

\* The equation for a call, of which no more is used than that these are integers.
LEMMA CallEquation ==
  ASSUME NEW S \in Int, NEW K \in Int, NEW r \in Int, NEW q \in Int, NEW v \in Int,
         NEW s \in Int, NEW dq \in Int, NEW dr \in Int, NEW n1 \in Int, NEW n2 \in Int,
         NEW p \in Int
  PROVE  2 * 365 * (2 * s * (q * S * dq * n1 - r * K * dr * n2) - S * dq * p * v) * (S * v * s)
         + 2 * (r - q) * S * (dq * n1) * ((2 * s * 365) * (S * v * s))
         + v * v * S * S * (dq * p) * (2 * s * 365)
         - 2 * r * (S * dq * n1 - K * dr * n2) * ((2 * s * 365) * (S * v * s)) = 0
OBVIOUS

\* The equation for a put, and what the distribution of d1 and that of -d1 lack of one.
LEMMA PutEquation ==
  ASSUME NEW S \in Int, NEW K \in Int, NEW r \in Int, NEW q \in Int, NEW v \in Int,
         NEW s \in Int, NEW dq \in Int, NEW dr \in Int, NEW n1 \in Int, NEW m1 \in Int,
         NEW m2 \in Int, NEW p \in Int, NEW one \in Int
  PROVE  2 * 365 * (2 * s * (r * K * dr * m2 - q * S * dq * m1) - S * dq * p * v) * (S * v * s)
         + 2 * (r - q) * S * (dq * (n1 - one)) * ((2 * s * 365) * (S * v * s))
         + v * v * S * S * (dq * p) * (2 * s * 365)
         - 2 * r * (K * dr * m2 - S * dq * m1) * ((2 * s * 365) * (S * v * s))
           = 2 * (r - q) * (S * dq * ((2 * s * 365) * (S * v * s))) * (n1 + m1 - one)
OBVIOUS

\* The product of naturals is one.
LEMMA Product == ASSUME NEW a \in Nat, NEW b \in Nat PROVE a * b \in Nat
OBVIOUS

\* A last digit more or less.
LEMMA LastDigit ==
  ASSUME NEW x \in Int, NEW w \in Nat, NEW e \in {-1, 0, 1}
  PROVE  Within(2 * x * w * e, 2 * Abs(x) * w)
<1>1. CASE x >= 0
  <2>1. x * w \in Nat
    BY <1>1, Product
  <2>2. 2 * x * w * e = 2 * (x * w) * e /\ 2 * Abs(x) * w = 2 * (x * w)
    BY <1>1 DEF Abs
  <2> QED BY <2>1, <2>2 DEF Within
<1>2. CASE x < 0
  <2>1. (-x) * w \in Nat
    BY <1>2, Product
  <2>2. 2 * x * w * e = -(2 * ((-x) * w) * e) /\ 2 * Abs(x) * w = 2 * ((-x) * w)
    BY <1>2 DEF Abs
  <2> QED BY <2>1, <2>2 DEF Within
<1> QED BY <1>1, <1>2

-----------------------------------------------------------------------------
(* Markets *)

LEMMA Quantities ==
  ASSUME NEW m \in Markets, ~Degenerate(m)
  PROVE  /\ m.spot \in Nat /\ m.strike \in Nat /\ m.vol \in Nat /\ m.rootT \in Nat
         /\ m.rate \in Int /\ m.yield \in Int /\ Time(m) \in Nat
         /\ DiscQ(m) \in Nat /\ DiscR(m) \in Nat
         /\ Log[m.spot][m.strike] \in Int
         /\ D1(m)[1] \in Int /\ D2(m)[1] \in Int /\ D1(m)[2] \in Int /\ D2(m)[2] \in Int
         /\ \A x \in {D1(m), D2(m), Neg(D1(m)), Neg(D2(m))} : Cdf[x] \in Int /\ Pdf[x] \in Int
         /\ Cdf[D1(m)] + Cdf[Neg(D1(m))] - One \in {-1, 0, 1}
         /\ Cdf[D2(m)] + Cdf[Neg(D2(m))] - One \in {-1, 0, 1}
         /\ One \in Int
<1> USE KernelAssumption
<1>1. /\ m.spot \in Int /\ m.strike \in Int /\ m.vol \in Int /\ m.rootT \in Nat
      /\ m.rate \in Rates /\ m.yield \in Rates /\ m.rootT \in Roots
      /\ m.spot \in Prices /\ m.strike \in Prices
  BY DEF Markets
<1>2. Time(m) \in Nat
  BY <1>1, Product DEF Time
<1>3. m.spot \in Nat /\ m.strike \in Nat /\ m.vol \in Nat
  BY <1>1 DEF Degenerate
<1>4. DiscQ(m) \in Nat /\ DiscR(m) \in Nat
  BY <1>1 DEF DiscQ, DiscR
<1>5. Log[m.spot][m.strike] \in Int
  BY <1>1
<1>6. /\ D1(m) \in Points /\ D2(m) \in Points
      /\ Neg(D1(m)) \in Points /\ Neg(D2(m)) \in Points
  OBVIOUS
<1>7. D1(m)[1] \in Int /\ D2(m)[1] \in Int /\ D1(m)[2] \in Int /\ D2(m)[2] \in Int
  BY <1>6
<1>8. \A x \in Points : Cdf[x] \in Int /\ Pdf[x] \in Int
  OBVIOUS
<1>9. /\ Cdf[D1(m)] + Cdf[Neg(D1(m))] - One \in {-1, 0, 1}
      /\ Cdf[D2(m)] + Cdf[Neg(D2(m))] - One \in {-1, 0, 1}
      /\ One \in Int
  BY <1>6
<1>10. /\ m.rate \in Int /\ m.yield \in Int
  BY <1>1
<1> QED BY <1>1, <1>2, <1>3, <1>4, <1>5, <1>6, <1>7, <1>8, <1>9, <1>10

\* The dual of a market is one whose d1 and d2 are the negatives of d2 and d1.
LEMMA DualMarket ==
  ASSUME NEW m \in Markets, ~Degenerate(m)
  PROVE  /\ Dual(m) \in Markets /\ ~Degenerate(Dual(m))
         /\ Dual(m).spot = m.strike /\ Dual(m).strike = m.spot
         /\ DiscQ(Dual(m)) = DiscR(m) /\ DiscR(Dual(m)) = DiscQ(m)
         /\ Dual(m).vol = m.vol
         /\ D1(Dual(m)) = Neg(D2(m)) /\ D2(Dual(m)) = Neg(D1(m))
<1> DEFINE d == Dual(m)
<1>1. /\ d.spot = m.strike /\ d.strike = m.spot /\ d.rate = m.yield /\ d.yield = m.rate
      /\ d.vol = m.vol /\ d.rootT = m.rootT /\ d \in Markets
  BY DEF Dual, Markets
<1> HIDE DEF d
<1>2. Time(d) = Time(m)
  BY <1>1 DEF Time
<1>3. ~Degenerate(d)
  BY <1>1, <1>2 DEF Degenerate
<1>4. DiscQ(d) = DiscR(m) /\ DiscR(d) = DiscQ(m)
  BY <1>1 DEF DiscQ, DiscR
<1>5. Log[d.spot][d.strike] = -Log[m.spot][m.strike]
  BY <1>1, KernelAssumption DEF Markets
<1>6. PICK l \in Int, t \in Int, v \in Int, s \in Int, r \in Int, q \in Int :
        /\ l = Log[m.spot][m.strike] /\ t = Time(m) /\ v = m.vol /\ s = m.rootT
        /\ r = m.rate /\ q = m.yield
  <2>1. /\ Log[m.spot][m.strike] \in Int /\ Time(m) \in Int /\ m.vol \in Int
        /\ m.rootT \in Int /\ m.rate \in Int /\ m.yield \in Int
    BY Quantities
  <2> QED BY <2>1
<1>7. /\ D1(m) = <<2 * l + (2 * (r - q) + v * v) * t, 2 * v * s>>
      /\ D1(d) = <<2 * (-l) + (2 * (q - r) + v * v) * t, 2 * v * s>>
  BY <1>1, <1>2, <1>5, <1>6 DEF D1
<1>8. /\ D2(m) = <<2 * l + (2 * (r - q) + v * v) * t - 2 * v * v * t, 2 * v * s>>
      /\ D2(d) = <<2 * (-l) + (2 * (q - r) + v * v) * t - 2 * v * v * t, 2 * v * s>>
  <2>1. /\ D2(m) = <<D1(m)[1] - 2 * v * v * t, D1(m)[2]>>
        /\ D2(d) = <<D1(d)[1] - 2 * v * v * t, D1(d)[2]>>
    BY <1>1, <1>2, <1>6 DEF D2
  <2> QED BY <1>7, <2>1
<1>9. /\ 2 * (-l) + (2 * (q - r) + v * v) * t
           = -(2 * l + (2 * (r - q) + v * v) * t - 2 * v * v * t)
      /\ 2 * (-l) + (2 * (q - r) + v * v) * t - 2 * v * v * t
           = -(2 * l + (2 * (r - q) + v * v) * t)
  OBVIOUS
<1>10. D1(d) = Neg(D2(m)) /\ D2(d) = Neg(D1(m))
  BY <1>7, <1>8, <1>9 DEF Neg
<1> QED BY <1>1, <1>3, <1>4, <1>10 DEF d

-----------------------------------------------------------------------------
(* The invariant *)

\* Every answer is the one compute() gives for the market.
Inv == /\ market \in Markets
       /\ \A right \in Rights : greeks[right] \in {Unasked, Compute(market, right)}
       /\ DOMAIN greeks = Rights

LEMMA Invariant == Spec => []Inv
<1>1. Init => Inv
  BY DEF Init, Inv
<1>2. Inv /\ [Next]_vars => Inv'
  BY DEF Inv, Next, Ask, vars
<1> QED BY <1>1, <1>2, PTL DEF Spec

\* An answer that is neither zeros nor an exception is made of the seven formulas.
LEMMA Answer ==
  ASSUME Inv, NEW right \in Rights, Given(right)
  PROVE  /\ market \in Markets /\ ~Degenerate(market) /\ ~(market.vol * market.vol > Largest)
         /\ ~Unfit(market)
         /\ greeks[right] = Greeks(market, Upper(right))
         /\ greeks[right].delta = Delta(market, Upper(right))
         /\ greeks[right].rho = Rho(market, Upper(right))
         /\ greeks[right].theta = Theta(market, Upper(right))
         /\ greeks[right].gamma = Gamma(market)
         /\ greeks[right].vega = Vega(market)
         /\ greeks[right].vanna = Vanna(market)
         /\ greeks[right].volga = Volga(market)
         /\ Upper(right) \in {"CALL", "PUT"}
<1>1. greeks[right] = Compute(market, right) /\ market \in Markets
  BY DEF Inv, Given
<1>2. ~Degenerate(market) /\ ~(market.vol * market.vol > Largest) /\ ~Unfit(market)
  BY <1>1 DEF Given, Compute
<1>3. greeks[right] = Greeks(market, Upper(right))
  BY <1>1, <1>2 DEF Given, Compute
<1> QED BY <1>1, <1>2, <1>3 DEF Greeks, Upper

-----------------------------------------------------------------------------
(* The properties *)

\* The greeks and the price solve the Black-Scholes-Merton equation.
THEOREM Equation == Spec => []PricingEquation
<1>1. ASSUME Inv, NEW right \in Rights, Given(right)
      PROVE  LET g == greeks[right]
                 scale == g.theta[2] * g.gamma[2]
                 drift == market.rate - market.yield
             IN Within(2 * 365 * g.theta[1] * g.gamma[2]
                       + 2 * drift * market.spot * g.delta * scale
                       + market.vol * market.vol * market.spot * market.spot
                           * g.gamma[1] * g.theta[2]
                       - 2 * market.rate * BsPrice(market, Upper(right)) * scale,
                       IF Upper(right) = "CALL" THEN 0
                       ELSE 2 * Abs(drift) * market.spot * DiscQ(market) * scale)
  <2>1. PICK S \in Nat, K \in Nat, r \in Int, q \in Int, v \in Nat, s \in Nat, dq \in Nat,
             dr \in Nat, n1 \in Int, n2 \in Int, m1 \in Int, m2 \in Int, p \in Int, one \in Int :
          /\ S = market.spot /\ K = market.strike /\ r = market.rate /\ q = market.yield
          /\ v = market.vol /\ s = market.rootT /\ dq = DiscQ(market) /\ dr = DiscR(market)
          /\ n1 = Cdf[D1(market)] /\ n2 = Cdf[D2(market)] /\ p = Pdf[D1(market)]
          /\ m1 = Cdf[Neg(D1(market))] /\ m2 = Cdf[Neg(D2(market))] /\ one = One
          /\ n1 + m1 - one \in {-1, 0, 1}
    BY <1>1, Answer, Quantities
  <2>2. greeks[right].gamma = <<dq * p, S * v * s>>
    BY <1>1, <2>1, Answer DEF Gamma
  <2>3. CASE Upper(right) = "CALL"
    <3>1. /\ greeks[right].delta = dq * n1
          /\ greeks[right].theta
               = <<2 * s * (q * S * dq * n1 - r * K * dr * n2) - S * dq * p * v, 2 * s * 365>>
          /\ BsPrice(market, Upper(right)) = S * dq * n1 - K * dr * n2
      BY <1>1, <2>1, <2>3, Answer DEF Delta, Theta, Carry, BsPrice
    <3>2. 2 * 365 * (2 * s * (q * S * dq * n1 - r * K * dr * n2) - S * dq * p * v) * (S * v * s)
          + 2 * (r - q) * S * (dq * n1) * ((2 * s * 365) * (S * v * s))
          + v * v * S * S * (dq * p) * (2 * s * 365)
          - 2 * r * (S * dq * n1 - K * dr * n2) * ((2 * s * 365) * (S * v * s)) = 0
      BY CallEquation
    <3>3. Within(0, 0)
      BY DEF Within
    <3> QED BY <2>1, <2>2, <2>3, <3>1, <3>2, <3>3
  <2>4. CASE Upper(right) = "PUT"
    <3>1. /\ greeks[right].delta = dq * (n1 - one)
          /\ greeks[right].theta
               = <<2 * s * (r * K * dr * m2 - q * S * dq * m1) - S * dq * p * v, 2 * s * 365>>
          /\ BsPrice(market, Upper(right)) = K * dr * m2 - S * dq * m1
      BY <1>1, <2>1, <2>4, Answer DEF Delta, Theta, Carry, BsPrice
    <3> DEFINE scale == (2 * s * 365) * (S * v * s)
               w == S * dq * scale
    <3>2. w \in Nat
      <4>1. 2 * s * 365 \in Nat /\ S * v \in Nat /\ S * dq \in Nat
        BY Product
      <4>2. S * v * s \in Nat
        BY <4>1, Product
      <4>3. scale \in Nat
        BY <4>1, <4>2, Product
      <4> HIDE DEF scale
      <4> QED BY <4>1, <4>3, Product
    <3>3. 2 * 365 * (2 * s * (r * K * dr * m2 - q * S * dq * m1) - S * dq * p * v) * (S * v * s)
          + 2 * (r - q) * S * (dq * (n1 - one)) * scale
          + v * v * S * S * (dq * p) * (2 * s * 365)
          - 2 * r * (K * dr * m2 - S * dq * m1) * scale
            = 2 * (r - q) * w * (n1 + m1 - one)
      BY PutEquation
    <3>4. Within(2 * (r - q) * w * (n1 + m1 - one), 2 * Abs(r - q) * w)
      <4>1. r - q \in Int /\ n1 + m1 - one \in {-1, 0, 1}
        BY <2>1
      <4> HIDE DEF w
      <4> QED BY <3>2, <4>1, LastDigit
    <3>5. 2 * Abs(r - q) * w = 2 * Abs(r - q) * S * dq * scale
      BY DEF Abs
    <3> QED BY <2>1, <2>2, <2>4, <3>1, <3>3, <3>4, <3>5
  <2> QED BY <1>1, <2>3, <2>4, Answer
<1>2. Inv => PricingEquation
  BY <1>1 DEF PricingEquation
<1> QED BY Invariant, <1>2, PTL

\* The price of an option is that of its dual, and its rho the delta of its dual.
THEOREM Duality == Spec => []PutCallDuality
<1>1. ASSUME Inv, NEW right \in Rights, Given(right),
             Compute(Dual(market), Other(Upper(right))) # Zero
      PROVE  LET rho == greeks[right].rho
                 face == market.strike * Time(market)
                 dual == Compute(Dual(market), Other(Upper(right)))
             IN /\ BsPrice(market, Upper(right)) = BsPrice(Dual(market), Other(Upper(right)))
                /\ Within(100 * rho[1] + face * dual.delta * rho[2],
                          face * DiscR(market) * rho[2])
  <2> DEFINE d == Dual(market)
  <2>1. PICK K \in Nat, t \in Nat, dr \in Nat, n1 \in Int, n2 \in Int, m1 \in Int,
             m2 \in Int, one \in Int :
          /\ K = market.strike /\ t = Time(market) /\ dr = DiscR(market)
          /\ n1 = Cdf[D1(market)] /\ n2 = Cdf[D2(market)]
          /\ m1 = Cdf[Neg(D1(market))] /\ m2 = Cdf[Neg(D2(market))] /\ one = One
          /\ n2 + m2 - one \in {-1, 0, 1}
    BY <1>1, Answer, Quantities
  <2>2. /\ market \in Markets /\ ~Degenerate(market) /\ ~Unfit(market)
        /\ ~(market.vol * market.vol > Largest) /\ Upper(right) \in {"CALL", "PUT"}
        /\ greeks[right].rho = Rho(market, Upper(right))
    BY <1>1, Answer
  <2>3. /\ ~Degenerate(d) /\ d.vol = market.vol
        /\ d.spot = market.strike /\ d.strike = market.spot
        /\ DiscQ(d) = dr /\ DiscR(d) = DiscQ(market)
        /\ D1(d) = Neg(D2(market)) /\ D2(d) = Neg(D1(market))
    BY <2>1, <2>2, DualMarket
  <2>4. Neg(D1(d)) = D2(market) /\ Neg(D2(d)) = D1(market)
    <3>1. D1(market) = <<D1(market)[1], D1(market)[2]>> /\ D2(market) = <<D2(market)[1], D2(market)[2]>>
      BY DEF D1, D2
    <3>2. D1(market)[1] \in Int /\ D2(market)[1] \in Int
      BY <2>2, Quantities
    <3> QED BY <2>3, <3>1, <3>2 DEF Neg
  <2>5. /\ Compute(d, Other(Upper(right))).delta = Delta(d, Other(Upper(right)))
        /\ ~Unfit(d)
    <3>1. Upper(Other(Upper(right))) = Other(Upper(right))
      BY <2>2 DEF Other, Upper
    <3>2. Compute(d, Other(Upper(right))) = Greeks(d, Other(Upper(right))) /\ ~Unfit(d)
      BY <1>1, <2>2, <2>3, <3>1 DEF Compute
    <3> QED BY <3>2 DEF Greeks
  <2> HIDE DEF d
  <2> DEFINE face == K * t
  <2>6. face \in Nat /\ face * dr \in Nat /\ face * dr * 100 \in Nat
    BY Product
  <2>7. CASE Upper(right) = "CALL"
    <3>1. BsPrice(market, "CALL") = BsPrice(d, "PUT")
      <4>1. BsPrice(market, "CALL") = market.spot * DiscQ(market) * Cdf[D1(market)]
                                      - market.strike * DiscR(market) * Cdf[D2(market)]
        BY <2>2 DEF BsPrice
      <4>2. BsPrice(d, "PUT") = d.strike * DiscR(d) * Cdf[Neg(D2(d))]
                                - d.spot * DiscQ(d) * Cdf[Neg(D1(d))]
        BY <2>3, <2>5 DEF BsPrice
      <4> QED BY <2>1, <2>3, <2>4, <4>1, <4>2
    <3>2. /\ greeks[right].rho = <<K * t * dr * n2, 100>>
          /\ Compute(d, "PUT").delta = dr * (m2 - one)
      BY <2>1, <2>2, <2>3, <2>5, <2>7 DEF Rho, Delta, Other
    <3>3. 100 * (K * t * dr * n2) + face * (dr * (m2 - one)) * 100
            = (face * dr * 100) * (n2 + m2 - one)
      OBVIOUS
    <3>4. Within((face * dr * 100) * (n2 + m2 - one), face * dr * 100)
      <4> DEFINE w == face * dr * 100
      <4>1. w \in Nat
        BY <2>6
      <4> HIDE DEF w
      <4>2. Within(w * (n2 + m2 - one), w)
        BY <2>1, <4>1 DEF Within
      <4> QED BY <4>2 DEF w
    <3> QED BY <2>1, <2>7, <3>1, <3>2, <3>3, <3>4 DEF Other, d
  <2>8. CASE Upper(right) = "PUT"
    <3>1. BsPrice(market, "PUT") = BsPrice(d, "CALL")
      <4>1. BsPrice(market, "PUT") = market.strike * DiscR(market) * Cdf[Neg(D2(market))]
                                     - market.spot * DiscQ(market) * Cdf[Neg(D1(market))]
        BY <2>2 DEF BsPrice
      <4>2. BsPrice(d, "CALL") = d.spot * DiscQ(d) * Cdf[D1(d)]
                                 - d.strike * DiscR(d) * Cdf[D2(d)]
        BY <2>3, <2>5 DEF BsPrice
      <4> QED BY <2>1, <2>3, <4>1, <4>2
    <3>2. /\ greeks[right].rho = <<-K * t * dr * m2, 100>>
          /\ Compute(d, "CALL").delta = dr * m2
      BY <2>1, <2>2, <2>3, <2>5, <2>8 DEF Rho, Delta, Other
    <3>3. 100 * (-K * t * dr * m2) + face * (dr * m2) * 100 = 0
      OBVIOUS
    <3>4. Within(0, face * dr * 100)
      BY <2>6 DEF Within
    <3> QED BY <2>1, <2>8, <3>1, <3>2, <3>3, <3>4 DEF Other, d
  <2> QED BY <2>2, <2>7, <2>8
<1>2. Inv => PutCallDuality
  BY <1>1 DEF PutCallDuality
<1> QED BY Invariant, <1>2, PTL

\* A call less a put is the discounted asset less the discounted strike, in delta
\* exactly, in price and rho up to the last digit of _norm_cdf.
THEOREM Parity == Spec => []PutCallParity
<1>1. ASSUME Inv, NEW c \in {"CALL", "call"}, NEW p \in {"PUT", "put"}, Given(c), Given(p)
      PROVE  LET call == greeks[c]  put == greeks[p]
                 asset == market.spot * DiscQ(market)
                 cash == market.strike * DiscR(market)
                 units == call.rho[2] * put.rho[2]
             IN /\ call.delta - put.delta = DiscQ(market) * One
                /\ Within(BsPrice(market, Upper(c)) - BsPrice(market, Upper(p))
                            - (asset - cash) * One,
                          asset + cash)
                /\ Within(100 * (call.rho[1] * put.rho[2] - put.rho[1] * call.rho[2])
                            - cash * Time(market) * One * units,
                          cash * Time(market) * units)
  <2>1. c \in Rights /\ p \in Rights /\ Upper(c) = "CALL" /\ Upper(p) = "PUT"
    BY DEF Rights, Upper
  <2>2. PICK S \in Nat, K \in Nat, t \in Nat, dq \in Nat, dr \in Nat, n1 \in Int, n2 \in Int,
             m1 \in Int, m2 \in Int, one \in Int :
          /\ S = market.spot /\ K = market.strike /\ t = Time(market)
          /\ dq = DiscQ(market) /\ dr = DiscR(market) /\ one = One
          /\ n1 = Cdf[D1(market)] /\ n2 = Cdf[D2(market)]
          /\ m1 = Cdf[Neg(D1(market))] /\ m2 = Cdf[Neg(D2(market))]
          /\ n1 + m1 - one \in {-1, 0, 1} /\ n2 + m2 - one \in {-1, 0, 1}
    BY <1>1, <2>1, Answer, Quantities
  <2>3. /\ greeks[c].delta = dq * n1 /\ greeks[p].delta = dq * (n1 - one)
        /\ greeks[c].rho = <<K * t * dr * n2, 100>> /\ greeks[p].rho = <<-K * t * dr * m2, 100>>
    BY <1>1, <2>1, <2>2, Answer DEF Delta, Rho
  <2>4. /\ BsPrice(market, "CALL") = S * dq * n1 - K * dr * n2
        /\ BsPrice(market, "PUT") = K * dr * m2 - S * dq * m1
    BY <1>1, <2>1, <2>2, Answer DEF BsPrice
  <2>5. PICK e1 \in {-1, 0, 1}, e2 \in {-1, 0, 1} : e1 = n1 + m1 - one /\ e2 = n2 + m2 - one
    BY <2>2
  <2>6. S * dq \in Nat /\ K * dr \in Nat /\ K * dr * t \in Nat
    BY Product
  <2>7. dq * n1 - dq * (n1 - one) = dq * one
    OBVIOUS
  <2>8. Within(S * dq * n1 - K * dr * n2 - (K * dr * m2 - S * dq * m1)
                 - (S * dq - K * dr) * one,
               S * dq + K * dr)
    <3>1. S * dq * n1 - K * dr * n2 - (K * dr * m2 - S * dq * m1) - (S * dq - K * dr) * one
            = (S * dq) * (n1 + m1 - one) - (K * dr) * (n2 + m2 - one)
      OBVIOUS
    <3> DEFINE a == S * dq
               b == K * dr
    <3>2. a \in Nat /\ b \in Nat
      BY <2>6
    <3> HIDE DEF a, b
    <3>3. Within(a * e1 - b * e2, a + b)
      BY <3>2 DEF Within
    <3> QED BY <2>5, <3>1, <3>3 DEF a, b
  <2>9. Within(100 * ((K * t * dr * n2) * 100 - (-K * t * dr * m2) * 100)
                 - K * dr * t * one * (100 * 100),
               K * dr * t * (100 * 100))
    <3>1. 100 * ((K * t * dr * n2) * 100 - (-K * t * dr * m2) * 100)
            - K * dr * t * one * (100 * 100) = (K * dr * t) * (100 * 100) * (n2 + m2 - one)
      OBVIOUS
    <3> DEFINE w == K * dr * t
    <3>2. w \in Nat
      BY <2>6
    <3> HIDE DEF w
    <3>3. Within(w * (100 * 100) * e2, w * (100 * 100))
      BY <3>2 DEF Within
    <3> QED BY <2>5, <3>1, <3>3 DEF w
  <2> QED BY <2>1, <2>2, <2>3, <2>4, <2>7, <2>8, <2>9
<1>2. Inv => PutCallParity
  BY <1>1 DEF PutCallParity
<1> QED BY Invariant, <1>2, PTL

\* Vega is gamma in another unit, and vanna and volga are vega at a distance from the
\* money: volga is negative within half the variance of it.
THEOREM VolgaMoneyness == Spec => []VolgaFollowsMoneyness
<1>1. ASSUME Inv, NEW right \in Rights, Given(right)
      PROVE  LET g == greeks[right]
                 w == market.vol * market.vol * Time(market)
                 f == 2 * (Log[market.spot][market.strike]
                             + (market.rate - market.yield) * Time(market))
             IN /\ Same(<<100 * g.vega[1], g.vega[2]>>,
                        <<market.spot * market.spot * market.vol * Time(market) * g.gamma[1],
                          g.gamma[2]>>)
                /\ Same(<<g.vanna[1] * market.spot * 2 * w, g.vanna[2]>>,
                        <<-100 * g.vega[1] * (f - w), g.vega[2]>>)
                /\ Same(<<g.volga[1] * market.vol * 4 * w, g.volga[2]>>,
                        <<g.vega[1] * (f - w) * (f + w), g.vega[2]>>)
  <2>1. PICK S \in Int, v \in Int, s \in Int, dq \in Int, p \in Int, l \in Int, r \in Int,
             q \in Int, x \in Int, y \in Int, a \in Int, b \in Int :
          /\ S = market.spot /\ v = market.vol /\ s = market.rootT
          /\ dq = DiscQ(market) /\ p = Pdf[D1(market)]
          /\ l = Log[market.spot][market.strike] /\ r = market.rate /\ q = market.yield
          /\ x = D1(market)[1] /\ y = D2(market)[1]
          /\ a = D1(market)[2] /\ b = D2(market)[2]
    <3>1. /\ market.spot \in Int /\ market.vol \in Int /\ market.rootT \in Int
          /\ DiscQ(market) \in Int /\ Pdf[D1(market)] \in Int
          /\ Log[market.spot][market.strike] \in Int
          /\ market.rate \in Int /\ market.yield \in Int
          /\ D1(market)[1] \in Int /\ D2(market)[1] \in Int
          /\ D1(market)[2] \in Int /\ D2(market)[2] \in Int
      BY <1>1, Answer, Quantities
    <3> QED BY <3>1
  <2>2. /\ greeks[right].gamma = <<dq * p, S * v * s>>
        /\ greeks[right].vega = <<S * dq * p * s, 100>>
        /\ greeks[right].vanna = <<-dq * p * y, v * b>>
        /\ greeks[right].volga = <<(S * dq * p * s) * x * y, 100 * v * a * b>>
    BY <1>1, <2>1, Answer DEF Gamma, Vega, Vanna, Volga
  <2>3. Time(market) = s * s
    BY <2>1 DEF Time
  <2>4. PICK w \in Int, f \in Int : /\ w = v * v * (s * s)
                                    /\ f = 2 * (l + (r - q) * (s * s))
    OBVIOUS
  <2>5. x = f + w /\ y = f - w /\ a = 2 * v * s /\ b = a
    <3>1. /\ x = 2 * l + (2 * (r - q) + v * v) * (s * s) /\ a = 2 * v * s
          /\ y = x - 2 * v * v * (s * s) /\ b = a
      BY <2>1, <2>3 DEF D1, D2
    <3>2. 2 * l + (2 * (r - q) + v * v) * (s * s) = f + w /\ 2 * v * v * (s * s) = 2 * w
      BY <2>4
    <3> QED BY <3>1, <3>2
  <2>6. /\ market.vol * market.vol * Time(market) = w
        /\ 2 * (Log[market.spot][market.strike]
                  + (market.rate - market.yield) * Time(market)) = f
    BY <2>1, <2>3, <2>4
  <2>7. /\ 100 * (S * dq * p * s) * (S * v * s) = S * S * v * (s * s) * (dq * p) * 100
        /\ (-dq * p * y) * S * 2 * w * 100 = -100 * (S * dq * p * s) * y * (v * b)
        /\ ((S * dq * p * s) * x * y) * v * 4 * w * 100
             = (S * dq * p * s) * y * x * (100 * v * a * b)
    <3>1. 100 * (S * dq * p * s) * (S * v * s) = S * S * v * (s * s) * (dq * p) * 100
      OBVIOUS
    <3>2. (-dq * p * y) * S * 2 * (v * v * (s * s)) * 100
            = -100 * (S * dq * p * s) * y * (v * (2 * v * s))
      OBVIOUS
    <3>3. ((S * dq * p * s) * x * y) * v * 4 * (v * v * (s * s)) * 100
            = (S * dq * p * s) * y * x * (100 * v * (2 * v * s) * (2 * v * s))
      OBVIOUS
    <3>4. w = v * v * (s * s) /\ a = 2 * v * s /\ b = 2 * v * s
      BY <2>4, <2>5
    <3> QED BY <3>1, <3>2, <3>3, <3>4
  <2>8. y = f - w /\ x = f + w
    BY <2>5
  <2>9. Same(<<100 * (S * dq * p * s), 100>>, <<S * S * v * (s * s) * (dq * p), S * v * s>>)
    BY <2>7 DEF Same
  <2>10. Same(<<(-dq * p * y) * S * 2 * w, v * b>>, <<-100 * (S * dq * p * s) * (f - w), 100>>)
    BY <2>7, <2>8 DEF Same
  <2>11. Same(<<((S * dq * p * s) * x * y) * v * 4 * w, 100 * v * a * b>>,
              <<(S * dq * p * s) * (f - w) * (f + w), 100>>)
    BY <2>7, <2>8 DEF Same
  <2> DEFINE g == greeks[right]
             w1 == market.vol * market.vol * Time(market)
             f1 == 2 * (Log[market.spot][market.strike]
                          + (market.rate - market.yield) * Time(market))
  <2>12. w1 = w /\ f1 = f
    BY <2>6
  <2> HIDE DEF w1, f1
  <2>13. Same(<<100 * g.vega[1], g.vega[2]>>,
              <<market.spot * market.spot * market.vol * Time(market) * g.gamma[1], g.gamma[2]>>)
    BY <2>1, <2>2, <2>3, <2>9
  <2>14. Same(<<g.vanna[1] * market.spot * 2 * w1, g.vanna[2]>>,
              <<-100 * g.vega[1] * (f1 - w1), g.vega[2]>>)
    BY <2>1, <2>2, <2>10, <2>12
  <2>15. Same(<<g.volga[1] * market.vol * 4 * w1, g.volga[2]>>,
              <<g.vega[1] * (f1 - w1) * (f1 + w1), g.vega[2]>>)
    BY <2>1, <2>2, <2>11, <2>12
  <2> QED BY <2>13, <2>14, <2>15 DEF w1, f1
<1>2. Inv => VolgaFollowsMoneyness
  BY <1>1 DEF VolgaFollowsMoneyness
<1> QED BY Invariant, <1>2, PTL
=============================================================================
