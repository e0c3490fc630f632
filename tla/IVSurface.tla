------------------------------- MODULE IVSurface -------------------------------
(***************************************************************************)
(* assemble_iv_surface (greeks_service/kernels/iv_surface.py): one call,   *)
(* one leg of the chain a step.  Time, strikes and volatilities are small  *)
(* naturals; what implied_vol_from_price returns for a leg is its `fit`.   *)
(***************************************************************************)
EXTENDS Naturals, Sequences, FiniteSets, Functions

CONSTANTS
  Chains,  \* the lists of quotes it is called with
  AsOf,    \* as_of
  Missing  \* None

\* An OptionQuote: markIv and fit are None or a volatility, right has any case.
Quote == [key : STRING, strike : Nat, expiry : Nat,
          right : {"CALL", "call", "PUT", "put"},
          markIv : Nat \cup {Missing}, hasPrice : BOOLEAN, fit : Nat \cup {Missing}]

\* A volatility and where it is from, as _resolve_iv returns them.
Resolved == [iv : Nat, source : {"mark_iv", "fitted"}]

ASSUME SurfaceAssumption ==
  /\ AsOf \in Nat /\ Missing \notin Nat \cup Resolved
  /\ \A chain \in Chains : chain \in Seq(Quote)

VARIABLES
  quotes,     \* argument: the legs
  spotKnown,  \* argument: underlying_mark > 0
  taken,      \* legs the loop has been through
  points,     \* surface.points
  byExpiry,   \* surface.by_expiry, << >> for a key that is not there
  byStrike,   \* surface.by_strike, likewise
  returned    \* the surface has been returned

args == <<quotes, spotKnown>>
vars == <<args, taken, points, byExpiry, byStrike, returned>>

Expiries == UNION {{chain[i].expiry : i \in DOMAIN chain} : chain \in Chains}
Strikes == UNION {{chain[i].strike : i \in DOMAIN chain} : chain \in Chains}

Init ==
  /\ quotes \in Chains /\ spotKnown \in BOOLEAN
  /\ taken = 0
  /\ points = << >>
  /\ byExpiry = [e \in Expiries |-> << >>]
  /\ byStrike = [k \in Strikes |-> << >>]
  /\ returned = FALSE

\* Fault seeded in Tenor: the clamp is left out.
TenorUnclamped(quote) == quote.expiry - AsOf

\* Years to expiry, 0 for an expired leg.
Tenor(quote) == IF quote.expiry > AsOf THEN quote.expiry - AsOf ELSE 0

Published(quote) == quote.markIv # Missing /\ quote.markIv > 0
Fittable(quote) == quote.hasPrice /\ Tenor(quote) > 0
                   /\ quote.fit # Missing /\ quote.fit > 0

\* Fault seeded in ResolveIv: a fit goes before what the venue published.
ResolveIvFitFirst(quote) ==
  CASE Fittable(quote)  -> [iv |-> quote.fit, source |-> "fitted"]
    [] Published(quote) /\ ~Fittable(quote) -> [iv |-> quote.markIv, source |-> "mark_iv"]
    [] OTHER            -> Missing

\* The venue's volatility if there is a positive one, else a fit of the price.
ResolveIv(quote) ==
  CASE Published(quote) -> [iv |-> quote.markIv, source |-> "mark_iv"]
    [] ~Published(quote) /\ Fittable(quote) -> [iv |-> quote.fit, source |-> "fitted"]
    [] OTHER            -> Missing

\* right.upper(), as its place in alphabetical order
Upper(right) == IF right \in {"CALL", "call"} THEN 1 ELSE 2

Point(quote, resolved) ==
  [key |-> quote.key, strike |-> quote.strike, expiry |-> quote.expiry,
   right |-> Upper(quote.right), tenor |-> Tenor(quote),
   iv |-> resolved.iv, source |-> resolved.source]

\* `if underlying_mark <= 0: return surface`
NoSpot == /\ ~returned /\ ~spotKnown
          /\ returned' = TRUE
          /\ UNCHANGED <<args, taken, points, byExpiry, byStrike>>

Loop == ~returned /\ spotKnown /\ taken < Len(quotes)
leg == quotes[taken + 1]

\* Fault seeded in DropLeg: break instead of continue.
DropLegBreaks == /\ Loop /\ ResolveIv(leg) = Missing
                 /\ taken' = Len(quotes)
                 /\ UNCHANGED <<args, points, byExpiry, byStrike, returned>>

\* `if resolved is None: continue`
DropLeg == /\ Loop /\ ResolveIv(leg) = Missing
           /\ taken' = taken + 1
           /\ UNCHANGED <<args, points, byExpiry, byStrike, returned>>

TakeLeg ==
  /\ Loop /\ ResolveIv(leg) # Missing
  /\ LET point == Point(leg, ResolveIv(leg)) IN
       /\ points' = Append(points, point)
       /\ byExpiry' = [byExpiry EXCEPT ![leg.expiry] = Append(@, point)]
       /\ byStrike' = [byStrike EXCEPT ![leg.strike] = Append(@, point)]
  /\ taken' = taken + 1
  /\ UNCHANGED <<args, returned>>

\* Tuples in lexicographic order.
Lex(a, b) == \E i \in DOMAIN a : a[i] < b[i] /\ \A j \in 1..(i - 1) : a[j] = b[j]

\* list.sort(key=...): by key, and elements of one key as they were.  The n-th is
\* the one that n - 1 others come before.
Before(key, i, j) == Lex(key[i], key[j]) \/ (key[i] = key[j] /\ i < j)
Rank(key, i) == Cardinality({j \in DOMAIN key : j = i \/ Before(key, j, i)})
Nth(key, n) == CHOOSE i \in DOMAIN key : Rank(key, i) = n
SortedBy(s, key) == [n \in DOMAIN s |-> s[Nth(key, n)]]

SurfaceKeys(s) == [n \in DOMAIN s |-> <<s[n].expiry, s[n].strike, s[n].right>>]
SkewKeys(s) == [n \in DOMAIN s |-> <<s[n].strike, s[n].right>>]
TermKeys(s) == [n \in DOMAIN s |-> <<s[n].expiry, s[n].right>>]

\* Fault seeded in Sort: the lists of by_strike are left in the order of the chain.
SortForgetsStrikes ==
  /\ ~returned /\ spotKnown /\ taken = Len(quotes)
  /\ points' = SortedBy(points, SurfaceKeys(points))
  /\ byExpiry' = [e \in Expiries |-> SortedBy(byExpiry[e], SkewKeys(byExpiry[e]))]
  /\ returned' = TRUE
  /\ UNCHANGED <<args, taken, byStrike>>

\* The three sorts, and the return.
Sort ==
  /\ ~returned /\ spotKnown /\ taken = Len(quotes)
  /\ points' = SortedBy(points, SurfaceKeys(points))
  /\ byExpiry' = [e \in Expiries |-> SortedBy(byExpiry[e], SkewKeys(byExpiry[e]))]
  /\ byStrike' = [k \in Strikes |-> SortedBy(byStrike[k], TermKeys(byStrike[k]))]
  /\ returned' = TRUE
  /\ UNCHANGED <<args, taken>>

Next == NoSpot \/ DropLeg \/ TakeLeg \/ Sort

Spec == Init /\ [][Next]_vars

-----------------------------------------------------------------------------
(* Properties *)

\* A SurfacePoint.
SurfacePoint == [key : STRING, strike : Nat, expiry : Nat, right : {1, 2}, tenor : Nat,
                 iv : Nat, source : {"mark_iv", "fitted"}]

SurfaceTypeOK ==
  /\ quotes \in Chains /\ spotKnown \in BOOLEAN /\ returned \in BOOLEAN
  /\ taken \in 0..Len(quotes)
  /\ points \in Seq(SurfacePoint)
  /\ byExpiry \in [Expiries -> Seq(SurfacePoint)]
  /\ byStrike \in [Strikes -> Seq(SurfacePoint)]

\* The legs that carry a volatility, in the words of the docstring: "a positive
\* mark IV" or "a fittable mark price" (iv_surface.py:139).
UsableLegs ==
  {i \in DOMAIN quotes :
     \/ quotes[i].markIv \notin {Missing, 0}
     \/ quotes[i].hasPrice /\ quotes[i].expiry > AsOf /\ quotes[i].fit \notin {Missing, 0}}

\* The point of the surface is one of this leg.
IsOf(point, quote) ==
  /\ point.key = quote.key
  /\ point.strike = quote.strike /\ point.expiry = quote.expiry

\* "Exactly one IV source is required per leg: mark_iv takes precedence"
\* (iv_surface.py:39): a point says of its leg what the venue published if it did,
\* and a fitted volatility only where it did not.
VenueTakesPrecedence ==
  \A n \in DOMAIN points : \E i \in UsableLegs :
    /\ IsOf(points[n], quotes[i])
    /\ points[n].iv = IF quotes[i].markIv \notin {Missing, 0} THEN quotes[i].markIv
                      ELSE quotes[i].fit
    /\ points[n].source = IF quotes[i].markIv \notin {Missing, 0} THEN "mark_iv"
                          ELSE "fitted"

\* "one SurfacePoint per leg that yielded a usable IV ... no synthetic node"
\* (iv_surface.py:138): no leg is lost, none is there twice, none is invented,
\* also when legs agree in every field.
OnePointPerUsableLeg ==
  returned => \E legOf \in Bijection(DOMAIN points, IF spotKnown THEN UsableLegs ELSE {}) :
                \A n \in DOMAIN points : IsOf(points[n], quotes[legOf[n]])

\* The list has the elements of s at the places I, each once, in their order.
Lists(list, s, I) ==
  \E at \in [DOMAIN list -> DOMAIN s] :
    /\ \A a, b \in DOMAIN list : a < b => at[a] < at[b]
    /\ {at[a] : a \in DOMAIN list} = I
    /\ \A a \in DOMAIN list : list[a] = s[at[a]]

\* A reader of the skew of an expiry, or of the term structure of a strike, sees
\* what the flat list has of it, in the order of the flat list, though the three
\* are built and sorted apart and several points may have the same key.
IndexesAgree ==
  /\ \A e \in Expiries : Lists(byExpiry[e], points, {n \in DOMAIN points : points[n].expiry = e})
  /\ \A k \in Strikes : Lists(byStrike[k], points, {n \in DOMAIN points : points[n].strike = k})
=============================================================================
