-------------------------- MODULE GuardsInvariant --------------------------
(***************************************************************************)
(* The inductive invariant of Guards: what the limiter and the store have  *)
(* forgotten of the calls and the values AccessLimits remembers is over.   *)
(***************************************************************************)
EXTENDS Guards

(* All but the first d numbers of g.                                       *)
IsRest(hits, g, d) ==
    /\ d \in 0..Len(g)
    /\ Len(hits) = Len(g) - d
    /\ \A i \in 1..Len(hits) : hits[i] = g[d + i]

InOrder(g) == \A i, j \in DOMAIN g : i <= j => g[i] <= g[j]

(* The limiter has forgotten calls of the past windows only, and remembers *)
(* no more than it grants in one.                                          *)
HitsFit(k) ==
    /\ \E d \in 0..Len(granted[k]) :
          /\ IsRest(HitsOf(k), granted[k], d)
          /\ \A i \in 1..d : ~Kept(granted[k][i], now)
    /\ Len(HitsOf(k)) <= max_calls

GrantsFit(k) == InOrder(granted[k]) /\ \A i \in DOMAIN granted[k] : granted[k][i] <= now

(* The store has forgotten values used more than ttl ago only.             *)
SeenFits(k) ==
    IF k \in DOMAIN _seen THEN _seen[k] = used[k] /\ used[k] # 0
                          ELSE used[k] = 0 \/ used[k] + ttl <= now

(* The call max_calls before the next one leaves the window before free[k] *)
(* and at most a second earlier.                                           *)
FreeFits(k) ==
    free[k] # 0 =>
        LET n    == Len(granted[k])
            ends == granted[k][n - max_calls + 1] + window
        IN  IF n < max_calls THEN free[k] <= now
            ELSE ends <= free[k] /\ (free[k] <= now \/ free[k] <= ends + Ticks)

GuardsTypeOK ==
    /\ now \in Nat \ {0}
    /\ granted \in [Callers -> Seq(Nat)]
    /\ used \in [Nonces -> Nat]
    /\ free \in [Callers -> Nat]
    /\ DOMAIN _hits \subseteq Callers
    /\ \A k \in DOMAIN _hits : _hits[k] \in Seq(Nat)
    /\ DOMAIN _seen \subseteq Nonces

GuardsInv ==
    /\ GuardsTypeOK
    /\ \A k \in Callers : HitsFit(k) /\ GrantsFit(k) /\ FreeFits(k)
    /\ \A k \in Nonces : SeenFits(k)
=============================================================================
