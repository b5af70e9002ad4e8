-------------------------- MODULE MCSessionFamily --------------------------
(* One or two accounts, one of them signed in, three tokens, and three     *)
(* requests in any order.                                                  *)
EXTENDS SessionFamily, TLC

CONSTANTS u1, u2, t1, t2, t3, r1, r2, r3

TwoUsers      == {u1, u2}
ThreeTokens   == {t1, t2, t3}
ThreeRequests == {r1, r2, r3}

OneSession    == {t1}

Symmetry == Permutations({r1, r2, r3}) \cup Permutations({t2, t3})
=============================================================================
