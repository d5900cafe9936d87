------------------------------- MODULE Powers -------------------------------
(***************************************************************************)
(* Powers as a recursive function, since the provers do not know b^n.      *)
(***************************************************************************)
EXTENDS Naturals

Power(b, n) ==
    LET p[i \in 0..n] == IF i = 0 THEN 1 ELSE b * p[i - 1] IN p[n]
=============================================================================
