------------------------------- MODULE MCPages -------------------------------
(* An instance of Pages for TLC: two tabs of one browser, two accounts that *)
(* may have stored a secret each, and a recipient of the first.             *)
EXTENDS Pages, TLC

CONSTANTS a1, a2, s1, s2, r1, t1, t2, c1, c2

Holders == (s1 :> a1 @@ s2 :> a2 @@ r1 :> a1)

=============================================================================
