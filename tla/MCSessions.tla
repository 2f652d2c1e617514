----------------------------- MODULE MCSessions -----------------------------
(* Lifetimes in the proportion of the configured 30 and 90 days, and room  *)
(* for a session to be used in its last days.                              *)
EXTENDS Sessions, TLC

CONSTANTS s1, s2, q1, q2

MCSession == {s1, s2}
MCRequest == {q1, q2}
Symmetry == Permutations(MCSession) \cup Permutations(MCRequest)
=============================================================================
