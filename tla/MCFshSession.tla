--------------------------- MODULE MCFshSession ---------------------------
(* Small instances of FshSession for TLC.                                  *)
EXTENDS FshSession, TLC

(* Sessions are interchangeable, and so are the tokens clients choose: no   *)
(* operator of FshSession singles one out.                                  *)
Symmetry == Permutations(Session) \cup Permutations(ClientToken)

=============================================================================
