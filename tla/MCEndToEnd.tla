---------------------------- MODULE MCEndToEnd ----------------------------
(***************************************************************************)
(* The clients with and without a configured token; the key is configured  *)
(* together with the token, to halve the state space.                      *)
(***************************************************************************)
EXTENDS EndToEnd

MCConfig ==
    {<<None, FALSE>>, <<CHOOSE k \in ClientToken : TRUE, TRUE>>}
=============================================================================
