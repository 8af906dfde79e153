---------------------------- MODULE MCFshClient ----------------------------
(* Small instances of FshClient for TLC.                                   *)
EXTENDS FshClient, TLC

(* Accept and connect tasks are interchangeable.                            *)
Symmetry == Permutations(Task)

=============================================================================
