-------------------------------- MODULE MCAuth --------------------------------
(***************************************************************************)
(* Two users on one browser; the first may sign in twice.                  *)
(***************************************************************************)
EXTENDS AuthSession, TLC

MCUserOf == [token \in Token |-> IF token = "k2" THEN "bob" ELSE "ann"]
MCSymmetry == Permutations(Tab)
=============================================================================
