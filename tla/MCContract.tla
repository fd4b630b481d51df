------------------------------ MODULE MCContract ------------------------------
(***************************************************************************)
(* Two accounts of which one owns the multisig, another owner elsewhere,   *)
(* and two chains.  A confirmation sees its row move away and back; the    *)
(* others, which share its hook, see one move.                             *)
(***************************************************************************)
EXTENDS ContractScreen

CONSTANTS a1, a2, o

MCOwners == <<a1, o>>

MCHeld == [held |-> TRUE, executed |-> FALSE, confirmed |-> {}]
MCConfirmed == [MCHeld EXCEPT !.confirmed = {a1, o}]

MCBeginnings ==
    [kind \in Controls \cup {"panel", "receipt", "reads"} |->
        CASE kind = "confirm"               -> {MCHeld}
          [] kind \in {"revoke", "execute"} -> {MCConfirmed}
          [] kind = "status"                -> {Bare, MCConfirmed}
          [] OTHER                          -> {Bare}]

MCMoves == [kind \in DOMAIN MCBeginnings |-> IF kind \in {"submit", "receipt", "reads"} THEN 2 ELSE 1]
MCShown == [kind \in Controls |-> IF kind = "confirm" THEN 2 ELSE 1]

MCPresses ==
    [kind \in Controls |-> CASE kind = "execute"             -> 5
                            [] kind = "submit"              -> 4
                            [] kind = "revoke"              -> 3
                            [] kind \in {"confirm", "status"} -> 2]

MCCalls == [kind \in Controls |-> IF kind = "execute" THEN 1 ELSE 2]
=============================================================================
