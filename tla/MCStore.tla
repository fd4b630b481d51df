------------------------------- MODULE MCStore -------------------------------
(***************************************************************************)
(* The repository under arbitrary callers: two forks of three blocks.      *)
(***************************************************************************)
EXTENDS IndexerStore

MCBlock == {"g", "a1", "a2", "b1", "b2"}

MCNumber == [b \in MCBlock |->
    CASE b = "g" -> 0 [] b \in {"a1", "b1"} -> 1 [] OTHER -> 2]

Path(s) == [h \in 0..(Len(s) - 1) |-> s[h + 1]]

MCChains == {Path(<<"g", "a1", "a2">>), Path(<<"g", "b1", "b2">>)}

L(name, evm) == [name |-> name, evm |-> evm, tx |-> 1, owner |-> "w"]

MCLogs == [c \in Contract |-> [b \in MCBlock |->
    CASE b = "a1" -> <<L("ConfirmTransaction", "t1")>>
      [] b = "a2" -> <<L("RevokeConfirmation", "t2")>>
      [] b = "b2" -> <<L("SubmitTransaction", "t3"), L("ExecuteTransaction", "t4")>>
      [] OTHER -> <<>>]]

MCStartBlock == [c \in Contract |-> 1]
=============================================================================
