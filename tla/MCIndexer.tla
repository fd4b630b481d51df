------------------------------ MODULE MCIndexer ------------------------------
(***************************************************************************)
(* A small chain for the indexer's models: a trunk, a fork that leaves it  *)
(* at height 2 and one that leaves it at height 1, the start block of the  *)
(* contracts. The second fork leaves nothing stored in common.             *)
(***************************************************************************)
EXTENDS IndexerScanner

MCBlock == {"g", "a1", "a2", "a3", "a4", "b2", "b3", "c1", "c2", "c3"}

MCNumber == [b \in MCBlock |->
    CASE b = "g" -> 0 [] b \in {"a1", "c1"} -> 1 [] b \in {"a2", "b2", "c2"} -> 2
      [] b \in {"a3", "b3", "c3"} -> 3 [] OTHER -> 4]

Path(s) == [h \in 0..(Len(s) - 1) |-> s[h + 1]]

MCChains == {Path(<<"g", "a1">>), Path(<<"g", "a1", "a2">>),
             Path(<<"g", "a1", "a2", "a3">>), Path(<<"g", "a1", "a2", "a3", "a4">>),
             Path(<<"g", "a1", "b2", "b3">>), Path(<<"g", "c1", "c2", "c3">>)}

\* Enough for processes that overlap: the trunk, and one fork below its safe head.
MCTwoChains == {Path(<<"g", "a1", "a2">>), Path(<<"g", "a1", "a2", "a3", "a4">>),
                Path(<<"g", "a1", "b2", "b3">>)}

L(name, evm) == [name |-> name, evm |-> evm, tx |-> 1, owner |-> "w"]

\* The submission of the trunk is mined again, later, on the second fork.
MCLogs == [c \in Contract |-> [b \in MCBlock |->
    CASE b = "a1" -> <<L("SubmitTransaction", "t1"), L("ConfirmTransaction", "t2")>>
      [] b = "a2" -> <<L("RevokeConfirmation", "t3")>>
      [] b = "a3" -> <<L("ConfirmTransaction", "t4")>>
      [] b = "b3" -> <<L("ExecuteTransaction", "t5")>>
      [] b = "c2" -> <<L("SubmitTransaction", "t1")>>
      [] OTHER -> <<>>]]

MCStartBlock == [c \in Contract |-> 1]
=============================================================================
