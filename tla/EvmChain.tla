------------------------------ MODULE EvmChain ------------------------------
(***************************************************************************)
(* The Ethereum chain the indexer reads, as the code under                 *)
(* src/backend/internal/indexer sees it through its ChainReader seam.      *)
(*                                                                         *)
(* A block is named by its hash. Two chains that agree on the hash of a    *)
(* height agree below it, which is what a hash that covers the parent hash *)
(* means. What a contract logged in a block depends on the block alone.    *)
(***************************************************************************)
EXTENDS Integers, Sequences, FiniteSets

CONSTANTS
    Contract,       \* contract deployments: ids of rows of the contracts table
    Block,          \* block hashes
    Number,         \* [Block -> Nat]: the number in the header of a hash
    MaxHeight,      \* bound: no chain of the model is higher
    Chains,         \* the canonical chains an endpoint may come to serve
    Logs,           \* [Contract -> [Block -> Seq(log)]], in log index order
    EvmTx,          \* hashes of EVM transactions
    TxIndex,        \* multisig transaction indexes
    Owner           \* owner addresses

EventName == {"SubmitTransaction", "ConfirmTransaction",
              "RevokeConfirmation", "ExecuteTransaction"}

\* The payload of a SubmitTransaction is that of its EVM transaction.
Log == [name : EventName, evm : EvmTx, tx : TxIndex, owner : Owner]

Height == 0..MaxHeight

ASSUME HeightAssumption == MaxHeight \in Nat

ASSUME NumberAssumption == Number \in [Block -> Height]

ASSUME LogsAssumption == Logs \in [Contract -> [Block -> Seq(Log)]]

\* A chain serves one header for every height up to its head, and the header it
\* serves for a height carries that number (evm.checkHeaderNumber).
ASSUME ChainsAssumption ==
    \A chain \in Chains :
        \E latest \in Height :
            /\ chain \in [0..latest -> Block]
            /\ \A h \in 0..latest : Number[chain[h]] = h

\* A hash determines its ancestors.
ASSUME HashAssumption ==
    \A chain, other \in Chains :
        \A h \in DOMAIN chain \cap DOMAIN other :
            chain[h] = other[h] => \A k \in 0..h : chain[k] = other[k]

Latest(chain) == CHOOSE h \in DOMAIN chain : \A k \in DOMAIN chain : k <= h

\* One stored event is identified by contract, block hash and log index.
OccurrencesIn(c, b) == {b} \X DOMAIN Logs[c][b]

LogOf(c, o) == Logs[c][o[1]][o[2]]

\* Canonical order: block number, then position in the block. The code orders by
\* transaction index before log index; a node numbers the logs of a block in
\* transaction order, so the position stands for both.
Before(o, p) ==
    \/ Number[o[1]] < Number[p[1]]
    \/ Number[o[1]] = Number[p[1]] /\ o[2] < p[2]
=============================================================================
