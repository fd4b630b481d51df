---------------------------- MODULE IndexerLedger ----------------------------
(***************************************************************************)
(* What the indexer promises about the blocks it has indexed, without      *)
(* checkpoints, runs, retries, windows or crashes. The ledger of a         *)
(* contract is the indexed blocks by height. It grows only by blocks the   *)
(* chain has now, on top of blocks the chain still has, and it shrinks     *)
(* only to the part the chain still has.                                   *)
(***************************************************************************)
EXTENDS Integers

CONSTANTS Contract, Chains, StartBlock

VARIABLES
    chain,      \* the canonical chain
    ledger      \* [Contract -> function from indexed heights to block hashes]

ledgerVars == <<chain, ledger>>

Empty == [h \in {} |-> h]

Agrees(h, blocks) == h \in DOMAIN chain /\ blocks[h] = chain[h]

LedgerInit ==
    /\ chain \in Chains
    /\ ledger = [c \in Contract |-> Empty]

\* One range of canonical blocks on top of a ledger that is canonical throughout.
Extend(c) ==
    /\ \A h \in DOMAIN ledger[c] : Agrees(h, ledger[c])
    /\ \E to \in DOMAIN chain :
        /\ to \notin DOMAIN ledger[c] /\ to >= StartBlock[c]
        /\ \A h \in DOMAIN ledger[c] : h < to
        /\ ledger' = [ledger EXCEPT ![c] = [h \in StartBlock[c]..to |-> chain[h]]]
    /\ UNCHANGED chain

\* A ledger that is not canonical loses exactly the blocks that are not.
Truncate(c) ==
    LET kept == {h \in DOMAIN ledger[c] : Agrees(h, ledger[c])}
    IN  /\ kept # DOMAIN ledger[c]
        /\ ledger' = [ledger EXCEPT ![c] = [h \in kept |-> ledger[c][h]]]
        /\ UNCHANGED chain

Move ==
    /\ chain' \in Chains
    /\ UNCHANGED ledger

LedgerNext == Move \/ \E c \in Contract : Extend(c) \/ Truncate(c)

LedgerSpec == LedgerInit /\ [][LedgerNext]_ledgerVars
=============================================================================
