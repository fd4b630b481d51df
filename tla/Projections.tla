---------------------------- MODULE Projections -----------------------------
(***************************************************************************)
(* The projections of one contract: the rows of multisig_transactions and  *)
(* transaction_confirmations that applyProjections derives from events.    *)
(*                                                                         *)
(* A table is a function from transaction indexes to rows. An event writes *)
(* one group of columns of a row: the EVM transaction it came from and the *)
(* block number, kept here as a mark; a transaction mined again at the     *)
(* same height by a reorganization leaves the same mark. updated_at is not *)
(* modelled.                                                               *)
(***************************************************************************)
EXTENDS EvmChain, Folds

NoMark == <<>>
Mark(c, o) == <<LogOf(c, o).evm, Number[o[1]]>>

NoRow == [submit |-> "no row"]

ConfirmationRow(confirmed, confirmedIn, revokedIn) ==
    [confirmed |-> confirmed, confirmedIn |-> confirmedIn, revokedIn |-> revokedIn]

NoConfirmation == [confirmed |-> "no row"]

\* ensureTransactionRow inserts a row whose submit and execute columns are null.
PlaceholderRow ==
    [submit |-> NoMark, execute |-> NoMark,
     confirmations |-> [w \in Owner |-> NoConfirmation]]

NoProjections == [tx \in TxIndex |-> NoRow]

EnsureTransactionRow(row) == IF row = NoRow THEN PlaceholderRow ELSE row

\* The upsert sets every submit column and never touches the execute columns.
ProjectSubmit(row, mark) == [EnsureTransactionRow(row) EXCEPT !.submit = mark]

ProjectConfirmation(row, w, mark, confirmed) ==
    [EnsureTransactionRow(row) EXCEPT !.confirmations[w] =
        CASE @ = NoConfirmation /\ confirmed  -> ConfirmationRow(TRUE, mark, NoMark)
          [] @ = NoConfirmation /\ ~confirmed -> ConfirmationRow(FALSE, NoMark, mark)
          [] @ # NoConfirmation /\ confirmed  -> [@ EXCEPT !.confirmed = TRUE, !.confirmedIn = mark]
          [] OTHER                            -> [@ EXCEPT !.confirmed = FALSE, !.revokedIn = mark]]

ProjectExecution(row, mark) == [EnsureTransactionRow(row) EXCEPT !.execute = mark]

ProjectRow(row, log, mark) ==
    CASE log.name = "SubmitTransaction"  -> ProjectSubmit(row, mark)
      [] log.name = "ConfirmTransaction" -> ProjectConfirmation(row, log.owner, mark, TRUE)
      [] log.name = "RevokeConfirmation" -> ProjectConfirmation(row, log.owner, mark, FALSE)
      [] OTHER                           -> ProjectExecution(row, mark)

Project(c, o, table) ==
    [table EXCEPT ![LogOf(c, o).tx] = ProjectRow(@, LogOf(c, o), Mark(c, o))]

\* Replays a set of events of one contract onto a table, in canonical order.
ApplyProjections(c, table, events) ==
    MapThenFoldSet(LAMBDA o, done : Project(c, o, done),
                   table,
                   LAMBDA o : o,
                   LAMBDA S : CHOOSE o \in S : \A p \in S \ {o} : Before(p, o),
                   events)

\* rebuildProjectionsTx: clear the projections, then replay the live events.
Rebuilt(c, events) == ApplyProjections(c, NoProjections, events)
=============================================================================
