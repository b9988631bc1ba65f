--------------------------- MODULE TransferTable ---------------------------
(***************************************************************************)
(* The list of transfers of one direction: the rows of a                   *)
(* TransferTableModel together with the card that is selected in its       *)
(* TransferListPanel (src/src/model/transfertablemodel.cpp,                *)
(* src/src/ui/transferlistpanel.cpp).  The buttons and menus of the main   *)
(* window act on "the row of the selected card", so both must agree on     *)
(* what that row is while rows come and go.                                *)
(*                                                                         *)
(* The operators work on any record with the fields rows (the transfers,   *)
(* newest first, as insertTransfer() prepends) and current (mCurrentRow,   *)
(* counted from 1 here; 0 when nothing is selected).                       *)
(***************************************************************************)
EXTENDS Integers, Sequences, SequencesExt

EmptyTable == [rows |-> <<>>, current |-> 0]

\* getTransfer(mCurrentRow); 0 stands for no transfer
Selected(t) == IF t.current = 0 THEN 0 ELSE t.rows[t.current]

\* mutant: the new row goes to the end, its card to the top
AppendTransfer(t, x) ==
  [t EXCEPT !.rows = Append(@, x), !.current = IF @ = 0 THEN 0 ELSE @ + 1]

\* mutant: the selection does not follow its card down
InsertKeepsRow(t, x) == [t EXCEPT !.rows = <<x>> \o @]

\* insertTransfer() and the insertCard(0) that rowsInserted calls
InsertTransfer(t, x) ==
  [t EXCEPT !.rows = <<x>> \o @, !.current = IF @ = 0 THEN 0 ELSE @ + 1]

(***************************************************************************)
(* removeTransfer(index) and the removeCard(row) that rowsRemoved calls:   *)
(* the panel drops the selection with the card or follows it up.  An index *)
(* outside the table is ignored.                                           *)
(***************************************************************************)
RemoveTransfer(t, i) ==
  IF i \notin 1..Len(t.rows) THEN t
  ELSE [t EXCEPT !.rows = RemoveAt(@, i),
                 !.current = CASE @ = i -> 0
                               [] @ > i -> @ - 1
                               [] OTHER -> @]

\* mutant: the selection is not dropped with its card
ClearKeepsRow(t, ended) == [t EXCEPT !.rows = SelectSeq(@, LAMBDA x : x \notin ended)]

(***************************************************************************)
(* clearCompleted(): the loop over the rows of t, in which the rows of the *)
(* set ended leave one by one, each with its card.  In turn n the loop is  *)
(* at row i of what is left, x: i-- makes up for every row that left.      *)
(***************************************************************************)
ClearTurn(t, ended, x, n) ==
  LET i == n - (Len(t.rows) - Len(x.rows))
  IN  IF x.rows[i] \in ended THEN RemoveTransfer(x, i) ELSE x

ClearCompleted(t, ended) ==
  LET after[n \in 0..Len(t.rows)] ==
        IF n = 0 THEN t ELSE ClearTurn(t, ended, after[n - 1], n)
  IN  after[Len(t.rows)]

\* onCardClicked() and setCurrentRow()
SetCurrentRow(t, i) == [t EXCEPT !.current = i]
=============================================================================
