----------------------------- MODULE MCHistory -----------------------------
(* HistoryWriter with two shells. *)
EXTENDS HistoryWriter
=============================================================================
