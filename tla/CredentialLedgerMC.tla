-------------------------- MODULE CredentialLedgerMC --------------------------
(***************************************************************************)
(* One mint, asked by the connection's own org or by another.              *)
(***************************************************************************)
EXTENDS CredentialLedger

CONSTANT t1

MCTokens == {t1}
==============================================================================
