-------------------------- MODULE MCLedgerTransfer ---------------------------
(* Three purchases, two buyers, an inventory that cannot serve them all. *)
EXTENDS LedgerTransfer

MCCalls == [buyer : Buyers, amount : {1, 2}]

=============================================================================
