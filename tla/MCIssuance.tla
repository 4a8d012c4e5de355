------------------------------ MODULE MCIssuance ------------------------------
(* Instances of Issuance for TLC.                                            *)
EXTENDS Issuance

CONSTANTS a1, d1

OneAdmin == {a1}
OneDeveloper == {d1}
=============================================================================
