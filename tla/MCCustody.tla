------------------------------- MODULE MCCustody -------------------------------
(* Instance of Custody, and of the Verification it composes, for TLC.        *)
EXTENDS Custody, TLC

CONSTANTS s1, r1, t1, a1, a2

OneSession == {s1}
OneRetry == {r1}
OneTransfer == {t1}

Interchangeable == Permutations(Addresses)
=============================================================================
