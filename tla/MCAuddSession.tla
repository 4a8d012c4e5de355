----------------------------- MODULE MCAuddSession -----------------------------
(* Three requests at once, and three troubles.                               *)
EXTENDS AuddSession

CONSTANTS r1, r2, r3
=============================================================================
