------------------------------ MODULE MCPurchase ------------------------------
(* Small instances of Purchase: two requests, and the calls they can be. *)
EXTENDS Purchase, TLC

CONSTANTS b1, b2, o1, x1, x2

CustodyCall(b, n, cash) ==
    [buyer |-> b, amount |-> n, flow |-> "custody", cash |-> cash, fee |-> cash,
     order |-> NoOrder, xdr |-> NoEnvelope]

SelfCall(n, cash, o, x) ==
    [buyer |-> b1, amount |-> n, flow |-> "self", cash |-> cash, fee |-> cash,
     order |-> o, xdr |-> x]

\* Custody purchases of two buyers, an order built first and submitted (twice,
\* with the same or another signature), and a submission without an order.
MixedCalls == {CustodyCall(b2, 2, 0), CustodyCall(b1, 1, 5), SelfCall(1, 0, o1, x1),
               SelfCall(1, 0, o1, x2), SelfCall(1, 5, NoOrder, x1)}

\* Purchases without cash, each with an order of its own.
UnfundedCalls == {CustodyCall(b1, 1, 0), CustodyCall(b2, 2, 0), SelfCall(1, 0, NoOrder, x1)}

\* Purchases that cost the buyer money, as those of the buy form do.
FundedCalls == {CustodyCall(b1, 1, 5), SelfCall(1, 5, NoOrder, x1)}

Interchangeable == Permutations(Requests) \cup Permutations(Orders \ {o1})
=============================================================================
