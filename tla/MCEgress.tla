------------------------------ MODULE MCEgress ------------------------------
EXTENDS Egress, TLC

CONSTANTS inner, outer, name, ca, other

Offer(kind, host, private, authority) ==
    [kind |-> kind, host |-> host, private |-> private, ca |-> authority]

\* A name and an address as host, with and without a CA, opted in or not.
MCOffers ==
    {Offer("http", name, TRUE, ca), Offer("http", name, FALSE, other),
     Offer("http", name, FALSE, Null), Offer("http", outer, FALSE, Null),
     Offer("sql", name, FALSE, Null), Offer("sql", inner, TRUE, Null)}

Symmetry == Permutations(Calls) \cup Permutations(Credentials)
=============================================================================
