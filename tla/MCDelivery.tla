----------------------------- MODULE MCDelivery -----------------------------
EXTENDS Delivery, TLC
CONSTANTS c1, c2, p1, p2
MCClients == {c1, c2}
MCPublishers == {p1, p2}
MCSymmetry == Permutations(MCClients) \cup Permutations(MCPublishers)
=============================================================================
