---------------------------- MODULE MCPoolService ----------------------------
(* Small instances of PoolService. *)
EXTENDS PoolService, TLC

CONSTANTS d1, d2, d3, c1, c2, a, b, g1, g2, g3

Dom2 == {d1, d2}
Dom3 == {d1, d2, d3}
Client1 == {c1}
Clients2 == {c1, c2}
OneIp == {a}
TwoIps == {a, b}
GuestIps2 == {g1, g2}
GuestIps3 == {g1, g2, g3}

Default == [max |-> 2, share |-> TRUE]
Exclusive == {[max |-> 2, share |-> FALSE]}

Symmetric == Permutations(Client) \cup Permutations(Ip)
=============================================================================
