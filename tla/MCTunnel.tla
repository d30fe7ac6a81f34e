------------------------------ MODULE MCTunnel ------------------------------
(* Two gateways with two addresses to lease to two clients; a lease of      *)
(* eleven steps, so that one lies between its 90 % and its end.             *)
EXTENDS Tunnel

AdTwo == [twt |-> TRUE, owt |-> FALSE, class |-> 2]
AdOne == [twt |-> FALSE, owt |-> TRUE, class |-> 1]

MCGateways == {"g1", "g2"}
MCClients == {"me", "other"}
MCAds == {AdTwo, AdOne}
MCFirst == [c \in MCClients |-> IF c = "me" THEN 2 ELSE 1]
MCLeaseTime == [leases |-> 11, choice |-> 1]
MCSkips == [leases |-> {1, 9}, choice |-> {1}]
MCMaxNet == [leases |-> 2, choice |-> 0]
MCMaxAge == [leases |-> 12, choice |-> 2]
MCAdsOf == [g1 |-> {None, AdTwo, AdOne}, g2 |-> {AdTwo}]
MCMetricsOf == [g1 |-> {NoRoute, 1, 3}, g2 |-> {2}]
=============================================================================
