------------------------------- MODULE MCPorts -------------------------------
(* Model checking Ports: see ports.cfg for the instance.                   *)
EXTENDS Ports, TLC

Bind(a, p, s) == [addr |-> a, port |-> p, shout |-> s]

CONSTANTS Card, Name   (* an interface given by its number, one by its name *)

MCAddresses == {AnyAddr, Card, Name}
MCConfigs == {<<Bind(AnyAddr, 1, TRUE)>>,
              <<Bind(Card, 1, FALSE)>>,
              <<Bind(AnyAddr, 2, FALSE), Bind(Name, 1, FALSE)>>,
              <<Bind(AnyAddr, 1, TRUE), Bind(AnyAddr, 2, FALSE)>>}

Symmetric == Permutations(Guests) \cup Permutations(Threads) \cup Permutations(Admins)
=============================================================================
