-------------------------- MODULE MCPortRegistry --------------------------
(* PortRegistry for TLC: ports 0..3, two services that share a name in two *)
(* namespaces and a third one; two bindings that may name the same service *)
(* and one that may move between services.                                 *)
EXTENDS PortRegistry, TLC

Text(fields)   == [padded |-> FALSE, fields |-> fields]
Port(proto, t) == [protocol |-> proto, port |-> t]

MCServices == {[name |-> "web", ns |-> "blue"],
               [name |-> "web", ns |-> "green"],
               [name |-> "db", ns |-> "green"]}

CONSTANTS b1, b2, b3

MCNamespace == b1 :> "blue" @@ b2 :> "blue" @@ b3 :> "green"

Symmetry == Permutations({b1, b2})

MCPortLists ==
    { <<Port("TCP", Text(<<1>>))>>,
      <<Port("TCP", Text(<<1, 2>>)), Port("UDP", Text(<<0, 2>>))>>,
      <<Port("TCP", Text(<<2, 3>>)), Port("UDP", Text(<<2>>))>>,
      \* rejected: overlap inside the service, bad bounds, blank, empty, text
      <<Port("TCP", Text(<<1, 2>>)), Port("TCP", Text(<<2>>))>>,
      <<Port("TCP", Text(<<3, 1>>))>>,
      <<Port("TCP", Text(<<4>>))>>,
      <<Port("TCP", Text(<<-1>>))>>,
      <<Port("TCP", Text(<<1, 2, 3>>))>>,
      <<Port("TCP", Text(<<NaN, 2>>))>>,
      <<Port("TCP", Text(<<>>))>>,
      <<Port("UDP", [padded |-> TRUE, fields |-> <<1>>])>> }
=============================================================================
