--------------------------- MODULE MCLoadBalancer ---------------------------
(* A service with one backend, an A/B test of three, and the one backend    *)
(* behind another gateway, where its server has been created again.         *)
EXTENDS LoadBalancer

CONSTANTS g1, g2, front, a, b, c, a1, old, new

AllKeys == {a, b, c, a1}
Options == "options"
Simple(ip) == <<<<a, Options>>, <<a1, ip>>>>
Split(ip) == Simple(ip) \o <<<<b, Options>>, <<c, Options>>>>
Services == {
  [gateway |-> g1, weights |-> <<>>, entries |-> Simple(old)],
  [gateway |-> g1, weights |-> <<<<b, 70>>, <<a, 20>>, <<c, 10>>>>, entries |-> Split(new)],
  [gateway |-> g2, weights |-> Enabled(<<a>>), entries |-> Simple(new)]}
=============================================================================
