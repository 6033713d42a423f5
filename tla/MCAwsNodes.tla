----------------------------- MODULE MCAwsNodes -----------------------------
(* A machine that is renamed beside one whose name starts with its own.     *)
EXTENDS AwsNodes

CONSTANTS m1, m2, web, web1, web2

Two == {m1, m2}
Three == {web, web1, web2}
Renamed == [m \in Two |-> IF m = m1 THEN {web, web1} ELSE {web2}]
Prefixes == {<<x, x>> : x \in Three} \cup {<<web1, web>>, <<web2, web>>}
=============================================================================
