---------------------------- MODULE MCConnectorSync ----------------------------
(* Two requests over one user, one application and one grant between them.  *)
EXTENDS ConnectorSync

CONSTANTS u1, s1, g1

MCPath == {"users", "sps", "assignments"}
MCDelta == {"users"}
MCItem == {u1, s1, g1}
MCpathOf == [i \in MCItem |-> IF i = u1 THEN "users" ELSE IF i = s1 THEN "sps" ELSE "assignments"]
MCprincipalOf == [g \in {g1} |-> u1]
MCtargetOf == [g \in {g1} |-> s1]
=============================================================================
