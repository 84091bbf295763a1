----------------------------- MODULE MCFederation -----------------------------
(* Federation.tla with small inputs for TLC. *)
EXTENDS Federation, TLC

CONSTANTS s1, s2

(* Every relay has all the others in its configuration. *)
Mesh == [r \in Relays |-> Relays \ {r}]

(* Relay 1 pulls from relay 2. *)
OneWay == [r \in Relays |-> IF r = 1 THEN {2} ELSE {}]

NoSkew == [r \in Relays |-> 0]

(* The clock of relay 1 is one tick ahead. *)
Skewed == [r \in Relays |-> IF r = 1 THEN 1 ELSE 0]

OneSkill == {{[id |-> s1, tag |-> NoTag]}}

Symmetry == Permutations(Peers)

=============================================================================
