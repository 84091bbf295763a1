------------------------------ MODULE MCRegistry ------------------------------
(* Registry.tla with small inputs for TLC. *)
EXTENDS Registry, TLC

CONSTANTS s1, s2, t1

MCSkillLists ==
    { {},                                                    \* refused
      {[id |-> NoID, tag |-> NoTag]},                        \* refused
      {[id |-> s1, tag |-> NoTag]},
      {[id |-> s1, tag |-> t1], [id |-> s1, tag |-> NoTag], [id |-> s2, tag |-> NoTag]} }

FedReg(o, v, e, sks) ==
    [skills |-> sks, registeredAt |-> v, expiresAt |-> e, origin |-> o, version |-> v]

(* A tie on the version, a newer version, one without skills.              *)
MCFedUpdates ==
    { FedReg(2, 1, 2, {[id |-> s1, tag |-> t1]}),
      FedReg(3, 1, 1, {[id |-> s1, tag |-> NoTag], [id |-> s2, tag |-> NoTag]}),
      FedReg(3, 2, 1, {}) }

OneFedUpdate == {FedReg(2, 1, 1, {[id |-> s1, tag |-> t1]})}

Symmetry == Permutations(Peers)

=============================================================================
