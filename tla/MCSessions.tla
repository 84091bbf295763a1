------------------------------ MODULE MCSessions ------------------------------
(* Sessions.tla with small inputs for TLC. *)
EXTENDS Sessions

CONSTANTS s1, s2

MCSkillLists ==
    { {[id |-> s1, tag |-> NoTag]},
      {[id |-> s1, tag |-> NoTag], [id |-> s2, tag |-> NoTag]} }

OneFedUpdate ==
    { [skills |-> {[id |-> s1, tag |-> NoTag]}, registeredAt |-> 1, expiresAt |-> 1,
       origin |-> 2, version |-> 1] }

=============================================================================
