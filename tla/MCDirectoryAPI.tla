---------------------------- MODULE MCDirectoryAPI ----------------------------
(* DirectoryAPI.tla with small inputs for TLC. *)
EXTENDS DirectoryAPI

CONSTANTS s1, s2

MCSkillLists ==
    { {[id |-> s1, tag |-> NoTag]}, {[id |-> s2, tag |-> NoTag]} }

MCFedUpdates ==
    { [skills |-> {[id |-> s1, tag |-> NoTag]}, registeredAt |-> 1, expiresAt |-> 1,
       origin |-> 2, version |-> 1] }

=============================================================================
