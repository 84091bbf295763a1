---------------------------- MODULE MCPolicyEngine ----------------------------
(* PolicyEngine.tla with small inputs for TLC. *)
EXTENDS PolicyEngine

CONSTANTS a, send, skill, ofA, ofSend, bad

Body(prio, sub, act, eff, ns) ==
    [priority |-> prio, subject |-> sub, action |-> act, resource |-> Star,
     effect |-> eff, namespace |-> ns]

(* Equal priorities, overlapping and disjoint matches, a malformed pattern,*)
(* rules of one namespace, and one without effect.                         *)
MCRuleBodies ==
    { Body(1, ofA, Star, "deny", NoName),
      Body(1, Star, ofSend, "rate_limit", "prod"),
      Body(2, Star, Star, "deny", "prod"),
      Body(0, ofA, ofSend, "allow", "default"),
      Body(0, bad, Star, "deny", NoName),
      Body(2, Star, ofSend, NoName, NoName) }

MCRequests ==
    [subject : {a, "b"}, action : {send, "receive"}, resource : {skill},
     namespace : {"prod", "default"}]

MCGlob == [p \in {ofA, ofSend, bad} |->
            CASE p = ofA -> {a} [] p = ofSend -> {send} [] p = bad -> {}]

Symmetry == Permutations(RuleIDs)

=============================================================================
