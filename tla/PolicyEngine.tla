----------------------------- MODULE PolicyEngine -----------------------------
(***************************************************************************)
(* The control plane the REST API edits: the rules of internal/policy and  *)
(* the namespaces of internal/namespace, with the handlers of              *)
(* handlers_policy.go and handlers_namespace.go.  Every method of Engine   *)
(* and Manager runs under its lock and is one step; Evaluate is a query.   *)
(*                                                                         *)
(* A request that is refused changes nothing; the conditions of the        *)
(* refusal are the guards of the action.                                   *)
(***************************************************************************)
EXTENDS Integers, FiniteSets, SequencesExt

CONSTANTS
    RuleIDs,     \* rule IDs
    RuleBodies,  \* what operators send as a rule, but for the ID
    Requests,    \* the requests that are evaluated
    Glob,        \* Glob[pattern] : the values filepath.Match accepts for it
    Star,        \* the pattern "*"
    NoName,      \* the empty string
    Namespaces   \* names of namespaces besides the default one

Patterns == DOMAIN Glob \cup {Star}

Values == UNION {{r.subject, r.action, r.resource} : r \in Requests}

RuleBody ==
    [priority : Int, subject : Patterns, action : Patterns, resource : Patterns,
     effect : {"allow", "deny", "rate_limit", NoName},
     namespace : Namespaces \cup {"default", NoName}]

ASSUME PolicyAssumption ==
    /\ RuleBodies \subseteq RuleBody
    /\ RuleIDs # {}
    /\ NoName \notin RuleIDs \cup Namespaces \cup {"allow", "deny", "rate_limit"}
    /\ \A p \in DOMAIN Glob : Glob[p] \subseteq Values
    /\ Star \notin DOMAIN Glob

VARIABLES
    rules,       \* Engine.rules, in the order of their creation
    namespaces,  \* Manager.namespaces, the names
    edited       \* history: the IDs of the rules changed since their creation

vars == <<rules, namespaces, edited>>

Init ==
    /\ rules = <<>>
    /\ namespaces = {"default"}
    /\ edited = {}

-----------------------------------------------------------------------------
(* Evaluate *)

(* A malformed pattern is one Glob maps to no value.                       *)
matchGlob(pattern, value) == pattern = Star \/ value \in Glob[pattern]

(* A mistake to look for: a rule applies to every namespace.               *)
MatchesAnywhere(rule, r) ==
    /\ matchGlob(rule.subject, r.subject)
    /\ matchGlob(rule.action, r.action)
    /\ matchGlob(rule.resource, r.resource)

Matches(rule, r) ==
    /\ matchGlob(rule.subject, r.subject)
    /\ matchGlob(rule.action, r.action)
    /\ matchGlob(rule.resource, r.resource)
    /\ rule.namespace = NoName \/ rule.namespace = r.namespace

(* A mistake to look for: rules are tried in the order of their creation.  *)
CreationOrder(rs) == {rs}

(* sort.Slice is not stable: any arrangement by priority may result.       *)
SortedByPriority(rs) ==
    {s \in {[i \in DOMAIN rs |-> rs[f[i]]] : f \in Bijection(DOMAIN rs, DOMAIN rs)} :
        \A i, j \in DOMAIN s : i < j => s[i].priority <= s[j].priority}

(* The decisions Evaluate may return: the effect of the first rule that    *)
(* matches, allow if none does.                                            *)
Evaluate(rs, r) ==
    {LET match == {i \in DOMAIN s : Matches(s[i], r)}
     IN  IF match = {} THEN "allow" ELSE s[Min(match)].effect
     : s \in SortedByPriority(rs)}

-----------------------------------------------------------------------------
(* Rules *)

Rule(id, body) ==
    [id |-> id, priority |-> body.priority, subject |-> body.subject,
     action |-> body.action, resource |-> body.resource, effect |-> body.effect,
     namespace |-> body.namespace]

WithID(id) == {i \in DOMAIN rules : rules[i].id = id}

(* A mistake to look for: an ID in use is accepted again.                  *)
AddRuleUnchecked(rule) == rules' = Append(rules, rule)

AddRule(rule) ==
    /\ WithID(rule.id) = {}
    /\ rules' = Append(rules, rule)

UpdateRule(rule) ==
    \E i \in WithID(rule.id) : rules' = [rules EXCEPT ![i] = rule]

(* A mistake to look for: the rules behind the removed one are lost.       *)
RemoveRuleTruncates(id) ==
    \E i \in WithID(id) : rules' = SubSeq(rules, 1, i - 1)

RemoveRule(id) ==
    \E i \in WithID(id) : rules' = RemoveAt(rules, i)

(* A mistake to look for: the effect is not required.                      *)
CreatePolicyWithoutEffect(id, body) ==
    /\ id # NoName
    /\ AddRule(Rule(id, body))
    /\ UNCHANGED <<namespaces, edited>>

handleCreatePolicy(id, body) ==
    /\ id # NoName
    /\ body.effect # NoName
    /\ AddRule(Rule(id, body))
    /\ UNCHANGED <<namespaces, edited>>

handleUpdatePolicy(id, body) ==
    /\ id # NoName
    /\ UpdateRule(Rule(id, body))
    /\ edited' = edited \cup {id}
    /\ UNCHANGED namespaces

handleDeletePolicy(id) ==
    /\ id # NoName
    /\ RemoveRule(id)
    /\ edited' = edited \ {id}
    /\ UNCHANGED namespaces

-----------------------------------------------------------------------------
(* Namespaces: rules that name one stay when it goes.                      *)

Create(n) ==
    /\ n # NoName
    /\ n \notin namespaces
    /\ namespaces' = namespaces \cup {n}

Delete(n) ==
    /\ n # "default"
    /\ n \in namespaces
    /\ namespaces' = namespaces \ {n}

handleCreateNamespace(n) == n # NoName /\ Create(n) /\ UNCHANGED <<rules, edited>>

handleDeleteNamespace(n) == n # NoName /\ Delete(n) /\ UNCHANGED <<rules, edited>>

-----------------------------------------------------------------------------
Next ==
    \/ \E id \in RuleIDs \cup {NoName} :
        \/ \E body \in RuleBodies : handleCreatePolicy(id, body) \/ handleUpdatePolicy(id, body)
        \/ handleDeletePolicy(id)
    \/ \E n \in Namespaces \cup {"default", NoName} :
        handleCreateNamespace(n) \/ handleDeleteNamespace(n)

Spec == Init /\ [][Next]_vars

-----------------------------------------------------------------------------
(* Properties *)

(* No ID is used twice, so that an update or a removal means one rule, and *)
(* the default namespace is always there.                                  *)
TypeOK ==
    /\ \A i \in DOMAIN rules : \E id \in RuleIDs, body \in RuleBodies :
            rules[i] = Rule(id, body)
    /\ \A i, j \in DOMAIN rules : rules[i].id = rules[j].id => i = j
    /\ "default" \in namespaces
    /\ namespaces \subseteq Namespaces \cup {"default"}
    /\ edited \subseteq {rules[i].id : i \in DOMAIN rules}

Matching(r) == {rules[i] : i \in {j \in DOMAIN rules : Matches(rules[j], r)}}

(* Evaluate returns the effect of a matching rule that no other matching   *)
(* rule precedes in priority, whatever sort does with equal priorities,    *)
(* and allow only by such a rule or for want of any; with different        *)
(* priorities the decision is determined.                                  *)
EvaluateExact ==
    \A r \in Requests :
        LET first == {m \in Matching(r) : \A o \in Matching(r) : m.priority <= o.priority}
        IN  Evaluate(rules, r) =
                IF first = {} THEN {"allow"} ELSE {m.effect : m \in first}

(* Tenants do not see each other: the decision on a request is the same as *)
(* if the rules of all other namespaces did not exist.  (The places of the *)
(* rules are only compared, so that gaps between them do not matter.)      *)
NamespaceIsolation ==
    \A r \in Requests :
        Evaluate(rules, r) =
        Evaluate(Restrict(rules, {i \in DOMAIN rules :
                                    rules[i].namespace \in {NoName, r.namespace}}), r)

RuleOf(id) == {rules[i] : i \in WithID(id)}

(* An edit takes effect where it should and nowhere else: each step leaves *)
(* all rules but one as they are, and changes the decision only on         *)
(* requests which that rule matched before or matches now.                 *)
EditsAreLocal ==
    [][\E id \in RuleIDs :
        /\ \A other \in RuleIDs \ {id} : RuleOf(other)' = RuleOf(other)
        /\ \A r \in Requests :
            Evaluate(rules, r) # Evaluate(rules', r) =>
                \E m \in RuleOf(id) \cup RuleOf(id)' : Matches(m, r)]_vars

(* A request gets the empty decision only from a rule that was left        *)
(* without an effect by an update: creation requires one.                  *)
NoEffectOnlyByUpdate ==
    \A r \in Requests : NoName \in Evaluate(rules, r) =>
        \E m \in Matching(r) : m.effect = NoName /\ m.id \in edited

=============================================================================
