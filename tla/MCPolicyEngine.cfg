SPECIFICATION Spec
CONSTANTS
    a = a
    send = send
    skill = skill
    ofA = ofA
    ofSend = ofSend
    bad = bad
    Star = Star
    NoName = NoName
    RuleIDs = {r1, r2, r3}
    RuleBodies <- MCRuleBodies
    Requests <- MCRequests
    Glob <- MCGlob
    Namespaces = {"prod"}
SYMMETRY Symmetry
INVARIANTS TypeOK EvaluateExact NamespaceIsolation NoEffectOnlyByUpdate
PROPERTIES EditsAreLocal
