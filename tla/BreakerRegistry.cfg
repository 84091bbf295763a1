SPECIFICATION FairSpec
CONSTANTS
    Names = {n1, n2}
    Callers = {c1, c2}
    Operators = {r1}
    FailureThreshold = 2
    SuccessThreshold = 2
    Cooldown = 1
INVARIANTS TypeOK CountersFitState
PROPERTIES CooldownKept OneBreakerPerName TriedAgain
