SPECIFICATION Spec
CONSTANTS
    GateIds = {g1}
    Entries = {x1}
    Bridges = {x1}
    Questions = {q1, q2}
    Fingerprints = {f1}
    None = None
    Topics = {t1}
    Names = {n1}
    Turns = {u1, u2}
    Lenses = {"business", "technical"}
    Checks <- MCChecks
    AgentTurns <- MCAgentTurns
    Failures = {"host_transient", "host_permanent"}
    ExportIds = {}
    MaxSequence = 11
    g1 = g1
    x1 = x1
    q1 = q1
    q2 = q2
    f1 = f1
    t1 = t1
    t2 = t2
    n1 = n1
    u1 = u1
    u2 = u2
INVARIANTS
    ExhaustedWorkDies
CHECK_DEADLOCK FALSE
