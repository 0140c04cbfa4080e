SPECIFICATION Spec
CONSTANTS
    r1 = r1
    r2 = r2
    r3 = r3
    s1 = s1
    s2 = s2
    k1 = k1
    f1 = f1
    f2 = f2
    None = None
    Runs = {r1, r2, r3}
    SessionIds = {s1, s2}
    SessionKeys = {k1}
    SessionFiles = {f1, f2}
    Callers = {}
    Session <- ResetSession
    Key <- OneKey
    File <- TwoFiles
    Noted = {}
INVARIANT NewRunNotAbandoned
CHECK_DEADLOCK FALSE
