\* Two registrations, three logins and two logouts of one account, one login per
\* window of two ticks.
SPECIFICATION Spec
CONSTANTS
    g1 = g1
    g2 = g2
    l1 = l1
    l2 = l2
    l3 = l3
    o1 = o1
    o2 = o2
    Registrations = {g1, g2}
    Logins = {l1, l2, l3}
    Logouts = {o1, o2}
    LoginLimit = 1
    LoginWindow = 2
    TTL = 3
    MaxTime = 4
SYMMETRY RequestSymmetry
INVARIANTS
    RevokedStaysOut
    AttemptsAreLimited
CHECK_DEADLOCK FALSE
