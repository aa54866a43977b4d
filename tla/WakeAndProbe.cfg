\* One process: wake requests and probes of a device that is edited.
SPECIFICATION Spec
CHECK_DEADLOCK FALSE
CONSTANTS
    Null = Null
    Unused = Unused
    Deleted = Deleted
    w1 = w1
    w2 = w2
    q1 = q1
    q2 = q2
    s1 = s1
    s2 = s2
    e1 = e1
    e2 = e2
    m1 = m1
    m2 = m2
    a1 = a1
    a2 = a2
    k1 = k1
    k2 = k2
    p1 = p1
    Ids = {d1}
    Macs = {m1, m2}
    Addresses = {a1}
    Creds = {k1}
    WakeCooldown = 2
    ShutdownCooldown = 2
    Procs = {p1}
    WakeReqs = {w1, w2}
    PowerReqs = {}
    EditReqs = {e1}
    ProbeReqs = {q1, q2}
    ProcOf <- OneProc
    Inputs <- TargetInputs
    SshConfigured = TRUE
    MaxTime = 2
SYMMETRY WakeSymmetry
INVARIANTS
    WakeSpacing
    WakeRefusalJustified
    SentStampTruthful
    SeenStampTruthful
PROPERTIES
    SeenNeverMovesBack
    ProbesOfEditedDropped
