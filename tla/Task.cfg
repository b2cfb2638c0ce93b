CONSTANTS
    t1 = t1  t2 = t2  t3 = t3  owner = owner  u1 = u1  u2 = u2
    Tasks = {t1, t2, t3}
    Threads = {owner, u1, u2}
    Owner = owner
    None = None
    StagesOf <- MCStagesOf
    GivenTo <- MCGivenTo
SYMMETRY MCSymmetry
CONSTRAINT MCBound
SPECIFICATION Spec
INVARIANTS FlagCoversIteration SuccessIsComplete CallbackFollowsOrigin
CHECK_DEADLOCK FALSE
