CONSTANTS
    v1 = v1  v2 = v2  v3 = v3  v4 = v4  l1 = l1  l2 = l2
    Vertices = {v1, v2, v3, v4}
    Expired = Expired
    SizeModulus = 16
    Labels = {l1, l2}
    LabelOf <- MCLabelOf
SYMMETRY MCSymmetry
SPECIFICATION Spec
INVARIANTS StaysAcyclic CountersExact CycleCheckExact CloneIdentical LabelCheckInverted
CHECK_DEADLOCK FALSE
