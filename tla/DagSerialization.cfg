CONSTANTS
    Libraries = {l1, l2, l3}
    Loadable = {l1, l2}
    Uuids = {u1, u2}
    Absent = Absent
    MaxVertices = 3
SPECIFICATION Spec
INVARIANTS LoadedWhileUsed HandlesBalanced
