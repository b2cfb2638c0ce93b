------------------------------- MODULE MCTask -------------------------------
\* A Task of two stages with a function, one of one stage with a plain plugin and
\* one with a plugin that overrides clone; two threads use them besides the owner.
EXTENDS Task, TLC

CONSTANTS t1, t2, t3, owner, u1, u2

MCStagesOf == [t \in Tasks |-> IF t = t1 THEN 2 ELSE 1]
MCGivenTo ==
    [t \in Tasks |-> CASE t = t1 -> "function" [] t = t2 -> "plain" [] OTHER -> "plugin"]
MCSymmetry == Permutations({u1, u2})

\* Bound: stages are iterated only while the third place is unused; with it come
\* longer chains of clones, moves and assignments.
MCBound ==
    Unused(t3) \/ \A th \in Threads : pc[th].at \in {"idle", "asserted", "stored", "constructed"}
=============================================================================
