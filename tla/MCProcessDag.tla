---------------------------- MODULE MCProcessDag ----------------------------
\* One of three vertices carries no task.
EXTENDS ProcessDag

CONSTANTS v1, v2, v3
=============================================================================
