----------------------------- MODULE MCLogging -----------------------------
\* One tag of a client, one of a LoggedClass, two levels and two threads.
EXTENDS Logging

CONSTANTS tag, this, t1, t2
=============================================================================
