--------------------------- MODULE MCUpdateLifecycle ---------------------------
\* A small instance of the update lifecycle.
EXTENDS UpdateLifecycle

\* The approval beyond the number of launches is for the one case that needs a
\* launch more: a rollback whose copy has lost its files.
MCNext ==
    /\ Next
    /\ approvals = MaxLaunches /\ approvals' # approvals =>
           pending.restore \notin Whole \union {0}

MCSpec == Init /\ [][MCNext]_vars /\ Fairness
=============================================================================
