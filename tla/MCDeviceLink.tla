----------------------------- MODULE MCDeviceLink -----------------------------
\* A small instance of the device link.
EXTENDS DeviceLink, TLC

With(status) == {d \in Device : file[d] = status}

\* How many requests there may be depends on the phones at the start: one
\* paired and one revoked, both paired, or some yet to be paired.
MCInit ==
    /\ Init
    /\ \/ With("active") # {} /\ With("revoked") # {} /\ asks = 0
       \/ With("active") = Device /\ asks = 1
       \/ With("revoked") = {} /\ With("absent") # {} /\ asks = MaxAsks

\* Another process revokes only while there are requests to come.
MCNext == Next /\ (asks = MaxAsks /\ seen => seen')

MCSpec == MCInit /\ [][MCNext]_vars

Symmetry ==
    Permutations(Device) \cup Permutations(Cid) \cup Permutations(Op)
        \cup Permutations(Conn)
=============================================================================
