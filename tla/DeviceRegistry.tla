---------------------------- MODULE DeviceRegistry ----------------------------
(***************************************************************************)
(* The paired devices, in one file that several processes change:          *)
(* core/link_devices.py.  A change holds the lock between processes and    *)
(* starts from the file; a read compares the file's signature with that of *)
(* its last load.  `mem` is the copy of the process that serves the link.  *)
(* A save that raises is left out, and so are names, grants and the remote *)
(* opt-in.                                                                 *)
(***************************************************************************)
EXTENDS LinkDevices

VARIABLES
    file,       \* what the file says of each device
    mem,        \* DeviceRegistry._records of the link's process
    seen        \* the file's signature is the one of the last load

registry == <<file, mem, seen>>

\* "absent" is a device that is yet to be created, "gone" one that was removed.
Statuses == {"absent", "pending", "active", "revoked", "gone"}

RegistryInit ==
    /\ file \in [Device -> {"absent", "active", "revoked"}]
    /\ mem = file
    /\ seen = TRUE

RegistryTypeOK ==
    /\ file \in [Device -> Statuses]
    /\ mem \in [Device -> Statuses]
    /\ seen \in BOOLEAN

Exists(records, d) == records[d] \notin {"absent", "gone"}

\* Mutant: the records are the ones of the last load.
OwnCopy == mem

\* get: what the record says, after _refresh.
Now == IF seen THEN mem ELSE file

\* A read, and what it leaves behind.
Look ==
    /\ mem' = Now
    /\ seen' = TRUE
    /\ UNCHANGED file

CanAuthenticate(d) == Now[d] \in {"pending", "active"}

\* _changing: the file is read again under the lock.
Fresh == file

\* _update, create and remove: one record, and the whole file written back.
Change(d, status) ==
    /\ file' = [Fresh EXCEPT ![d] = status]
    /\ mem' = [Fresh EXCEPT ![d] = status]
    /\ seen' = TRUE

\* What a change that raises leaves behind: the reload.
Reload ==
    /\ mem' = Fresh
    /\ seen' = TRUE
    /\ UNCHANGED file

\* Another process with a registry of its own revokes a device.  (Revoking it
\* once more would only change the signature.)
RevokeElsewhere(d) ==
    /\ file[d] \in {"pending", "active"}
    /\ file' = [file EXCEPT ![d] = "revoked"]
    /\ seen' = FALSE
    /\ UNCHANGED mem
=============================================================================
