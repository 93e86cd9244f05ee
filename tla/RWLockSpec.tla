----------------------------- MODULE RWLockSpec -----------------------------
(***************************************************************************)
(* What GlobalRWLock promises the threads of all processes together, and    *)
(* SyncObject the threads of one: a read-write lock.  Nothing is said of    *)
(* processes, of counters and queues, or of the messages that move it.      *)
(***************************************************************************)
CONSTANT Client

VARIABLE mode     \* what every thread has of the lock

Mode == {"none", "asksRead", "asksWrite", "read", "write"}

Init == mode = [c \in Client |-> "none"]

Ask(c) ==
    /\ mode[c] = "none"
    /\ \E m \in {"asksRead", "asksWrite"} : mode' = [mode EXCEPT ![c] = m]

GetRead(c) ==
    /\ mode[c] \in {"none", "asksRead"}
    /\ \A d \in Client : mode[d] # "write"
    /\ mode' = [mode EXCEPT ![c] = "read"]

GetWrite(c) ==
    /\ mode[c] \in {"none", "asksWrite"}
    /\ \A d \in Client : mode[d] \notin {"read", "write"}
    /\ mode' = [mode EXCEPT ![c] = "write"]

\* The lock is given back, or was not to be had.
Leave(c) ==
    /\ mode[c] # "none"
    /\ mode' = [mode EXCEPT ![c] = "none"]

Downgrade(c) ==
    /\ mode[c] = "write"
    /\ mode' = [mode EXCEPT ![c] = "read"]

Next ==
    \E c \in Client : Ask(c) \/ GetRead(c) \/ GetWrite(c) \/ Leave(c) \/ Downgrade(c)

Spec == Init /\ [][Next]_mode
=============================================================================
