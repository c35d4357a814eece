---------------------------- MODULE MCStateStore ----------------------------
(* Instances of StateStore for TLC. *)
EXTENDS StateStoreInv

CONSTANTS s1, s2

Together == [s \in Server |-> 0]
Apart == [s \in Server |-> IF s = s1 THEN 0 ELSE 3]

Logging == {"log_event"}
Deciding == {"add_pending_action", "resolve_pending_action"}
Setting == {"set_status", "read"}

Store(store, servers, sessions, ahead, methods, faults) ==
    [store |-> store, servers |-> servers, sessions |-> sessions, ahead |-> ahead,
     methods |-> methods, redecided |-> store = "postgres", faults |-> faults]

\* Two API processes on Postgres whose clocks agree or not; one with fewer
\* connections than calls, or that loses them or crashes; the file store.
MCConfigurations ==
    {Store("postgres", {s1, s2}, 1, Together, Deciding \cup Logging, {}),
     Store("postgres", {s1, s2}, 1, Apart, Logging, {"crash"}),
     Store("postgres", {s1}, 2, Together, Deciding \cup Logging, {"crash"}),
     Store("postgres", {s1}, 1, Together, Deciding, {"outage"}),
     Store("postgres", {s1}, 1, Together, Setting, {"idle"}),
     Store("file", {s1}, 1, Together, Deciding \cup Logging, {"crash"}),
     Store("file", {s1}, 1, Together, Setting, {"crash"})}
=============================================================================
