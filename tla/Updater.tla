------------------------------- MODULE Updater -------------------------------
(***************************************************************************)
(* The staged updater (scr/updater.py): apply reads the pointer, stages    *)
(* the version, probes it, and writes the pointer; several apply calls may *)
(* overlap and each may die at any step (the pointer is written with       *)
(* atomic_write_text: it holds the old or the new version).                *)
(***************************************************************************)
EXTENDS FiniteSets

CONSTANTS
    Versions,
    Healthy,        \* the versions whose probe passes
    Initial,        \* the version install_initial pointed at
    NoVersion,      \* no pointer file yet
    Updaters        \* processes that call apply

VARIABLES
    current,        \* the pointer file
    staged,         \* version directories
    u               \* per updater: pc, version, previous

vars == <<current, staged, u>>
Idle == [pc |-> "idle", version |-> NoVersion, previous |-> NoVersion]

Init ==
    /\ current = Initial /\ staged = {Initial} \ {NoVersion}
    /\ u = [p \in Updaters |-> Idle]

apply(p, v) ==
    /\ u[p].pc \notin {"probe", "write"}
    /\ u' = [u EXCEPT ![p] = [pc |-> "probe", version |-> v, previous |-> current]]
    /\ staged' = staged \cup {v} /\ UNCHANGED current

MutProbe(p) ==
    /\ u[p].pc = "probe" /\ u' = [u EXCEPT ![p].pc = "write"]
    /\ current' = u[p].version /\ UNCHANGED staged

(* A probe that throws is a probe that fails. *)
Probe(p) ==
    /\ u[p].pc = "probe" /\ u' = [u EXCEPT ![p].pc = "write"]
    /\ UNCHANGED <<current, staged>>

(* Switch, or roll back to the version read at the start. *)
Write(p) ==
    LET ok == u[p].version \in Healthy IN
    /\ u[p].pc = "write"
    /\ current' = IF ok THEN u[p].version
                  ELSE IF u[p].previous # NoVersion THEN u[p].previous ELSE current
    /\ u' = [u EXCEPT ![p].pc = IF ok THEN "switched" ELSE "rolled_back"]
    /\ UNCHANGED staged

Crash(p) ==
    /\ u[p].pc \in {"probe", "write"} /\ u' = [u EXCEPT ![p] = Idle]
    /\ UNCHANGED <<current, staged>>

Next == \E p \in Updaters : Probe(p) \/ Write(p) \/ Crash(p) \/ \E v \in Versions : apply(p, v)
Spec == Init /\ [][Next]_vars

-----------------------------------------------------------------------------
(* "`current` never points at a bad build": at every moment, between        *)
(* overlapping updates and after a crash, the version it names is healthy. *)
PointsAtHealthy == current \in Healthy \cup {NoVersion}
=============================================================================
