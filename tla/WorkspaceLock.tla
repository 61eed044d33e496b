---------------------------- MODULE WorkspaceLock ----------------------------
(***************************************************************************)
(* The cross-process workspace lock of scr/locks.py on POSIX: flock() on   *)
(* the inode behind lock_path, and a metadata sidecar.  Processes acquire, *)
(* heartbeat, release, die and restart; the machine reboots; a supervisor  *)
(* calls probe() and break_stale().  One step is one system call.          *)
(*                                                                         *)
(* An open handle holds its inode, so the path may come to name another    *)
(* file while the first is still locked.  A heartbeat is either fresh or   *)
(* older than stale_after.                                                 *)
(***************************************************************************)
EXTENDS Naturals, FiniteSets

CONSTANTS
    Procs,       \* processes that want the workspace
    Sup,         \* the supervisor
    NoOne,
    MaxInodes,   \* bound: files ever created at lock_path
    MaxBoots,    \* bound: boots
    MaxProbes,   \* bound: calls of the supervisor
    MaxDeaths    \* bound: deaths of processes

VARIABLES
    path,        \* the inode lock_path names, 0 when there is no file
    inodes,      \* inodes created so far
    owner,       \* per inode: whose handle has the flock
    meta,        \* the sidecar: [pid, boot, fresh], pid = NoOne when absent
    boot,        \* boot_id()
    p,           \* per process: [pc, fh]
    sup,         \* the supervisor: [pc, fh, meta, state]
    probes, deaths,
    stripped,    \* history: the sidecar was removed while a process had the lock
    unlinked     \* history: a lock file was unlinked while a process had it open

vars == <<path, inodes, owner, meta, boot, p, sup, probes, deaths, stripped, unlinked>>

NoMeta == [pid |-> NoOne, boot |-> 0, fresh |-> FALSE]
Holding == {"write", "held"}
Holds(a) == p[a].pc \in Holding
SupIdle == [pc |-> "idle", fh |-> 0, meta |-> NoMeta, state |-> "none"]

Init ==
    /\ path = 0 /\ inodes = 0 /\ meta = NoMeta /\ boot = 1 /\ probes = 0 /\ deaths = 0
    /\ owner = [i \in 1 .. MaxInodes |-> NoOne]
    /\ p = [a \in Procs |-> [pc |-> "idle", fh |-> 0]]
    /\ sup = SupIdle /\ stripped = FALSE /\ unlinked = FALSE

(* open(lock_path, "a+b") creates the file when it is missing. *)
opened == IF path # 0 THEN path ELSE inodes + 1
open == /\ opened <= MaxInodes /\ path' = opened
        /\ inodes' = IF path # 0 THEN inodes ELSE inodes + 1

(* acquire(): open, try the lock, write the sidecar. *)
Open(a) ==
    /\ p[a].pc = "idle" /\ open
    /\ p' = [p EXCEPT ![a] = [pc |-> "opened", fh |-> opened]]
    /\ UNCHANGED <<owner, meta, boot, sup, probes, deaths, stripped, unlinked>>

Mut_os_lock(fh, a) == /\ owner' = [owner EXCEPT ![fh] = a]
_os_lock(fh, a) == owner[fh] = NoOne /\ owner' = [owner EXCEPT ![fh] = a]
Mut_os_unlock(fh) == UNCHANGED owner
_os_unlock(fh) == owner' = [owner EXCEPT ![fh] = NoOne]

Lock(a) ==
    /\ p[a].pc = "opened"
    /\ _os_lock(p[a].fh, a)
    /\ p' = [p EXCEPT ![a].pc = "write"]
    /\ UNCHANGED <<path, inodes, meta, boot, sup, probes, deaths, stripped, unlinked>>

(* LockHeld: the handle is closed again. *)
Refused(a) ==
    /\ p[a].pc = "opened" /\ owner[p[a].fh] # NoOne
    /\ p' = [p EXCEPT ![a] = [pc |-> "idle", fh |-> 0]]
    /\ UNCHANGED <<path, inodes, owner, meta, boot, sup, probes, deaths, stripped, unlinked>>

_write_meta(a) == meta' = [pid |-> a, boot |-> boot, fresh |-> TRUE] /\ stripped' = FALSE

MutKeepMeta(a) ==
    /\ p[a].pc = "write" /\ p' = [p EXCEPT ![a].pc = "held"]
    /\ IF meta.pid = NoOne THEN _write_meta(a) ELSE UNCHANGED <<meta, stripped>>
    /\ UNCHANGED <<path, inodes, owner, boot, sup, probes, deaths, unlinked>>

WriteMeta(a) ==
    /\ p[a].pc = "write" /\ _write_meta(a)
    /\ p' = [p EXCEPT ![a].pc = "held"]
    /\ UNCHANGED <<path, inodes, owner, boot, sup, probes, deaths, unlinked>>

heartbeat(a) ==
    /\ p[a].pc = "held" /\ _write_meta(a)
    /\ UNCHANGED <<path, inodes, owner, boot, p, sup, probes, deaths, unlinked>>

remove_meta == meta' = NoMeta /\ stripped' = \E b \in Procs : Holds(b)

(* release(): the flock is given up first, the sidecar removed after it. *)
Unlock(a) ==
    /\ p[a].pc = "held"
    /\ _os_unlock(p[a].fh)
    /\ p' = [p EXCEPT ![a] = [pc |-> "unlink", fh |-> 0]]
    /\ UNCHANGED <<path, inodes, meta, boot, sup, probes, deaths, stripped, unlinked>>

UnlinkMeta(a) ==
    /\ p[a].pc = "unlink" /\ remove_meta
    /\ p' = [p EXCEPT ![a].pc = "idle"]
    /\ UNCHANGED <<path, inodes, owner, boot, sup, probes, deaths, unlinked>>

(* The heartbeat grows older than stale_after. *)
Age == /\ meta.fresh /\ meta' = [meta EXCEPT !.fresh = FALSE]
       /\ UNCHANGED <<path, inodes, owner, boot, p, sup, probes, deaths, stripped, unlinked>>

(* The OS drops the locks of a dead process and of a lost boot. *)
Die(a) ==
    /\ p[a].pc # "idle" /\ deaths < MaxDeaths
    /\ deaths' = deaths + 1
    /\ owner' = [i \in DOMAIN owner |-> IF owner[i] = a THEN NoOne ELSE owner[i]]
    /\ p' = [p EXCEPT ![a] = [pc |-> "idle", fh |-> 0]]
    /\ UNCHANGED <<path, inodes, meta, boot, sup, probes, stripped, unlinked>>

Reboot ==
    /\ boot < MaxBoots /\ boot' = boot + 1
    /\ owner' = [i \in DOMAIN owner |-> NoOne]
    /\ p' = [a \in Procs |-> [pc |-> "idle", fh |-> 0]]
    /\ sup' = SupIdle
    /\ UNCHANGED <<path, inodes, meta, probes, deaths, stripped, unlinked>>

(***************************************************************************)
(* The supervisor: probe() reads the sidecar, takes the lock for a moment  *)
(* and classifies; break_stale() goes on to unlink.                        *)
(***************************************************************************)
others == <<boot, p, deaths>>

ProbeMeta ==
    /\ sup.pc = "idle" /\ probes < MaxProbes
    /\ sup' = [SupIdle EXCEPT !.pc = "exists", !.meta = meta]
    /\ probes' = probes + 1
    /\ UNCHANGED <<path, inodes, owner, meta, others, stripped, unlinked>>

ProbeOpen ==
    /\ sup.pc = "exists"
    /\ IF path = 0
       THEN sup' = [sup EXCEPT !.pc = "verdict", !.state = "free"] /\ UNCHANGED <<path, inodes>>
       ELSE sup' = [sup EXCEPT !.pc = "probe", !.fh = opened] /\ open
    /\ UNCHANGED <<owner, meta, probes, others, stripped, unlinked>>

ProbeLock ==
    /\ sup.pc = "probe"
    /\ \/ /\ _os_lock(sup.fh, Sup)
          /\ sup' = [sup EXCEPT !.pc = "unprobe"]
       \/ /\ owner[sup.fh] # NoOne
          /\ sup' = [sup EXCEPT !.pc = "verdict", !.state =
                IF sup.meta.pid # NoOne /\ ~sup.meta.fresh THEN "stale_heartbeat" ELSE "live"]
          /\ UNCHANGED owner
    /\ UNCHANGED <<path, inodes, meta, probes, others, stripped, unlinked>>

ProbeUnlock ==
    /\ sup.pc = "unprobe" /\ _os_unlock(sup.fh)
    /\ sup' = [sup EXCEPT !.pc = "verdict", !.state =
            IF sup.meta.pid # NoOne /\ sup.meta.boot # boot THEN "stale_other_boot" ELSE "free"]
    /\ UNCHANGED <<path, inodes, meta, probes, others, stripped, unlinked>>

(* The call was probe() and returns its verdict, or it was break_stale(),   *)
(* which returns False on "live".                                           *)
Verdict ==
    /\ sup.pc = "verdict"
    /\ sup' = [SupIdle EXCEPT !.state = sup.state]
    /\ UNCHANGED <<path, inodes, owner, meta, probes, others, stripped, unlinked>>

BreakMeta ==
    /\ sup.pc = "verdict" /\ sup.state # "live"
    /\ remove_meta
    /\ sup' = [sup EXCEPT !.pc = "bopen"]
    /\ UNCHANGED <<path, inodes, owner, probes, others, unlinked>>

BreakOpen ==
    /\ sup.pc = "bopen" /\ open
    /\ sup' = [sup EXCEPT !.pc = "block", !.fh = opened]
    /\ UNCHANGED <<owner, meta, probes, others, stripped, unlinked>>

BreakLock ==
    /\ sup.pc = "block"
    /\ \/ _os_lock(sup.fh, Sup) /\ sup' = [sup EXCEPT !.pc = "bunlock"]
       \/ /\ owner[sup.fh] # NoOne /\ UNCHANGED owner
          /\ sup' = SupIdle
    /\ UNCHANGED <<path, inodes, meta, probes, others, stripped, unlinked>>

BreakUnlock ==
    /\ sup.pc = "bunlock" /\ _os_unlock(sup.fh)
    /\ sup' = [sup EXCEPT !.pc = "bunlink"]
    /\ UNCHANGED <<path, inodes, meta, probes, others, stripped, unlinked>>

BreakUnlink ==
    /\ sup.pc = "bunlink" /\ path' = 0
    /\ unlinked' = (unlinked \/ \E a \in Procs : path # 0 /\ p[a].fh = path)
    /\ sup' = SupIdle
    /\ UNCHANGED <<inodes, owner, meta, probes, stripped, others>>

Acquire(a) == Open(a) \/ Lock(a) \/ Refused(a) \/ WriteMeta(a)
Supervise == \/ ProbeOpen \/ ProbeLock \/ ProbeUnlock \/ Verdict
             \/ BreakMeta \/ BreakOpen \/ BreakLock \/ BreakUnlock \/ BreakUnlink

Next ==
    \/ \E a \in Procs : Acquire(a) \/ heartbeat(a) \/ Unlock(a) \/ UnlinkMeta(a) \/ Die(a)
    \/ Age \/ Reboot \/ ProbeMeta \/ Supervise

Spec == Init /\ [][Next]_vars

(* Processes retry acquire() until they hold the lock; the supervisor       *)
(* finishes the call it is in.                                              *)
FairSpec == Spec /\ \A a \in Procs : WF_vars(Acquire(a)) /\ WF_vars(UnlinkMeta(a))
                 /\ WF_vars(Supervise)

-----------------------------------------------------------------------------
(* Single-writer: through deaths, reboots, probes and broken locks no lock   *)
(* file is held twice, and two processes have the workspace together only   *)
(* after break_stale() unlinked a file that one of them had open.           *)
Exclusive ==
    \A a, b \in Procs : Holds(a) /\ Holds(b) /\ a # b => p[a].fh # p[b].fh /\ unlinked

(* Processes that retry acquire() get the workspace again and again,        *)
(* whoever died holding it: no crash, reboot, probe or break_stale() wedges *)
(* the lock.                                                                *)
Obtainable == []<>(\E a \in Procs : Holds(a))

(* While one process has the workspace, the sidecar names that process in   *)
(* this boot, so probe() judges the right heartbeat; the only other case is *)
(* that an earlier holder's late release() or break_stale() removed it and  *)
(* the holder has not heartbeat since.                                      *)
SidecarNamesHolder ==
    ~unlinked => \A a \in Procs : p[a].pc = "held" =>
        \/ meta.pid = a /\ meta.boot = boot
        \/ meta = NoMeta /\ stripped
=============================================================================
