---------------------------- MODULE DaemonProofs ----------------------------
(***************************************************************************)
(* Proofs about the processes of a home, for any number of processes,      *)
(* instances, calls, deaths, boots and restarts: the workspace lock        *)
(* (WorkspaceLock), the service host (ServiceHost) and the MCP client      *)
(* (McpClient).  Each part has an inductive invariant of its own.          *)
(***************************************************************************)
EXTENDS MCDaemon, FiniteSetTheorems, TLAPS

-----------------------------------------------------------------------------
(***************************************************************************)
(* WorkspaceLock.  A process that has the lock owns the inode of its       *)
(* handle, and as long as no file was unlinked under a process every       *)
(* handle is on the file that lock_path names.                             *)
(***************************************************************************)
Inodes == 1 .. MaxInodes
Handle == [pc: {"idle", "opened", "write", "held", "unlink"}, fh: Inodes \cup {0}]
Metas == [pid: Procs \cup {NoOne}, boot: Nat, fresh: BOOLEAN]
Supervisor == [pc: {"idle", "exists", "probe", "unprobe", "verdict", "bopen", "block", "bunlock", "bunlink"},
               fh: Inodes \cup {0}, meta: Metas,
               state: {"none", "free", "live", "stale_heartbeat", "stale_other_boot"}]

LockTypes ==
    /\ inodes \in Nat /\ path \in Inodes \cup {0} /\ (path # 0 => path = inodes)
    /\ owner \in [Inodes -> Procs \cup {Sup, NoOne}]
    /\ p \in [Procs -> Handle] /\ sup \in Supervisor
    /\ meta \in Metas /\ boot \in Nat /\ stripped \in BOOLEAN /\ unlinked \in BOOLEAN

Owners ==
    /\ \A a \in Procs : /\ p[a].pc \in {"opened", "write", "held"} <=> p[a].fh # 0
                        /\ L!Holds(a) => owner[p[a].fh] = a
    /\ sup.pc \in {"probe", "unprobe", "block", "bunlock"} => sup.fh # 0
    /\ sup.pc \in {"unprobe", "bunlock"} => owner[sup.fh] = Sup

Handles == ~unlinked => \A a \in Procs : p[a].fh # 0 => p[a].fh = path

LockInv == LockTypes /\ Owners /\ Handles /\ L!SidecarNamesHolder

(* One holder per inode, and one in all while no file was unlinked.        *)
LEMMA OneHolder == LockTypes /\ Owners /\ Handles => L!Exclusive
<1> SUFFICES ASSUME LockTypes, Owners, Handles, NEW a \in Procs, NEW b \in Procs,
                    L!Holds(a), L!Holds(b), a # b
             PROVE  p[a].fh # p[b].fh /\ unlinked
  BY Zenon DEF L!Exclusive
<1>1. owner[p[a].fh] = a /\ owner[p[b].fh] = b /\ p[a].fh # 0 /\ p[b].fh # 0
  BY Zenon DEF Owners, L!Holds, L!Holding
<1> QED BY <1>1, Zenon DEF Handles

(* Every step of a process, the system and the supervisor keeps this.      *)
LEMMA LockStep == LockInv /\ [L!Next]_wlock => LockInv'
<1> SUFFICES ASSUME LockInv, [L!Next]_wlock PROVE LockInv'
  BY Zenon
<1>1. LockTypes /\ Owners /\ Handles /\ L!SidecarNamesHolder
  BY Zenon DEF LockInv
<1>2. L!Exclusive
  BY <1>1, OneHolder, Zenon
<1>3. CASE UNCHANGED wlock
  BY <1>3, Zenon DEF wlock, LockInv, LockTypes, Owners, Handles, L!SidecarNamesHolder, L!Holds, L!Holding
<1>4. ASSUME NEW a \in Procs, L!Open(a) PROVE LockInv'
  <2>1. LockTypes'
    BY <1>1, <1>4 DEF LockTypes, Handle, L!Open, L!open, L!opened, Inodes
  <2>2. Owners'
    BY <1>1, <1>4, DaemonAssumption DEF LockTypes, Handle, Owners, L!Holds, L!Holding, L!Open, L!open, L!opened, Inodes
  <2>3. Handles'
    BY <1>1, <1>4, Zenon DEF LockTypes, Handle, Owners, Handles, L!Open, L!open, L!opened, Inodes
  <2>4. L!SidecarNamesHolder'
    BY <1>1, <1>2, <1>4, Zenon DEF LockTypes, Handle, L!SidecarNamesHolder, L!Exclusive, L!Holds, L!Holding, L!Open, L!open, L!opened, Inodes
  <2> QED BY <2>1, <2>2, <2>3, <2>4, Zenon DEF LockInv
<1>5. ASSUME NEW a \in Procs, L!Lock(a) PROVE LockInv'
  <2>1. LockTypes'
    BY <1>1, <1>5, Zenon DEF LockTypes, Handle, L!Lock, L!_os_lock
  <2>2. Owners'
    BY <1>1, <1>5, DaemonAssumption DEF LockTypes, Handle, Owners, L!Holds, L!Holding, L!Lock, L!_os_lock
  <2>3. Handles'
    BY <1>1, <1>5, Zenon DEF LockTypes, Handle, Owners, Handles, L!Lock, L!_os_lock
  <2>4. L!SidecarNamesHolder'
    BY <1>1, <1>2, <1>5, Zenon DEF LockTypes, Handle, L!SidecarNamesHolder, L!Exclusive, L!Holds, L!Holding, L!Lock, L!_os_lock
  <2> QED BY <2>1, <2>2, <2>3, <2>4, Zenon DEF LockInv
<1>6. ASSUME NEW a \in Procs, L!Refused(a) PROVE LockInv'
  <2>1. LockTypes'
    BY <1>1, <1>6, Zenon DEF LockTypes, Handle, L!Refused
  <2>2. Owners'
    BY <1>1, <1>6, DaemonAssumption, Zenon DEF LockTypes, Handle, Owners, L!Holds, L!Holding, L!Refused
  <2>3. Handles'
    BY <1>1, <1>6, Zenon DEF LockTypes, Handle, Owners, Handles, L!Refused
  <2>4. L!SidecarNamesHolder'
    BY <1>1, <1>2, <1>6, Zenon DEF LockTypes, Handle, L!SidecarNamesHolder, L!Exclusive, L!Holds, L!Holding, L!Refused
  <2> QED BY <2>1, <2>2, <2>3, <2>4, Zenon DEF LockInv
<1>7. ASSUME NEW a \in Procs, L!WriteMeta(a) PROVE LockInv'
  <2>1. LockTypes'
    BY <1>1, <1>7, Zenon DEF LockTypes, Handle, L!WriteMeta, L!_write_meta, Metas
  <2>2. Owners'
    BY <1>1, <1>7, DaemonAssumption DEF LockTypes, Handle, Owners, L!Holds, L!Holding, L!WriteMeta, L!_write_meta, Metas
  <2>3. Handles'
    BY <1>1, <1>7, Zenon DEF LockTypes, Handle, Owners, Handles, L!WriteMeta, L!_write_meta, Metas
  <2>4. L!SidecarNamesHolder'
    BY <1>1, <1>2, <1>7, Zenon DEF LockTypes, Handle, L!SidecarNamesHolder, L!Exclusive, L!Holds, L!Holding, L!WriteMeta, L!_write_meta, Metas
  <2> QED BY <2>1, <2>2, <2>3, <2>4, Zenon DEF LockInv
<1>8. ASSUME NEW a \in Procs, L!heartbeat(a) PROVE LockInv'
  <2>1. LockTypes'
    BY <1>1, <1>8, Zenon DEF LockTypes, Handle, L!heartbeat, L!_write_meta, Metas
  <2>2. Owners'
    BY <1>1, <1>8, DaemonAssumption, Zenon DEF LockTypes, Handle, Owners, L!Holds, L!Holding, L!heartbeat, L!_write_meta, Metas
  <2>3. Handles'
    BY <1>1, <1>8, Zenon DEF LockTypes, Handle, Owners, Handles, L!heartbeat, L!_write_meta, Metas
  <2>4. L!SidecarNamesHolder'
    BY <1>1, <1>2, <1>8, Zenon DEF LockTypes, Handle, L!SidecarNamesHolder, L!Exclusive, L!Holds, L!Holding, L!heartbeat, L!_write_meta, Metas
  <2> QED BY <2>1, <2>2, <2>3, <2>4, Zenon DEF LockInv
<1>9. ASSUME NEW a \in Procs, L!Unlock(a) PROVE LockInv'
  <2>1. LockTypes'
    BY <1>1, <1>9, Zenon DEF LockTypes, Handle, L!Unlock, L!_os_unlock
  <2>2. Owners'
    BY <1>1, <1>9, DaemonAssumption DEF LockTypes, Handle, Owners, L!Holds, L!Holding, L!Unlock, L!_os_unlock
  <2>3. Handles'
    BY <1>1, <1>9, Zenon DEF LockTypes, Handle, Owners, Handles, L!Unlock, L!_os_unlock
  <2>4. L!SidecarNamesHolder'
    BY <1>1, <1>2, <1>9, Zenon DEF LockTypes, Handle, L!SidecarNamesHolder, L!Exclusive, L!Holds, L!Holding, L!Unlock, L!_os_unlock
  <2> QED BY <2>1, <2>2, <2>3, <2>4, Zenon DEF LockInv
<1>10. ASSUME NEW a \in Procs, L!UnlinkMeta(a) PROVE LockInv'
  <2>1. LockTypes'
    BY <1>1, <1>10, Zenon DEF LockTypes, Handle, L!UnlinkMeta, L!remove_meta, L!NoMeta, Metas
  <2>2. Owners'
    BY <1>1, <1>10, DaemonAssumption DEF LockTypes, Handle, Owners, L!Holds, L!Holding, L!UnlinkMeta, L!remove_meta, L!NoMeta, Metas
  <2>3. Handles'
    BY <1>1, <1>10 DEF LockTypes, Handle, Owners, Handles, L!UnlinkMeta, L!remove_meta, L!NoMeta, Metas
  <2>4. L!SidecarNamesHolder'
    BY <1>1, <1>2, <1>10, Zenon DEF LockTypes, Handle, L!SidecarNamesHolder, L!Exclusive, L!Holds, L!Holding, L!UnlinkMeta, L!remove_meta, L!NoMeta, Metas
  <2> QED BY <2>1, <2>2, <2>3, <2>4, Zenon DEF LockInv
<1>11. ASSUME NEW a \in Procs, L!Die(a) PROVE LockInv'
  <2>1. LockTypes'
    BY <1>1, <1>11, Zenon DEF LockTypes, Handle, L!Die
  <2>2. Owners'
    <3>1. \A i \in Inodes : owner[i] # a => owner'[i] = owner[i]
      BY <1>1, <1>11, Zenon DEF LockTypes, L!Die
    <3>2. ASSUME NEW b \in Procs
          PROVE  /\ p'[b].pc \in {"opened", "write", "held"} <=> p'[b].fh # 0
                 /\ L!Holds(b)' => owner'[p'[b].fh] = b
      <4>1. CASE b = a
        BY <1>1, <1>11, <4>1, Zenon DEF LockTypes, L!Die, L!Holds, L!Holding
      <4>2. CASE b # a
        <5>1. p'[b] = p[b] /\ p[b].fh \in Inodes \cup {0}
          BY <1>1, <1>11, <4>2, Zenon DEF LockTypes, Handle, L!Die
        <5> QED BY <1>1, <3>1, <4>2, <5>1, Zenon DEF Owners, L!Holds, L!Holding
      <4> QED BY <4>1, <4>2, Zenon
    <3>3. sup' = sup /\ sup.fh \in Inodes \cup {0}
      BY <1>1, <1>11, Zenon DEF LockTypes, Supervisor, L!Die
    <3>4. sup.pc \in {"unprobe", "bunlock"} => owner'[sup.fh] = Sup
      BY <1>1, <3>1, <3>3, DaemonAssumption, Zenon DEF Owners
    <3> QED BY <1>1, <3>2, <3>3, <3>4, Zenon DEF Owners
  <2>3. Handles'
    BY <1>1, <1>11, Zenon DEF LockTypes, Handle, Owners, Handles, L!Die
  <2>4. L!SidecarNamesHolder'
    BY <1>1, <1>2, <1>11, Zenon DEF LockTypes, Handle, L!SidecarNamesHolder, L!Exclusive, L!Holds, L!Holding, L!Die
  <2> QED BY <2>1, <2>2, <2>3, <2>4, Zenon DEF LockInv
<1>12. CASE L!Age
  <2>1. LockTypes'
    BY <1>1, <1>12, Zenon DEF LockTypes, Handle, L!Age, Metas
  <2>2. Owners'
    BY <1>1, <1>12, DaemonAssumption, Zenon DEF LockTypes, Handle, Owners, L!Holds, L!Holding, L!Age, Metas
  <2>3. Handles'
    BY <1>1, <1>12, Zenon DEF LockTypes, Handle, Owners, Handles, L!Age, Metas
  <2>4. L!SidecarNamesHolder'
    BY <1>1, <1>2, <1>12, SMTT(60) DEF LockTypes, Handle, L!SidecarNamesHolder, L!Exclusive, L!Holds, L!Holding, L!NoMeta, L!Age, Metas
  <2> QED BY <2>1, <2>2, <2>3, <2>4, Zenon DEF LockInv
<1>13. CASE L!Reboot
  <2>1. LockTypes'
    BY <1>1, <1>13 DEF LockTypes, Handle, L!Reboot, L!SupIdle, Supervisor, L!NoMeta, Metas
  <2>2. Owners'
    BY <1>1, <1>13, DaemonAssumption, Zenon DEF LockTypes, Handle, Owners, L!Holds, L!Holding, L!Reboot, L!SupIdle, Supervisor, L!NoMeta, Metas
  <2>3. Handles'
    BY <1>1, <1>13, Zenon DEF LockTypes, Handle, Owners, Handles, L!Reboot, L!SupIdle, Supervisor, L!NoMeta, Metas
  <2>4. L!SidecarNamesHolder'
    BY <1>1, <1>2, <1>13, Zenon DEF LockTypes, Handle, L!SidecarNamesHolder, L!Exclusive, L!Holds, L!Holding, L!Reboot, L!SupIdle, Supervisor, L!NoMeta, Metas
  <2> QED BY <2>1, <2>2, <2>3, <2>4, Zenon DEF LockInv
<1>14. CASE L!ProbeMeta
  <2>1. LockTypes'
    BY <1>1, <1>14, Zenon DEF LockTypes, Handle, L!ProbeMeta, L!SupIdle, Supervisor, L!others
  <2>2. Owners'
    BY <1>1, <1>14, DaemonAssumption, Zenon DEF LockTypes, Handle, Owners, L!Holds, L!Holding, L!ProbeMeta, L!SupIdle, Supervisor, L!others
  <2>3. Handles'
    BY <1>1, <1>14, Zenon DEF LockTypes, Handle, Owners, Handles, L!ProbeMeta, L!SupIdle, Supervisor, L!others
  <2>4. L!SidecarNamesHolder'
    BY <1>1, <1>2, <1>14, Zenon DEF LockTypes, Handle, L!SidecarNamesHolder, L!Exclusive, L!Holds, L!Holding, L!ProbeMeta, L!SupIdle, Supervisor, L!others
  <2> QED BY <2>1, <2>2, <2>3, <2>4, Zenon DEF LockInv
<1>15. CASE L!ProbeOpen
  <2>1. LockTypes'
    BY <1>1, <1>15, Zenon DEF LockTypes, Handle, L!ProbeOpen, L!open, L!opened, Inodes, Supervisor, L!others
  <2>2. Owners'
    <3>1. sup'.pc \in {"verdict", "probe"} /\ (sup'.pc = "probe" => sup'.fh # 0)
      BY <1>1, <1>15, Zenon DEF LockTypes, L!ProbeOpen, L!opened, Supervisor
    <3>2. UNCHANGED <<p, owner>>
      BY <1>15, Zenon DEF L!ProbeOpen, L!others
    <3> QED BY <1>1, <3>1, <3>2, Zenon DEF Owners, L!Holds, L!Holding
  <2>3. Handles'
    BY <1>1, <1>15, Zenon DEF LockTypes, Handle, Owners, Handles, L!ProbeOpen, L!open, L!opened, Inodes, Supervisor, L!others
  <2>4. L!SidecarNamesHolder'
    BY <1>1, <1>2, <1>15, Zenon DEF LockTypes, Handle, L!SidecarNamesHolder, L!Exclusive, L!Holds, L!Holding, L!ProbeOpen, L!open, L!opened, Inodes, Supervisor, L!others
  <2> QED BY <2>1, <2>2, <2>3, <2>4, Zenon DEF LockInv
<1>16. CASE L!ProbeLock
  <2>1. LockTypes'
    BY <1>1, <1>16, Zenon DEF LockTypes, Handle, L!ProbeLock, L!_os_lock, Supervisor, L!others
  <2>2. Owners'
    <3>1. p' = p /\ sup'.fh = sup.fh /\ sup.fh # 0 /\ sup.fh \in Inodes
      BY <1>1, <1>16, Zenon DEF LockTypes, Owners, L!ProbeLock, L!others, Supervisor
    <3>2. \/ owner' = owner /\ sup'.pc = "verdict"
          \/ owner[sup.fh] = NoOne /\ owner' = [owner EXCEPT ![sup.fh] = Sup] /\ sup'.pc = "unprobe"
      BY <1>1, <1>16, Zenon DEF LockTypes, L!ProbeLock, L!_os_lock, Supervisor
    <3>3. \A b \in Procs : L!Holds(b) => owner'[p[b].fh] = b
      <4> SUFFICES ASSUME NEW b \in Procs, L!Holds(b) PROVE owner'[p[b].fh] = b
        BY Zenon
      <4>1. owner[p[b].fh] = b /\ p[b].fh # 0 /\ p[b].fh \in Inodes \cup {0}
        BY <1>1, Zenon DEF LockTypes, Handle, Owners, L!Holds, L!Holding
      <4> QED BY <1>1, <3>1, <3>2, <4>1, DaemonAssumption, Zenon DEF LockTypes
    <3>4. \A b \in Procs : L!Holds(b)' <=> L!Holds(b)
      BY <3>1, Zenon DEF L!Holds, L!Holding
    <3>5. sup'.pc \in {"unprobe", "bunlock"} => owner'[sup.fh] = Sup
      BY <1>1, <3>1, <3>2, Zenon DEF LockTypes
    <3> QED BY <1>1, <3>1, <3>3, <3>4, <3>5, Zenon DEF Owners
  <2>3. Handles'
    BY <1>1, <1>16, Zenon DEF LockTypes, Handle, Owners, Handles, L!ProbeLock, L!_os_lock, Supervisor, L!others
  <2>4. L!SidecarNamesHolder'
    BY <1>1, <1>2, <1>16, Zenon DEF LockTypes, Handle, L!SidecarNamesHolder, L!Exclusive, L!Holds, L!Holding, L!ProbeLock, L!_os_lock, Supervisor, L!others
  <2> QED BY <2>1, <2>2, <2>3, <2>4, Zenon DEF LockInv
<1>17. CASE L!ProbeUnlock
  <2>1. LockTypes'
    BY <1>1, <1>17, Zenon DEF LockTypes, Handle, L!ProbeUnlock, L!_os_unlock, Supervisor, L!others
  <2>2. Owners'
    BY <1>1, <1>17, DaemonAssumption DEF LockTypes, Handle, Owners, L!Holds, L!Holding, L!ProbeUnlock, L!_os_unlock, Supervisor, L!others
  <2>3. Handles'
    BY <1>1, <1>17, Zenon DEF LockTypes, Handle, Owners, Handles, L!ProbeUnlock, L!_os_unlock, Supervisor, L!others
  <2>4. L!SidecarNamesHolder'
    BY <1>1, <1>2, <1>17, Zenon DEF LockTypes, Handle, L!SidecarNamesHolder, L!Exclusive, L!Holds, L!Holding, L!ProbeUnlock, L!_os_unlock, Supervisor, L!others
  <2> QED BY <2>1, <2>2, <2>3, <2>4, Zenon DEF LockInv
<1>18. CASE L!Verdict
  <2>1. LockTypes'
    BY <1>1, <1>18, Zenon DEF LockTypes, Handle, L!Verdict, L!SupIdle, L!NoMeta, Metas, Supervisor, L!others
  <2>2. Owners'
    BY <1>1, <1>18, DaemonAssumption, Zenon DEF LockTypes, Handle, Owners, L!Holds, L!Holding, L!Verdict, L!SupIdle, L!NoMeta, Metas, Supervisor, L!others
  <2>3. Handles'
    BY <1>1, <1>18, Zenon DEF LockTypes, Handle, Owners, Handles, L!Verdict, L!SupIdle, L!NoMeta, Metas, Supervisor, L!others
  <2>4. L!SidecarNamesHolder'
    BY <1>1, <1>2, <1>18, Zenon DEF LockTypes, Handle, L!SidecarNamesHolder, L!Exclusive, L!Holds, L!Holding, L!Verdict, L!SupIdle, L!NoMeta, Metas, Supervisor, L!others
  <2> QED BY <2>1, <2>2, <2>3, <2>4, Zenon DEF LockInv
<1>19. CASE L!BreakMeta
  <2>1. LockTypes'
    BY <1>1, <1>19, Zenon DEF LockTypes, Handle, L!BreakMeta, L!remove_meta, L!NoMeta, Metas, Supervisor, L!others
  <2>2. Owners'
    BY <1>1, <1>19, DaemonAssumption, Zenon DEF LockTypes, Handle, Owners, L!Holds, L!Holding, L!BreakMeta, L!remove_meta, L!NoMeta, Metas, Supervisor, L!others
  <2>3. Handles'
    BY <1>1, <1>19, Zenon DEF LockTypes, Handle, Owners, Handles, L!BreakMeta, L!remove_meta, L!NoMeta, Metas, Supervisor, L!others
  <2>4. L!SidecarNamesHolder'
    BY <1>1, <1>2, <1>19, Zenon DEF LockTypes, Handle, L!SidecarNamesHolder, L!Exclusive, L!Holds, L!Holding, L!BreakMeta, L!remove_meta, L!NoMeta, Metas, Supervisor, L!others
  <2> QED BY <2>1, <2>2, <2>3, <2>4, Zenon DEF LockInv
<1>20. CASE L!BreakOpen
  <2>1. LockTypes'
    <3>1. /\ inodes' \in Nat /\ path' \in Inodes \cup {0} /\ (path' # 0 => path' = inodes')
          /\ L!opened \in Inodes
      BY <1>1, <1>20 DEF LockTypes, L!BreakOpen, L!open, L!opened, Inodes
    <3>2. sup' \in Supervisor
      BY <1>1, <1>20, <3>1, Zenon DEF LockTypes, L!BreakOpen, Supervisor
    <3> QED BY <1>1, <1>20, <3>1, <3>2, Zenon DEF LockTypes, L!BreakOpen, L!others
  <2>2. Owners'
    BY <1>1, <1>20, DaemonAssumption DEF LockTypes, Handle, Owners, L!Holds, L!Holding, L!BreakOpen, L!open, L!opened, Inodes, Supervisor, L!others
  <2>3. Handles'
    BY <1>1, <1>20, Zenon DEF LockTypes, Handle, Owners, Handles, L!BreakOpen, L!open, L!opened, Inodes, Supervisor, L!others
  <2>4. L!SidecarNamesHolder'
    BY <1>1, <1>2, <1>20, Zenon DEF LockTypes, Handle, L!SidecarNamesHolder, L!Exclusive, L!Holds, L!Holding, L!BreakOpen, L!open, L!opened, Inodes, Supervisor, L!others
  <2> QED BY <2>1, <2>2, <2>3, <2>4, Zenon DEF LockInv
<1>21. CASE L!BreakLock
  <2>1. LockTypes'
    <3>1. owner' \in [Inodes -> Procs \cup {Sup, NoOne}]
      BY <1>1, <1>21, Zenon DEF LockTypes, L!BreakLock, L!_os_lock
    <3>2. L!NoMeta \in Metas
      BY Zenon DEF L!NoMeta, Metas
    <3>3. L!SupIdle \in Supervisor
      BY <3>2, Zenon DEF L!SupIdle, Supervisor
    <3>4. sup' \in Supervisor
      BY <1>1, <1>21, <3>3, Zenon DEF LockTypes, L!BreakLock, Supervisor
    <3> QED BY <1>1, <1>21, <3>1, <3>4, Zenon DEF LockTypes, L!BreakLock, L!others
  <2>2. Owners'
    BY <1>1, <1>21, DaemonAssumption DEF LockTypes, Handle, Owners, L!Holds, L!Holding, L!BreakLock, L!_os_lock, L!SupIdle, L!NoMeta, Metas, Supervisor, L!others
  <2>3. Handles'
    BY <1>1, <1>21, Zenon DEF LockTypes, Handle, Owners, Handles, L!BreakLock, L!_os_lock, L!SupIdle, L!NoMeta, Metas, Supervisor, L!others
  <2>4. L!SidecarNamesHolder'
    BY <1>1, <1>2, <1>21, Zenon DEF LockTypes, Handle, L!SidecarNamesHolder, L!Exclusive, L!Holds, L!Holding, L!BreakLock, L!_os_lock, L!SupIdle, L!NoMeta, Metas, Supervisor, L!others
  <2> QED BY <2>1, <2>2, <2>3, <2>4, Zenon DEF LockInv
<1>22. CASE L!BreakUnlock
  <2>1. LockTypes'
    BY <1>1, <1>22, Zenon DEF LockTypes, Handle, L!BreakUnlock, L!_os_unlock, Supervisor, L!others
  <2>2. Owners'
    BY <1>1, <1>22, DaemonAssumption DEF LockTypes, Handle, Owners, L!Holds, L!Holding, L!BreakUnlock, L!_os_unlock, Supervisor, L!others
  <2>3. Handles'
    BY <1>1, <1>22, Zenon DEF LockTypes, Handle, Owners, Handles, L!BreakUnlock, L!_os_unlock, Supervisor, L!others
  <2>4. L!SidecarNamesHolder'
    BY <1>1, <1>2, <1>22, Zenon DEF LockTypes, Handle, L!SidecarNamesHolder, L!Exclusive, L!Holds, L!Holding, L!BreakUnlock, L!_os_unlock, Supervisor, L!others
  <2> QED BY <2>1, <2>2, <2>3, <2>4, Zenon DEF LockInv
<1>23. CASE L!BreakUnlink
  <2>1. LockTypes'
    BY <1>1, <1>23, Zenon DEF LockTypes, Handle, L!BreakUnlink, L!SupIdle, L!NoMeta, Metas, Supervisor, L!others
  <2>2. Owners'
    BY <1>1, <1>23, DaemonAssumption, Zenon DEF LockTypes, Handle, Owners, L!Holds, L!Holding, L!BreakUnlink, L!SupIdle, L!NoMeta, Metas, Supervisor, L!others
  <2>3. Handles'
    BY <1>1, <1>23, Zenon DEF LockTypes, Handle, Owners, Handles, L!BreakUnlink, L!SupIdle, L!NoMeta, Metas, Supervisor, L!others
  <2>4. L!SidecarNamesHolder'
    BY <1>1, <1>2, <1>23, Zenon DEF LockTypes, Handle, L!SidecarNamesHolder, L!Exclusive, L!Holds, L!Holding, L!BreakUnlink, L!SupIdle, L!NoMeta, Metas, Supervisor, L!others
  <2> QED BY <2>1, <2>2, <2>3, <2>4, Zenon DEF LockInv
<1> QED
  BY <1>3, <1>4, <1>5, <1>6, <1>7, <1>8, <1>9, <1>10, <1>11, <1>12, <1>13, <1>14,
     <1>15, <1>16, <1>17, <1>18, <1>19, <1>20, <1>21, <1>22, <1>23, ZenonT(60)
     DEF L!Next, L!Acquire, L!Supervise

(* The initial state of the lock.                                          *)
LEMMA LockInit == L!Init => LockInv
<1>1. SUFFICES ASSUME L!Init PROVE LockInv
  BY Zenon
<1>2. L!NoMeta \in Metas
  BY Zenon DEF L!NoMeta, Metas
<1>3. L!SupIdle \in Supervisor
  BY <1>2, Zenon DEF L!SupIdle, Supervisor
<1>4. LockTypes
  BY <1>1, <1>2, <1>3, Zenon DEF L!Init, LockTypes, Inodes, Handle
<1>5. Owners /\ Handles /\ L!SidecarNamesHolder
  BY <1>1, Zenon DEF L!Init, L!SupIdle, Owners, Handles, L!Holds, L!Holding, L!SidecarNamesHolder
<1> QED BY <1>4, <1>5, Zenon DEF LockInv

-----------------------------------------------------------------------------
(***************************************************************************)
(* ServiceHost.  Whoever has built a runner has service.lock until its     *)
(* clean-up released it or its process ended.                              *)
(***************************************************************************)
Threads == [mode: {"none", "service", "console", "ended"},
            main: {"off", "build", "built", "refused", "started", "join", "returned"},
            serve: {"off", "starting", "up", "cleanup", "closed", "gone"},
            handler: {"none", "pending", "told", "reported"},
            busy: BOOLEAN, should_exit: BOOLEAN]

HostInv ==
    /\ inst \in [H!Instances -> Threads]
    /\ \A i \in H!Instances :
        /\ inst[i].main \in {"build", "built", "refused"} => inst[i].serve = "off"
        /\ inst[i].main = "built" \/ inst[i].serve \in {"starting", "up", "cleanup", "closed"}
              => lock = i

(* A step of instance i that leaves it in a state e and takes the lock     *)
(* from no other.                                                          *)
LEMMA InstanceStep ==
    ASSUME HostInv, NEW i \in H!Instances, NEW e \in Threads,
           inst' = [inst EXCEPT ![i] = e],
           e.main \in {"build", "built", "refused"} => e.serve = "off",
           e.main = "built" \/ e.serve \in {"starting", "up", "cleanup", "closed"} => lock' = i,
           \A j \in H!Instances : j # i /\ lock = j => lock' = j
    PROVE  HostInv'
<1>1. inst' \in [H!Instances -> Threads]
  BY Zenon DEF HostInv
<1>2. ASSUME NEW j \in H!Instances
      PROVE  /\ inst'[j].main \in {"build", "built", "refused"} => inst'[j].serve = "off"
             /\ inst'[j].main = "built" \/ inst'[j].serve \in {"starting", "up", "cleanup", "closed"}
                   => lock' = j
  <2>1. CASE j = i
    BY <2>1, Zenon DEF HostInv
  <2>2. CASE j # i
    BY <2>2, Zenon DEF HostInv
  <2> QED BY <2>1, <2>2, Zenon
<1> QED BY <1>1, <1>2, Zenon DEF HostInv

(* Every step of the processes and of the SCM keeps this.                  *)
LEMMA HostStep == HostInv /\ [H!Next]_host => HostInv'
<1> SUFFICES ASSUME HostInv, [H!Next]_host PROVE HostInv'
  BY Zenon
<1>0. CASE UNCHANGED host
  BY <1>0, Zenon DEF host, HostInv
<1> SUFFICES ASSUME NEW i \in H!Instances,
                    \/ \E mode \in {"service", "console"} : H!Launch(i, mode)
                    \/ H!Threads(i) \/ H!Control(i) \/ H!Handler(i)
                    \/ H!Accept(i) \/ H!Server(i) \/ H!Exit(i)
             PROVE  HostInv'
  BY <1>0, Zenon DEF H!Next
<1>1. /\ inst[i] \in Threads
      /\ inst[i].main \in {"build", "built", "refused"} => inst[i].serve = "off"
      /\ inst[i].main = "built" \/ inst[i].serve \in {"starting", "up", "cleanup", "closed"} => lock = i
      /\ inst \in [H!Instances -> Threads]
  BY Zenon DEF HostInv
<1>2. \A j \in H!Instances : j # 0
  BY DaemonAssumption DEF H!Instances
<1>3. ASSUME NEW mode \in {"service", "console"}, H!Launch(i, mode) PROVE HostInv'
  <2> DEFINE e == [inst[i] EXCEPT !.mode = mode, !.main = "build"]
  <2>1. e \in Threads
    BY <1>1, Zenon DEF Threads, H!Off
  <2>2. inst' = [inst EXCEPT ![i] = e]
    BY <1>1, <1>3, Zenon DEF H!Launch
  <2>3. /\ e.main \in {"build", "built", "refused"} => e.serve = "off"
        /\ e.main = "built" \/ e.serve \in {"starting", "up", "cleanup", "closed"} => lock' = i
        /\ \A j \in H!Instances : j # i /\ lock = j => lock' = j
    BY <1>1, <1>2, <1>3 DEF Threads, H!Launch, H!Off
  <2> QED BY <2>1, <2>2, <2>3, InstanceStep, Zenon
<1>4. CASE H!_Runner(i)
  <2> DEFINE e == [inst[i] EXCEPT !.main = IF lock = 0 THEN "built" ELSE "refused"]
  <2>1. e \in Threads
    BY <1>1, Zenon DEF Threads
  <2>2. inst' = [inst EXCEPT ![i] = e]
    BY <1>1, <1>4, Zenon DEF H!_Runner
  <2>3. /\ e.main \in {"build", "built", "refused"} => e.serve = "off"
        /\ e.main = "built" \/ e.serve \in {"starting", "up", "cleanup", "closed"} => lock' = i
        /\ \A j \in H!Instances : j # i /\ lock = j => lock' = j
    BY <1>1, <1>2, <1>4, Zenon DEF Threads, H!_Runner
  <2> QED BY <2>1, <2>2, <2>3, InstanceStep, Zenon
<1>5. CASE H!serve_in_thread(i)
  <2> DEFINE e == [inst[i] EXCEPT !.main = IF inst[i].mode = "service" THEN "started" ELSE "join", !.serve = "starting"]
  <2>1. e \in Threads
    BY <1>1, Zenon DEF Threads
  <2>2. inst' = [inst EXCEPT ![i] = e]
    BY <1>1, <1>5, Zenon DEF H!serve_in_thread
  <2>3. /\ e.main \in {"build", "built", "refused"} => e.serve = "off"
        /\ e.main = "built" \/ e.serve \in {"starting", "up", "cleanup", "closed"} => lock' = i
        /\ \A j \in H!Instances : j # i /\ lock = j => lock' = j
    BY <1>1, <1>2, <1>5, Zenon DEF Threads, H!serve_in_thread
  <2> QED BY <2>1, <2>2, <2>3, InstanceStep, Zenon
<1>6. CASE H!Running(i)
  <2> DEFINE e == [inst[i] EXCEPT !.main = "join"]
  <2>1. e \in Threads
    BY <1>1, Zenon DEF Threads
  <2>2. inst' = [inst EXCEPT ![i] = e]
    BY <1>1, <1>6, Zenon DEF H!Running
  <2>3. /\ e.main \in {"build", "built", "refused"} => e.serve = "off"
        /\ e.main = "built" \/ e.serve \in {"starting", "up", "cleanup", "closed"} => lock' = i
        /\ \A j \in H!Instances : j # i /\ lock = j => lock' = j
    BY <1>1, <1>2, <1>6, Zenon DEF Threads, H!Running
  <2> QED BY <2>1, <2>2, <2>3, InstanceStep, Zenon
<1>7. CASE H!Joined(i)
  <2> DEFINE e == [inst[i] EXCEPT !.main = "returned"]
  <2>1. e \in Threads
    BY <1>1, Zenon DEF Threads
  <2>2. inst' = [inst EXCEPT ![i] = e]
    BY <1>1, <1>7, Zenon DEF H!Joined
  <2>3. /\ e.main \in {"build", "built", "refused"} => e.serve = "off"
        /\ e.main = "built" \/ e.serve \in {"starting", "up", "cleanup", "closed"} => lock' = i
        /\ \A j \in H!Instances : j # i /\ lock = j => lock' = j
    BY <1>1, <1>2, <1>7, Zenon DEF Threads, H!Joined
  <2> QED BY <2>1, <2>2, <2>3, InstanceStep, Zenon
<1>8. CASE H!Control(i)
  <2> DEFINE e == [inst[i] EXCEPT !.handler = "pending"]
  <2>1. e \in Threads
    BY <1>1, Zenon DEF Threads
  <2>2. inst' = [inst EXCEPT ![i] = e]
    BY <1>1, <1>8, Zenon DEF H!Control
  <2>3. /\ e.main \in {"build", "built", "refused"} => e.serve = "off"
        /\ e.main = "built" \/ e.serve \in {"starting", "up", "cleanup", "closed"} => lock' = i
        /\ \A j \in H!Instances : j # i /\ lock = j => lock' = j
    BY <1>1, <1>2, <1>8, Zenon DEF Threads, H!Control
  <2> QED BY <2>1, <2>2, <2>3, InstanceStep, Zenon
<1>9. CASE H!Tell(i)
  <2> DEFINE e == [inst[i] EXCEPT !.handler = "told", !.should_exit = TRUE]
  <2>1. e \in Threads
    BY <1>1, Zenon DEF Threads
  <2>2. inst' = [inst EXCEPT ![i] = e]
    BY <1>1, <1>9, Zenon DEF H!Tell
  <2>3. /\ e.main \in {"build", "built", "refused"} => e.serve = "off"
        /\ e.main = "built" \/ e.serve \in {"starting", "up", "cleanup", "closed"} => lock' = i
        /\ \A j \in H!Instances : j # i /\ lock = j => lock' = j
    BY <1>1, <1>2, <1>9, Zenon DEF Threads, H!Tell
  <2> QED BY <2>1, <2>2, <2>3, InstanceStep, Zenon
<1>10. CASE H!Report(i)
  <2> DEFINE e == [inst[i] EXCEPT !.handler = "reported"]
  <2>1. e \in Threads
    BY <1>1, Zenon DEF Threads
  <2>2. inst' = [inst EXCEPT ![i] = e]
    BY <1>1, <1>10, Zenon DEF H!Report
  <2>3. /\ e.main \in {"build", "built", "refused"} => e.serve = "off"
        /\ e.main = "built" \/ e.serve \in {"starting", "up", "cleanup", "closed"} => lock' = i
        /\ \A j \in H!Instances : j # i /\ lock = j => lock' = j
    BY <1>1, <1>2, <1>10, Zenon DEF Threads, H!Report
  <2> QED BY <2>1, <2>2, <2>3, InstanceStep, Zenon
<1>11. CASE H!Startup(i)
  <2>0. PICK next \in {"up", "cleanup"} : inst' = [inst EXCEPT ![i].serve = next]
    BY <1>11, Zenon DEF H!Startup
  <2> DEFINE e == [inst[i] EXCEPT !.serve = next]
  <2>1. e \in Threads
    BY <1>1, Zenon DEF Threads
  <2>2. inst' = [inst EXCEPT ![i] = e]
    BY <1>1, <1>11, <2>0, Zenon DEF H!Startup
  <2>3. /\ e.main \in {"build", "built", "refused"} => e.serve = "off"
        /\ e.main = "built" \/ e.serve \in {"starting", "up", "cleanup", "closed"} => lock' = i
        /\ \A j \in H!Instances : j # i /\ lock = j => lock' = j
    BY <1>1, <1>2, <1>11, <2>0, Zenon DEF Threads, H!Startup
  <2> QED BY <2>1, <2>2, <2>3, InstanceStep, Zenon
<1>12. CASE H!Accept(i)
  <2> DEFINE e == [inst[i] EXCEPT !.busy = TRUE]
  <2>1. e \in Threads
    BY <1>1, Zenon DEF Threads
  <2>2. inst' = [inst EXCEPT ![i] = e]
    BY <1>1, <1>12, Zenon DEF H!Accept
  <2>3. /\ e.main \in {"build", "built", "refused"} => e.serve = "off"
        /\ e.main = "built" \/ e.serve \in {"starting", "up", "cleanup", "closed"} => lock' = i
        /\ \A j \in H!Instances : j # i /\ lock = j => lock' = j
    BY <1>1, <1>2, <1>12, Zenon DEF Threads, H!Accept
  <2> QED BY <2>1, <2>2, <2>3, InstanceStep, Zenon
<1>13. CASE H!Answer(i)
  <2> DEFINE e == [inst[i] EXCEPT !.busy = FALSE]
  <2>1. e \in Threads
    BY <1>1, Zenon DEF Threads
  <2>2. inst' = [inst EXCEPT ![i] = e]
    BY <1>1, <1>13, Zenon DEF H!Answer
  <2>3. /\ e.main \in {"build", "built", "refused"} => e.serve = "off"
        /\ e.main = "built" \/ e.serve \in {"starting", "up", "cleanup", "closed"} => lock' = i
        /\ \A j \in H!Instances : j # i /\ lock = j => lock' = j
    BY <1>1, <1>2, <1>13, Zenon DEF Threads, H!Answer
  <2> QED BY <2>1, <2>2, <2>3, InstanceStep, Zenon
<1>14. CASE H!ServerReturns(i)
  <2> DEFINE e == [inst[i] EXCEPT !.serve = "cleanup"]
  <2>1. e \in Threads
    BY <1>1, Zenon DEF Threads
  <2>2. inst' = [inst EXCEPT ![i] = e]
    BY <1>1, <1>14, Zenon DEF H!ServerReturns
  <2>3. /\ e.main \in {"build", "built", "refused"} => e.serve = "off"
        /\ e.main = "built" \/ e.serve \in {"starting", "up", "cleanup", "closed"} => lock' = i
        /\ \A j \in H!Instances : j # i /\ lock = j => lock' = j
    BY <1>1, <1>2, <1>14, Zenon DEF Threads, H!ServerReturns
  <2> QED BY <2>1, <2>2, <2>3, InstanceStep, Zenon
<1>15. CASE H!Close(i)
  <2> DEFINE e == [inst[i] EXCEPT !.serve = "closed"]
  <2>1. e \in Threads
    BY <1>1, Zenon DEF Threads
  <2>2. inst' = [inst EXCEPT ![i] = e]
    BY <1>1, <1>15, Zenon DEF H!Close
  <2>3. /\ e.main \in {"build", "built", "refused"} => e.serve = "off"
        /\ e.main = "built" \/ e.serve \in {"starting", "up", "cleanup", "closed"} => lock' = i
        /\ \A j \in H!Instances : j # i /\ lock = j => lock' = j
    BY <1>1, <1>2, <1>15, Zenon DEF Threads, H!Close
  <2> QED BY <2>1, <2>2, <2>3, InstanceStep, Zenon
<1>16. CASE H!Release(i)
  <2> DEFINE e == [inst[i] EXCEPT !.serve = "gone"]
  <2>1. e \in Threads
    BY <1>1, Zenon DEF Threads
  <2>2. inst' = [inst EXCEPT ![i] = e]
    BY <1>1, <1>16, Zenon DEF H!Release
  <2>3. /\ e.main \in {"build", "built", "refused"} => e.serve = "off"
        /\ e.main = "built" \/ e.serve \in {"starting", "up", "cleanup", "closed"} => lock' = i
        /\ \A j \in H!Instances : j # i /\ lock = j => lock' = j
    BY <1>1, <1>2, <1>16, Zenon DEF Threads, H!Release
  <2> QED BY <2>1, <2>2, <2>3, InstanceStep, Zenon
<1>17. CASE H!Exit(i)
  <2> DEFINE e == [H!Off EXCEPT !.mode = "ended"]
  <2>1. e \in Threads
    BY <1>1, Zenon DEF Threads, H!Off
  <2>2. inst' = [inst EXCEPT ![i] = e]
    BY <1>1, <1>17, Zenon DEF H!Exit
  <2>3. /\ e.main \in {"build", "built", "refused"} => e.serve = "off"
        /\ e.main = "built" \/ e.serve \in {"starting", "up", "cleanup", "closed"} => lock' = i
        /\ \A j \in H!Instances : j # i /\ lock = j => lock' = j
    BY <1>1, <1>2, <1>17, Zenon DEF Threads, H!Exit, H!Off
  <2> QED BY <2>1, <2>2, <2>3, InstanceStep, Zenon
<1> QED
  BY <1>3, <1>4, <1>5, <1>6, <1>7, <1>8, <1>9, <1>10, <1>11,
     <1>12, <1>13, <1>14, <1>15, <1>16, <1>17, ZenonT(60) DEF H!Threads, H!Handler, H!Server

(* The initial state of the host.                                          *)
LEMMA HostInit == H!Init => HostInv
  BY DEF H!Init, H!Off, HostInv, Threads

(* No two instances of the service serve together.                         *)
LEMMA OneInstance == HostInv => H!OneServes
<1> SUFFICES ASSUME HostInv, NEW i \in H!Instances, NEW j \in H!Instances,
                    inst[i].serve \in {"starting", "up", "cleanup"},
                    inst[j].serve \in {"starting", "up", "cleanup"}
             PROVE  i = j
  BY Zenon DEF H!OneServes
<1> QED BY Zenon DEF HostInv

-----------------------------------------------------------------------------
(***************************************************************************)
(* McpClient.  A process before the current one is dead and its reader is  *)
(* done; of the current one at most one message is under way, the request  *)
(* the caller waits for or its reply, in one place of the round trip, and  *)
(* the EOF mark behind it.                                                 *)
(***************************************************************************)
Replies == [to: C!Requests, err: BOOLEAN]
Inputs == Seq(C!Requests)
Outputs == Seq(Replies)
Process == [st: {"none", "up", "dead"}, inp: Inputs, busy: Inputs, out: Outputs, eof: BOOLEAN]
Caller == [pc: {"idle", "send", "recv", "restart", "stop", "start", "hsend", "hrecv", "notify"},
           n: 0 .. NCalls, try: {0, 1, 2}, q: C!Gens]

McpTypes ==
    /\ proc \in {0, cur} /\ cur \in C!Gens /\ started = cur
    /\ srv \in [C!Gens -> Process] /\ c \in [Callers -> Caller]
    /\ late \in BOOLEAN

(* Nothing runs that self._proc does not name, and between stop() and      *)
(* start() it names nothing.                                               *)
Running ==
    /\ C!NoOrphans
    /\ \A t \in Callers : c[t].pc = "start" => proc = 0

Waits(t) == c[t].pc \in {"recv", "hrecv"}
Request(t) == <<t, IF c[t].pc = "recv" THEN c[t].n ELSE 0>>

(* Where the one message under way is.                                     *)
Nowhere(s, in) == s.inp = <<>> /\ s.busy = <<>> /\ s.out = <<>> /\ (in = <<>> \/ (in = <<<<>>>> /\ s.eof))
Sent(s, in, r) == s.inp = <<r>> /\ s.busy = <<>> /\ s.out = <<>> /\ in = <<>>
Served(s, in, r) == s.inp = <<>> /\ s.busy = <<r>> /\ s.out = <<>> /\ in = <<>>
Replied(s, in, r, e) ==
    /\ s.inp = <<>> /\ s.busy = <<>>
    /\ \/ s.out = <<[to |-> r, err |-> e]>> /\ in = <<>>
       \/ s.out = <<>> /\ in = <<<<[to |-> r, err |-> e]>>>>
       \/ s.out = <<>> /\ in = <<<<[to |-> r, err |-> e]>>, <<>>>> /\ s.eof

UnderWay(t) ==
    LET s == srv[cur] IN
    \/ Nowhere(s, q[cur])
    \/ Waits(t) /\ Sent(s, q[cur], Request(t))
    \/ Waits(t) /\ Served(s, q[cur], Request(t))
    \/ Waits(t) /\ \E e \in BOOLEAN : Replied(s, q[cur], Request(t), e)

Gone(g) == srv[g].st = "dead" /\ srv[g].eof /\ srv[g].out = <<>>

Pipeline ==
    /\ \A g \in C!Gens : /\ g < cur => Gone(g)
                         /\ g > cur => srv[g].st = "none" /\ srv[g].out = <<>>
    /\ srv[cur].st # "none" /\ (srv[cur].eof => srv[cur].st = "dead")
    /\ srv[cur].st # "up" => srv[cur].inp = <<>> /\ srv[cur].busy = <<>>
    /\ \A t \in Callers :
        /\ Waits(t) => c[t].q = cur
        /\ c[t].pc \in {"restart", "stop", "start"} => srv[cur].eof
        /\ UnderWay(t)

(* History and queues, as functions.                                       *)
Answers ==
    /\ q = [g \in C!Gens |-> q[g]] /\ got = [k \in C!Calls |-> got[k]]
    /\ \A k \in C!Calls : got[k] # <<>> => got[k] = k

McpInv == McpTypes /\ Running /\ (~late => Pipeline /\ Answers)

(* Generations are numbers.                                                *)
LEMMA GensAreNumbers == \A g \in C!Gens : g \in Nat /\ g # 0
  BY DEF C!Gens

(* There is room for the first generation.                                 *)
LEMMA OneGeneration == 1 \in C!Gens
<1>1. PICK t \in Callers : Callers = {t}
  BY DaemonAssumption, Zenon
<1>2. Cardinality(Callers) = 1
  BY <1>1, FS_Singleton, Zenon
<1>3. C!Cardinality(Callers) = Cardinality(Callers)
  BY Zenon DEF Cardinality, C!Cardinality
<1>4. 1 \in 1 .. 1 + MaxRestarts + 1
  BY DaemonAssumption
<1> QED BY <1>2, <1>3, <1>4, Zenon DEF C!Gens

(* Short queues.                                                           *)
LEMMA ShortQueues ==
    ASSUME NEW a, NEW b
    PROVE  /\ Head(<<a>>) = a /\ Tail(<<a>>) = <<>> /\ <<a>>[1] = a /\ <<a>> # <<>>
           /\ Head(<<a, b>>) = a /\ Tail(<<a, b>>) = <<b>> /\ <<a, b>> # <<>>
           /\ Append(<<>>, a) = <<a>> /\ Append(<<a>>, b) = <<a, b>>
<1>1. Head(<<a>>) = a /\ Tail(<<a>>) = <<>> /\ <<a>>[1] = a /\ <<a>> # <<>>
  OBVIOUS
<1>2. Head(<<a, b>>) = a /\ <<a, b>> # <<>>
  OBVIOUS
<1>3. Tail(<<a, b>>) = <<b>>
  OBVIOUS
<1>4. Append(<<>>, a) = <<a>>
  OBVIOUS
<1>5. Append(<<a>>, b) = <<a, b>>
  <2> DEFINE s == Append(<<a>>, b)
  <2>1. <<a>> \in Seq({a, b}) /\ Len(<<a>>) = 1 /\ <<a>>[1] = a
    OBVIOUS
  <2>2. s \in Seq({a, b}) /\ Len(s) = 2 /\ s[1] = a /\ s[2] = b
    BY <2>1
  <2> HIDE DEF s
  <2>3. s = <<a, b>>
    BY <2>2
  <2> QED BY <2>3, Zenon DEF s
<1> QED BY <1>1, <1>2, <1>3, <1>4, <1>5, Zenon

(* What Head and Tail return stays in the set of the sequence.             *)
LEMMA HeadTail ==
    \A S : \A s \in Seq(S) : s # <<>> => Head(s) \in S /\ Tail(s) \in Seq(S) /\ <<Head(s)>> \in Seq(S)
  OBVIOUS

(* A dead process.                                                         *)
LEMMA DeadProcess ==
    ASSUME McpTypes, NEW g \in C!Gens
    PROVE  /\ C!Dead(g) \in Process /\ C!Dead(g).st = "dead" /\ C!Dead(g).eof = srv[g].eof
           /\ C!Dead(g).out = srv[g].out /\ C!Dead(g).inp = <<>> /\ C!Dead(g).busy = <<>>
<1>1. srv[g] \in Process /\ <<>> \in Inputs
  BY DEF McpTypes, Inputs
<1>2. /\ C!Dead(g).st = "dead" /\ C!Dead(g).eof = srv[g].eof
      /\ C!Dead(g).out = srv[g].out /\ C!Dead(g).inp = <<>> /\ C!Dead(g).busy = <<>>
  BY Zenon DEF C!Dead, C!NoServer
<1>3. srv[g].out \in Outputs /\ srv[g].eof \in BOOLEAN /\ <<>> \in Outputs
  BY <1>1 DEF Process, Outputs
<1>4. C!NoServer \in Process
  BY <1>1, <1>3, Zenon DEF Process, C!NoServer
<1>5. C!Dead(g) \in Process
  BY <1>3, <1>4, Zenon DEF Process, C!Dead
<1> QED BY <1>2, <1>5, Zenon

(* A caller that received ends its call, restarts or goes on.              *)
LEMMA Received ==
    ASSUME NEW t \in Callers, C!Recv(t) \/ C!Timeout(t)
    PROVE  \/ c' = [c EXCEPT ![t].pc = "idle", ![t].try = 0]
           \/ c' = [c EXCEPT ![t].pc = "restart"]
           \/ c' = [c EXCEPT ![t].pc = "notify"]
  BY Zenon DEF C!Recv, C!Timeout, C!TransportError, C!End

(* The steps of the client and its servers keep the types.                 *)
LEMMA McpTypesStep == McpTypes /\ [C!Next]_mcp => McpTypes'
<1> SUFFICES ASSUME McpTypes, [C!Next]_mcp PROVE McpTypes'
  BY Zenon
<1>1. /\ proc \in {0, cur} /\ cur \in C!Gens /\ started = cur
      /\ srv \in [C!Gens -> Process] /\ c \in [Callers -> Caller]
      /\ late \in BOOLEAN
  BY Zenon DEF McpTypes
<1>2. CASE UNCHANGED mcp
  BY <1>2, Zenon DEF mcp, McpTypes
<1>3. ASSUME NEW t \in Callers, C!Call(t) PROVE McpTypes'
  BY <1>1, <1>3, DaemonAssumption, SMTT(60) DEF McpTypes, Caller, C!Call, C!server
<1>4. ASSUME NEW t \in Callers, C!Send(t) PROVE McpTypes'
  <2>1. srv' \in [C!Gens -> Process]
    <3>1. CASE proc = 0 \/ srv[proc].st = "dead"
      BY <1>1, <1>4, <3>1, Zenon DEF C!Send
    <3>2. CASE ~(proc = 0 \/ srv[proc].st = "dead")
      <4> DEFINE r == <<t, IF c[t].pc = "send" THEN c[t].n ELSE 0>>
      <4>1. r \in C!Requests
        BY <1>1, DaemonAssumption DEF Caller, C!Requests
      <4>2. proc \in C!Gens /\ srv[proc].inp \in Inputs
        BY <1>1, <3>2, Zenon DEF Process
      <4>3. Append(srv[proc].inp, r) \in Inputs
        BY <4>1, <4>2 DEF Inputs
      <4>4. srv' = [srv EXCEPT ![proc].inp = Append(@, r)]
        BY <1>4, <3>2, Zenon DEF C!Send
      <4> HIDE DEF r
      <4> QED BY <1>1, <4>2, <4>3, <4>4, Zenon DEF Process
    <3> QED BY <3>1, <3>2, Zenon
  <2>2. c' \in [Callers -> Caller]
    BY <1>1, <1>4, SMTT(60) DEF Caller, C!Send, C!End
  <2> QED BY <1>1, <1>4, <2>1, <2>2, Zenon DEF McpTypes, C!Send, C!server
<1>5. ASSUME NEW t \in Callers, C!Recv(t) PROVE McpTypes'
  <2>1. c' \in [Callers -> Caller]
    <3>1. \/ c' = [c EXCEPT ![t].pc = "idle", ![t].try = 0]
          \/ c' = [c EXCEPT ![t].pc = "restart"]
          \/ c' = [c EXCEPT ![t].pc = "notify"]
      BY <1>5, Received, Zenon
    <3> QED BY <1>1, <3>1 DEF Caller
  <2> QED BY <1>1, <1>5, <2>1, Zenon DEF McpTypes, C!Recv, C!server
<1>6. ASSUME NEW t \in Callers, C!Timeout(t) PROVE McpTypes'
  <2>1. c' \in [Callers -> Caller]
    <3>1. \/ c' = [c EXCEPT ![t].pc = "idle", ![t].try = 0]
          \/ c' = [c EXCEPT ![t].pc = "restart"]
          \/ c' = [c EXCEPT ![t].pc = "notify"]
      BY <1>6, Received, Zenon
    <3> QED BY <1>1, <3>1 DEF Caller
  <2> QED BY <1>1, <1>6, <2>1, Zenon DEF McpTypes, C!Timeout, C!server
<1>7. ASSUME NEW t \in Callers, C!Notify(t) PROVE McpTypes'
  BY <1>1, <1>7, SMTT(60) DEF McpTypes, Caller, C!Notify, C!End, C!server
<1>8. ASSUME NEW t \in Callers, C!Restart(t) PROVE McpTypes'
  BY <1>1, <1>8, SMTT(60) DEF McpTypes, Caller, C!Restart, C!End, C!server
<1>9. ASSUME NEW t \in Callers, C!Stop(t) PROVE McpTypes'
  <2>1. srv' \in [C!Gens -> Process]
    BY <1>1, <1>9, DeadProcess, Zenon DEF C!Stop
  <2>2. c' \in [Callers -> Caller]
    BY <1>1, <1>9, ZenonT(60) DEF Caller, C!Stop
  <2> QED BY <1>1, <1>9, <2>1, <2>2, Zenon DEF McpTypes, C!Stop
<1>10. ASSUME NEW t \in Callers, C!Start(t) PROVE McpTypes'
  <2>1. C!Fresh \in Process
    <3>1. <<>> \in Inputs /\ <<>> \in Outputs
      BY DEF Inputs, Outputs
    <3> QED BY <3>1, Zenon DEF C!Fresh, C!NoServer, Process
  <2>2. srv' \in [C!Gens -> Process]
    BY <1>1, <1>10, <2>1, Zenon DEF C!Start
  <2>3. c' \in [Callers -> Caller]
    BY <1>1, <1>10, Zenon DEF Caller, C!Start
  <2> QED BY <1>1, <1>10, <2>2, <2>3, Zenon DEF McpTypes, C!Start
<1>11. ASSUME NEW g \in C!Gens, C!Execute(g) PROVE McpTypes'
  <2>1. srv[g].inp \in Inputs /\ srv[g].inp # <<>>
    BY <1>1, <1>11, Zenon DEF Process, C!Execute
  <2>2. <<Head(srv[g].inp)>> \in Inputs /\ Tail(srv[g].inp) \in Inputs
    BY <2>1, HeadTail, Zenon DEF Inputs
  <2>3. srv' \in [C!Gens -> Process]
    BY <1>1, <1>11, <2>2, ZenonT(60) DEF Process, C!Execute
  <2> QED BY <1>1, <1>11, <2>3, Zenon DEF McpTypes, C!Execute
<1>12. ASSUME NEW g \in C!Gens, NEW err \in Errors, C!Reply(g, err) PROVE McpTypes'
  <2>1. srv[g].busy \in Inputs /\ srv[g].busy # <<>> /\ srv[g].out \in Outputs
    BY <1>1, <1>12, Zenon DEF Process, C!Reply
  <2>2. srv[g].busy[1] \in C!Requests
    BY <2>1 DEF Inputs
  <2>3. [to |-> srv[g].busy[1], err |-> err] \in Replies
    BY <2>2, DaemonAssumption, Zenon DEF Replies
  <2>4. Append(srv[g].out, [to |-> srv[g].busy[1], err |-> err]) \in Outputs
    BY <2>1, <2>3 DEF Outputs
  <2>5. srv' \in [C!Gens -> Process]
    <3> DEFINE o == Append(srv[g].out, [to |-> srv[g].busy[1], err |-> err])
    <3>1. <<>> \in Inputs
      BY DEF Inputs
    <3>2. srv' = [srv EXCEPT ![g].busy = <<>>, ![g].out = o]
      BY <1>1, <1>12, Zenon DEF Process, C!Reply
    <3> HIDE DEF o
    <3> QED BY <1>1, <2>4, <3>1, <3>2, ZenonT(60) DEF Process, o
  <2> QED BY <1>1, <1>12, <2>5, Zenon DEF McpTypes, C!Reply, C!server
<1>13. ASSUME NEW g \in C!Gens, C!ServerCrash(g) PROVE McpTypes'
  BY <1>1, <1>13, DeadProcess, Zenon DEF McpTypes, C!ServerCrash
<1>14. ASSUME NEW g \in C!Gens, C!Pump(g) PROVE McpTypes'
  <2>1. srv[g].out \in Outputs
    BY <1>1, Zenon DEF Process
  <2>2. srv[g].out # <<>> => Tail(srv[g].out) \in Outputs
    BY <2>1, HeadTail, Zenon DEF Outputs
  <2>3. srv' \in [C!Gens -> Process]
    <3>1. \/ srv[g].out # <<>> /\ srv' = [srv EXCEPT ![g].out = Tail(@)]
          \/ srv' = [srv EXCEPT ![g].eof = TRUE]
      BY <1>14, Zenon DEF C!Pump
    <3> QED BY <1>1, <2>2, <3>1, ZenonT(60) DEF Process
  <2> QED BY <1>1, <1>14, <2>3, Zenon DEF McpTypes, C!Pump, C!server
<1> QED
  BY <1>2, <1>3, <1>4, <1>5, <1>6, <1>7, <1>8, <1>9, <1>10, <1>11, <1>12, <1>13, <1>14, ZenonT(60)
     DEF C!Next, C!CallerStep, C!ServerStep, C!Done, mcp, C!vars

(* ... and leave no process running that self._proc does not name.         *)
LEMMA RunningStep == McpTypes /\ Running /\ [C!Next]_mcp => Running'
<1> SUFFICES ASSUME McpTypes, Running, [C!Next]_mcp PROVE Running'
  BY Zenon
<1>1. /\ proc \in {0, cur} /\ cur \in C!Gens /\ started = cur
      /\ srv \in [C!Gens -> Process] /\ c \in [Callers -> Caller]
  BY Zenon DEF McpTypes
<1>2. /\ \A g \in C!Gens : srv[g].st = "up" => g = proc
      /\ \A t \in Callers : c[t].pc = "start" => proc = 0
  BY Zenon DEF Running, C!NoOrphans
<1>3. CASE UNCHANGED mcp
  BY <1>2, <1>3, Zenon DEF mcp, Running, C!NoOrphans
<1>4. ASSUME proc' = proc, \A g \in C!Gens : srv'[g].st = "up" => srv[g].st = "up",
             \A t \in Callers : c'[t].pc = "start" => c[t].pc = "start"
      PROVE  Running'
  BY <1>2, <1>4, Zenon DEF Running, C!NoOrphans
<1>5. ASSUME NEW t \in Callers, C!Call(t) PROVE Running'
  BY <1>1, <1>4, <1>5, Zenon DEF Caller, C!Call, C!server
<1>6. ASSUME NEW t \in Callers, C!Send(t) PROVE Running'
  <2>1. \A g \in C!Gens : srv'[g].st = srv[g].st
    BY <1>1, <1>6, SMTT(60) DEF Process, C!Send
  <2>2. \A u \in Callers : c'[u].pc = "start" => c[u].pc = "start"
    BY <1>1, <1>6, SMTT(60) DEF Caller, C!Send, C!End
  <2> QED BY <1>4, <1>6, <2>1, <2>2, ZenonT(60) DEF C!Send, C!server
<1>7. ASSUME NEW t \in Callers, C!Recv(t) PROVE Running'
  <2>1. \A u \in Callers : c'[u].pc = "start" => c[u].pc = "start"
    <3>1. \/ c' = [c EXCEPT ![t].pc = "idle", ![t].try = 0]
          \/ c' = [c EXCEPT ![t].pc = "restart"]
          \/ c' = [c EXCEPT ![t].pc = "notify"]
      BY <1>7, Received, Zenon
    <3> QED BY <1>1, <3>1, SMTT(60) DEF Caller
  <2> QED BY <1>4, <1>7, <2>1, Zenon DEF C!Recv, C!server
<1>8. ASSUME NEW t \in Callers, C!Timeout(t) PROVE Running'
  <2>1. \A u \in Callers : c'[u].pc = "start" => c[u].pc = "start"
    <3>1. \/ c' = [c EXCEPT ![t].pc = "idle", ![t].try = 0]
          \/ c' = [c EXCEPT ![t].pc = "restart"]
          \/ c' = [c EXCEPT ![t].pc = "notify"]
      BY <1>8, Received, Zenon
    <3> QED BY <1>1, <3>1 DEF Caller
  <2> QED BY <1>4, <1>8, <2>1, ZenonT(60) DEF C!Timeout, C!server
<1>9. ASSUME NEW t \in Callers, C!Notify(t) PROVE Running'
  BY <1>1, <1>4, <1>9, SMTT(60) DEF Caller, C!Notify, C!End, C!server
<1>10. ASSUME NEW t \in Callers, C!Restart(t) PROVE Running'
  BY <1>1, <1>4, <1>10, SMTT(60) DEF Caller, C!Restart, C!End, C!server
<1>11. ASSUME NEW t \in Callers, C!Stop(t) PROVE Running'
  BY <1>1, <1>2, <1>11, DeadProcess, Zenon DEF Running, C!NoOrphans, C!Stop
<1>12. ASSUME NEW t \in Callers, C!Start(t) PROVE Running'
  <2>1. \A u \in Callers : u = t
    BY DaemonAssumption, Zenon
  <2>2. c'[t].pc = "hsend" /\ \A g \in C!Gens : g # proc' => srv'[g] = srv[g]
    BY <1>1, <1>12, Zenon DEF Caller, C!Start
  <2>3. proc = 0
    BY <1>2, <1>12, Zenon DEF C!Start
  <2> QED BY <1>2, <2>1, <2>2, <2>3, GensAreNumbers, Zenon DEF Running, C!NoOrphans
<1>13. ASSUME NEW g \in C!Gens, C!Execute(g) PROVE Running'
  BY <1>1, <1>4, <1>13, Zenon DEF Process, C!Execute
<1>14. ASSUME NEW g \in C!Gens, NEW err \in Errors, C!Reply(g, err) PROVE Running'
  BY <1>1, <1>4, <1>14, Zenon DEF Process, C!Reply, C!server
<1>15. ASSUME NEW g \in C!Gens, C!ServerCrash(g) PROVE Running'
  BY <1>1, <1>4, <1>15, DeadProcess, Zenon DEF C!ServerCrash
<1>16. ASSUME NEW g \in C!Gens, C!Pump(g) PROVE Running'
  <2>1. \/ srv' = [srv EXCEPT ![g].out = Tail(@)]
        \/ srv' = [srv EXCEPT ![g].eof = TRUE]
    BY <1>16, Zenon DEF C!Pump
  <2>2. \A h \in C!Gens : srv'[h].st = srv[h].st
    BY <1>1, <2>1 DEF Process
  <2> QED BY <1>4, <1>16, <2>2, Zenon DEF C!Pump, C!server
<1> QED
  BY <1>3, <1>5, <1>6, <1>7, <1>8, <1>9, <1>10, <1>11, <1>12, <1>13, <1>14, <1>15, <1>16, Zenon
     DEF C!Next, C!CallerStep, C!ServerStep, C!Done, mcp, C!vars

(* A step that stays on the current process: what it must establish of it. *)
LEMMA OnCurrent ==
    ASSUME McpTypes, Pipeline, cur' = cur,
           \A g \in C!Gens : g # cur => srv'[g] = srv[g],
           srv'[cur].st # "none", srv'[cur].eof => srv'[cur].st = "dead",
           srv'[cur].st # "up" => srv'[cur].inp = <<>> /\ srv'[cur].busy = <<>>,
           \A t \in Callers :
              /\ Waits(t)' => c'[t].q = cur
              /\ c'[t].pc \in {"restart", "stop", "start"} => srv'[cur].eof
              /\ UnderWay(t)'
    PROVE  Pipeline'
<1>1. \A g \in C!Gens : /\ g < cur => Gone(g)'
                        /\ g > cur => srv'[g].st = "none" /\ srv'[g].out = <<>>
  <2> TAKE g \in C!Gens
  <2>1. g # cur => srv'[g] = srv[g]
    BY Zenon
  <2>2. g \in Nat /\ cur \in Nat
    BY GensAreNumbers, Zenon DEF McpTypes
  <2> QED BY <2>1, <2>2, Zenon DEF Pipeline, Gone
<1> QED BY <1>1, Zenon DEF Pipeline

(* A step of a caller that neither waits before it nor after it.           *)
LEMMA NotWaiting ==
    ASSUME McpTypes, Pipeline, NEW t \in Callers, UNCHANGED <<cur, srv, q>>,
           ~Waits(t), ~Waits(t)',
           c'[t].pc \in {"restart", "stop", "start"} => srv[cur].eof
    PROVE  Pipeline'
<1>1. \A u \in Callers : u = t
  BY DaemonAssumption, Zenon
<1>2. Nowhere(srv[cur], q[cur])
  BY Zenon DEF Pipeline, UnderWay
<1>3. UnderWay(t)'
  BY <1>2, Zenon DEF UnderWay, Nowhere
<1> QED BY <1>1, <1>3, OnCurrent, Zenon DEF Pipeline

(* Every step but a time-out keeps the round trip in order and the replies *)
(* with their calls.                                                       *)
LEMMA PipelineStep ==
    McpTypes /\ Running /\ Pipeline /\ Answers /\ ~late' /\ [C!Next]_mcp => Pipeline' /\ Answers'
<1> SUFFICES ASSUME McpTypes, Running, Pipeline, Answers, ~late', [C!Next]_mcp
             PROVE  Pipeline' /\ Answers'
  BY Zenon
<1>1. /\ proc \in {0, cur} /\ cur \in C!Gens /\ started = cur
      /\ srv \in [C!Gens -> Process] /\ c \in [Callers -> Caller]
  BY Zenon DEF McpTypes
<1>2. PICK t \in Callers : Callers = {t}
  BY DaemonAssumption, Zenon
<1>3. /\ srv[cur].st # "none" /\ (srv[cur].eof => srv[cur].st = "dead")
      /\ srv[cur].st # "up" => srv[cur].inp = <<>> /\ srv[cur].busy = <<>>
      /\ Waits(t) => c[t].q = cur
      /\ c[t].pc \in {"restart", "stop", "start"} => srv[cur].eof
      /\ UnderWay(t)
  BY Zenon DEF Pipeline
<1>4. UNCHANGED <<q, got>> => Answers'
  BY Zenon DEF Answers
<1>5. CASE UNCHANGED mcp
  BY <1>5, Zenon DEF mcp, Pipeline, Answers, Waits, UnderWay, Request, Gone
<1>6. CASE C!Call(t)
  <2>1. UNCHANGED <<cur, srv, q, got>> /\ c[t].pc = "idle" /\ c'[t].pc = "send"
    BY <1>1, <1>6, Zenon DEF C!Call, C!server, Caller
  <2> QED BY <1>4, <2>1, NotWaiting, Zenon DEF Waits
<1>7. CASE C!Notify(t)
  <2>1. UNCHANGED <<cur, srv, q, got>> /\ c[t].pc = "notify" /\ c'[t].pc \in {"idle", "send"}
    BY <1>1, <1>7 DEF C!Notify, C!End, C!server, Caller
  <2> QED BY <1>4, <2>1, NotWaiting, Zenon DEF Waits
<1>8. CASE C!Restart(t)
  <2>1. UNCHANGED <<cur, srv, q, got>> /\ c[t].pc = "restart" /\ c'[t].pc \in {"idle", "stop"}
    BY <1>1, <1>8 DEF C!Restart, C!End, C!server, Caller
  <2> QED BY <1>3, <1>4, <2>1, NotWaiting, Zenon DEF Waits
<1>9. CASE C!Timeout(t)
  BY <1>9, Zenon DEF C!Timeout
<1>10. CASE C!Send(t)
  <2>1. CASE proc = 0 \/ srv[proc].st = "dead"
    <3>1. UNCHANGED <<cur, srv, q, got>> /\ c[t].pc \in {"send", "hsend"} /\ c'[t].pc = "idle"
      BY <1>1, <1>10, <2>1 DEF C!Send, C!End, C!server, Caller
    <3> QED BY <1>4, <3>1, NotWaiting, Zenon DEF Waits
  <2>2. CASE ~(proc = 0 \/ srv[proc].st = "dead")
    <3> DEFINE r == <<t, IF c[t].pc = "send" THEN c[t].n ELSE 0>>
    <3>1. proc = cur /\ srv[cur].st = "up"
      BY <1>1, <1>3, <2>2, Zenon DEF Process
    <3>2. srv[cur].inp = <<>> /\ srv[cur].busy = <<>> /\ srv[cur].out = <<>> /\ q[cur] = <<>>
      BY <1>3, <1>10, <3>1, Zenon DEF UnderWay, Waits, Nowhere, C!Send
    <3>3. UNCHANGED <<cur, q, got>> /\ srv' = [srv EXCEPT ![cur].inp = Append(@, r)]
      BY <1>10, <2>2, <3>1, Zenon DEF C!Send, C!server
    <3>4. /\ srv'[cur].st = "up" /\ srv'[cur].busy = <<>> /\ srv'[cur].out = <<>>
          /\ srv'[cur].eof = srv[cur].eof /\ srv'[cur].inp = Append(<<>>, r)
          /\ \A g \in C!Gens : g # cur => srv'[g] = srv[g]
      BY <1>1, <3>1, <3>2, <3>3, Zenon DEF Process
    <3>5. srv'[cur].inp = <<r>>
      BY <3>4
    <3>6. /\ c'[t].q = cur /\ c'[t].n = c[t].n
          /\ c'[t].pc = IF c[t].pc = "send" THEN "recv" ELSE "hrecv"
      BY <1>1, <1>10, <2>2 DEF C!Send, Caller
    <3>7. Request(t)' = r /\ Waits(t)'
      BY <1>10, <3>6, Zenon DEF C!Send, Request, Waits
    <3> HIDE DEF r
    <3>8. UnderWay(t)'
      BY <3>2, <3>3, <3>4, <3>5, <3>7, Zenon DEF UnderWay, Sent
    <3> QED BY <1>2, <1>3, <1>4, <3>1, <3>3, <3>4, <3>6, <3>7, <3>8, OnCurrent, ZenonT(60) DEF Waits
  <2> QED BY <2>1, <2>2, Zenon
<1>11. CASE C!Recv(t)
  <2> DEFINE item == Head(q[cur])
  <2>1. Waits(t) /\ c[t].q = cur /\ q[cur] # <<>>
    BY <1>3, <1>11, Zenon DEF C!Recv, Waits
  <2>2. q' = [q EXCEPT ![cur] = Tail(@)] /\ UNCHANGED <<cur, srv>>
    BY <1>11, <2>1, Zenon DEF C!Recv, C!server
  <2>3. q'[cur] = Tail(q[cur]) /\ q' = [g \in C!Gens |-> q'[g]]
    BY <1>1, <2>2, Zenon DEF Answers
  <2>4. /\ srv[cur].inp = <<>> /\ srv[cur].busy = <<>> /\ srv[cur].out = <<>>
        /\ \/ q[cur] = <<<<>>>> /\ srv[cur].eof
           \/ \E e \in BOOLEAN : \/ q[cur] = <<<<[to |-> Request(t), err |-> e]>>>>
                                 \/ q[cur] = <<<<[to |-> Request(t), err |-> e]>>, <<>>>> /\ srv[cur].eof
    BY <1>3, <2>1, Zenon DEF UnderWay, Nowhere, Sent, Served, Replied
  <2>5. q'[cur] = <<>> \/ (q'[cur] = <<<<>>>> /\ srv[cur].eof)
    <3>1. CASE q[cur] = <<<<>>>>
      BY <2>3, <3>1, ShortQueues, Zenon
    <3>2. ASSUME NEW e \in BOOLEAN, q[cur] = <<<<[to |-> Request(t), err |-> e]>>>>
          PROVE  q'[cur] = <<>>
      BY <2>3, <3>2, ShortQueues, Zenon
    <3>3. ASSUME NEW e \in BOOLEAN, q[cur] = <<<<[to |-> Request(t), err |-> e]>>, <<>>>>
          PROVE  q'[cur] = <<<<>>>>
      BY <2>3, <3>3, ShortQueues, SMTT(60)
    <3> QED BY <2>4, <3>1, <3>2, <3>3, Zenon
  <2>6. UnderWay(t)'
    BY <2>2, <2>4, <2>5, Zenon DEF UnderWay, Nowhere
  <2>7. \/ item = <<>> /\ srv[cur].eof
        \/ \E e \in BOOLEAN : item = <<[to |-> Request(t), err |-> e]>>
    <3>1. CASE q[cur] = <<<<>>>>
      BY <2>4, <3>1, ShortQueues, SMTT(60)
    <3>2. ASSUME NEW e \in BOOLEAN,
                 \/ q[cur] = <<<<[to |-> Request(t), err |-> e]>>>>
                 \/ q[cur] = <<<<[to |-> Request(t), err |-> e]>>, <<>>>>
          PROVE  item = <<[to |-> Request(t), err |-> e]>>
      BY <3>2, ShortQueues
    <3> QED BY <2>4, <3>1, <3>2, Zenon
  <2> HIDE DEF item
  <2>8. item = <<>> => got' = got
    BY <1>11, <2>1, Zenon DEF C!Recv, item
  <2>9. item # <<>> => \/ got' = got
                       \/ c[t].pc = "recv" /\ got' = [got EXCEPT ![<<t, c[t].n>>] = item[1].to]
    BY <1>11, <2>1, Zenon DEF C!Recv, Waits, item
  <2>10. item # <<>> => item[1].to = Request(t)
    BY <2>7
  <2>11. got' = got \/ (c[t].pc = "recv" /\ got' = [got EXCEPT ![<<t, c[t].n>>] = <<t, c[t].n>>])
    BY <2>8, <2>9, <2>10, Zenon DEF Request
  <2>12. Answers'
    BY <2>3, <2>11, Zenon DEF Answers
  <2>13. item # <<>> => c'[t].pc \in {"idle", "notify"}
    BY <1>1, <1>11, <2>1, SMTT(60) DEF C!Recv, C!End, Caller, item
  <2>14. \/ c' = [c EXCEPT ![t].pc = "idle", ![t].try = 0]
         \/ c' = [c EXCEPT ![t].pc = "restart"]
         \/ c' = [c EXCEPT ![t].pc = "notify"]
    BY <1>11, Received, Zenon
  <2>15. c'[t].pc \in {"idle", "restart", "notify"}
    BY <1>1, <2>14, SMTT(60) DEF Caller
  <2>16. c'[t].pc \in {"restart", "stop", "start"} => srv[cur].eof
    <3>1. item # <<>> => ~(c'[t].pc \in {"restart", "stop", "start"})
      BY <2>13, Zenon
    <3> QED BY <2>7, <3>1, SMTT(60)
  <2> QED BY <1>2, <1>3, <2>2, <2>6, <2>12, <2>15, <2>16, OnCurrent, Zenon DEF Waits
<1>12. CASE C!Stop(t)
  <2>1. UNCHANGED <<cur, q, got>> /\ c[t].pc = "stop" /\ c'[t].pc = "start"
    BY <1>1, <1>12, Zenon DEF C!Stop, Caller
  <2>2. /\ srv'[cur] \in {srv[cur], C!Dead(cur)}
        /\ \A g \in C!Gens : g # cur => srv'[g] = srv[g]
    BY <1>1, <1>12, GensAreNumbers, Zenon DEF C!Stop
  <2>3. srv[cur].eof /\ srv[cur].st = "dead" /\ Nowhere(srv[cur], q[cur])
    BY <1>3, <2>1, Zenon DEF UnderWay, Waits
  <2>4. /\ srv'[cur].st = "dead" /\ srv'[cur].eof = srv[cur].eof /\ srv'[cur].inp = <<>>
        /\ srv'[cur].busy = <<>> /\ srv'[cur].out = <<>>
    BY <1>1, <2>2, <2>3, DeadProcess, ZenonT(60) DEF Nowhere
  <2>5. UnderWay(t)'
    BY <2>1, <2>3, <2>4, Zenon DEF UnderWay, Nowhere
  <2> QED BY <1>2, <1>4, <2>1, <2>2, <2>3, <2>4, <2>5, OnCurrent, ZenonT(60) DEF Waits
<1>13. CASE C!Start(t)
  <2>1. cur' = cur + 1 /\ cur' \in C!Gens /\ c[t].pc = "start" /\ c'[t].pc = "hsend" /\ UNCHANGED got
    BY <1>1, <1>13, Zenon DEF C!Start, Caller
  <2>2. /\ srv'[cur'].st = "up" /\ ~srv'[cur'].eof /\ srv'[cur'].inp = <<>>
        /\ srv'[cur'].busy = <<>> /\ srv'[cur'].out = <<>>
        /\ \A g \in C!Gens : g # cur' => srv'[g] = srv[g]
    BY <1>1, <1>13, <2>1, Zenon DEF C!Start, C!Fresh, C!NoServer
  <2>3. \A g \in C!Gens : ~C!Awaited(g)
    BY <1>2, <2>1, Zenon DEF C!Awaited
  <2>4. q' = [g \in C!Gens |-> q'[g]] /\ q'[cur'] = <<>>
    BY <1>13, <2>1, <2>3, Zenon DEF C!Start
  <2>5. Gone(cur)
    BY <1>3, <2>1, Zenon DEF Gone, UnderWay, Waits, Nowhere
  <2>6. ASSUME NEW g \in C!Gens
        PROVE  /\ g < cur' => Gone(g)'
               /\ g > cur' => srv'[g].st = "none" /\ srv'[g].out = <<>>
    <3>1. g \in Nat /\ cur \in Nat
      BY <1>1, GensAreNumbers, Zenon
    <3>2. g # cur' => srv'[g] = srv[g]
      BY <2>2, Zenon
    <3>3. (g < cur' => g < cur \/ g = cur) /\ (g < cur' => g # cur') /\ (g > cur' => g > cur /\ g # cur')
      BY <2>1, <3>1
    <3> QED BY <2>5, <3>2, <3>3, Zenon DEF Pipeline, Gone
  <2>7. UnderWay(t)'
    BY <2>2, <2>4, Zenon DEF UnderWay, Nowhere
  <2>8. Answers'
    BY <2>1, <2>4, Zenon DEF Answers
  <2> QED BY <1>2, <2>1, <2>2, <2>6, <2>7, <2>8, ZenonT(60) DEF Pipeline, Waits
<1>14. ASSUME NEW g \in C!Gens, C!Execute(g) PROVE Pipeline' /\ Answers'
  <2>1. g = cur
    BY <1>1, <1>14, GensAreNumbers, Zenon DEF C!Execute, Running, C!NoOrphans
  <2>2. srv[cur].st = "up" /\ srv[cur].busy = <<>> /\ srv[cur].inp # <<>>
    BY <1>14, <2>1, Zenon DEF C!Execute
  <2>3. Waits(t) /\ Sent(srv[cur], q[cur], Request(t))
    BY <1>3, <2>2, Zenon DEF UnderWay, Nowhere, Served, Replied
  <2>4. UNCHANGED <<cur, q, c, got>>
    BY <1>14, Zenon DEF C!Execute
  <2>5. /\ srv'[cur].st = "up" /\ srv'[cur].eof = srv[cur].eof /\ srv'[cur].out = srv[cur].out
        /\ srv'[cur].busy = <<Head(srv[cur].inp)>> /\ srv'[cur].inp = Tail(srv[cur].inp)
        /\ \A h \in C!Gens : h # cur => srv'[h] = srv[h]
    BY <1>1, <1>14, <2>1, <2>2, ZenonT(60) DEF C!Execute, Process
  <2>6. srv'[cur].busy = <<Request(t)>> /\ srv'[cur].inp = <<>>
    BY <2>3, <2>5, SMTT(60) DEF Sent
  <2>7. UnderWay(t)'
    BY <2>3, <2>4, <2>5, <2>6, Zenon DEF UnderWay, Sent, Served, Waits, Request
  <2> QED BY <1>2, <1>3, <1>4, <2>2, <2>4, <2>5, <2>7, OnCurrent, ZenonT(60) DEF Waits
<1>15. ASSUME NEW g \in C!Gens, NEW err \in Errors, C!Reply(g, err) PROVE Pipeline' /\ Answers'
  <2>1. g = cur
    BY <1>1, <1>15, GensAreNumbers, Zenon DEF C!Reply, Running, C!NoOrphans
  <2>2. srv[cur].st = "up" /\ srv[cur].busy # <<>>
    BY <1>15, <2>1, Zenon DEF C!Reply
  <2>3. Waits(t) /\ Served(srv[cur], q[cur], Request(t))
    BY <1>3, <2>2, Zenon DEF UnderWay, Nowhere, Sent, Replied
  <2>4. UNCHANGED <<cur, q, c, got>>
    BY <1>15, Zenon DEF C!Reply, C!server
  <2> DEFINE r == [to |-> srv[cur].busy[1], err |-> err]
  <2>5. srv' = [srv EXCEPT ![cur].busy = <<>>, ![cur].out = Append(@, r)]
    BY <1>15, <2>1, Zenon DEF C!Reply
  <2>6. r = [to |-> Request(t), err |-> err] /\ err \in BOOLEAN
    BY <2>3, DaemonAssumption DEF Served
  <2> HIDE DEF r
  <2>7. /\ srv'[cur].st = "up" /\ srv'[cur].eof = srv[cur].eof /\ srv'[cur].inp = srv[cur].inp
        /\ srv'[cur].busy = <<>> /\ srv'[cur].out = Append(srv[cur].out, r)
        /\ \A h \in C!Gens : h # cur => srv'[h] = srv[h]
    BY <1>1, <2>2, <2>5, Zenon DEF Process
  <2>8. srv'[cur].out = <<r>>
    BY <2>3, <2>7, SMTT(60) DEF Served
  <2>9. Replied(srv'[cur], q'[cur], Request(t), err)
    BY <2>3, <2>4, <2>6, <2>7, <2>8, ZenonT(60) DEF Replied, Served
  <2>10. UnderWay(t)'
    BY <2>3, <2>4, <2>6, <2>9, Zenon DEF UnderWay, Waits, Request
  <2> QED BY <1>2, <1>3, <1>4, <2>2, <2>4, <2>7, <2>10, OnCurrent, ZenonT(60) DEF Waits
<1>16. ASSUME NEW g \in C!Gens, C!ServerCrash(g) PROVE Pipeline' /\ Answers'
  <2>1. g = cur
    BY <1>1, <1>16, GensAreNumbers, Zenon DEF C!ServerCrash, Running, C!NoOrphans
  <2>2. UNCHANGED <<cur, q, c, got>>
    BY <1>16, Zenon DEF C!ServerCrash
  <2>3. srv'[cur] = C!Dead(cur) /\ \A h \in C!Gens : h # cur => srv'[h] = srv[h]
    BY <1>1, <1>16, <2>1, Zenon DEF C!ServerCrash
  <2>4. /\ srv'[cur].st = "dead" /\ srv'[cur].eof = srv[cur].eof /\ srv'[cur].inp = <<>>
        /\ srv'[cur].busy = <<>> /\ srv'[cur].out = srv[cur].out
    BY <1>1, <2>3, DeadProcess, Zenon
  <2>5. UnderWay(t)'
    BY <1>3, <2>2, <2>4, Zenon DEF UnderWay, Nowhere, Sent, Served, Replied, Waits, Request
  <2> QED BY <1>2, <1>3, <1>4, <2>2, <2>3, <2>4, <2>5, OnCurrent, ZenonT(60) DEF Waits
<1>17. ASSUME NEW g \in C!Gens, C!Pump(g) PROVE Pipeline' /\ Answers'
  <2>1. g = cur
    <3>1. g \in Nat /\ cur \in Nat
      BY <1>1, GensAreNumbers, Zenon
    <3>2. g < cur \/ g = cur \/ g > cur
      BY <3>1
    <3> QED BY <1>17, <3>2, Zenon DEF C!Pump, Pipeline, Gone
  <2>2. UNCHANGED <<cur, c, got>>
    BY <1>17, Zenon DEF C!Pump, C!server
  <2>3. q' = [g1 \in C!Gens |-> q'[g1]]
    BY <1>1, <1>17, Zenon DEF C!Pump, Answers
  <2>4. Answers'
    BY <2>2, <2>3, Zenon DEF Answers
  <2>5. CASE srv[cur].out # <<>>
    <3>1. PICK e \in BOOLEAN : /\ Waits(t) /\ srv[cur].inp = <<>> /\ srv[cur].busy = <<>> /\ q[cur] = <<>>
                               /\ srv[cur].out = <<[to |-> Request(t), err |-> e]>>
      BY <1>3, <2>5, Zenon DEF UnderWay, Nowhere, Sent, Served, Replied
    <3>2. /\ srv' = [srv EXCEPT ![cur].out = Tail(@)]
          /\ q' = [q EXCEPT ![cur] = Append(@, <<Head(srv[cur].out)>>)]
      BY <1>17, <2>1, <2>5, Zenon DEF C!Pump
    <3>3. /\ srv'[cur].st = srv[cur].st /\ srv'[cur].eof = srv[cur].eof /\ srv'[cur].inp = srv[cur].inp
          /\ srv'[cur].busy = srv[cur].busy /\ srv'[cur].out = Tail(srv[cur].out)
          /\ \A h \in C!Gens : h # cur => srv'[h] = srv[h]
      BY <1>1, <3>2, Zenon DEF Process
    <3>4. q'[cur] = Append(q[cur], <<Head(srv[cur].out)>>)
      BY <1>1, <3>2, Zenon DEF Answers
    <3>5. srv'[cur].out = <<>> /\ q'[cur] = <<<<[to |-> Request(t), err |-> e]>>>>
      BY <3>1, <3>3, <3>4, SMTT(60)
    <3>6. Replied(srv'[cur], q'[cur], Request(t), e)
      BY <3>1, <3>3, <3>5, Zenon DEF Replied
    <3>7. UnderWay(t)'
      BY <2>2, <3>1, <3>6, Zenon DEF UnderWay, Waits, Request
    <3> QED BY <1>2, <1>3, <2>2, <2>4, <3>3, <3>7, OnCurrent, ZenonT(60) DEF Waits
  <2>6. CASE srv[cur].out = <<>>
    <3>1. /\ srv[cur].st = "dead" /\ ~srv[cur].eof
          /\ srv' = [srv EXCEPT ![cur].eof = TRUE]
          /\ q' = [q EXCEPT ![cur] = Append(@, <<>>)]
      BY <1>17, <2>1, <2>6, Zenon DEF C!Pump
    <3>2. /\ srv'[cur].st = "dead" /\ srv'[cur].eof /\ srv'[cur].inp = srv[cur].inp
          /\ srv'[cur].busy = srv[cur].busy /\ srv'[cur].out = <<>>
          /\ \A h \in C!Gens : h # cur => srv'[h] = srv[h]
      BY <1>1, <2>6, <3>1, Zenon DEF Process
    <3>3. q'[cur] = Append(q[cur], <<>>)
      BY <1>1, <3>1, Zenon DEF Answers
    <3>4. \/ q[cur] = <<>> 
          \/ Waits(t) /\ \E e \in BOOLEAN : q[cur] = <<<<[to |-> Request(t), err |-> e]>>>>
      BY <1>3, <2>6, <3>1, Zenon DEF UnderWay, Nowhere, Sent, Served, Replied
    <3>5. \/ q'[cur] = <<<<>>>>
          \/ Waits(t) /\ \E e \in BOOLEAN : q'[cur] = <<<<[to |-> Request(t), err |-> e]>>, <<>>>>
      <4>1. ASSUME NEW e \in BOOLEAN, q[cur] = <<<<[to |-> Request(t), err |-> e]>>>>
            PROVE  q'[cur] = <<<<[to |-> Request(t), err |-> e]>>, <<>>>>
        <5> DEFINE msg == <<[to |-> Request(t), err |-> e]>>
        <5>1. q[cur] = <<msg>>
          BY <4>1, Zenon
        <5> HIDE DEF msg
        <5>2. q'[cur] = <<msg, <<>>>>
          BY <3>3, <5>1, ShortQueues, Zenon
        <5> QED BY <5>2, Zenon DEF msg
      <4>2. q[cur] = <<>> => q'[cur] = <<<<>>>>
        BY <3>3, ShortQueues, Zenon
      <4> QED BY <3>4, <4>1, <4>2, Zenon
    <3>6. srv'[cur].inp = <<>> /\ srv'[cur].busy = <<>>
      BY <1>3, <3>1, <3>2, Zenon
    <3>7. UnderWay(t)'
      BY <2>2, <3>2, <3>5, <3>6, Zenon DEF UnderWay, Nowhere, Replied, Waits, Request
    <3> QED BY <1>2, <1>3, <2>2, <2>4, <3>2, <3>6, <3>7, OnCurrent, Zenon DEF Waits
  <2> QED BY <2>5, <2>6, Zenon
<1> QED
  BY <1>2, <1>5, <1>6, <1>7, <1>8, <1>9, <1>10, <1>11, <1>12, <1>13, <1>14, <1>15, <1>16, <1>17, Zenon
     DEF C!Next, C!CallerStep, C!ServerStep, C!Done, mcp, C!vars

(* The initial state of the client: one process, its handshake done.       *)
LEMMA McpInit == C!Init => McpInv
<1> SUFFICES ASSUME C!Init PROVE McpInv
  BY Zenon
<1>1. 1 \in C!Gens
  BY OneGeneration, Zenon
<1>2. C!NoServer \in Process /\ C!Fresh \in Process
  <2>1. <<>> \in Inputs /\ <<>> \in Outputs
    BY DEF Inputs, Outputs
  <2>2. C!NoServer \in Process
    BY <2>1, Zenon DEF C!NoServer, Process
  <2> QED BY <2>1, <2>2, Zenon DEF C!Fresh, C!NoServer, Process
<1>3. McpTypes
  <2>1. srv \in [C!Gens -> Process]
    BY <1>2, Zenon DEF C!Init
  <2>2. c \in [Callers -> Caller]
    BY <1>1, DaemonAssumption DEF C!Init, Caller
  <2> QED BY <1>1, <2>1, <2>2, Zenon DEF C!Init, McpTypes
<1>4. Running
  BY Zenon DEF C!Init, Running, C!NoOrphans, C!Fresh, C!NoServer
<1>5. srv[1].st = "up" /\ srv[1].inp = <<>> /\ srv[1].busy = <<>> /\ srv[1].out = <<>> /\ ~srv[1].eof
  BY <1>1, Zenon DEF C!Init, C!Fresh, C!NoServer
<1>6. Pipeline
  <2>1. \A g \in C!Gens : ~(g < 1) /\ (g > 1 => srv[g].st = "none" /\ srv[g].out = <<>>)
    BY GensAreNumbers DEF C!Init, C!NoServer
  <2>2. \A t \in Callers : c[t].pc = "idle" /\ UnderWay(t)
    BY <1>1, <1>5, Zenon DEF C!Init, UnderWay, Nowhere
  <2> QED BY <1>5, <2>1, <2>2, Zenon DEF C!Init, Pipeline, Waits
<1>7. Answers
  BY Zenon DEF C!Init, Answers
<1> QED BY <1>3, <1>4, <1>6, <1>7, Zenon DEF McpInv

(* A time-out is remembered.                                               *)
LEMMA LateStays == McpTypes /\ late /\ [C!Next]_mcp => late'
  BY Zenon DEF mcp, C!vars, C!Next, C!CallerStep, C!ServerStep, C!Done, C!Call, C!Send, C!Recv, C!Timeout,
         C!Notify, C!Restart, C!Stop, C!Start, C!Execute, C!Reply, C!ServerCrash, C!Pump

-----------------------------------------------------------------------------
(* The three parts share no state: a step of the home is a step of one of  *)
(* them and leaves the others as they are.                                 *)
HomeInv == LockInv /\ HostInv /\ McpInv

(* The inductive invariants hold throughout.                               *)
THEOREM DaemonInvariant == Spec => []HomeInv
<1>1. Init => HomeInv
  BY LockInit, HostInit, McpInit, Zenon DEF Init, HomeInv
<1>2. HomeInv /\ [Next]_vars => HomeInv'
  <2> SUFFICES ASSUME HomeInv, [Next]_vars PROVE HomeInv'
    BY Zenon
  <2>1. [L!Next]_wlock /\ [H!Next]_host /\ [C!Next]_mcp
    BY Zenon DEF Next, vars
  <2>2. McpInv'
    BY <2>1, McpTypesStep, RunningStep, PipelineStep, LateStays, Zenon DEF HomeInv, McpInv
  <2> QED BY <2>1, <2>2, LockStep, HostStep, Zenon DEF HomeInv
<1> QED BY <1>1, <1>2, PTL DEF Spec

(* A home has a single writer, for every number of processes, deaths,      *)
(* boots, probes and broken locks (WorkspaceLock in locks.py) and of       *)
(* instances of the service (_Runner and _cleanup in service_main.py).     *)
THEOREM OneWriter == Spec => []SingleWriter
<1>1. HomeInv => SingleWriter
  BY OneHolder, OneInstance, Zenon DEF HomeInv, LockInv, SingleWriter
<1> QED BY <1>1, DaemonInvariant, PTL

(* The sidecar that probe() reads names the holder of the lock in this     *)
(* boot, or a late release() or break_stale() removed it (_write_meta).    *)
THEOREM SidecarIsTrue == Spec => []SidecarNamesHolder
<1>1. HomeInv => SidecarNamesHolder
  BY Zenon DEF HomeInv, LockInv, SidecarNamesHolder
<1> QED BY <1>1, DaemonInvariant, PTL

(* A call of an MCP tool returns its own reply as long as no wait timed    *)
(* out, over any number of calls, crashes and restarts, and no restart     *)
(* leaves an orphan (_rpc, _restart and _pump in mcp_host.py).             *)
THEOREM RepliesAreOwn == Spec => []RepliesMatch
<1>1. HomeInv => RepliesMatch
  BY Zenon DEF HomeInv, McpInv, Running, Answers, RepliesMatch, C!RepliesMatch
<1> QED BY <1>1, DaemonInvariant, PTL
=============================================================================
