------------------------------- MODULE Backup -------------------------------
(***************************************************************************)
(* Backup and restore of a runtime home (scr/backup.py) beside a service   *)
(* that uses the home's database and commands that write to the home.      *)
(*                                                                         *)
(* The database is SQLite in WAL mode (Store.__init__): a commit goes to   *)
(* scr.db-wal, a checkpoint or the last orderly close moves it to scr.db,  *)
(* and a reader sees both.  A database is the set of commits it holds,     *)
(* config.json the set of vault files its models name (Settings has its    *)
(* other contents), a vault file a version number.  AES-GCM is modelled by *)
(* what it gives: with another key, or when its bytes were changed, an     *)
(* archive does not decrypt, and restore_backup raises before it writes.   *)
(*                                                                         *)
(* An operator backs up or restores, one at a time, and stops the service  *)
(* to restore.  Nothing keeps commands away.  A file is read or replaced   *)
(* in one step; an archive without files is none.                          *)
(***************************************************************************)
EXTENDS Naturals

CONSTANTS
    Blobs,          \* names of vault files
    Admins,         \* processes that run `scr init' and `scr model add'
    Absent,         \* the content of a file that does not exist
    MaxCommits, MaxEdits    \* bounds

Files == {"config", "db"} \cup Blobs

VARIABLES
    home,           \* file -> content; home["db"] is scr.db alone
    wal,            \* the commits in scr.db-wal
    n, edits,
    open,           \* the service runs
    job,            \* per process: its command, with its copy of the configuration
    bk,             \* create_backup: pc, todo (vault files to read), got
    archive,        \* file -> content
    damaged,
    rs,             \* restore_backup: pc, todo (files still staged) and, as history,
                    \* the home and wal it found and whether it was alone
    halved,         \* history: a restore into this home died half way, or brought
                    \* back a home in which one had
    tainted         \* history: the archive is of such a home

vars == <<home, wal, n, edits, open, job, bk, archive, damaged, rs, halved, tainted>>
db == <<home, wal, n, open>>
history == <<halved, tainted>>

Nothing == [f \in Files |-> Absent]
Present(g) == {f \in Files : g[f] # Absent}
Named(data) == IF data = Absent THEN {} ELSE data
Over(g, h) == [f \in Files |-> IF g[f] # Absent THEN g[f] ELSE h[f]]
Visible == Named(home["db"]) \cup wal
NoJob == [pc |-> "idle", blob |-> Absent, _data |-> {}]
NoBackup == [pc |-> "off", todo |-> {}, got |-> Nothing]
NoRestore == [pc |-> "idle", todo |-> {}, home |-> Nothing, wal |-> {}, alone |-> TRUE]
Idle == bk.pc = "off" /\ rs.pc # "move"

Init ==
    /\ home = Nothing /\ wal = {} /\ n = 0 /\ edits = 0 /\ open = FALSE
    /\ job = [a \in Admins |-> NoJob] /\ bk = NoBackup /\ archive = Nothing /\ damaged = FALSE
    /\ rs = NoRestore /\ halved = FALSE /\ tainted = FALSE

(***************************************************************************)
(* The service and SQLite.                                                 *)
(***************************************************************************)
Start ==
    /\ ~open /\ rs.pc # "move" /\ open' = TRUE /\ rs' = NoRestore
    /\ home' = [home EXCEPT !["db"] = Named(@)]
    /\ UNCHANGED <<wal, n, edits, job, bk, archive, damaged, history>>

Commit ==
    /\ open /\ n < MaxCommits /\ n' = n + 1 /\ wal' = wal \cup {n'}
    /\ UNCHANGED <<home, open, edits, job, bk, archive, damaged, rs, history>>

Checkpoint ==
    /\ open /\ wal # {}
    /\ home' = [home EXCEPT !["db"] = Visible] /\ wal' = {}
    /\ UNCHANGED <<n, open, edits, job, bk, archive, damaged, rs, history>>

Close ==
    /\ open /\ open' = FALSE
    /\ home' = [home EXCEPT !["db"] = Visible] /\ wal' = {}
    /\ UNCHANGED <<n, edits, job, bk, archive, damaged, rs, history>>

Kill ==
    /\ open /\ open' = FALSE
    /\ UNCHANGED <<home, wal, n, edits, job, bk, archive, damaged, rs, history>>

(***************************************************************************)
(* scr init and scr model add, as in Settings: a command changes a copy of *)
(* the configuration, and a secret is stored before the entry that names   *)
(* it.                                                                     *)
(***************************************************************************)
Load(a) ==
    /\ job[a] = NoJob /\ edits < MaxEdits /\ edits' = edits + 1
    /\ LET data == Named(home["config"]) IN
       \/ job' = [job EXCEPT ![a] = [pc |-> "store", blob |-> Absent, _data |-> data]]
       \/ \E b \in Blobs :
            \/ job' = [job EXCEPT ![a] = [pc |-> "secret", blob |-> b, _data |-> data]]
            \/ job' = [job EXCEPT ![a] = [pc |-> "save", blob |-> Absent, _data |-> data \ {b}]]
    /\ UNCHANGED <<db, bk, archive, damaged, rs, history>>

(* A command writes to the home. *)
Write == rs' = IF rs.pc = "move" THEN [rs EXCEPT !.alone = FALSE] ELSE NoRestore

(* cmd_init makes a store and closes it, maybe as its last user. *)
OpenStore(a) ==
    /\ job[a].pc = "store" /\ Write
    /\ home' = [home EXCEPT !["db"] = IF open THEN Named(@) ELSE Visible]
    /\ wal' = IF open THEN wal ELSE {}
    /\ job' = [job EXCEPT ![a].pc = "save"]
    /\ UNCHANGED <<n, open, edits, bk, archive, damaged, history>>

store_secret(a) ==
    /\ job[a].pc = "secret" /\ Write
    /\ home' = [home EXCEPT ![job[a].blob] = edits]
    /\ job' = [job EXCEPT ![a].pc = "save"]
    /\ UNCHANGED <<wal, n, open, edits, bk, archive, damaged, history>>

save(a) ==
    /\ job[a].pc = "save" /\ Write
    /\ home' = [home EXCEPT !["config"] = job[a]._data \cup ({job[a].blob} \ {Absent})]
    /\ job' = [job EXCEPT ![a] = NoJob]
    /\ UNCHANGED <<wal, n, open, edits, bk, archive, damaged, history>>

KillJob(a) ==
    /\ job[a] # NoJob /\ job' = [job EXCEPT ![a] = NoJob]
    /\ UNCHANGED <<db, edits, bk, archive, damaged, rs, history>>

(***************************************************************************)
(* create_backup: _collect copies config.json, scr.db and the files that   *)
(* the vault lists then; one atomic write follows.                         *)
(***************************************************************************)
create_backup ==
    /\ Idle /\ bk' = [NoBackup EXCEPT !.pc = "config"] /\ rs' = NoRestore
    /\ UNCHANGED <<db, edits, job, archive, damaged, history>>

(* The vault is listed and read before the configuration. *)
MutCollect ==
    /\ bk.pc \in {"config", "db"}
    /\ bk' = [bk EXCEPT !.pc = IF @ = "config" THEN "db" ELSE "vault",
                        !.got = [f \in Files |-> IF (f \in Blobs) = (bk.pc = "config") THEN home[f] ELSE @[f]]]
    /\ UNCHANGED <<db, edits, job, archive, damaged, rs, history>>

_collect ==
    /\ bk.pc \in {"config", "db"}
    /\ bk' = [bk EXCEPT !.pc = IF @ = "config" THEN "db" ELSE "list", !.got[bk.pc] = home[bk.pc]]
    /\ UNCHANGED <<db, edits, job, archive, damaged, rs, history>>

ListVault ==
    /\ bk.pc = "list" /\ bk' = [bk EXCEPT !.pc = "vault", !.todo = Blobs \cap Present(home)]
    /\ UNCHANGED <<db, edits, job, archive, damaged, rs, history>>

CollectBlob(b) ==
    /\ bk.pc = "vault" /\ b \in bk.todo
    /\ bk' = [bk EXCEPT !.todo = @ \ {b}, !.got[b] = home[b]]
    /\ UNCHANGED <<db, edits, job, archive, damaged, rs, history>>

WriteArchive ==
    /\ bk.pc = "vault" /\ bk.todo = {} /\ bk' = NoBackup
    /\ archive' = bk.got /\ damaged' = FALSE /\ tainted' = halved
    /\ UNCHANGED <<db, edits, job, rs, halved>>

Damage ==
    /\ archive # Nothing /\ ~damaged /\ Idle /\ damaged' = TRUE
    /\ UNCHANGED <<db, edits, job, bk, archive, rs, history>>

(***************************************************************************)
(* restore_backup: decrypt, stage, then move the staged files one by one   *)
(* into the home, those of its top directory first.  What is not in the    *)
(* archive stays as it is.                                                 *)
(***************************************************************************)
restore_backup ==
    /\ Idle /\ ~open /\ archive # Nothing /\ ~damaged
    /\ rs' = [pc |-> "move", todo |-> Present(archive), home |-> home, wal |-> wal, alone |-> TRUE]
    /\ UNCHANGED <<db, edits, job, bk, archive, damaged, history>>

Move(f) ==
    /\ rs.pc = "move" /\ f \in rs.todo /\ (f \in Blobs => rs.todo \subseteq Blobs)
    /\ home' = [home EXCEPT ![f] = archive[f]]
    /\ rs' = [rs EXCEPT !.pc = IF rs.todo = {f} THEN "ok" ELSE "move", !.todo = @ \ {f}]
    /\ halved' = IF rs.todo = {f} THEN tainted ELSE halved
    /\ UNCHANGED <<wal, n, open, edits, job, bk, archive, damaged, tainted>>

(* The process that takes or restores a backup dies, or raises because a   *)
(* file that it listed is gone.                                            *)
Crash ==
    /\ ~Idle
    /\ bk' = NoBackup
    /\ rs' = IF rs.pc = "move" THEN NoRestore ELSE rs
    /\ halved' = (halved \/ rs.pc = "move")
    /\ UNCHANGED <<db, edits, job, archive, damaged, tainted>>

(* The operator goes on with an empty home: the old one is lost, or --home *)
(* names another.                                                          *)
NewHome ==
    /\ Idle /\ ~open /\ job = [a \in Admins |-> NoJob] /\ home # Nothing
    /\ home' = Nothing /\ wal' = {} /\ rs' = NoRestore /\ halved' = FALSE
    /\ UNCHANGED <<n, open, edits, job, bk, archive, damaged, tainted>>

Next ==
    \/ Start \/ Commit \/ Checkpoint \/ Close \/ Kill
    \/ \E a \in Admins : Load(a) \/ OpenStore(a) \/ store_secret(a) \/ save(a) \/ KillJob(a)
    \/ create_backup \/ _collect \/ ListVault \/ WriteArchive \/ Damage \/ restore_backup
    \/ \E b \in Blobs : CollectBlob(b)
    \/ \E f \in Files : Move(f)
    \/ Crash \/ NewHome
Spec == Init /\ [][Next]_vars

-----------------------------------------------------------------------------
(* A restore that no command disturbed brings back every archived file and *)
(* leaves every other one as it was, also after an earlier restore died;   *)
(* over a home that was closed in order, readers of the database see what  *)
(* is in the file.  And whatever commands a backup or a restore overlapped, *)
(* in an old home or an empty one, config.json names only secrets that the *)
(* vault has: _collect reads it before it lists the vault, and cmd_model_add *)
(* writes the vault first.  Only a restore that died breaks this.          *)
HomeStaysWhole ==
    /\ rs.pc = "ok" /\ rs.alone =>
        /\ home = Over(archive, rs.home)
        /\ rs.wal = {} => Visible = Named(home["db"])
    /\ ~halved /\ rs.pc # "move" => Named(home["config"]) \subseteq Present(home)
=============================================================================
