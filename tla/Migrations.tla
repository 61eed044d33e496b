----------------------------- MODULE Migrations -----------------------------
(***************************************************************************)
(* Schema migrations (scr/migrations.py): each pending migration runs in a *)
(* transaction, behind a snapshot that is restored when it raises.         *)
(*                                                                         *)
(* A migration makes two changes, so that it can be half done.  Changes of *)
(* a transactional one stay in the transaction until COMMIT; one of auto   *)
(* commits as it goes (its first change ends the open transaction), after  *)
(* which COMMIT raises because no transaction is active.                   *)
(***************************************************************************)
EXTENDS Naturals, FiniteSets

CONSTANTS
    Versions,       \* the versions of the registered migrations
    Autos,          \* the sets of them that may be not transactional
    Target,         \* migrate's target
    MaxFails,       \* bound: exceptions raised by a migration
    MaxCrashes      \* bound: crashes of the process

Halves == {1, 2}
Changes == Versions \X Halves
Databases == [version: Versions \cup {0}, done: SUBSET Changes]

VARIABLES
    auto,           \* the migrations that commit as they go
    disk,           \* the committed database
    txn,            \* the database as the open transaction sees it; disk when none is open
    inTxn,
    snaps,          \* version -> the snapshot file, NoSnap when there is none
    pc,             \* "idle" "next" "begin" "apply" "version" "commit" "undo" "raised" "done"
    cur,            \* the version being applied
    half,           \* changes it has made
    torn,           \* history: a crash fell into one of auto after its first change
    fails, crashes

bounds == <<auto, fails, crashes>>
vars == <<torn, disk, txn, inTxn, snaps, pc, cur, half, bounds>>
NoSnap == [version |-> 0, done |-> {}, none |-> TRUE]

(* A database at version v, migrated in full. *)
Migrated(v) == [version |-> v, done |-> {c \in Changes : c[1] <= v}]

Init ==
    /\ \E v \in Versions \cup {0} : disk = Migrated(v)
    /\ txn = disk /\ inTxn = FALSE /\ snaps = [v \in Versions |-> NoSnap]
    /\ pc = "idle" /\ cur = 0 /\ half = 0 /\ fails = 0 /\ crashes = 0
    /\ auto \in Autos /\ torn = FALSE

migrate ==
    /\ pc \in {"idle", "raised"} /\ pc' = "next"
    /\ UNCHANGED <<disk, txn, inTxn, snaps, cur, half, bounds, torn>>

Pending == {v \in Versions : disk.version < v /\ v <= Target}

_snapshot(v) ==
    /\ pc = "next" /\ v \in Pending /\ \A w \in Pending : v <= w
    /\ snaps' = [snaps EXCEPT ![v] = disk] /\ cur' = v /\ half' = 0 /\ pc' = "begin"
    /\ UNCHANGED <<disk, txn, inTxn, bounds, torn>>

AllApplied ==
    /\ pc = "next" /\ Pending = {} /\ pc' = "done"
    /\ UNCHANGED <<disk, txn, inTxn, snaps, cur, half, bounds, torn>>

Begin ==
    /\ pc = "begin" /\ txn' = disk /\ inTxn' = TRUE /\ pc' = "apply"
    /\ UNCHANGED <<disk, snaps, cur, half, bounds, torn>>

(* What a statement writes goes to the transaction, or to disk without one. *)
Write(new, still) ==
    /\ txn' = new /\ inTxn' = still /\ disk' = IF still THEN disk ELSE new

apply ==
    /\ pc = "apply" /\ half < 2 /\ half' = half + 1
    /\ Write([txn EXCEPT !.done = @ \cup {<<cur, half'>>}], inTxn /\ cur \notin auto)
    /\ pc' = IF half' = 2 THEN "version" ELSE "apply"
    /\ UNCHANGED <<snaps, cur, bounds, torn>>

SetVersion ==
    /\ pc = "version" /\ pc' = "commit"
    /\ Write([txn EXCEPT !.version = cur], inTxn)
    /\ UNCHANGED <<snaps, cur, half, bounds, torn>>

_cleanup(v) == snaps' = [snaps EXCEPT ![v] = NoSnap]

Commit ==
    /\ pc = "commit" /\ inTxn
    /\ disk' = txn /\ inTxn' = FALSE /\ _cleanup(cur) /\ pc' = "next"
    /\ UNCHANGED <<txn, cur, half, bounds, torn>>

(* An exception: ROLLBACK at once; the restore is a step of its own. *)
Raise ==
    /\ \/ pc \in {"apply", "version"} /\ fails < MaxFails /\ fails' = fails + 1
       \/ pc = "commit" /\ ~inTxn /\ UNCHANGED fails
    /\ txn' = disk /\ inTxn' = FALSE /\ pc' = "undo"
    /\ UNCHANGED <<disk, snaps, cur, half, auto, crashes, torn>>

Mut_restore ==
    /\ pc = "undo" /\ _cleanup(cur) /\ pc' = "raised"
    /\ UNCHANGED <<disk, txn, inTxn, cur, half, bounds, torn>>

_restore ==
    /\ pc = "undo" /\ disk' = snaps[cur] /\ txn' = snaps[cur] /\ _cleanup(cur) /\ pc' = "raised"
    /\ UNCHANGED <<inTxn, cur, half, bounds, torn>>

(* The process dies: SQLite drops the open transaction; snapshots stay. *)
Crash ==
    /\ pc \notin {"idle", "done", "raised"} /\ crashes < MaxCrashes /\ crashes' = crashes + 1
    /\ txn' = disk /\ inTxn' = FALSE /\ pc' = "idle" /\ cur' = 0 /\ half' = 0
    /\ torn' = (torn \/ (cur \in auto /\ half > 0))
    /\ UNCHANGED <<disk, snaps, auto, fails>>

Next == migrate \/ AllApplied \/ Begin \/ apply \/ SetVersion \/ Commit \/ Raise \/ _restore \/ Crash
        \/ \E v \in Versions : _snapshot(v)
Spec == Init /\ [][Next]_vars

-----------------------------------------------------------------------------
AtRest == pc \in {"idle", "raised", "done", "next"}

(* "can never leave a customer DB corrupted or half-migrated": whenever      *)
(* migrate is not in the middle of a migration, also after a crash, the     *)
(* version says exactly which changes the database has.  The one exception  *)
(* is a crash inside a migration that commits as it goes: its snapshot file *)
(* stays, and no later run looks at it.                                     *)
NeverHalfMigrated == AtRest /\ ~torn => disk = Migrated(disk.version)
=============================================================================
