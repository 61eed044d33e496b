------------------------------ MODULE Packages ------------------------------
(***************************************************************************)
(* Installed packages: verify_package and run_selftests (scr/loader.py),   *)
(* the registry's install, shadow_update and verify_installed              *)
(* (scr/registry.py), key pinning and revocation (scr/signing.py).         *)
(*                                                                         *)
(* A package file is a record of what verification tells apart: its name   *)
(* and version, whether the zip is readable, whether its members match the *)
(* manifest, its SIGNATURE and its key.  copyfile takes two steps: the     *)
(* target is unreadable in between.  index.json is written atomically.     *)
(***************************************************************************)
EXTENDS FiniteSets

CONSTANTS
    Names, Versions,
    Trusted,        \* keys pinned in the keystore
    Offered,        \* package files given to install and shadow_update
    Stocked,        \* those of them installed at the start
    Procs,          \* processes using the registry
    NoFile, NoVersion

Places == Names \X Versions
PathOf(f) == <<f.name, f.version>>

VARIABLES
    disk, shadow,   \* <<name, version>> -> stored file, shadow file
    index,          \* name -> the installed version
    revoked,        \* the signed revocation list
    op,             \* per process: the running operation
    untested,       \* history: shadow_update put a file in place that had not passed
    overlapped,     \* history: two processes worked on the registry at once
    exposed         \* history: a file was installed in place or revoked

vars == <<disk, shadow, index, revoked, op, untested, overlapped, exposed>>
stored == <<disk, shadow, index, revoked>>
flags == <<overlapped, exposed>>
history == <<untested, flags>>
Idle == [pc |-> "idle"]

(***************************************************************************)
(* verify_package, in its order; "ok" or the error.                        *)
(***************************************************************************)
verify_package(f) ==
    CASE ~f.readable                                   -> "malformed_package"
      [] f.readable /\ f.members # "match"             -> f.members
      [] f.readable /\ f.members = "match" /\ f.sig # "good" -> f.sig
      [] f.readable /\ f.members = "match" /\ f.sig = "good" ->
            IF f.key \notin Trusted THEN "untrusted_key"
            ELSE IF PathOf(f) \in revoked THEN "revoked" ELSE "ok"

Active(n) == IF index[n] = NoVersion THEN NoFile ELSE disk[<<n, index[n]>>]

verify_installed(n) ==
    IF index[n] = NoVersion THEN "not_installed"
    ELSE IF Active(n) = NoFile THEN "missing_on_disk" ELSE verify_package(Active(n))

Init ==
    /\ disk = [p \in Places |-> IF \E f \in Stocked : PathOf(f) = p
                               THEN CHOOSE f \in Stocked : PathOf(f) = p ELSE NoFile]
    /\ shadow = [p \in Places |-> NoFile]
    /\ index = [n \in Names |-> IF \E f \in Stocked : f.name = n
                                THEN (CHOOSE f \in Stocked : f.name = n).version ELSE NoVersion]
    /\ revoked = {} /\ op = [k \in Procs |-> Idle]
    /\ untested = FALSE /\ overlapped = FALSE /\ exposed = FALSE

Goto(k, l) == op' = [op EXCEPT ![k].pc = l]
Torn(f) == [f EXCEPT !.readable = FALSE]

(* install and shadow_update first verify the file they are given. *)
Begin(k, kind, f) ==
    /\ op[k] = Idle /\ verify_package(f) = "ok"
    /\ op' = [op EXCEPT ![k] = [pc |-> IF kind = "install" THEN "copy" ELSE "shadow", file |-> f]]
    /\ overlapped' = (overlapped \/ \E j \in Procs : op[j] # Idle)
    /\ exposed' = (exposed \/ kind = "install")
    /\ UNCHANGED <<stored, untested>>

Reject(k, f) ==
    /\ op[k] = Idle /\ verify_package(f) # "ok"
    /\ UNCHANGED vars

(* install: copyfile over the stored file, in place. *)
CopyBegins(k) ==
    /\ op[k].pc = "copy" /\ Goto(k, "copying")
    /\ disk' = [disk EXCEPT ![PathOf(op[k].file)] = Torn(op[k].file)]
    /\ UNCHANGED <<shadow, index, revoked, history>>

CopyEnds(k) ==
    /\ op[k].pc = "copying" /\ Goto(k, "index")
    /\ disk' = [disk EXCEPT ![PathOf(op[k].file)] = op[k].file]
    /\ UNCHANGED <<shadow, index, revoked, history>>

(* shadow_update: copy beside, run the self-tests on the copy, replace. *)
MutShadow(k) ==
    /\ op[k].pc = "shadow" /\ Goto(k, "shadowing")
    /\ disk' = [disk EXCEPT ![PathOf(op[k].file)] = Torn(op[k].file)]
    /\ UNCHANGED <<shadow, index, revoked, history>>

ShadowBegins(k) ==
    /\ op[k].pc = "shadow" /\ Goto(k, "shadowing")
    /\ shadow' = [shadow EXCEPT ![PathOf(op[k].file)] = Torn(op[k].file)]
    /\ UNCHANGED <<disk, index, revoked, history>>

ShadowEnds(k) ==
    /\ op[k].pc = "shadowing" /\ Goto(k, "test")
    /\ shadow' = [shadow EXCEPT ![PathOf(op[k].file)] = op[k].file]
    /\ UNCHANGED <<disk, index, revoked, history>>

(* run_selftests verifies the shadow again and runs its scenarios; a       *)
(* failure, also an exception, discards the shadow.                        *)
run_selftests(k, passed) ==
    LET p == PathOf(op[k].file) IN
    /\ op[k].pc = "test" /\ shadow[p] # NoFile
    /\ (passed => verify_package(shadow[p]) = "ok")
    /\ shadow' = IF passed THEN shadow ELSE [shadow EXCEPT ![p] = NoFile]
    /\ op' = [op EXCEPT ![k] = IF ~passed THEN Idle
                               ELSE [pc |-> "promote", file |-> op[k].file, passed |-> shadow[p]]]
    /\ UNCHANGED <<disk, index, revoked, history>>

Promote(k) ==
    LET p == PathOf(op[k].file) IN
    /\ op[k].pc = "promote" /\ shadow[p] # NoFile
    /\ op' = [op EXCEPT ![k] = [pc |-> "index", file |-> op[k].file]]
    /\ disk' = [disk EXCEPT ![p] = shadow[p]] /\ shadow' = [shadow EXCEPT ![p] = NoFile]
    /\ untested' = (untested \/ shadow[p] # op[k].passed)
    /\ UNCHANGED <<index, revoked, flags>>

(* The shadow is gone (another process's): os.replace or the self-test     *)
(* raises.                                                                 *)
ShadowGone(k) ==
    /\ op[k].pc \in {"test", "promote"} /\ shadow[PathOf(op[k].file)] = NoFile
    /\ op' = [op EXCEPT ![k] = Idle]
    /\ UNCHANGED <<stored, history>>

(* Both end by opening the stored file for its key_id, which raises when   *)
(* another process is copying over it, loading the index, and saving it    *)
(* with the new version.                                                   *)
_load_index(k) ==
    /\ op[k].pc = "index"
    /\ op' = [op EXCEPT ![k] = IF disk[PathOf(op[k].file)].readable
                               THEN [pc |-> "save", file |-> op[k].file, idx |-> index] ELSE Idle]
    /\ UNCHANGED <<stored, history>>

_save_index(k) ==
    /\ op[k].pc = "save" /\ op' = [op EXCEPT ![k] = Idle]
    /\ index' = [op[k].idx EXCEPT ![op[k].file.name] = op[k].file.version]
    /\ UNCHANGED <<disk, shadow, revoked, untested, flags>>

Crash(k) ==
    /\ op[k] # Idle /\ op' = [op EXCEPT ![k] = Idle]
    /\ UNCHANGED <<stored, history>>

Revoke(p) ==
    /\ p \notin revoked /\ revoked' = revoked \cup {p} /\ exposed' = TRUE
    /\ UNCHANGED <<disk, shadow, index, op, untested, overlapped>>

Next ==
    \/ \E k \in Procs :
         \/ \E f \in Offered : Reject(k, f) \/ \E kind \in {"install", "update"} : Begin(k, kind, f)
         \/ CopyBegins(k) \/ CopyEnds(k) \/ ShadowBegins(k) \/ ShadowEnds(k)
         \/ \E passed \in BOOLEAN : run_selftests(k, passed)
         \/ Promote(k) \/ ShadowGone(k) \/ _load_index(k) \/ _save_index(k) \/ Crash(k)
    \/ \E p \in Places : Revoke(p)
Spec == Init /\ [][Next]_vars

-----------------------------------------------------------------------------
(* shadow_update, one at a time: "promote only on pass", every file it puts *)
(* in place passed its self-tests; and "on any failure the currently-       *)
(* installed version stays active", the active file verifies at every step, *)
(* also when the process dies there.                                        *)
ShadowUpdateSafe == ~overlapped =>
    /\ ~untested
    /\ ~exposed => \A n \in Names : index[n] # NoVersion => verify_installed(n) = "ok"
=============================================================================
