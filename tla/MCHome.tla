------------------------------- MODULE MCHome -------------------------------
(***************************************************************************)
(* What is loaded from files and kept in files, for TLC: attenuation along *)
(* delegation paths (Capability), the team validator (Forest), signing and *)
(* verifying a package (Publishing), the package registry (Packages), the  *)
(* staged updater (Updater), the model settings (Settings), and backup and *)
(* restore (Backup).  They share no state: part says which one a behaviour *)
(* runs, and the others stay where they start.                             *)
(***************************************************************************)
EXTENDS Home

CONSTANTS
    Agents, Unknown, MaxDelegates, MaxRoots, Requirements, Widenings,
    Members, Contents, MaxChanges, MaxDamage

VARIABLES
    part,
    edges, required, widens, roots, pc, todo, root, seen, stack, owner, queue, team_of, why,
    src, step, unread, files, out, signed, disturbed, changes, damage

forest == <<edges, required, widens, roots, pc, todo, root, seen, stack, owner, queue,
            team_of, why>>
publishing == <<src, step, unread, files, out, signed, disturbed, changes, damage>>
packages == <<disk, shadow, index, revoked, op, untested, overlapped, exposed>>
updater == <<current, staged, u>>
settings == <<config, vault, cmd, service, adapter, misfits, adds>>
backup == <<home, wal, n, edits, open, job, bk, archive, damaged, rs, halved, tainted>>

F == INSTANCE Forest
S == INSTANCE Publishing WITH Paths <- Members, pc <- step, todo <- unread,
                              edits <- changes, MaxEdits <- MaxChanges

(* Two tools of a kind, a host, nested and separate directories, a rule.    *)
MCPaths == {"/w", "/w/src", "/etc"}
MCUnder == {<<p, p>> : p \in MCPaths} \cup {<<"/w/src", "/w">>}
MCManifests ==
    {m \in [tools: SUBSET {"fs"}, hosts: SUBSET {"h"},
            read: {{}, {"/w"}, {"/w/src", "/etc"}},
            write: {{}, {"/w"}, {"/w/src"}}, rules: SUBSET {"git"}, budget: {0, 1},
            ceiling: {1, 3}] :
        /\ m.hosts # {} => m.tools # {}
        /\ m.budget = (IF m.rules = {} THEN 0 ELSE 1)
        /\ m.ceiling = (IF m.write = {} THEN 3 ELSE 1)}
MCMatches == {<<"git", "git status">>}
MCPolicies == [tools: (SUBSET {"fs"}) \cup {None}, hosts: (SUBSET {"h"}) \cup {None}]

(* All choices of roots; or a required child, or widening edges, and the    *)
(* roots inferred.                                                          *)
MCRequirements == {{p} : p \in {q \in Agents \X Agents : q[1] # q[2]}} \cup {{}}
MCWidenings == {{}, Agents \X Agents}

(* Three files: a pair and an odd one.                                      *)
MCMembers == <<"agents/a", "skills/s", "tools/t">>

(* Version 1 is installed and 2 is an update; a 1 of an unknown publisher   *)
(* and a 2 without a signature are offered too.                             *)
File(v, sig, key) == [name |-> "p", version |-> v, readable |-> TRUE,
                      members |-> "match", sig |-> sig, key |-> key]
MCStocked == {File("1", "good", "vendor")}
MCOffered == MCStocked \cup {File("2", "good", "vendor"), File("1", "good", "stranger"),
                             File("2", "unsigned", "vendor")}

(* Each model's secret in a file of its own. *)
MCBlob == [m \in Models |-> m]

(* The parts that do not run wait in one fixed state. *)
Resting ==
    /\ part # "attenuate" => eff = CHOOSE m \in MCManifests : TRUE
    /\ part # "load" => /\ edges = [a \in Agents |-> <<>>]
                        /\ required = {} /\ widens = {} /\ roots = {}
    /\ part = "load" => \/ required = {} /\ widens = {}
                        \/ roots = {} /\ required = {} /\ widens \in Widenings \ {{}}
                        \/ roots = {} /\ required \in Requirements \ {{}} /\ widens = {}
    /\ part # "publish" => src = [p \in S!Range(Members) |-> Absent]

MCInit ==
    /\ part \in {"attenuate", "load", "publish", "packages", "update", "settings", "backup"}
    /\ Resting
    /\ Init /\ F!Init /\ S!Init /\ P!Init /\ U!Init /\ M!Init /\ B!Init

AttenuateNext == part = "attenuate" /\ Next
    /\ UNCHANGED <<part, forest, publishing, packages, updater, settings, backup>>
LoadNext == part = "load" /\ F!Next
    /\ UNCHANGED <<part, vars, publishing, packages, updater, settings, backup>>
PublishNext == part = "publish" /\ S!Next
    /\ UNCHANGED <<part, vars, forest, packages, updater, settings, backup>>
PackagesNext == part = "packages" /\ P!Next
    /\ UNCHANGED <<part, vars, forest, publishing, updater, settings, backup>>
UpdateNext == part = "update" /\ U!Next
    /\ UNCHANGED <<part, vars, forest, publishing, packages, settings, backup>>
SettingsNext == part = "settings" /\ M!Next
    /\ UNCHANGED <<part, vars, forest, publishing, packages, updater, backup>>
BackupNext == part = "backup" /\ B!Next
    /\ UNCHANGED <<part, vars, forest, publishing, packages, updater, settings>>

MCNext == AttenuateNext \/ LoadNext \/ PublishNext \/ PackagesNext \/ UpdateNext
            \/ SettingsNext \/ BackupNext

MCSpec == MCInit /\ [][MCNext]_<<part, vars, forest, publishing, packages, updater, settings, backup>>

-----------------------------------------------------------------------------

(* The loader accepts exactly the forests without a widening edge or a      *)
(* policy that names an undeclared child, and builds them as validated.     *)
LoaderExact == F!LoaderExact

(* verify_package accepts exactly what a signing hashed, also when the      *)
(* directory was edited between sign_package's two readings.                *)
PackageIsWhatWasSigned == S!PackageIsWhatWasSigned
=============================================================================
