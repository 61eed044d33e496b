----------------------------- MODULE Publishing -----------------------------
(***************************************************************************)
(* Making a package: scr-sign (scr/signer.py, scr/package.py) hashes every *)
(* file of a directory, signs the Merkle root of the hashes                *)
(* (scr/merkle.py) and writes the zip, reading the files a second time.    *)
(* The directory may be edited meanwhile, the signer may be killed, and    *)
(* the written file may decay.  verify_package (scr/loader.py) is modelled *)
(* here in the detail that Packages abstracts.                             *)
(*                                                                         *)
(* Hashes are free of collisions: a hash is a tagged value.                *)
(***************************************************************************)
EXTENDS Naturals, Sequences, SequencesExt, TLC

CONSTANTS
    Paths,        \* the file names, in their sorted order
    Contents,     \* what a file may hold
    Absent,
    MaxEdits,     \* bound: edits of the directory
    MaxDamage     \* bound: changes to the written package

VARIABLES
    src,          \* the directory: file -> content
    pc, todo,     \* the signer: where it is, the files it has still to read
    files,        \* the manifest's files: path -> hash
    out,          \* the package file
    signed,       \* history: the manifests whose root was signed
    disturbed,    \* history: an edit, a kill or damage since the last signing began
    edits, damage

vars == <<src, pc, todo, files, out, signed, disturbed, edits, damage>>
signer == <<pc, todo, files, signed>>

_sha256_bytes(c) == <<"sha256", c>>
_leaf(p, h) == <<"leaf", p, h>>
_node(l, r) == <<"node", l, r>>
Empty == [p \in {} |-> Absent]

(* One round of merkle_root's loop: neighbours are paired, an odd node is  *)
(* promoted.                                                               *)
MutLevel(level) == [i \in 1..((Len(level) + 1) \div 2) |->
    IF 2 * i <= Len(level) THEN _node(level[2 * i - 1], level[2 * i]) ELSE level[1]]

Level(level) == [i \in 1..((Len(level) + 1) \div 2) |->
    IF 2 * i <= Len(level) THEN _node(level[2 * i - 1], level[2 * i]) ELSE level[2 * i - 1]]

(* Rounds until one node is left: never more than there are leaves, and a  *)
(* single node stays as it is.                                             *)
merkle_root(f) ==
    LET names == SelectSeq(Paths, LAMBDA p : p \in DOMAIN f)
        leaves == [i \in DOMAIN names |-> _leaf(names[i], f[names[i]])]
    IN  IF leaves = <<>> THEN <<"0">>
        ELSE FoldLeft(LAMBDA level, round : Level(level), leaves, leaves)[1]

(* Package and verify_package, up to the signature over the root.          *)
actual_file_hashes(z) == [p \in DOMAIN z.members |-> _sha256_bytes(z.members[p])]

verify_package(z) ==
    LET actual == actual_file_hashes(z) IN
    CASE ~z.closed                                            -> "malformed_package"
      [] z.closed /\ ~(DOMAIN z.manifest \subseteq DOMAIN actual) -> "missing_files"
      [] z.closed /\ DOMAIN z.manifest \subseteq DOMAIN actual ->
            IF DOMAIN actual # DOMAIN z.manifest THEN "unexpected_files"
            ELSE IF actual # z.manifest THEN "tampered_file"
            ELSE IF z.signature = <<>> THEN "unsigned"
            ELSE IF z.signature # <<merkle_root(z.manifest)>> THEN "root_mismatch" ELSE "ok"

NoPackage == [closed |-> FALSE, manifest |-> Empty, members |-> Empty, signature |-> <<>>]

Init ==
    /\ src \in [Range(Paths) -> Contents \cup {Absent}]
    /\ pc = "idle" /\ todo = {} /\ files = Empty /\ out = NoPackage /\ signed = {}
    /\ disturbed = FALSE /\ edits = 0 /\ damage = 0

(* build_files_map: os.walk lists the directory, then each file is opened. *)
Walk ==
    /\ pc = "idle" /\ pc' = "hash" /\ files' = Empty /\ disturbed' = FALSE
    /\ todo' = {p \in DOMAIN src : src[p] # Absent}
    /\ UNCHANGED <<src, out, signed, edits, damage>>

build_files_map(p) ==
    /\ pc = "hash" /\ p \in todo /\ src[p] # Absent
    /\ files' = (p :> _sha256_bytes(src[p])) @@ files /\ todo' = todo \ {p}
    /\ UNCHANGED <<src, pc, out, signed, disturbed, edits, damage>>

(* The root is signed and write_package opens the zip for the manifest.    *)
sign_package ==
    /\ pc = "hash" /\ todo = {} /\ pc' = "write" /\ todo' = DOMAIN files
    /\ signed' = signed \cup {files} /\ out' = [NoPackage EXCEPT !.manifest = files]
    /\ UNCHANGED <<src, files, disturbed, edits, damage>>

(* One member, in sorted order, read from the directory again.             *)
WriteMember ==
    LET p == SelectSeq(Paths, LAMBDA q : q \in todo)[1] IN
    /\ pc = "write" /\ todo # {} /\ src[p] # Absent
    /\ out' = [out EXCEPT !.members = (p :> src[p]) @@ @] /\ todo' = todo \ {p}
    /\ UNCHANGED <<src, pc, files, signed, disturbed, edits, damage>>

WriteSignature ==
    /\ pc = "write" /\ todo = {} /\ pc' = "done"
    /\ out' = [out EXCEPT !.signature = <<merkle_root(files)>>, !.closed = TRUE]
    /\ UNCHANGED <<src, todo, files, signed, disturbed, edits, damage>>

(* A file that is gone raises.  Leaving the with block then closes the zip, *)
(* with the members it has and without SIGNATURE.                          *)
FileGone ==
    /\ \/ pc = "hash" /\ (\E p \in todo : src[p] = Absent) /\ UNCHANGED out
       \/ /\ pc = "write" /\ todo # {} /\ src[SelectSeq(Paths, LAMBDA q : q \in todo)[1]] = Absent
          /\ out' = [out EXCEPT !.closed = TRUE]
    /\ pc' = "idle" /\ todo' = {} /\ UNCHANGED <<src, files, signed, disturbed, edits, damage>>

(* Run again: over the package of the last time. *)
Again == pc = "done" /\ pc' = "idle" /\ UNCHANGED <<src, todo, files, out, signed, disturbed, edits, damage>>

Kill ==
    /\ pc \in {"hash", "write"} /\ pc' = "idle" /\ todo' = {} /\ disturbed' = TRUE
    /\ UNCHANGED <<src, files, out, signed, edits, damage>>

Edit(p, c) ==
    /\ edits < MaxEdits /\ edits' = edits + 1 /\ src[p] # c
    /\ src' = [src EXCEPT ![p] = c] /\ disturbed' = TRUE
    /\ UNCHANGED <<signer, out, damage>>

Put(f, p, v, absent) == [q \in (DOMAIN f \cup {p}) \ absent |-> IF q = p THEN v ELSE f[q]]

(* A member changes, disappears or is added at rest, alone or with its     *)
(* line of the manifest; or SIGNATURE is lost.                             *)
Damage ==
    /\ pc = "done" /\ damage < MaxDamage /\ damage' = damage + 1 /\ disturbed' = TRUE
    /\ \/ \E p \in Range(Paths), c \in Contents \cup {Absent}, listed \in BOOLEAN :
            LET gone == IF c = Absent THEN {p} ELSE {} IN
            out' = [out EXCEPT !.members = Put(@, p, c, gone),
                               !.manifest = IF listed THEN Put(@, p, _sha256_bytes(c), gone) ELSE @]
       \/ out' = [out EXCEPT !.signature = <<>>]
    /\ UNCHANGED <<src, signer, edits>>

Next ==
    \/ Walk \/ (\E p \in Range(Paths) : build_files_map(p)) \/ sign_package
    \/ WriteMember \/ WriteSignature \/ FileGone \/ Again \/ Kill \/ Damage
    \/ \E p \in Range(Paths), c \in Contents \cup {Absent} : Edit(p, c)

Spec == Init /\ [][Next]_vars

-----------------------------------------------------------------------------
(* verify_package accepts a package only if its members are exactly what   *)
(* was hashed for one signing, whatever was edited between sign_package's  *)
(* two readings, wherever it died and whatever decayed since, and accepts  *)
(* every package that was signed undisturbed.                              *)
PackageIsWhatWasSigned ==
    /\ verify_package(out) = "ok" => actual_file_hashes(out) \in signed
    /\ pc = "done" /\ ~disturbed => verify_package(out) = "ok"
=============================================================================
