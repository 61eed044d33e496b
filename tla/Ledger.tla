------------------------------- MODULE Ledger -------------------------------
(***************************************************************************)
(* The tamper-evident evidence ledger (scr/ledger.py), the exported        *)
(* evidence bundle (scr/evidence.py) and the standalone verifier embedded  *)
(* in it (scr/_evidence_verifier.py).                                      *)
(*                                                                         *)
(* Every SQL statement commits by itself, so append() and seal() are two   *)
(* steps each (read the head, then insert), and an export is one step per  *)
(* statement.  SHA-256 is modelled as an injective function: the hash of a *)
(* row is the sequence of the texts hashed up to it, GENESIS the empty     *)
(* one.  An HMAC is its key and its message.  The text of a stored event   *)
(* is its value and its form: canonical() writes one form, a damaged disk  *)
(* can leave others.                                                       *)
(***************************************************************************)
EXTENDS Naturals, Sequences, SequencesExt

CONSTANTS
    Sessions,   \* session ids
    Writers,    \* threads or processes that append events
    Values,     \* what an event says
    Other,      \* what no event says; a damaged one may
    Keys,       \* HMAC keys
    NoKey,      \* verify(key=None); also "there is no seal"
    MaxRows     \* bound: rows of one session

VARIABLES
    rows,       \* table ledger: per session, ordered by seq
    seals,      \* table seals
    members,    \* table team_sessions of the one team, in order of insertion
    w,          \* what each append() in flight has read
    x,          \* the export in flight
    written,    \* history: rows as they were before any damage
    damaged     \* TRUE once stored bytes changed behind the program's back

vars == <<rows, seals, members, w, x, written, damaged>>

ASSUME KeyAssumption == NoKey \notin Keys

GENESIS == <<>>
Forms == {"canonical", "spaced", "garbled"}
Texts == [val: Values \cup {Other}, form: Forms]
canonical(v) == [val |-> v, form |-> "canonical"]
Mut_chain_hash(prev, text) == <<text>>
chain_hash(prev, text) == Append(prev, text)

(* The head of a session: hash and seq of its last row. *)
head(rs) == IF rs = <<>> THEN [hash |-> GENESIS, seq |-> 0]
            ELSE [hash |-> rs[Len(rs)].hash, seq |-> rs[Len(rs)].seq]

(* INSERT OR REPLACE INTO seals; the hmac is <<key, head, count>>. *)
NoSeal == [head |-> GENESIS, count |-> 0, key |-> NoKey]
Idle == [pc |-> "idle"]

Init ==
    /\ rows = [s \in Sessions |-> <<>>]
    /\ seals = [s \in Sessions |-> NoSeal]
    /\ members = <<>>
    /\ w = [a \in Writers |-> Idle]
    /\ x = Idle
    /\ written = rows
    /\ damaged = FALSE

(***************************************************************************)
(* append(): SELECT the head, then INSERT under UNIQUE(session_id, seq).   *)
(***************************************************************************)
AppendHead(a, s, v) ==
    /\ ~damaged /\ w[a].pc = "idle" /\ Len(rows[s]) < MaxRows
    /\ w' = [w EXCEPT ![a] = [pc |-> "insert", s |-> s, val |-> v,
                              prev |-> head(rows[s]).hash,
                              seq |-> head(rows[s]).seq]]
    /\ UNCHANGED <<rows, seals, members, x, written, damaged>>

MutAppendInsert(a) ==
    /\ ~damaged /\ w[a].pc = "insert"
    /\ LET s == w[a].s IN
       rows' = [rows EXCEPT ![s] = Append(@,
            [seq   |-> Len(@) + 1, event |-> canonical(w[a].val),
             hash  |-> chain_hash(w[a].prev, canonical(w[a].val))])]
    /\ written' = rows'
    /\ w' = [w EXCEPT ![a] = Idle]
    /\ UNCHANGED <<seals, members, x, damaged>>

(* A second append that read the same head hits the UNIQUE constraint and   *)
(* raises IntegrityError: the event is lost to its caller, not to the chain *)
AppendInsert(a) ==
    /\ ~damaged /\ w[a].pc = "insert"
    /\ LET s == w[a].s IN
       IF \E n \in DOMAIN rows[s] : rows[s][n].seq = w[a].seq + 1
       THEN UNCHANGED rows
       ELSE rows' = [rows EXCEPT ![s] = Append(@,
                [seq   |-> w[a].seq + 1, event |-> canonical(w[a].val),
                 hash  |-> chain_hash(w[a].prev, canonical(w[a].val))])]
    /\ written' = rows'
    /\ w' = [w EXCEPT ![a] = Idle]
    /\ UNCHANGED <<seals, members, x, damaged>>

(* team_session_add: a delegated session joins the running team. *)
Join(s) ==
    /\ ~damaged /\ s \notin ToSet(members)
    /\ members' = Append(members, s)
    /\ UNCHANGED <<rows, seals, w, x, written, damaged>>

(***************************************************************************)
(* scr session export: export_team_bundle() seals every member listed at   *)
(* the start and then reads the members again.  A session of no team is    *)
(* sealed when asked to; `scr ledger export` takes any session unsealed.   *)
(***************************************************************************)
Started == [s \in Sessions |-> Len(rows[s])]

ExportTeam(k) ==
    /\ ~damaged /\ x.pc = "idle" /\ members # <<>>
    /\ x' = [pc |-> "seal", key |-> k, team |-> TRUE, todo |-> members,
             own |-> members, got |-> <<>>, at |-> Started]
    /\ UNCHANGED <<rows, seals, members, w, written, damaged>>

ExportSession(k, s, seal) ==
    /\ ~damaged /\ x.pc = "idle"
    /\ seal => s \notin ToSet(members)
    /\ x' = [pc |-> IF seal THEN "seal" ELSE "events", key |-> k, team |-> FALSE,
             todo |-> <<s>>, own |-> IF seal THEN <<s>> ELSE <<>>,
             got |-> <<>>, at |-> Started]
    /\ UNCHANGED <<rows, seals, members, w, written, damaged>>

MutSealHead ==
    /\ ~damaged /\ x.pc = "seal" /\ x.todo # <<>>
    /\ LET h == head(rows[Head(x.todo)])
       IN  x' = [pc |-> "sealing", key |-> x.key, team |-> x.team,
                 todo |-> x.todo, own |-> x.own, got |-> x.got, at |-> x.at,
                 head |-> h.hash, count |-> Len(x.todo)]
    /\ UNCHANGED <<rows, seals, members, w, written, damaged>>

(* seal(): read the head ... *)
SealHead ==
    /\ ~damaged /\ x.pc = "seal" /\ x.todo # <<>>
    /\ LET h == head(rows[Head(x.todo)])
       IN  x' = [pc |-> "sealing", key |-> x.key, team |-> x.team,
                 todo |-> x.todo, own |-> x.own, got |-> x.got, at |-> x.at,
                 head |-> h.hash, count |-> h.seq]
    /\ UNCHANGED <<rows, seals, members, w, written, damaged>>

MutSealWrite ==
    /\ ~damaged /\ x.pc = "sealing"
    /\ LET s == Head(x.todo)
       IN  /\ seals' = IF seals[s] = NoSeal THEN [seals EXCEPT ![s] =
                           [head |-> x.head, count |-> x.count, key |-> x.key]]
                       ELSE seals
           /\ x' = [pc |-> IF x.team THEN "seal" ELSE "events", key |-> x.key,
                    team |-> x.team,
                    todo |-> IF x.team THEN Tail(x.todo) ELSE x.todo,
                    own |-> x.own, got |-> x.got, at |-> x.at]
    /\ UNCHANGED <<rows, members, w, written, damaged>>

(* ... and INSERT OR REPLACE the seal row. *)
SealWrite ==
    /\ ~damaged /\ x.pc = "sealing"
    /\ seals' = [seals EXCEPT ![Head(x.todo)] =
                    [head |-> x.head, count |-> x.count, key |-> x.key]]
    /\ x' = [pc |-> IF x.team THEN "seal" ELSE "events", key |-> x.key,
             team |-> x.team, todo |-> IF x.team THEN Tail(x.todo) ELSE x.todo,
             own |-> x.own, got |-> x.got, at |-> x.at]
    /\ UNCHANGED <<rows, members, w, written, damaged>>

(* build_team_bundle asks for the members again. *)
BuildTeam ==
    /\ ~damaged /\ x.pc = "seal" /\ x.todo = <<>>
    /\ x' = [x EXCEPT !.pc = "events", !.todo = members]
    /\ UNCHANGED <<rows, seals, members, w, written, damaged>>

(* _read_session_events *)
ReadEvents ==
    /\ ~damaged /\ x.pc = "events" /\ x.todo # <<>>
    /\ x' = [x EXCEPT !.pc = "readseal", !.got = Append(@,
                [session |-> Head(x.todo), events |-> rows[Head(x.todo)],
                 seal |-> NoSeal])]
    /\ UNCHANGED <<rows, seals, members, w, written, damaged>>

(* _read_seal; after the last session the zip is written with its hmac. *)
ReadSeal ==
    /\ ~damaged /\ x.pc = "readseal"
    /\ x' = [x EXCEPT !.pc = IF Len(x.todo) = 1 THEN "done" ELSE "events",
                      !.todo = Tail(@),
                      !.got[Len(x.got)].seal = seals[Head(x.todo)]]
    /\ UNCHANGED <<rows, seals, members, w, written, damaged>>

ExportAgain == /\ ~damaged /\ x.pc = "done" /\ x' = Idle
               /\ UNCHANGED <<rows, seals, members, w, written, damaged>>

(***************************************************************************)
(* Damage to the stored rows of one session, at rest: one changed event,   *)
(* one lost row, one changed seq, two rows exchanged.  The program takes   *)
(* no further step; what matters is what the verifiers then say.           *)
(***************************************************************************)
Changed(rs, n, e) == [rs EXCEPT ![n].event = e]
Exchanged(rs, n, m) == [rs EXCEPT ![n].event = rs[m].event, ![n].hash = rs[m].hash,
                                  ![m].event = rs[n].event, ![m].hash = rs[n].hash]
Damages(rs) ==
    {Changed(rs, n, e) : n \in DOMAIN rs, e \in Texts}
    \cup {RemoveAt(rs, n) : n \in DOMAIN rs}
    \cup {[rs EXCEPT ![Len(rs)].seq = @ + 1] : n \in DOMAIN rs}
    \cup {Exchanged(rs, n, m) : n \in DOMAIN rs, m \in DOMAIN rs}

Damage(s) ==
    /\ x = Idle /\ \A a \in Writers : w[a] = Idle
    /\ ~damaged /\ damaged' = TRUE
    /\ \E rs \in Damages(rows[s]) : rows' = [rows EXCEPT ![s] = rs]
    /\ UNCHANGED <<seals, members, w, x, written>>

Next ==
    \/ \E a \in Writers, s \in Sessions, v \in Values : AppendHead(a, s, v)
    \/ \E a \in Writers : AppendInsert(a)
    \/ \E s \in Sessions : Join(s) \/ Damage(s)
    \/ \E k \in Keys : ExportTeam(k)
    \/ \E k \in Keys, s \in Sessions, b \in BOOLEAN : ExportSession(k, s, b)
    \/ SealHead \/ SealWrite \/ BuildTeam \/ ReadEvents \/ ReadSeal \/ ExportAgain

Spec == Init /\ [][Next]_vars

(***************************************************************************)
(* The two verifiers, as predicates on what is stored.                     *)
(***************************************************************************)
prev_hash(rs, n) == IF n = 1 THEN GENESIS ELSE rs[n - 1].hash

(* Ledger.verify() parses each event and hashes its canonical form again. *)
chain_ok(rs) ==
    \A n \in DOMAIN rs :
        /\ rs[n].seq = n
        /\ rs[n].event.form # "garbled"
        /\ rs[n].hash = chain_hash(prev_hash(rs, n), canonical(rs[n].event.val))

verify(rs, seal, key) ==
    /\ chain_ok(rs)
    /\ seal # NoSeal =>
        /\ seal.head = head(rs).hash /\ seal.count = Len(rs)
        /\ key # NoKey => seal.key = key

(* The standalone verifier hashes the stored text as it is. *)
recompute_chain(rs) ==
    \A n \in DOMAIN rs :
        /\ rs[n].seq = n
        /\ rs[n].hash = chain_hash(prev_hash(rs, n), rs[n].event)

seal_ok(rs, seal, key) ==
    seal # NoSeal => /\ seal.head = head(rs).hash /\ seal.count = Len(rs)
                     /\ seal.key = key

(* verify_bundle_obj and _verify_team_bundle on an unedited bundle. *)
verify_bundle(got, key) ==
    \A i \in DOMAIN got :
        recompute_chain(got[i].events) /\ seal_ok(got[i].events, got[i].seal, key)

-----------------------------------------------------------------------------
(* Types. *)
Hashes == Seq(Texts)
RowType == [seq: Nat, event: Texts, hash: Hashes]

(* However the head reads and inserts of several writers interleave, the    *)
(* chain that append() leaves behind is one Ledger.verify() accepts: no     *)
(* gap, no duplicate seq, every hash over the hash before it.               *)
ChainIntact == ~damaged => \A s \in Sessions : verify(rows[s], NoSeal, NoKey)

(* No step of the program drops or rewrites a row: the ledger of every      *)
(* session only grows at its end, also when two writers race for one seq.   *)
AppendOnly == [][~damaged' => \A s \in Sessions : IsPrefix(rows[s], rows'[s])]_vars

(* A seal always describes a prefix the session really had: seal() may be   *)
(* overtaken by appends between its two statements but never attests to a   *)
(* head and a count that did not exist together.                            *)
SealIsOfThePast ==
    ~damaged => \A s \in Sessions : seals[s] # NoSeal =>
        /\ seals[s].count <= Len(rows[s])
        /\ seals[s].head = prev_hash(rows[s], seals[s].count + 1)

(* What verify() promises about damage: a ledger it accepts is a prefix of  *)
(* what was appended, value by value, and no row that the seal counted is   *)
(* missing from it.  (A lost tail of rows no seal counts cannot be seen.)   *)
Content(rs) == [n \in DOMAIN rs |-> <<rs[n].seq, rs[n].event.val, rs[n].hash>>]
TamperEvident ==
    \A s \in Sessions : verify(rows[s], seals[s], NoKey) =>
        /\ IsPrefix(Content(rows[s]), Content(written[s]))
        /\ Len(rows[s]) >= seals[s].count

(* A finished bundle of an undamaged ledger is history: it lacks no event   *)
(* that was there when the export started, and its chains recompute.  It    *)
(* verifies under its key unless it was overtaken by an append to one of    *)
(* its sessions, or holds an older seal, of another key or over fewer rows, *)
(* of a session it did not seal itself (exported without --seal, or joined  *)
(* the team after the seals were made).                                     *)
BundleIsHistory ==
    x.pc = "done" /\ ~damaged =>
        /\ \A i \in DOMAIN x.got :
              LET s == x.got[i].session
              IN  /\ recompute_chain(x.got[i].events)
                  /\ IsPrefix(x.got[i].events, rows[s])
                  /\ Len(x.got[i].events) >= x.at[s]
        /\ \/ verify_bundle(x.got, x.key)
           \/ \E i \in DOMAIN x.got :
                LET s == x.got[i].session
                    g == x.got[i]
                IN  \/ Len(rows[s]) > x.at[s]
                    \/ /\ s \notin ToSet(x.own)
                       /\ g.seal.key # x.key \/ g.seal.count < Len(g.events)
=============================================================================
