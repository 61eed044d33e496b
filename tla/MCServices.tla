----------------------------- MODULE MCServices -----------------------------
(***************************************************************************)
(* Services around the kernel for TLC: licence seats (Seats), sandboxed    *)
(* workers and their cancel (Sandbox), the fallback chain of model         *)
(* adapters (Breaker) and schema migrations (Migrations).  They share no   *)
(* state: part says which one a behaviour runs, and the others stay where  *)
(* they start.                                                             *)
(***************************************************************************)
EXTENDS Seats

CONSTANTS
    Calls,
    N, Callers, Threshold, Cooldown, MaxFailures,
    Versions, Autos, Target, MaxFails, MaxCrashes

VARIABLES
    part,
    pc, leader, child, _killed, status, result, _live, flag, can, todo, marked, snap,
    state, _failures, left, up, at, out, outcome,
    auto, torn, disk, txn, inTxn, snaps, mpc, cur, half, fails, crashes

sandbox == <<pc, leader, child, _killed, status, result, _live, flag, can, todo, marked, snap>>
breaker == <<state, _failures, left, up, at, out, outcome>>
migrations == <<auto, torn, disk, txn, inTxn, snaps, mpc, cur, half, fails, crashes>>

S == INSTANCE Sandbox
B == INSTANCE Breaker
M == INSTANCE Migrations WITH pc <- mpc

(* Versions and the target are numbers (migrations.py sorts and compares    *)
(* them).                                                                   *)
ASSUME ServicesAssumption == Target \in Nat /\ \A v \in Versions : v \in Nat

(* The transactional migrations alone, or one that commits as it goes: in   *)
(* the middle, at the target, beyond it.                                    *)
MCAutos == {{}, {2}, {4}, {5}}

MCInit ==
    /\ part \in {"seats", "sandbox", "breaker", "migrations"}
    /\ Init /\ S!Init
    /\ part # "breaker" => up = [a \in 1 .. N |-> TRUE]
    /\ B!Init
    /\ part # "migrations" => auto = {} /\ disk = M!Migrated(0)
    /\ M!Init

MCNext ==
    \/ part = "seats" /\ Next /\ UNCHANGED <<part, sandbox, breaker, migrations>>
    \/ part = "sandbox" /\ S!Next /\ UNCHANGED <<part, vars, breaker, migrations>>
    \/ part = "breaker" /\ B!Next /\ UNCHANGED <<part, vars, sandbox, migrations>>
    \/ part = "migrations" /\ M!Next /\ UNCHANGED <<part, vars, sandbox, breaker>>

(* The fairness of Breaker: time passes, callers go on calling. *)
Fairness ==
    /\ WF_breaker(part = "breaker" /\ B!Tick)
    /\ \A c \in Callers : WF_breaker(part = "breaker" /\ B!Step(c))

MCSpec == MCInit /\ [][MCNext]_<<part, vars, sandbox, breaker, migrations>> /\ Fairness

-----------------------------------------------------------------------------

(* run_worker's answer is true: a timed-out worker and what it started are  *)
(* dead, and a crash is not a cancel; kill_all leaves no worker running     *)
(* that was registered when it looked.                                      *)
WorkersAreAccounted == S!WorkersAreAccounted

(* The primary's breaker closes for good once the primary is up for good.   *)
PrimaryRecovers == B!PrimaryRecovers

(* migrate leaves a database with exactly the changes its version names,    *)
(* unless a crash fell into a migration that commits as it goes.            *)
NeverHalfMigrated == M!NeverHalfMigrated
=============================================================================
