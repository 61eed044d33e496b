-------------------------------- MODULE Seats --------------------------------
(***************************************************************************)
(* Licence seats (scr/seats.py): acquire looks the subject up, counts the  *)
(* holders and inserts, three statements on the shared tenant database.    *)
(* SeatManager has no lock, and the threads of a process share a           *)
(* connection (Store.__init__), so each of them races as another process   *)
(* does.                                                                   *)
(***************************************************************************)
EXTENDS Naturals, FiniteSets

CONSTANTS
    Subjects,
    Threads,        \* threads that are in acquire or release, of any process
    seats           \* the licence's seat count

ASSUME SeatsAssumption == IsFiniteSet(Subjects) /\ IsFiniteSet(Threads) /\ Threads # {} /\ seats \in Nat

VARIABLES
    seat_holders,   \* the table: subjects that hold a seat
    m               \* per thread: pc and the subject it is acquiring for

vars == <<seat_holders, m>>
Idle == [pc |-> "idle"]
active == Cardinality(seat_holders)

Init == seat_holders = {} /\ m = [k \in Threads |-> Idle]

holds(k, s) ==
    /\ m[k] = Idle
    /\ m' = [m EXCEPT ![k] = IF s \in seat_holders THEN Idle ELSE [pc |-> "count", subject |-> s]]
    /\ UNCHANGED seat_holders

MutCount(k) ==
    /\ m[k].pc = "count"
    /\ m' = [m EXCEPT ![k] = IF active > seats THEN Idle ELSE [@ EXCEPT !.pc = "insert"]]
    /\ UNCHANGED seat_holders

(* SeatsExhausted, or go on to insert. *)
Count(k) ==
    /\ m[k].pc = "count"
    /\ m' = [m EXCEPT ![k] = IF active >= seats THEN Idle ELSE [@ EXCEPT !.pc = "insert"]]
    /\ UNCHANGED seat_holders

Insert(k) ==
    /\ m[k].pc = "insert"
    /\ seat_holders' = seat_holders \cup {m[k].subject} /\ m' = [m EXCEPT ![k] = Idle]

release(k, s) ==
    /\ m[k] = Idle /\ s \in seat_holders
    /\ seat_holders' = seat_holders \ {s} /\ UNCHANGED m

Next == \E k \in Threads : Count(k) \/ Insert(k) \/ \E s \in Subjects : holds(k, s) \/ release(k, s)
Spec == Init /\ [][Next]_vars

-----------------------------------------------------------------------------
Inserting == {k \in Threads : m[k].pc = "insert"}

(* Type invariant. *)
TypeOK ==
    /\ seat_holders \subseteq Subjects
    /\ m \in [Threads -> {Idle} \cup [pc: {"count", "insert"}, subject: Subjects]]

(* Racing threads overshoot the licence by at most the number of threads   *)
(* less one, counting the inserts that are on their way behind a count     *)
(* that may be stale by now.                                               *)
OvershootBounded == active + Cardinality(Inserting) <= seats + Cardinality(Threads) - 1
=============================================================================
