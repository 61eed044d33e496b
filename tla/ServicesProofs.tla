--------------------------- MODULE ServicesProofs ---------------------------
(***************************************************************************)
(* Proofs about the parts of MCServices, for any values of their           *)
(* constants: licence seats, schema migrations, and sandboxed workers with *)
(* their cancel.  Each part has an inductive invariant of its own; a step  *)
(* of another part leaves its variables alone.                             *)
(***************************************************************************)
EXTENDS MCServices, FiniteSetTheorems, TLAPS

-----------------------------------------------------------------------------
(***************************************************************************)
(* Seats.  The bound on the overshoot is inductive together with the type  *)
(* invariant: only a count below the licence adds a pending insert, and at *)
(* most all threads have one.                                              *)
(***************************************************************************)
Inv == TypeOK /\ OvershootBounded

(* The holders and the pending inserts are finite sets, so counting them   *)
(* (active, Inserting) gives naturals.                                     *)
LEMMA Finite ==
    ASSUME TypeOK
    PROVE  /\ IsFiniteSet(seat_holders) /\ active \in Nat
           /\ IsFiniteSet(Inserting) /\ Cardinality(Inserting) \in Nat
           /\ Cardinality(Threads) \in Nat /\ Cardinality(Inserting) <= Cardinality(Threads)
<1>1. IsFiniteSet(seat_holders)
  BY SeatsAssumption, FS_Subset, Zenon DEF TypeOK
<1>2. Inserting \subseteq Threads
  BY Zenon DEF Inserting
<1>3. IsFiniteSet(Inserting) /\ Cardinality(Inserting) <= Cardinality(Threads)
  BY <1>2, SeatsAssumption, FS_Subset, Zenon
<1> QED
  BY <1>1, <1>3, SeatsAssumption, FS_CardinalityType, Zenon DEF active

(* No statement of acquire or release leaves the types. *)
LEMMA TypeStep == TypeOK /\ [Next]_vars => TypeOK'
<1> SUFFICES ASSUME TypeOK, [Next]_vars PROVE TypeOK'
  BY Zenon
<1>1. ASSUME NEW k \in Threads, NEW s \in Subjects, holds(k, s) PROVE TypeOK'
  BY <1>1, Zenon DEF TypeOK, holds
<1>2. ASSUME NEW k \in Threads, Count(k) PROVE TypeOK'
  <2>1. m[k] \in [pc: {"count", "insert"}, subject: Subjects]
    BY <1>2 DEF TypeOK, Count, Idle
  <2>2. [m[k] EXCEPT !.pc = "insert"] \in [pc: {"count", "insert"}, subject: Subjects]
    BY <2>1, Zenon
  <2> QED
    BY <1>2, <2>2, Zenon DEF TypeOK, Count
<1>3. ASSUME NEW k \in Threads, Insert(k) PROVE TypeOK'
  <2>1. m[k].subject \in Subjects
    BY <1>3 DEF TypeOK, Insert, Idle
  <2> QED
    BY <1>3, <2>1, Zenon DEF TypeOK, Insert
<1>4. ASSUME NEW k \in Threads, NEW s \in Subjects, release(k, s) PROVE TypeOK'
  BY <1>4, Zenon DEF TypeOK, release
<1>5. CASE UNCHANGED vars
  BY <1>5, Zenon DEF TypeOK, vars
<1> QED
  BY <1>1, <1>2, <1>3, <1>4, <1>5, Zenon DEF Next

(* However the lookups, counts and inserts of acquire interleave, no       *)
(* statement breaks the bound on the overshoot.                            *)
LEMMA BoundStep == Inv /\ [Next]_vars => OvershootBounded'
<1> SUFFICES ASSUME Inv, [Next]_vars PROVE OvershootBounded'
  BY Zenon
<1> USE DEF Inv
<1>t. TypeOK'
  BY TypeStep, Zenon
<1>f. /\ IsFiniteSet(seat_holders) /\ Cardinality(seat_holders) \in Nat
      /\ IsFiniteSet(Inserting) /\ Cardinality(Inserting) \in Nat
      /\ Cardinality(Threads) \in Nat
  BY Finite, Zenon DEF active
<1>g. /\ IsFiniteSet(seat_holders') /\ Cardinality(seat_holders') \in Nat
      /\ IsFiniteSet(Inserting') /\ Cardinality(Inserting') \in Nat
      /\ Cardinality(Inserting') <= Cardinality(Threads)
  <2>1. IsFiniteSet(seat_holders')
    BY <1>t, SeatsAssumption, FS_Subset, Zenon DEF TypeOK
  <2>2. Inserting' \subseteq Threads
    BY Zenon DEF Inserting
  <2>3. IsFiniteSet(Inserting') /\ Cardinality(Inserting') <= Cardinality(Threads)
    BY <2>2, SeatsAssumption, FS_Subset, Zenon
  <2> QED
    BY <2>1, <2>3, FS_CardinalityType, Zenon
<1>n. seats \in Nat
  BY SeatsAssumption, Zenon
<1>b. Cardinality(seat_holders) + Cardinality(Inserting) <= seats + Cardinality(Threads) - 1
  BY Zenon DEF OvershootBounded, active
<1>s. SUFFICES Cardinality(seat_holders') + Cardinality(Inserting')
                 <= seats + Cardinality(Threads) - 1
  BY Zenon DEF OvershootBounded, active
<1>1. ASSUME NEW k \in Threads, NEW s \in Subjects, holds(k, s)
      PROVE  seat_holders' = seat_holders /\ Inserting' = Inserting
  BY <1>1 DEF TypeOK, holds, Inserting, Idle
<1>2. ASSUME NEW k \in Threads, Count(k)
      PROVE  /\ seat_holders' = seat_holders
             /\ Inserting' = Inserting \/ Cardinality(seat_holders) < seats
  BY <1>2, <1>f, <1>n DEF TypeOK, Count, Inserting, Idle, active
<1>3. ASSUME NEW k \in Threads, Insert(k)
      PROVE  /\ Cardinality(seat_holders') <= Cardinality(seat_holders) + 1
             /\ Cardinality(Inserting') = Cardinality(Inserting) - 1
  <2>1. seat_holders' = seat_holders \cup {m[k].subject}
    BY <1>3, Zenon DEF Insert
  <2>2. Inserting' = Inserting \ {k} /\ k \in Inserting
    BY <1>3, Zenon DEF TypeOK, Insert, Inserting, Idle
  <2>3. Cardinality(seat_holders') <= Cardinality(seat_holders) + 1
    <3> DEFINE x == m[k].subject
    <3> HIDE DEF x
    <3>1. Cardinality(seat_holders \cup {x}) =
            IF x \in seat_holders THEN Cardinality(seat_holders) ELSE Cardinality(seat_holders) + 1
      BY <1>f, FS_AddElement, Zenon
    <3>2. Cardinality(seat_holders) \in Nat
      BY <1>f, FS_CardinalityType, Zenon
    <3>3. Cardinality(seat_holders \cup {x}) <= Cardinality(seat_holders) + 1
      BY <3>1, <3>2
    <3> QED
      BY <2>1, <3>3, Zenon DEF x
  <2>4. Cardinality(Inserting') = Cardinality(Inserting) - 1
    BY <2>2, <1>f, FS_RemoveElement, Zenon
  <2> QED
    BY <2>3, <2>4, Zenon
<1>4. ASSUME NEW k \in Threads, NEW s \in Subjects, release(k, s)
      PROVE  Cardinality(seat_holders') <= Cardinality(seat_holders) /\ Inserting' = Inserting
  <2>1. seat_holders' = seat_holders \ {s} /\ Inserting' = Inserting
    BY <1>4, Zenon DEF release, Inserting
  <2> QED
    BY <2>1, <1>f, FS_Subset, Zenon
<1>5. CASE UNCHANGED vars
  BY <1>5, <1>b, Zenon DEF vars, Inserting
<1>6. CASE Next
  <2>1. \/ \E k \in Threads, s \in Subjects : holds(k, s) \/ release(k, s)
        \/ \E k \in Threads : Count(k) \/ Insert(k)
    BY <1>6, Zenon DEF Next
  <2> QED
    BY <2>1, <1>1, <1>2, <1>3, <1>4, <1>b, <1>f, <1>g, <1>n, SMTT(60)
<1> QED
  BY <1>5, <1>6, Zenon

(* acquire and release, run by any number of threads, keep the table and   *)
(* the overshoot within their bounds.                                      *)
THEOREM InvHolds == Spec => []Inv
<1>1. Init => Inv
  <2> SUFFICES ASSUME Init PROVE Inv
    BY Zenon
  <2>1. TypeOK
    BY Zenon DEF Init, TypeOK
  <2>2. Inserting = {}
    BY Zenon DEF Init, Inserting, Idle
  <2>3. active = 0 /\ Cardinality(Inserting) = 0
    BY <2>2, FS_EmptySet, Zenon DEF Init, active
  <2>4. Cardinality(Threads) \in Nat /\ Cardinality(Threads) # 0
    BY SeatsAssumption, FS_CardinalityType, FS_EmptySet, Zenon
  <2>5. OvershootBounded
    BY <2>3, <2>4, SeatsAssumption DEF OvershootBounded
  <2> QED
    BY <2>1, <2>5, Zenon DEF Inv
<1>2. Inv /\ [Next]_vars => Inv'
  BY TypeStep, BoundStep, Zenon DEF Inv
<1> QED
  BY <1>1, <1>2, PTL DEF Spec

(* seats.py, acquire: n racing threads admit at most n - 1 holders more    *)
(* than the licence has seats.                                             *)
THEOREM Overshoot == Spec => []OvershootBounded
BY InvHolds, PTL DEF Inv

-----------------------------------------------------------------------------
(* A step of the composition is a step of a part or leaves it alone.       *)
LEMMA PartSteps ==
    [MCNext]_<<part, vars, sandbox, breaker, migrations>>
        => [Next]_vars /\ [S!Next]_S!vars /\ [M!Next]_M!vars
<1>1. /\ UNCHANGED sandbox => UNCHANGED S!vars
      /\ UNCHANGED migrations => UNCHANGED M!vars
  BY Zenon DEF sandbox, migrations, S!vars, S!call, S!cancel, M!vars, M!bounds
<1> QED BY <1>1, Zenon DEF MCNext

-----------------------------------------------------------------------------
(***************************************************************************)
(* Migrations.  While a migration runs, its snapshot is the database as it *)
(* was, fully migrated to the version before; what the transaction sees is *)
(* the snapshot and the changes made so far, and disk is the snapshot      *)
(* until a migration that commits as it goes has made a change.            *)
(***************************************************************************)
Midway == {"begin", "apply", "version", "commit", "undo"}
Made(k) == {h \in M!Halves : h <= k}

(* d is the database the migration to version v starts from. *)
Before(d, v) ==
    /\ v \in Versions /\ d.version \in Versions \cup {0} /\ d.version < v
    /\ d = M!Migrated(d.version)
    /\ \A w \in Versions : w <= d.version \/ v <= w

(* What the open transaction sees. *)
Seen(d) ==
    /\ cur \in auto => half = 0
    /\ txn = [version |-> IF mpc = "commit" THEN cur ELSE d.version,
              done |-> d.done \cup ({cur} \X Made(half))]

MigrationsInv == ~torn =>
    /\ mpc \in {"idle", "next", "raised", "done"} \cup Midway
    /\ snaps = [v \in Versions |-> snaps[v]] /\ half \in M!Halves \cup {0}
    /\ mpc \notin Midway =>
        disk.version \in Versions \cup {0} /\ disk = M!Migrated(disk.version)
    /\ mpc \in Midway =>
        /\ Before(snaps[cur], cur)
        /\ cur \notin auto \/ half = 0 => disk = snaps[cur]
        /\ mpc \in {"apply", "version", "commit"} /\ inTxn => Seen(snaps[cur])
        /\ mpc \in {"apply", "version", "commit"} /\ cur \notin auto => inTxn
    /\ mpc = "begin" => half = 0
    /\ mpc = "apply" => half < 2
    /\ mpc \in {"version", "commit"} => half = 2

(* Changes are pairs. *)
LEMMA ChangeIs ==
    ASSUME NEW c \in M!Changes
    PROVE  c = <<c[1], c[2]>> /\ c[1] \in Versions /\ c[2] \in M!Halves /\ c[1] \in Nat
<1>1. \A S1, S2 : \A x \in S1 \X S2 : x = <<x[1], x[2]>> /\ x[1] \in S1 /\ x[2] \in S2
  OBVIOUS
<1>2. c = <<c[1], c[2]>> /\ c[1] \in Versions /\ c[2] \in M!Halves
  BY <1>1, Zenon DEF M!Changes
<1> QED BY <1>2, ServicesAssumption, Zenon

(* A database at a version it has in full, after the next migration. *)
LEMMA NextVersion ==
    ASSUME NEW d, NEW v, Before(d, v)
    PROVE  [version |-> v, done |-> d.done \cup ({v} \X Made(2))] = M!Migrated(v)
<1>0. v \in Versions /\ d.version \in Versions \cup {0} /\ d.version < v
  BY Zenon DEF Before
<1>1. v \in Nat /\ d.version \in Nat /\ v \in Versions /\ d.version < v
  <2>1. 0 \in Nat
    BY Zenon
  <2> QED BY <1>0, <2>1, ServicesAssumption, Zenon
<1>2. d.done = {c \in M!Changes : c[1] <= d.version}
  BY DEF Before, M!Migrated
<1>3. Made(2) = M!Halves
  BY DEF Made, M!Halves
<1>4. {c \in M!Changes : c[1] <= v} = d.done \cup ({v} \X M!Halves)
  <2>1. ASSUME NEW c \in M!Changes, c[1] <= v PROVE c \in d.done \cup ({v} \X M!Halves)
    <3>1. c[1] \in Versions /\ c[2] \in M!Halves /\ c = <<c[1], c[2]>> /\ c[1] \in Nat
      BY ChangeIs, Zenon
    <3>2. c[1] <= d.version \/ v <= c[1]
      BY <3>1, Zenon DEF Before
    <3> QED BY <1>1, <1>2, <2>1, <3>1, <3>2
  <2>2. ASSUME NEW c \in d.done PROVE c \in M!Changes /\ c[1] <= v
    <3>1. c \in M!Changes /\ c[1] <= d.version /\ c[1] \in Nat
      BY <1>2, ChangeIs, Zenon
    <3> QED BY <1>1, <3>1
  <2>3. ASSUME NEW c \in {v} \X M!Halves PROVE c \in M!Changes /\ c[1] <= v
    BY <1>1 DEF M!Changes
  <2> QED BY <1>2, <2>1, <2>2, <2>3, Zenon
<1> QED BY <1>3, <1>4, Zenon DEF M!Migrated

(* Every step of migrate(), and a crash, keeps this. *)
LEMMA MigrationsStep == MigrationsInv /\ [M!Next]_M!vars => MigrationsInv'
<1> SUFFICES ASSUME MigrationsInv, [M!Next]_M!vars, ~torn'
             PROVE  MigrationsInv'
  BY Zenon DEF MigrationsInv
<1> USE ServicesAssumption DEF M!bounds, M!Halves, Midway
<1>1. ~torn
  BY Zenon DEF M!Next, M!vars, M!migrate, M!AllApplied, M!Begin, M!apply, M!SetVersion, M!Commit, M!Raise,
         M!_restore, M!Crash, M!_snapshot
<1>2. CASE UNCHANGED M!vars
  BY <1>2, Zenon DEF M!vars, MigrationsInv, Seen, M!Migrated, M!Changes
<1>3. CASE M!migrate \/ M!AllApplied
  BY <1>1, <1>3, Zenon DEF M!migrate, M!AllApplied, MigrationsInv
<1>4. ASSUME NEW v \in Versions, M!_snapshot(v) PROVE MigrationsInv'
  <2>1. /\ mpc = "next" /\ v \in M!Pending /\ \A w \in M!Pending : v <= w
        /\ snaps' = [snaps EXCEPT ![v] = disk] /\ cur' = v /\ half' = 0 /\ mpc' = "begin"
        /\ UNCHANGED <<disk, txn, inTxn, auto, torn>>
    BY <1>4, Zenon DEF M!_snapshot
  <2>2. disk.version \in Versions \cup {0} /\ disk = M!Migrated(disk.version)
    BY <1>1, <2>1, Zenon DEF MigrationsInv
  <2>3. snaps' = [x \in Versions |-> snaps'[x]] /\ snaps'[v] = disk
    BY <1>1, <2>1, Zenon DEF MigrationsInv
  <2>4. disk.version < v /\ \A w \in Versions : w <= disk.version \/ v <= w
    <3>1. disk.version \in Nat /\ v \in Nat
      <4>1. 0 \in Nat
        BY Zenon
      <4> QED BY <2>2, <4>1, ServicesAssumption, Zenon
    <3>2. disk.version < v /\ v <= Target /\ \A w \in Versions : disk.version < w /\ w <= Target => v <= w
      BY <2>1, Zenon DEF M!Pending
    <3>3. \A d, t, w \in Nat : d < v /\ v <= t /\ (d < w /\ w <= t => v <= w) => (w <= d \/ v <= w)
      BY <3>1
    <3> QED BY <3>1, <3>2, <3>3, ServicesAssumption, Zenon
  <2>5. Before(disk, v)
    BY <2>2, <2>4, Zenon DEF Before
  <2> QED BY <1>1, <2>1, <2>3, <2>5, Zenon DEF MigrationsInv, Before, M!Migrated, M!Changes
<1>5. CASE M!Begin
  <2>1. mpc = "begin" /\ txn' = disk /\ inTxn' /\ mpc' = "apply" /\ UNCHANGED <<disk, snaps, cur, half, auto>>
    BY <1>5, Zenon DEF M!Begin
  <2>2. Before(snaps[cur], cur) /\ half = 0 /\ disk = snaps[cur]
    BY <1>1, <2>1, Zenon DEF MigrationsInv
  <2>3. Made(0) = {} /\ disk = [version |-> disk.version, done |-> disk.done]
    BY <2>2 DEF Made, Before, M!Migrated
  <2>4. Seen(snaps[cur])'
    BY <2>1, <2>2, <2>3, Zenon DEF Seen, Made
  <2> QED BY <1>1, <2>1, <2>2, <2>4 DEF MigrationsInv, Before, M!Migrated, M!Changes
<1>6. CASE M!apply
  <2>1. /\ mpc = "apply" /\ half' = half + 1 /\ UNCHANGED <<snaps, cur, auto>>
        /\ M!Write([txn EXCEPT !.done = @ \cup {<<cur, half'>>}], inTxn /\ cur \notin auto)
        /\ mpc' = IF half' = 2 THEN "version" ELSE "apply"
    BY <1>6, Zenon DEF M!apply
  <2>2. Before(snaps[cur], cur) /\ half \in {0, 1} /\ half' \in {1, 2}
    BY <1>1, <2>1 DEF MigrationsInv
  <2>3. ASSUME cur \notin auto PROVE disk' = snaps[cur] /\ inTxn'
    BY <1>1, <2>1, <2>3, Zenon DEF MigrationsInv, M!Write
  <2>4. ASSUME inTxn' PROVE cur \notin auto /\ inTxn
    BY <2>1, <2>4, Zenon DEF M!Write
  <2>5. ASSUME inTxn' PROVE Seen(snaps[cur])'
    <3>1. txn = [version |-> snaps[cur].version, done |-> snaps[cur].done \cup ({cur} \X Made(half))]
      BY <1>1, <2>1, <2>4, <2>5, Zenon DEF MigrationsInv, Seen
    <3>2. txn' = [txn EXCEPT !.done = @ \cup {<<cur, half'>>}]
      BY <2>1, Zenon DEF M!Write
    <3>3. Made(half') = Made(half) \cup {half'}
      BY <2>1, <2>2 DEF Made
    <3>5. ({cur} \X Made(half)) \cup {<<cur, half'>>} = {cur} \X Made(half')
      BY <3>3
    <3>4. txn' = [version |-> snaps[cur].version, done |-> snaps[cur].done \cup ({cur} \X Made(half'))]
      BY <3>1, <3>2, <3>5, Zenon
    <3> QED BY <2>1, <2>2, <2>4, <2>5, <3>4, Zenon DEF Seen, Made
  <2> QED BY <1>1, <2>1, <2>2, <2>3, <2>5 DEF MigrationsInv, Before, M!Migrated, M!Changes
<1>7. CASE M!SetVersion
  <2>1. /\ mpc = "version" /\ mpc' = "commit" /\ M!Write([txn EXCEPT !.version = cur], inTxn)
        /\ UNCHANGED <<snaps, cur, half, auto>>
    BY <1>7, Zenon DEF M!SetVersion
  <2>2. Before(snaps[cur], cur) /\ half = 2
    BY <1>1, <2>1, Zenon DEF MigrationsInv
  <2>3. ASSUME inTxn PROVE Seen(snaps[cur])' /\ disk' = disk
    <3>1. /\ txn = [version |-> snaps[cur].version, done |-> snaps[cur].done \cup ({cur} \X Made(half))]
          /\ cur \notin auto
      BY <1>1, <2>1, <2>2, <2>3 DEF MigrationsInv, Seen
    <3>2. txn' = [version |-> cur, done |-> snaps[cur].done \cup ({cur} \X Made(half))]
      BY <2>1, <3>1, Zenon DEF M!Write
    <3> QED BY <2>1, <2>3, <3>1, <3>2, Zenon DEF Seen, Made, M!Write
  <2>4. inTxn' = inTxn
    BY <2>1, Zenon DEF M!Write
  <2> QED BY <1>1, <2>1, <2>2, <2>3, <2>4 DEF MigrationsInv, Before, M!Migrated, M!Changes
<1>8. CASE M!Commit
  <2>1. mpc = "commit" /\ inTxn /\ disk' = txn /\ mpc' = "next" /\ UNCHANGED <<cur, half>>
        /\ snaps' = [snaps EXCEPT ![cur] = M!NoSnap]
    BY <1>8, Zenon DEF M!Commit, M!_cleanup
  <2>2. Before(snaps[cur], cur) /\ half = 2 /\ Seen(snaps[cur])
    BY <1>1, <2>1, Zenon DEF MigrationsInv
  <2>3. txn = M!Migrated(cur)
    BY <2>1, <2>2, NextVersion, Zenon DEF Seen
  <2>4. disk'.version = cur /\ disk' = M!Migrated(cur) /\ cur \in Versions
    BY <2>1, <2>2, <2>3, Zenon DEF M!Migrated, Before
  <2> QED BY <1>1, <2>1, <2>4, Zenon DEF MigrationsInv, M!Migrated, M!Changes
<1>9. CASE M!Raise
  <2>1. mpc \in {"apply", "version", "commit"} /\ mpc' = "undo" /\ UNCHANGED <<disk, snaps, cur, half, auto>>
    BY <1>9, Zenon DEF M!Raise
  <2> QED BY <1>1, <2>1, Zenon DEF MigrationsInv, Before, M!Migrated, M!Changes
<1>10. CASE M!_restore
  <2>1. mpc = "undo" /\ disk' = snaps[cur] /\ mpc' = "raised" /\ UNCHANGED <<cur, half>>
        /\ snaps' = [snaps EXCEPT ![cur] = M!NoSnap]
    BY <1>10, Zenon DEF M!_restore, M!_cleanup
  <2>2. Before(snaps[cur], cur)
    BY <1>1, <2>1, Zenon DEF MigrationsInv
  <2> QED BY <1>1, <2>1, <2>2, Zenon DEF MigrationsInv, Before, M!Migrated, M!Changes
<1>11. CASE M!Crash
  <2>1. mpc' = "idle" /\ half' = 0 /\ ~(cur \in auto /\ half > 0) /\ UNCHANGED <<disk, snaps, auto>>
    BY <1>11, Zenon DEF M!Crash
  <2>2. mpc \in Midway => disk = snaps[cur] /\ Before(snaps[cur], cur)
    BY <1>1, <2>1 DEF MigrationsInv
  <2> QED BY <1>1, <2>1, <2>2, Zenon DEF MigrationsInv, Before, M!Migrated, M!Changes
<1> QED BY <1>2, <1>3, <1>4, <1>5, <1>6, <1>7, <1>8, <1>9, <1>10, <1>11, Zenon DEF M!Next

(* migrate(), for any set of migrations, target, failures and crashes: at  *)
(* rest the version says exactly which changes the database has, unless a  *)
(* crash fell into a migration that commits as it goes.                    *)
THEOREM DatabasesAreWhole == MCSpec => []NeverHalfMigrated
<1>1. MCInit => MigrationsInv
  BY ServicesAssumption DEF MCInit, M!Init, MigrationsInv, M!Migrated, Midway, M!Halves
<1>2. MigrationsInv => NeverHalfMigrated
  BY Zenon DEF MigrationsInv, NeverHalfMigrated, M!NeverHalfMigrated, M!AtRest, Midway
<1> QED BY <1>1, <1>2, MigrationsStep, PartSteps, PTL DEF MCSpec

-----------------------------------------------------------------------------
(***************************************************************************)
(* Sandbox.  A worker runs only between its start and its reaping, and a   *)
(* worker that died of a signal is marked as killed before.                *)
(***************************************************************************)
SandboxTypes ==
    /\ pc \in [Calls -> {"idle", "start", "register", "wait", "unregister", "judge", "done"}]
    /\ leader \in [Calls -> {"none", "run", "exit0", "exit1", "dead"}]
    /\ child \in [Calls -> {"none", "run", "detached", "dead"}]
    /\ _killed \in [Calls -> BOOLEAN]
    /\ status \in [Calls -> {"none", "ok", "error", "killed", "timeout"}]
    /\ result \in [Calls -> {"none", "cancelled", "timeout", "worker_crash"} \cup S!Outputs]
    /\ _live \subseteq Calls /\ snap \subseteq Calls /\ todo \subseteq Calls /\ marked \subseteq Calls
    /\ can \in {"idle", "snapshot", "kill", "done"}

(* What is known of the worker of a call. *)
Worker(w) ==
    /\ pc[w] \in {"idle", "start"} <=> leader[w] = "none"
    /\ leader[w] = "none" => child[w] = "none"
    /\ leader[w] = "dead" => _killed[w]
    /\ S!Reaped(w) <=> status[w] # "none"
    /\ S!Reaped(w) => leader[w] # "run"
    /\ status[w] = "timeout" => child[w] \notin S!Alive
    /\ status[w] = "killed" => _killed[w]
    /\ status[w] = "ok" => leader[w] = "exit0"
    /\ status[w] = "error" => leader[w] \in {"exit1", "dead"}
    /\ result[w] = "timeout" => status[w] = "timeout"
    /\ result[w] = "worker_crash" => leader[w] = "exit1"
    /\ result[w] \in S!Outputs => leader[w] = "exit0"
    /\ result[w] # "none" => S!Reaped(w)

(* What kill_all has done so far. *)
Killer ==
    /\ \A w \in _live \cup snap : pc[w] \notin {"idle", "start", "register"}
    /\ \A w \in marked : _killed[w]
    /\ can \in {"kill", "done"} => \A w \in snap \ todo : leader[w] # "run"
    /\ can \in {"idle", "snapshot"} => snap = {}
    /\ can = "done" => todo = {}

SandboxInv == SandboxTypes /\ Killer /\ \A w \in Calls : Worker(w)

(* A step of call w that leaves the canceller alone. *)
Others(w) == \A v \in Calls \ {w} :
    /\ pc'[v] = pc[v] /\ leader'[v] = leader[v] /\ child'[v] = child[v] /\ _killed'[v] = _killed[v]
    /\ status'[v] = status[v] /\ result'[v] = result[v]

(* A step of one worker leaves what is known of the others. *)
LEMMA OthersKept ==
    ASSUME SandboxInv, NEW w \in Calls, Others(w), Worker(w)'
    PROVE  \A v \in Calls : Worker(v)'
<1> SUFFICES ASSUME NEW v \in Calls \ {w} PROVE Worker(v)'
  BY Zenon
<1> QED BY DEF SandboxInv, Worker, Others, S!Reaped, S!Alive, S!Outputs

(* Every step of run_worker, kill_all and the processes keeps this. *)
LEMMA SandboxStep == SandboxInv /\ [S!Next]_S!vars => SandboxInv'
<1> SUFFICES ASSUME SandboxInv, [S!Next]_S!vars PROVE SandboxInv'
  BY Zenon
<1> USE DEF S!call, S!cancel, S!None, S!Goto
<1>1. SandboxTypes /\ Killer
  BY Zenon DEF SandboxInv
<1>2. CASE UNCHANGED S!vars
  BY <1>2, Zenon DEF S!vars, SandboxInv, SandboxTypes, Killer, Worker, S!Reaped, S!Alive, S!Outputs
<1>3. ASSUME NEW w \in Calls, S!Begin(w) PROVE SandboxInv'
  <2>1. Worker(w)
    BY Zenon DEF SandboxInv
  <2>2. SandboxTypes'
    BY <1>1, <1>3, Zenon DEF SandboxTypes, S!Begin
  <2>3. Others(w)
    BY <1>1, <1>3, Zenon DEF SandboxTypes, Others, S!Begin
  <2>4. Worker(w)'
    BY <1>1, <2>1, <1>3, Zenon DEF SandboxTypes, Worker, S!Reaped, S!Alive, S!Outputs, S!Ended, S!Begin
  <2>5. Killer'
    BY <1>1, <2>1, <1>3, Zenon DEF SandboxTypes, Killer, Worker, S!Begin
  <2> QED BY <2>2, <2>3, <2>4, <2>5, OthersKept, Zenon DEF SandboxInv
<1>4. ASSUME NEW w \in Calls, S!start(w) PROVE SandboxInv'
  <2>1. Worker(w)
    BY Zenon DEF SandboxInv
  <2>2. SandboxTypes'
    BY <1>1, <1>4, Zenon DEF SandboxTypes, S!start
  <2>3. Others(w)
    BY <1>1, <1>4, Zenon DEF SandboxTypes, Others, S!start
  <2>4. Worker(w)'
    BY <1>1, <2>1, <1>4, Zenon DEF SandboxTypes, Worker, S!Reaped, S!Alive, S!Outputs, S!Ended, S!start
  <2>5. Killer'
    BY <1>1, <2>1, <1>4, SMTT(60) DEF SandboxTypes, Killer, Worker, S!start
  <2> QED BY <2>2, <2>3, <2>4, <2>5, OthersKept, Zenon DEF SandboxInv
<1>5. ASSUME NEW w \in Calls, S!_register(w) PROVE SandboxInv'
  <2>1. Worker(w)
    BY Zenon DEF SandboxInv
  <2>2. SandboxTypes'
    BY <1>1, <1>5, Zenon DEF SandboxTypes, S!_register
  <2>3. Others(w)
    BY <1>1, <1>5, Zenon DEF SandboxTypes, Others, S!_register
  <2>4. Worker(w)'
    BY <1>1, <2>1, <1>5, Zenon DEF SandboxTypes, Worker, S!Reaped, S!Alive, S!Outputs, S!Ended, S!_register
  <2>5. Killer'
    BY <1>1, <2>1, <1>5, SMTT(60) DEF SandboxTypes, Killer, Worker, S!_register
  <2> QED BY <2>2, <2>3, <2>4, <2>5, OthersKept, Zenon DEF SandboxInv
<1>6. ASSUME NEW w \in Calls, S!Fork(w) PROVE SandboxInv'
  <2>1. Worker(w)
    BY Zenon DEF SandboxInv
  <2>2. SandboxTypes'
    BY <1>1, <1>6, Zenon DEF SandboxTypes, S!Fork
  <2>3. Others(w)
    BY <1>1, <1>6, Zenon DEF SandboxTypes, Others, S!Fork
  <2>4. Worker(w)'
    BY <1>1, <2>1, <1>6, Zenon DEF SandboxTypes, Worker, S!Reaped, S!Alive, S!Outputs, S!Ended, S!Fork
  <2>5. Killer'
    BY <1>1, <2>1, <1>6, Zenon DEF SandboxTypes, Killer, Worker, S!Fork
  <2> QED BY <2>2, <2>3, <2>4, <2>5, OthersKept, Zenon DEF SandboxInv
<1>7. ASSUME NEW w \in Calls, S!Detach(w) PROVE SandboxInv'
  <2>1. Worker(w)
    BY Zenon DEF SandboxInv
  <2>2. SandboxTypes'
    BY <1>1, <1>7, Zenon DEF SandboxTypes, S!Detach
  <2>3. Others(w)
    BY <1>1, <1>7, Zenon DEF SandboxTypes, Others, S!Detach
  <2>4. Worker(w)'
    BY <1>1, <2>1, <1>7, Zenon DEF SandboxTypes, Worker, S!Reaped, S!Alive, S!Outputs, S!Ended, S!Detach
  <2>5. Killer'
    BY <1>1, <2>1, <1>7, Zenon DEF SandboxTypes, Killer, Worker, S!Detach
  <2> QED BY <2>2, <2>3, <2>4, <2>5, OthersKept, Zenon DEF SandboxInv
<1>8. ASSUME NEW w \in Calls, S!ChildExit(w) PROVE SandboxInv'
  <2>1. Worker(w)
    BY Zenon DEF SandboxInv
  <2>2. SandboxTypes'
    BY <1>1, <1>8, Zenon DEF SandboxTypes, S!ChildExit
  <2>3. Others(w)
    BY <1>1, <1>8, Zenon DEF SandboxTypes, Others, S!ChildExit
  <2>4. Worker(w)'
    BY <1>1, <2>1, <1>8, Zenon DEF SandboxTypes, Worker, S!Reaped, S!Alive, S!Outputs, S!Ended, S!ChildExit
  <2>5. Killer'
    BY <1>1, <2>1, <1>8, Zenon DEF SandboxTypes, Killer, Worker, S!ChildExit
  <2> QED BY <2>2, <2>3, <2>4, <2>5, OthersKept, Zenon DEF SandboxInv
<1>9. ASSUME NEW w \in Calls, S!WaitDone(w) PROVE SandboxInv'
  <2>1. Worker(w)
    BY Zenon DEF SandboxInv
  <2>2. SandboxTypes'
    BY <1>1, <1>9, Zenon DEF SandboxTypes, S!WaitDone
  <2>3. Others(w)
    BY <1>1, <1>9, Zenon DEF SandboxTypes, Others, S!WaitDone
  <2>4. Worker(w)'
    BY <1>1, <2>1, <1>9, Zenon DEF SandboxTypes, Worker, S!Reaped, S!Alive, S!Outputs, S!Ended, S!WaitDone
  <2>5. Killer'
    BY <1>1, <2>1, <1>9, Zenon DEF SandboxTypes, Killer, Worker, S!WaitDone
  <2> QED BY <2>2, <2>3, <2>4, <2>5, OthersKept, Zenon DEF SandboxInv
<1>10. ASSUME NEW w \in Calls, S!TimeOut(w) PROVE SandboxInv'
  <2>1. Worker(w)
    BY Zenon DEF SandboxInv
  <2>2. SandboxTypes'
    BY <1>1, <1>10, Zenon DEF SandboxTypes, S!TimeOut, S!Signal, S!Ended
  <2>3. Others(w)
    BY <1>1, <1>10, Zenon DEF SandboxTypes, Others, S!TimeOut, S!Signal, S!Ended
  <2>4. Worker(w)'
    BY <1>1, <2>1, <1>10, Zenon DEF SandboxTypes, Worker, S!Reaped, S!Alive, S!Outputs, S!Ended, S!TimeOut, S!Signal, S!Ended
  <2>5. Killer'
    BY <1>1, <2>1, <1>10, Zenon DEF SandboxTypes, Killer, Worker, S!TimeOut, S!Signal, S!Ended
  <2> QED BY <2>2, <2>3, <2>4, <2>5, OthersKept, Zenon DEF SandboxInv
<1>11. ASSUME NEW w \in Calls, S!_unregister(w) PROVE SandboxInv'
  <2>1. Worker(w)
    BY Zenon DEF SandboxInv
  <2>2. SandboxTypes'
    BY <1>1, <1>11, Zenon DEF SandboxTypes, S!_unregister
  <2>3. Others(w)
    BY <1>1, <1>11, Zenon DEF SandboxTypes, Others, S!_unregister
  <2>4. Worker(w)'
    BY <1>1, <2>1, <1>11, Zenon DEF SandboxTypes, Worker, S!Reaped, S!Alive, S!Outputs, S!Ended, S!_unregister
  <2>5. Killer'
    BY <1>1, <2>1, <1>11, Zenon DEF SandboxTypes, Killer, Worker, S!_unregister
  <2> QED BY <2>2, <2>3, <2>4, <2>5, OthersKept, Zenon DEF SandboxInv
<1>12. ASSUME NEW w \in Calls, NEW c \in {"exit0", "exit1"}, S!Exit(w, c) PROVE SandboxInv'
  <2>1. Worker(w)
    BY Zenon DEF SandboxInv
  <2>2. SandboxTypes'
    BY <1>1, <1>12, Zenon DEF SandboxTypes, S!Exit
  <2>3. Others(w)
    BY <1>1, <1>12, Zenon DEF SandboxTypes, Others, S!Exit
  <2>4. Worker(w)'
    BY <1>1, <2>1, <1>12, Zenon DEF SandboxTypes, Worker, S!Reaped, S!Alive, S!Outputs, S!Ended, S!Exit
  <2>5. Killer'
    BY <1>1, <2>1, <1>12, Zenon DEF SandboxTypes, Killer, Worker, S!Exit
  <2> QED BY <2>2, <2>3, <2>4, <2>5, OthersKept, Zenon DEF SandboxInv
<1>13. ASSUME NEW w \in Calls, NEW o \in S!Outputs, S!Judge(w, o) PROVE SandboxInv'
  <2>1. Worker(w)
    BY Zenon DEF SandboxInv
  <2>2. SandboxTypes'
    BY <1>1, <1>13, Zenon DEF SandboxTypes, S!Judge
  <2>3. Others(w)
    BY <1>1, <1>13, Zenon DEF SandboxTypes, Others, S!Judge
  <2>4. Worker(w)'
    BY <1>1, <2>1, <1>13, Zenon DEF SandboxTypes, Worker, S!Reaped, S!Alive, S!Outputs, S!Ended, S!Judge
  <2>5. Killer'
    BY <1>1, <2>1, <1>13, Zenon DEF SandboxTypes, Killer, Worker, S!Judge
  <2> QED BY <2>2, <2>3, <2>4, <2>5, OthersKept, Zenon DEF SandboxInv
<1>14. ASSUME NEW w \in Calls, S!KillMark(w) PROVE SandboxInv'
  <2>1. Worker(w)
    BY Zenon DEF SandboxInv
  <2>2. SandboxTypes'
    BY <1>1, <1>14, Zenon DEF SandboxTypes, S!KillMark
  <2>3. Others(w)
    BY <1>1, <1>14, Zenon DEF SandboxTypes, Others, S!KillMark
  <2>4. Worker(w)'
    BY <1>1, <2>1, <1>14, Zenon DEF SandboxTypes, Worker, S!Reaped, S!Alive, S!Outputs, S!Ended, S!KillMark
  <2>5. Killer'
    BY <1>1, <2>1, <1>14, ZenonT(60) DEF SandboxTypes, Killer, Worker, S!KillMark
  <2> QED BY <2>2, <2>3, <2>4, <2>5, OthersKept, Zenon DEF SandboxInv
<1>15. ASSUME NEW w \in Calls, S!KillSignal(w) PROVE SandboxInv'
  <2>1. Worker(w)
    BY Zenon DEF SandboxInv
  <2>2. SandboxTypes'
    BY <1>1, <1>15, Zenon DEF SandboxTypes, S!KillSignal, S!Signal
  <2>3. Others(w)
    BY <1>1, <1>15, Zenon DEF SandboxTypes, Others, S!KillSignal, S!Signal
  <2>4. Worker(w)'
    BY <1>1, <2>1, <1>15, Zenon DEF SandboxTypes, Killer, Worker, S!Reaped, S!Alive, S!Outputs, S!Ended, S!KillSignal, S!Signal
  <2>5. Killer'
    BY <1>1, <2>1, <1>15, Zenon DEF SandboxTypes, Killer, Worker, S!KillSignal, S!Signal
  <2> QED BY <2>2, <2>3, <2>4, <2>5, OthersKept, Zenon DEF SandboxInv
<1>16. CASE S!SetFlag
  <2>1. SandboxTypes' /\ Killer'
    BY <1>1, <1>16, Zenon DEF S!SetFlag, SandboxTypes, Killer
  <2>2. \A w \in Calls : Worker(w)'
    BY <1>16, Zenon DEF S!SetFlag, SandboxInv, Worker, S!Reaped, S!Alive, S!Outputs
  <2> QED BY <2>1, <2>2, Zenon DEF SandboxInv
<1>17. CASE S!kill_all
  <2>1. SandboxTypes' /\ Killer'
    BY <1>1, <1>17, Zenon DEF S!kill_all, SandboxTypes, Killer
  <2>2. \A w \in Calls : Worker(w)'
    BY <1>17, Zenon DEF S!kill_all, SandboxInv, Worker, S!Reaped, S!Alive, S!Outputs
  <2> QED BY <2>1, <2>2, Zenon DEF SandboxInv
<1>18. CASE S!Cancelled
  <2>1. SandboxTypes' /\ Killer'
    BY <1>1, <1>18, Zenon DEF S!Cancelled, SandboxTypes, Killer
  <2>2. \A w \in Calls : Worker(w)'
    BY <1>18, Zenon DEF S!Cancelled, SandboxInv, Worker, S!Reaped, S!Alive, S!Outputs
  <2> QED BY <2>1, <2>2, Zenon DEF SandboxInv
<1> QED
  BY <1>2, <1>3, <1>4, <1>5, <1>6, <1>7, <1>8, <1>9, <1>10, <1>11, <1>12, <1>13, <1>14, <1>15, <1>16, <1>17, <1>18, ZenonT(60) DEF S!Next, S!Canceller, S!Step, S!Process

(* run_worker and kill_all, for any number of workers: however ends,       *)
(* time-outs and a cancel interleave, the answer is true of the worker and *)
(* kill_all leaves no registered worker running.                           *)
THEOREM AnswersAreTrue == MCSpec => []WorkersAreAccounted
<1>1. MCInit => SandboxInv
  BY DEF MCInit, S!Init, S!None, SandboxInv, SandboxTypes, Killer, Worker, S!Reaped, S!Alive, S!Outputs
<1>2. SandboxInv => WorkersAreAccounted
  BY Zenon DEF WorkersAreAccounted, SandboxInv, SandboxTypes, Killer, Worker, S!Reaped, S!WorkersAreAccounted
<1> QED BY <1>1, <1>2, SandboxStep, PartSteps, PTL DEF MCSpec

=============================================================================
