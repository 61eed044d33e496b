---------------------------- MODULE LedgerProofs ----------------------------
(***************************************************************************)
(* Proofs about Ledger, for any sessions, writers, values and keys and     *)
(* ledgers of any length.  The chain is kept by what an append() or a      *)
(* seal() in flight remembers: a hash and a seq that belong together and   *)
(* to a prefix of the session's rows, however far the ledger has grown     *)
(* since.  Only an insert at the very end gets past the UNIQUE constraint. *)
(***************************************************************************)
EXTENDS Ledger, SequenceTheorems, TLAPS

(* The rows of a session as append() leaves them. *)
Chained(rs) ==
    /\ rs \in Seq(RowType)
    /\ \A n \in 1 .. Len(rs) :
        /\ rs[n].seq = n /\ rs[n].event.form = "canonical"
        /\ rs[n].hash = chain_hash(prev_hash(rs, n), rs[n].event)
        /\ Len(rs[n].hash) = n

(* c rows of rs had the head h: what head() returned at some time. *)
Past(rs, h, c) == c \in 0 .. Len(rs) /\ h = prev_hash(rs, c + 1) /\ h \in Hashes

RowsInv == rows \in [Sessions -> Seq(RowType)] /\ \A s \in Sessions : Chained(rows[s])
WritersInv ==
    \A a \in Writers : w[a] = Idle \/
        /\ w[a] \in [pc: {"insert"}, s: Sessions, val: Values, prev: Hashes, seq: Nat]
        /\ Past(rows[w[a].s], w[a].prev, w[a].seq)
SealsInv ==
    /\ DOMAIN seals = Sessions
    /\ \A s \in Sessions : Past(rows[s], seals[s].head, seals[s].count)
ExportInv ==
    /\ members \in Seq(Sessions) /\ "pc" \in DOMAIN x
    /\ x.pc # "idle" => "todo" \in DOMAIN x /\ x.todo \in Seq(Sessions)
    /\ x.pc \in {"sealing", "readseal"} => x.todo # <<>>
    /\ x.pc = "sealing" => Past(rows[Head(x.todo)], x.head, x.count)
Inv == ~damaged => RowsInv /\ DOMAIN w = Writers /\ WritersInv /\ SealsInv /\ ExportInv

-----------------------------------------------------------------------------
(* head() of a chained session describes all of its rows. *)
LEMMA HeadIsPast ==
    ASSUME NEW rs, Chained(rs)
    PROVE  Past(rs, head(rs).hash, head(rs).seq) /\ head(rs).seq = Len(rs)
<1>1. CASE rs = <<>>
  <2>1. head(rs).hash = GENESIS /\ head(rs).seq = 0 /\ Len(rs) = 0
    BY <1>1, Zenon DEF head
  <2>2. GENESIS \in Hashes
    BY DEF GENESIS, Hashes
  <2> QED
    BY <2>1, <2>2 DEF Past, prev_hash
<1>2. CASE rs # <<>>
  <2>1. Len(rs) \in 1 .. Len(rs) /\ rs \in Seq(RowType)
    BY <1>2 DEF Chained
  <2>2. rs[Len(rs)] \in RowType /\ rs[Len(rs)].seq = Len(rs)
    BY <2>1 DEF Chained
  <2>3. head(rs).hash = rs[Len(rs)].hash /\ head(rs).seq = Len(rs)
    BY <1>2, <2>2, Zenon DEF head
  <2>4. rs[Len(rs)].hash \in Hashes
    BY <2>2, Zenon DEF RowType
  <2> QED
    BY <2>1, <2>3, <2>4, SMTT(60) DEF Past, prev_hash
<1> QED
  BY <1>1, <1>2, Zenon

(* A head that was read stays the head of a prefix when a row is added. *)
LEMMA PastGrows ==
    ASSUME NEW rs \in Seq(RowType), NEW row \in RowType, NEW h, NEW c, Past(rs, h, c)
    PROVE  Past(Append(rs, row), h, c)
<1>1. Len(Append(rs, row)) = Len(rs) + 1 /\ Len(rs) \in Nat
  OBVIOUS
<1>2. \A n \in 1 .. Len(rs) : Append(rs, row)[n] = rs[n]
  OBVIOUS
<1>3. c \in Nat /\ c <= Len(rs)
  BY <1>1 DEF Past
<1>4. prev_hash(Append(rs, row), c + 1) = prev_hash(rs, c + 1)
  BY <1>2, <1>3 DEF prev_hash
<1> QED
  BY <1>1, <1>3, <1>4 DEF Past

(* The row append() inserts after the head it read. *)
Row(h, c, v) == [seq |-> c + 1, event |-> canonical(v), hash |-> chain_hash(h, canonical(v))]

(* The inserted row has the types of the table. *)
LEMMA RowTyped ==
    ASSUME NEW h \in Hashes, NEW c \in Nat, NEW v \in Values
    PROVE  Row(h, c, v) \in RowType
<1>1. canonical(v) \in Texts
  BY Zenon DEF canonical, Texts, Forms
<1>2. chain_hash(h, canonical(v)) \in Hashes
  BY <1>1 DEF chain_hash, Hashes
<1> QED
  BY <1>1, <1>2 DEF Row, RowType

(* An insert right after the head it read keeps the chain. *)
LEMMA ChainGrows ==
    ASSUME NEW rs, Chained(rs), NEW h, Past(rs, h, Len(rs)), NEW v \in Values
    PROVE  Chained(Append(rs, Row(h, Len(rs), v)))
<1> DEFINE row == Row(h, Len(rs), v)
           new == Append(rs, row)
<1>1. rs \in Seq(RowType) /\ Len(rs) \in Nat /\ h \in Hashes
  BY DEF Chained, Past
<1>2. row \in RowType
  BY <1>1, RowTyped, Zenon
<1>3. new \in Seq(RowType) /\ Len(new) = Len(rs) + 1
  BY <1>1, <1>2
<1>4. \A n \in 1 .. Len(rs) : new[n] = rs[n]
  BY <1>1, <1>2
<1>5. new[Len(rs) + 1] = row
  BY <1>1, <1>2
<1>6. \A n \in 1 .. Len(rs) + 1 : prev_hash(new, n) = prev_hash(rs, n)
  BY <1>1, <1>4 DEF prev_hash
<1>7. row.seq = Len(rs) + 1 /\ row.event.form = "canonical" /\ row.hash = chain_hash(h, row.event)
  BY Zenon DEF Row, canonical
<1>8. h = prev_hash(rs, Len(rs) + 1)
  BY Zenon DEF Past
<1>11. Len(h) = Len(rs)
  <2>1. CASE Len(rs) = 0
    BY <1>8, <2>1 DEF prev_hash, GENESIS
  <2>2. CASE Len(rs) # 0
    <3>1. Len(rs) \in 1 .. Len(rs) /\ Len(rs) + 1 # 1 /\ (Len(rs) + 1) - 1 = Len(rs)
      BY <1>1, <2>2
    <3> QED BY <1>8, <3>1, Zenon DEF prev_hash, Chained
  <2> QED BY <2>1, <2>2, Zenon
<1>12. Len(row.hash) = Len(rs) + 1
  BY <1>1, <1>7, <1>11, SMTT(60) DEF chain_hash, Hashes
<1> HIDE DEF row, new
<1>9. ASSUME NEW n \in 1 .. Len(new)
      PROVE  /\ new[n].seq = n /\ new[n].event.form = "canonical"
             /\ new[n].hash = chain_hash(prev_hash(new, n), new[n].event)
             /\ Len(new[n].hash) = n
  <2>1. CASE n = Len(rs) + 1
    BY <1>1, <1>5, <1>6, <1>7, <1>8, <1>12, <2>1, SMTT(90)
  <2>2. CASE n \in 1 .. Len(rs)
    BY <1>1, <1>4, <1>6, <2>2, SMTT(60) DEF Chained
  <2> QED
    BY <1>1, <1>3, <2>1, <2>2, SMTT(60)
<1>10. Chained(new)
  BY <1>3, <1>9, Zenon DEF Chained
<1> QED
  BY <1>10, Zenon DEF new, row

-----------------------------------------------------------------------------
(* append() begins: what it has read is the head of all rows. *)
LEMMA AppendHeadStep ==
    ASSUME Inv, NEW a \in Writers, NEW s \in Sessions, NEW v \in Values, AppendHead(a, s, v)
    PROVE  Inv'
<1>1. ~damaged /\ RowsInv /\ DOMAIN w = Writers /\ WritersInv /\ SealsInv /\ ExportInv
  BY Zenon DEF Inv, AppendHead
<1>2. UNCHANGED <<rows, seals, members, x>>
  BY Zenon DEF AppendHead
<1>3. Past(rows[s], head(rows[s]).hash, head(rows[s]).seq)
  BY <1>1, HeadIsPast, Zenon DEF RowsInv
<1> DEFINE new == [pc |-> "insert", s |-> s, val |-> v,
                   prev |-> head(rows[s]).hash, seq |-> head(rows[s]).seq]
<1>4. w' = [w EXCEPT ![a] = new]
  BY Zenon DEF AppendHead
<1>5. head(rows[s]).hash \in Hashes /\ head(rows[s]).seq \in Nat
  BY <1>3 DEF Past
<1>6. new \in [pc: {"insert"}, s: Sessions, val: Values, prev: Hashes, seq: Nat]
  BY <1>5, Zenon
<1>7. Past(rows[new.s], new.prev, new.seq)
  BY <1>3, Zenon
<1> HIDE DEF new
<1>8. WritersInv'
  BY <1>1, <1>2, <1>4, <1>6, <1>7, Zenon DEF WritersInv
<1>9. RowsInv' /\ SealsInv' /\ ExportInv' /\ DOMAIN w' = Writers
  BY <1>1, <1>2, <1>4, Zenon DEF RowsInv, SealsInv, ExportInv
<1> QED
  BY <1>8, <1>9, Zenon DEF Inv

(* append() ends: the row is refused, or goes right after the head it read. *)
LEMMA InsertCases ==
    ASSUME Inv, NEW a \in Writers, AppendInsert(a)
    PROVE  \/ UNCHANGED rows
           \/ \E s \in Sessions, row \in RowType :
                /\ rows' = [rows EXCEPT ![s] = Append(rows[s], row)]
                /\ Chained(Append(rows[s], row))
<1>1. ~damaged /\ RowsInv /\ WritersInv
  BY Zenon DEF Inv, AppendInsert
<1>2. w[a] # Idle
  BY DEF AppendInsert, Idle
<1> DEFINE s == w[a].s
           v == w[a].val
<1>3. s \in Sessions /\ v \in Values /\ Past(rows[s], w[a].prev, w[a].seq) /\ w[a].seq \in Nat
  BY <1>1, <1>2, Zenon DEF WritersInv
<1>4. Chained(rows[s]) /\ rows[s] \in Seq(RowType) /\ Len(rows[s]) \in Nat
  BY <1>1, <1>3, SMTT(90) DEF RowsInv
<1>5. CASE \E n \in DOMAIN rows[s] : rows[s][n].seq = w[a].seq + 1
  BY <1>5, Zenon DEF AppendInsert
<1>6. CASE ~\E n \in DOMAIN rows[s] : rows[s][n].seq = w[a].seq + 1
  <2>1. w[a].seq = Len(rows[s])
    <3>1. w[a].seq <= Len(rows[s])
      BY <1>3, <1>4 DEF Past
    <3>2. ASSUME w[a].seq < Len(rows[s]) PROVE FALSE
      <4>1. w[a].seq + 1 \in 1 .. Len(rows[s])
        BY <3>2, <1>3, <1>4, SMTT(90)
      <4>2. rows[s][w[a].seq + 1].seq = w[a].seq + 1 /\ w[a].seq + 1 \in DOMAIN rows[s]
        BY <4>1, <1>4, SMTT(90) DEF Chained
      <4> QED
        BY <4>2, <1>6, Zenon
    <3> QED
      BY <3>1, <3>2, <1>3, <1>4, SMTT(60)
  <2> DEFINE row == Row(w[a].prev, w[a].seq, v)
  <2>2. rows' = [rows EXCEPT ![s] = Append(rows[s], row)]
    BY <1>6, Zenon DEF AppendInsert, Row
  <2>3. row \in RowType
    BY <1>3, RowTyped, Zenon DEF Past
  <2>4. Chained(Append(rows[s], row))
    BY <1>3, <1>4, <2>1, ChainGrows, Zenon
  <2> QED
    BY <1>3, <2>2, <2>3, <2>4, Zenon
<1> QED
  BY <1>5, <1>6, Zenon

(* append() ends, and leaves what others remember true. *)
LEMMA AppendInsertStep ==
    ASSUME Inv, NEW a \in Writers, AppendInsert(a)
    PROVE  Inv'
<1>1. ~damaged /\ RowsInv /\ DOMAIN w = Writers /\ WritersInv /\ SealsInv /\ ExportInv
  BY Zenon DEF Inv, AppendInsert
<1>2. w' = [w EXCEPT ![a] = Idle] /\ UNCHANGED <<seals, members, x>>
  BY Zenon DEF AppendInsert
<1>3. /\ RowsInv'
      /\ \A s \in Sessions : \A h, c : Past(rows[s], h, c) => Past(rows'[s], h, c)
  <2>1. CASE UNCHANGED rows
    BY <1>1, <2>1, Zenon DEF RowsInv
  <2>2. CASE \E s \in Sessions, row \in RowType :
                /\ rows' = [rows EXCEPT ![s] = Append(rows[s], row)]
                /\ Chained(Append(rows[s], row))
    <3>1. PICK s \in Sessions, row \in RowType :
                /\ rows' = [rows EXCEPT ![s] = Append(rows[s], row)]
                /\ Chained(Append(rows[s], row))
      BY <2>2, Zenon
    <3>2. \A t \in Sessions : rows'[t] = IF t = s THEN Append(rows[s], row) ELSE rows[t]
      BY <1>1, <3>1, Zenon DEF RowsInv
    <3>3. Append(rows[s], row) \in Seq(RowType)
      BY <3>1, Zenon DEF Chained
    <3>4. rows' \in [Sessions -> Seq(RowType)]
      BY <1>1, <3>1, <3>3, Zenon DEF RowsInv
    <3>5. RowsInv'
      BY <1>1, <3>1, <3>2, <3>4, Zenon DEF RowsInv
    <3>6. ASSUME NEW t \in Sessions, NEW h, NEW c, Past(rows[t], h, c)
          PROVE  Past(rows'[t], h, c)
      <4>1. rows[t] \in Seq(RowType)
        BY <1>1, Zenon DEF RowsInv
      <4>2. CASE t = s
        <5>1. Past(Append(rows[s], row), h, c)
          BY <4>1, <4>2, <3>6, PastGrows, Zenon
        <5> QED
          BY <3>2, <4>2, <5>1, Zenon
      <4>3. CASE t # s
        BY <3>2, <3>6, <4>3, Zenon
      <4> QED
        BY <4>2, <4>3, Zenon
    <3> QED
      BY <3>5, <3>6, Zenon
  <2> QED
    BY <2>1, <2>2, InsertCases, Zenon
<1>4. WritersInv'
  <2> SUFFICES ASSUME NEW b \in Writers, w'[b] # Idle
               PROVE  /\ w'[b] \in [pc: {"insert"}, s: Sessions, val: Values, prev: Hashes, seq: Nat]
                      /\ Past(rows'[w'[b].s], w'[b].prev, w'[b].seq)
    BY Zenon DEF WritersInv
  <2>1. w'[b] = w[b]
    BY <1>1, <1>2, Zenon
  <2>2. /\ w[b] \in [pc: {"insert"}, s: Sessions, val: Values, prev: Hashes, seq: Nat]
        /\ Past(rows[w[b].s], w[b].prev, w[b].seq)
    BY <1>1, <2>1, Zenon DEF WritersInv
  <2>3. w[b].s \in Sessions
    BY <2>2, Zenon
  <2> QED
    BY <1>3, <2>1, <2>2, <2>3, Zenon
<1>5. SealsInv'
  BY <1>1, <1>2, <1>3, Zenon DEF SealsInv
<1>6. ExportInv'
  <2>1. x.pc = "sealing" => Head(x.todo) \in Sessions
    BY <1>1 DEF ExportInv
  <2> QED
    BY <1>1, <1>2, <1>3, <2>1, Zenon DEF ExportInv
<1>7. DOMAIN w' = Writers
  BY <1>1, <1>2, Zenon
<1> QED
  BY <1>3, <1>4, <1>5, <1>6, <1>7, Zenon DEF Inv

-----------------------------------------------------------------------------
(* seal() reads the head of the next session to seal. *)
LEMMA SealHeadStep ==
    ASSUME Inv, SealHead
    PROVE  Inv'
<1>1. ~damaged /\ RowsInv /\ DOMAIN w = Writers /\ WritersInv /\ SealsInv /\ ExportInv
  BY Zenon DEF Inv, SealHead
<1>2. UNCHANGED <<rows, seals, members, w>>
  BY Zenon DEF SealHead
<1>3. x.todo \in Seq(Sessions) /\ x.todo # <<>> /\ Head(x.todo) \in Sessions
  BY <1>1 DEF ExportInv, SealHead
<1>4. Past(rows[Head(x.todo)], head(rows[Head(x.todo)]).hash, head(rows[Head(x.todo)]).seq)
  BY <1>1, <1>3, HeadIsPast, Zenon DEF RowsInv
<1>5. /\ "pc" \in DOMAIN x' /\ "todo" \in DOMAIN x' /\ x'.todo = x.todo
      /\ x'.head = head(rows[Head(x.todo)]).hash /\ x'.count = head(rows[Head(x.todo)]).seq
  BY Zenon DEF SealHead
<1>6. ExportInv'
  BY <1>1, <1>2, <1>3, <1>4, <1>5, Zenon DEF ExportInv
<1> QED
  BY <1>1, <1>2, <1>6, Zenon DEF Inv, RowsInv, WritersInv, SealsInv

(* seal() writes what it read, which is of the past by now. *)
LEMMA SealWriteStep ==
    ASSUME Inv, SealWrite
    PROVE  Inv'
<1>1. ~damaged /\ RowsInv /\ DOMAIN w = Writers /\ WritersInv /\ SealsInv /\ ExportInv
  BY Zenon DEF Inv, SealWrite
<1>2. UNCHANGED <<rows, members, w>>
  BY Zenon DEF SealWrite
<1>3. /\ x.todo \in Seq(Sessions) /\ x.todo # <<>> /\ Head(x.todo) \in Sessions
      /\ Past(rows[Head(x.todo)], x.head, x.count)
  BY <1>1 DEF ExportInv, SealWrite
<1>4. seals' = [seals EXCEPT ![Head(x.todo)] = [head |-> x.head, count |-> x.count, key |-> x.key]]
  BY Zenon DEF SealWrite
<1>5. SealsInv'
  BY <1>1, <1>2, <1>3, <1>4, Zenon DEF SealsInv
<1>6. Tail(x.todo) \in Seq(Sessions)
  BY <1>3
<1>7. /\ "pc" \in DOMAIN x' /\ "todo" \in DOMAIN x' /\ x'.todo \in {x.todo, Tail(x.todo)}
      /\ x'.pc \in {"seal", "events"}
  BY Zenon DEF SealWrite
<1>8. ExportInv'
  BY <1>1, <1>2, <1>3, <1>6, <1>7, Zenon DEF ExportInv
<1> QED
  BY <1>1, <1>2, <1>5, <1>8, Zenon DEF Inv, RowsInv, WritersInv

(* The steps of an export that seal nothing, and a session joining. *)
LEMMA ExportStep ==
    ASSUME Inv,
           \/ \E s \in Sessions : Join(s)
           \/ \E k \in Keys : ExportTeam(k)
           \/ \E k \in Keys, s \in Sessions, b \in BOOLEAN : ExportSession(k, s, b)
           \/ BuildTeam \/ ReadEvents \/ ReadSeal \/ ExportAgain
    PROVE  Inv'
<1>1. ~damaged /\ RowsInv /\ DOMAIN w = Writers /\ WritersInv /\ SealsInv /\ ExportInv
  BY Zenon DEF Inv, Join, ExportTeam, ExportSession, BuildTeam, ReadEvents, ReadSeal, ExportAgain
<1>2. UNCHANGED <<rows, seals, w>>
  BY Zenon DEF Join, ExportTeam, ExportSession, BuildTeam, ReadEvents, ReadSeal, ExportAgain
<1>3. ExportInv'
  <2>1. ASSUME NEW s \in Sessions, Join(s) PROVE ExportInv'
    BY <1>1, <2>1, SMTT(90) DEF ExportInv, Join
  <2>2. ASSUME NEW k \in Keys, ExportTeam(k) PROVE ExportInv'
    BY <1>1, <2>2, Zenon DEF ExportInv, ExportTeam
  <2>3. ASSUME NEW k \in Keys, NEW s \in Sessions, NEW b \in BOOLEAN, ExportSession(k, s, b)
        PROVE  ExportInv'
    <3>1. /\ "pc" \in DOMAIN x' /\ "todo" \in DOMAIN x' /\ x'.todo = <<s>>
          /\ x'.pc \in {"seal", "events"} /\ members' = members
      BY <2>3, Zenon DEF ExportSession
    <3> QED
      BY <1>1, <3>1, SMTT(90) DEF ExportInv
  <2>4. CASE BuildTeam
    BY <1>1, <2>4, Zenon DEF ExportInv, BuildTeam
  <2>5. CASE ReadEvents
    <3>1. /\ "pc" \in DOMAIN x' /\ "todo" \in DOMAIN x' /\ x'.todo = x.todo
          /\ x'.pc = "readseal" /\ members' = members
      BY <1>1, <2>5, Zenon DEF ExportInv, ReadEvents
    <3> QED
      BY <1>1, <2>5, <3>1, Zenon DEF ExportInv, ReadEvents
  <2>6. CASE ReadSeal
    <3>1. x.pc = "readseal" /\ "todo" \in DOMAIN x /\ "pc" \in DOMAIN x
          /\ x.todo \in Seq(Sessions) /\ x.todo # <<>>
      BY <1>1, <2>6, Zenon DEF ExportInv, ReadSeal
    <3>2. /\ "pc" \in DOMAIN x' /\ "todo" \in DOMAIN x' /\ x'.todo = Tail(x.todo)
          /\ x'.pc \in {"events", "done"} /\ members' = members
      BY <2>6, <3>1, Zenon DEF ReadSeal
    <3> QED
      BY <1>1, <3>1, <3>2, SMTT(90) DEF ExportInv
  <2>7. CASE ExportAgain
    BY <1>1, <2>7, Zenon DEF ExportInv, ExportAgain, Idle
  <2> QED
    BY <2>1, <2>2, <2>3, <2>4, <2>5, <2>6, <2>7, Zenon
<1> QED
  BY <1>1, <1>2, <1>3, Zenon DEF Inv, RowsInv, WritersInv, SealsInv

(* append(), seal() and the exports, from the empty tables, keep the       *)
(* chain, the seals and what they remember in flight.                      *)
THEOREM InvHolds == Spec => []Inv
<1>1. Init => Inv
  <2> SUFFICES ASSUME Init PROVE Inv
    BY Zenon
  <2>1. \A s \in Sessions : rows[s] = <<>> /\ seals[s].head = <<>> /\ seals[s].count = 0
    BY Zenon DEF Init, NoSeal, GENESIS
  <2>2. Chained(<<>>) /\ Past(<<>>, <<>>, 0)
    BY DEF Chained, Past, prev_hash, GENESIS, Hashes
  <2>3. RowsInv /\ SealsInv
    BY <2>1, <2>2 DEF Init, RowsInv, SealsInv
  <2>4. WritersInv /\ DOMAIN w = Writers
    BY Zenon DEF Init, WritersInv
  <2>5. ExportInv
    BY DEF Init, ExportInv, Idle
  <2> QED
    BY <2>3, <2>4, <2>5, Zenon DEF Inv
<1>2. Inv /\ [Next]_vars => Inv'
  <2> SUFFICES ASSUME Inv, [Next]_vars PROVE Inv'
    BY Zenon
  <2>1. CASE \E a \in Writers, s \in Sessions, v \in Values : AppendHead(a, s, v)
    BY <2>1, AppendHeadStep, Zenon
  <2>2. CASE \E a \in Writers : AppendInsert(a)
    BY <2>2, AppendInsertStep, Zenon
  <2>3. CASE \E s \in Sessions : Damage(s)
    BY <2>3, Zenon DEF Damage, Inv
  <2>4. CASE SealHead
    BY <2>4, SealHeadStep, Zenon
  <2>5. CASE SealWrite
    BY <2>5, SealWriteStep, Zenon
  <2>6. CASE UNCHANGED vars
    BY <2>6, Zenon DEF vars, Inv, RowsInv, WritersInv, SealsInv, ExportInv
  <2> QED
    BY <2>1, <2>2, <2>3, <2>4, <2>5, <2>6, ExportStep, Zenon DEF Next
<1> QED
  BY <1>1, <1>2, PTL DEF Spec

(* ledger.py, append: whatever writers race, the ledger is a chain         *)
(* verify() accepts, as long as the stored bytes are left alone.           *)
THEOREM ChainAlwaysVerifies == Spec => []ChainIntact
<1>1. Inv => ChainIntact
  <2> SUFFICES ASSUME Inv, ~damaged, NEW s \in Sessions PROVE chain_ok(rows[s])
    BY Zenon DEF ChainIntact, verify
  <2>1. Chained(rows[s])
    BY Zenon DEF Inv, RowsInv
  <2>2. ASSUME NEW n \in DOMAIN rows[s]
        PROVE  /\ rows[s][n].seq = n /\ rows[s][n].event.form # "garbled"
               /\ rows[s][n].hash = chain_hash(prev_hash(rows[s], n), canonical(rows[s][n].event.val))
    <3>1. n \in 1 .. Len(rows[s]) /\ rows[s][n] \in RowType
      BY <2>1 DEF Chained
    <3>2. rows[s][n].event \in Texts /\ rows[s][n].event.form = "canonical"
      BY <2>1, <3>1, Zenon DEF Chained, RowType
    <3>3. canonical(rows[s][n].event.val) = rows[s][n].event
      BY <3>2, Zenon DEF canonical, Texts
    <3> QED
      BY <2>1, <3>1, <3>2, <3>3, Zenon DEF Chained
  <2> QED
    BY <2>2, Zenon DEF chain_ok
<1> QED
  BY <1>1, InvHolds, PTL

(* ledger.py, seal: a seal describes rows the session really had.          *)
THEOREM SealsAreHonest == Spec => []SealIsOfThePast
<1>1. Inv => SealIsOfThePast
  <2> SUFFICES ASSUME Inv, ~damaged, NEW s \in Sessions
               PROVE  /\ seals[s].count <= Len(rows[s])
                      /\ seals[s].head = prev_hash(rows[s], seals[s].count + 1)
    BY Zenon DEF SealIsOfThePast
  <2>1. Past(rows[s], seals[s].head, seals[s].count) /\ Len(rows[s]) \in Nat
    BY DEF Inv, SealsInv, RowsInv
  <2> QED
    BY <2>1 DEF Past
<1> QED
  BY <1>1, InvHolds, PTL

(* ledger.py, append: no step of the program drops or rewrites a row.      *)
THEOREM OnlyAppends == Spec => AppendOnly
<1>1. Inv /\ [Next]_vars => [~damaged' => \A s \in Sessions : IsPrefix(rows[s], rows'[s])]_vars
  <2> SUFFICES ASSUME Inv, Next, ~damaged', NEW s \in Sessions
               PROVE  IsPrefix(rows[s], rows'[s])
    BY Zenon
  <2>1. ~damaged
    BY Zenon DEF Next, AppendHead, AppendInsert, Join, Damage, ExportTeam, ExportSession,
           SealHead, SealWrite, BuildTeam, ReadEvents, ReadSeal, ExportAgain
  <2>2. rows \in [Sessions -> Seq(RowType)]
    BY <2>1, Zenon DEF Inv, RowsInv
  <2>3. CASE rows' = rows
    BY <2>2, <2>3, SMTT(60) DEF IsPrefix
  <2>4. ASSUME NEW a \in Writers, AppendInsert(a), rows' # rows
        PROVE  IsPrefix(rows[s], rows'[s])
    <3>1. PICK t \in Sessions, row \in RowType : rows' = [rows EXCEPT ![t] = Append(rows[t], row)]
      BY <2>4, InsertCases, Zenon
    <3>2. CASE s = t
      <4>1. rows'[s] = Append(rows[s], row) /\ rows[s] \in Seq(RowType)
        BY <2>2, <3>1, <3>2, Zenon
      <4>2. \A rs \in Seq(RowType) : IsPrefix(rs, Append(rs, row))
        BY DEF IsPrefix
      <4> QED
        BY <4>1, <4>2, Zenon
    <3>3. CASE s # t
      BY <2>2, <3>1, <3>3, SMTT(90) DEF IsPrefix
    <3> QED
      BY <3>2, <3>3, Zenon
  <2>5. (\E a \in Writers : AppendInsert(a)) \/ rows' = rows
    BY Zenon DEF Next, AppendHead, Join, Damage, ExportTeam, ExportSession,
           SealHead, SealWrite, BuildTeam, ReadEvents, ReadSeal, ExportAgain
  <2> QED
    BY <2>3, <2>4, <2>5, Zenon
<1> QED
  BY <1>1, InvHolds, PTL DEF Spec, AppendOnly

-----------------------------------------------------------------------------
(***************************************************************************)
(* Damage at rest.  written, the rows before any damage, is the chain that *)
(* the seals describe, and what is stored differs from it by one damage.   *)
(***************************************************************************)
DamageInv ==
    /\ ~damaged => written = rows
    /\ damaged => \A s \in Sessions :
         /\ Chained(written[s]) /\ Past(written[s], seals[s].head, seals[s].count)
         /\ rows[s] = written[s] \/ rows[s] \in Damages(written[s])

(* What a chain hash tells of what was hashed: SHA-256 without collisions. *)
LEMMA HashTells ==
    \A h, i \in Hashes : \A t, u \in Texts : chain_hash(h, t) = chain_hash(i, u) => h = i /\ t = u
  BY AppendInjective DEF chain_hash, Hashes

(* The facts of a chain, by row.                                           *)
LEMMA ChainFacts ==
    ASSUME NEW rs, Chained(rs)
    PROVE  /\ rs \in Seq(RowType) /\ Len(rs) \in Nat /\ DOMAIN rs = 1 .. Len(rs)
           /\ \A n \in 1 .. Len(rs) :
                /\ rs[n] \in RowType /\ rs[n].seq = n /\ rs[n].event \in Texts /\ rs[n].hash \in Hashes
                /\ rs[n].event = canonical(rs[n].event.val)
                /\ rs[n].hash = chain_hash(prev_hash(rs, n), rs[n].event)
                /\ prev_hash(rs, n) \in Hashes /\ Len(prev_hash(rs, n)) = n - 1 /\ Len(rs[n].hash) = n
<1>1. rs \in Seq(RowType) /\ Len(rs) \in Nat /\ DOMAIN rs = 1 .. Len(rs)
  BY DEF Chained
<1>2. ASSUME NEW n \in 1 .. Len(rs)
      PROVE  /\ rs[n] \in RowType /\ rs[n].seq = n /\ rs[n].event \in Texts /\ rs[n].hash \in Hashes
             /\ rs[n].event = canonical(rs[n].event.val)
  <2>1. rs[n] \in RowType
    BY <1>1
  <2>2. rs[n].event \in Texts /\ rs[n].hash \in Hashes /\ rs[n].seq = n
    BY <2>1, Zenon DEF RowType, Chained
  <2>3. rs[n].event.form = "canonical"
    BY Zenon DEF Chained
  <2>4. rs[n].event = canonical(rs[n].event.val)
    BY <2>2, <2>3, Zenon DEF Texts, canonical
  <2> QED BY <2>1, <2>2, <2>4, Zenon
<1>3. ASSUME NEW n \in 1 .. Len(rs)
      PROVE  prev_hash(rs, n) \in Hashes /\ Len(prev_hash(rs, n)) = n - 1
  <2>1. CASE n = 1
    BY <2>1 DEF prev_hash, GENESIS, Hashes
  <2>2. CASE n # 1
    <3>1. n - 1 \in 1 .. Len(rs)
      BY <1>1, <2>2, SMTT(60)
    <3>2. rs[n - 1].hash \in Hashes /\ Len(rs[n - 1].hash) = n - 1
      BY <1>2, <3>1, Zenon DEF Chained
    <3> QED BY <2>2, <3>2, Zenon DEF prev_hash
  <2> QED BY <2>1, <2>2, Zenon
<1> QED BY <1>1, <1>2, <1>3, Zenon DEF Chained

(* Rows with the same contents up to some length.                          *)
LEMMA SameContent ==
    ASSUME NEW rs \in Seq(RowType), NEW old \in Seq(RowType), Len(rs) <= Len(old),
           \A n \in 1 .. Len(rs) : /\ rs[n].seq = old[n].seq /\ rs[n].hash = old[n].hash
                                   /\ rs[n].event.val = old[n].event.val
    PROVE  IsPrefix(Content(rs), Content(old))
<1> DEFINE C1 == Content(rs)
           C2 == Content(old)
<1>1. /\ Len(rs) \in Nat /\ Len(old) \in Nat
      /\ DOMAIN rs = 1 .. Len(rs) /\ DOMAIN old = 1 .. Len(old)
  OBVIOUS
<1>2. /\ C1 = [n \in 1 .. Len(rs) |-> <<rs[n].seq, rs[n].event.val, rs[n].hash>>]
      /\ C2 = [n \in 1 .. Len(old) |-> <<old[n].seq, old[n].event.val, old[n].hash>>]
  BY <1>1, Zenon DEF Content
<1> HIDE DEF C1, C2
<1>3. \A n \in 1 .. Len(rs) : C1[n] = C2[n] /\ n \in 1 .. Len(old)
  BY <1>1, <1>2, SMTT(60)
<1>4. Len(C1) = Len(rs) /\ Len(C2) = Len(old)
  BY <1>1, <1>2, SMTT(60)
<1>5. SubSeq(C1, 1, Len(C1)) = SubSeq(C2, 1, Len(C1))
  <2>1. SubSeq(C1, 1, Len(rs)) = [i \in 1 .. Len(rs) |-> C1[i]]
    BY <1>1, SMTT(60)
  <2>2. SubSeq(C2, 1, Len(rs)) = [i \in 1 .. Len(rs) |-> C2[i]]
    BY <1>1
  <2> QED BY <1>3, <1>4, <2>1, <2>2, ZenonT(60)
<1>6. Len(C1) <= Len(C2)
  BY <1>4, Zenon
<1> QED BY <1>5, <1>6, Zenon DEF IsPrefix, C1, C2

(* A changed event: verify() accepts it only when its value is unchanged.  *)
LEMMA EventDamage ==
    ASSUME NEW old, Chained(old), NEW n \in 1 .. Len(old), NEW e \in Texts, NEW rs,
           rs = Changed(old, n, e), chain_ok(rs)
    PROVE  Len(rs) = Len(old) /\ IsPrefix(Content(rs), Content(old))
<1>1. /\ old \in Seq(RowType) /\ Len(old) \in Nat /\ DOMAIN old = 1 .. Len(old)
      /\ old[n] \in RowType
  BY ChainFacts, Zenon
<1> DEFINE row == [old[n] EXCEPT !.event = e]
<1>2. row \in RowType /\ row.seq = old[n].seq /\ row.hash = old[n].hash /\ row.event = e
  BY <1>1, Zenon DEF RowType
<1>3. rs = [old EXCEPT ![n] = row]
  BY <1>1, Zenon DEF Changed
<1> HIDE DEF row
<1>4. /\ rs \in Seq(RowType) /\ Len(rs) = Len(old)
      /\ \A j \in 1 .. Len(old) : rs[j] = IF j = n THEN row ELSE old[j]
  BY <1>1, <1>2, <1>3, ExceptSeq, SMTT(60)
<1>5. prev_hash(rs, n) = prev_hash(old, n)
  <2>1. CASE n = 1
    BY <2>1, Zenon DEF prev_hash
  <2>2. CASE n # 1
    <3>1. n - 1 \in 1 .. Len(old) /\ n - 1 # n
      BY <1>1, <2>2, SMTT(60)
    <3>2. rs[n - 1] = old[n - 1]
      BY <1>4, <3>1, Zenon
    <3> QED BY <2>2, <3>2, Zenon DEF prev_hash
  <2> QED BY <2>1, <2>2, Zenon
<1>6. n \in DOMAIN rs
  BY <1>1, <1>3, Zenon
<1>7. row.hash = chain_hash(prev_hash(old, n), canonical(e.val))
  BY <1>2, <1>4, <1>5, <1>6, SMTT(60) DEF chain_ok
<1>8. canonical(e.val) \in Texts
  BY Zenon DEF Texts, canonical, Forms
<1>9. /\ old[n].hash = chain_hash(prev_hash(old, n), old[n].event)
      /\ prev_hash(old, n) \in Hashes /\ old[n].event \in Texts
  BY ChainFacts, Zenon
<1>10. old[n].event = canonical(e.val)
  <2>1. chain_hash(prev_hash(old, n), old[n].event) = chain_hash(prev_hash(old, n), canonical(e.val))
    BY <1>2, <1>7, <1>9, Zenon
  <2>2. \A h \in Hashes : \A t, u \in Texts : chain_hash(h, t) = chain_hash(h, u) => t = u
    BY HashTells, Zenon
  <2> QED BY <1>8, <1>9, <2>1, <2>2, Zenon
<1>11. old[n].event.val = e.val
  BY <1>10 DEF canonical
<1>12. \A j \in 1 .. Len(rs) : /\ rs[j].seq = old[j].seq /\ rs[j].hash = old[j].hash
                               /\ rs[j].event.val = old[j].event.val
  BY <1>2, <1>4, <1>11, Zenon
<1>13. Len(rs) <= Len(old)
  BY <1>1, <1>4, SMTT(60)
<1> QED BY <1>1, <1>4, <1>12, <1>13, SameContent, ZenonT(60)

(* A lost row: verify() accepts the loss of the last one only.             *)
LEMMA RowLoss ==
    ASSUME NEW old, Chained(old), NEW n \in 1 .. Len(old), NEW rs,
           rs = RemoveAt(old, n), chain_ok(rs)
    PROVE  IsPrefix(Content(rs), Content(old)) /\ Len(rs) \in Nat
<1>1. /\ old \in Seq(RowType) /\ Len(old) \in Nat /\ DOMAIN old = 1 .. Len(old)
      /\ \A j \in 1 .. Len(old) : old[j] \in RowType /\ old[j].seq = j
  BY ChainFacts, Zenon
<1> DEFINE a == SubSeq(old, 1, n - 1)
           b == SubSeq(old, n + 1, Len(old))
<1>2. n \in Int /\ 1 <= n /\ n <= Len(old)
  BY <1>1
<1>3. /\ a \in Seq(RowType) /\ Len(a) = n - 1
      /\ \A i \in 1 .. n - 1 : a[i] = old[i]
  <2>1. \A i \in 1 .. n - 1 : old[i] \in RowType /\ 1 + i - 1 = i
    BY <1>1, <1>2, SMTT(60)
  <2>2. n - 1 \in Int /\ (n - 1) - 1 + 1 = n - 1
    BY <1>2, SMTT(60)
  <2>3. /\ a \in Seq(RowType) /\ Len(a) = IF 1 <= n - 1 THEN n - 1 - 1 + 1 ELSE 0
        /\ \A i \in 1 .. n - 1 - 1 + 1 : a[i] = old[1 + i - 1]
    BY <2>1, <2>2, SubSeqProperties, SMTT(60)
  <2> HIDE DEF a
  <2> QED BY <1>2, <2>1, <2>2, <2>3, SMTT(60)
<1>4. /\ b \in Seq(RowType) /\ Len(b) = Len(old) - n
      /\ \A i \in 1 .. Len(old) - n : b[i] = old[n + i]
  <2>1. \A i \in n + 1 .. Len(old) : old[i] \in RowType
    BY <1>1, <1>2, SMTT(60)
  <2>2. n + 1 \in Int /\ Len(old) \in Int /\ Len(old) - (n + 1) + 1 = Len(old) - n
    BY <1>1, <1>2, SMTT(60)
  <2>3. /\ b \in Seq(RowType) /\ Len(b) = IF n + 1 <= Len(old) THEN Len(old) - (n + 1) + 1 ELSE 0
        /\ \A i \in 1 .. Len(old) - (n + 1) + 1 : b[i] = old[(n + 1) + i - 1]
    BY <2>1, <2>2, SubSeqProperties, SMTT(60)
  <2> HIDE DEF b
  <2>4. \A i \in 1 .. Len(old) - n : (n + 1) + i - 1 = n + i
    BY <1>1, <1>2, SMTT(60)
  <2>5. Len(b) = Len(old) - n
    <3>1. \A k, l \in Nat : k <= l => (IF k + 1 <= l THEN l - (k + 1) + 1 ELSE 0) = l - k
      OBVIOUS
    <3>2. n \in Nat
      BY <1>2
    <3> QED BY <1>1, <1>2, <2>3, <3>1, <3>2, ZenonT(60)
  <2>6. \A i \in 1 .. Len(old) - n : b[i] = old[n + i]
    BY <2>2, <2>3, <2>4, Zenon
  <2> QED BY <2>3, <2>5, <2>6, Zenon
<1>5. rs = a \o b
  BY Zenon DEF RemoveAt
<1> HIDE DEF a, b
<1>6. /\ rs \in Seq(RowType) /\ Len(rs) = Len(old) - 1
      /\ \A i \in 1 .. n - 1 : rs[i] = old[i]
      /\ \A i \in n .. Len(old) - 1 : rs[i] = old[i + 1]
  <2>0. a \in Seq(RowType) /\ b \in Seq(RowType)
    BY <1>3, <1>4, Zenon
  <2>1. /\ rs \in Seq(RowType) /\ Len(rs) = Len(a) + Len(b)
        /\ \A i \in 1 .. Len(a) + Len(b) : rs[i] = IF i <= Len(a) THEN a[i] ELSE b[i - Len(a)]
    BY <1>5, <2>0, ConcatProperties, SMTT(60)
  <2>2. Len(rs) = Len(old) - 1
    BY <1>1, <1>2, <1>3, <1>4, <2>1, SMTT(60)
  <2>3. ASSUME NEW i \in 1 .. n - 1 PROVE rs[i] = old[i]
    <3>1. i \in 1 .. Len(a) + Len(b) /\ i <= Len(a)
      BY <1>1, <1>2, <1>3, <1>4, SMTT(60)
    <3> QED BY <1>3, <2>1, <3>1, Zenon
  <2>4. ASSUME NEW i \in n .. Len(old) - 1 PROVE rs[i] = old[i + 1]
    <3>1. i \in 1 .. Len(a) + Len(b) /\ ~(i <= Len(a)) /\ i - Len(a) \in 1 .. Len(old) - n
          /\ n + (i - Len(a)) = i + 1
      BY <1>1, <1>2, <1>3, <1>4, SMTT(60)
    <3> QED BY <1>4, <2>1, <3>1, Zenon
  <2> QED BY <2>1, <2>2, <2>3, <2>4, Zenon
<1>7. n = Len(old)
  <2> SUFFICES ASSUME n # Len(old) PROVE FALSE
    BY Zenon
  <2>1. n \in n .. Len(old) - 1 /\ n + 1 \in 1 .. Len(old) /\ n \in 1 .. Len(rs)
    <3>1. Len(rs) = Len(old) - 1
      BY <1>6, Zenon
    <3>2. \A k, l, r \in Nat : k # 0 /\ k <= l /\ k # l /\ r = l - 1
              => k \in k .. l - 1 /\ k + 1 \in 1 .. l /\ k \in 1 .. r
      OBVIOUS
    <3>3. n \in Nat /\ n # 0 /\ Len(rs) \in Nat
      BY <1>2, <1>6, SMTT(60)
    <3> QED BY <1>1, <1>2, <3>1, <3>2, <3>3, ZenonT(60)
  <2>2. n \in DOMAIN rs
    BY <1>6, <2>1
  <2>3. rs[n].seq = n
    BY <2>2, Zenon DEF chain_ok
  <2>4. rs[n].seq = n + 1
    BY <1>1, <1>6, <2>1, Zenon
  <2> QED BY <1>2, <2>3, <2>4, SMTT(60)
<1>8. \A j \in 1 .. Len(rs) : rs[j] = old[j]
  BY <1>6, <1>7, Zenon
<1>9. Len(rs) <= Len(old)
  BY <1>1, <1>6
<1> QED BY <1>1, <1>6, <1>8, <1>9, SameContent, SMTT(60)

(* A changed seq is never accepted.                                        *)
LEMMA SeqDamage ==
    ASSUME NEW old, Chained(old), NEW n \in 1 .. Len(old), NEW rs,
           rs = [old EXCEPT ![Len(old)].seq = @ + 1], chain_ok(rs)
    PROVE  FALSE
<1>1. /\ Len(old) \in Nat /\ DOMAIN old = 1 .. Len(old) /\ Len(old) \in 1 .. Len(old)
  BY ChainFacts
<1>2. old[Len(old)] \in RowType /\ old[Len(old)].seq = Len(old)
  BY <1>1, ChainFacts, Zenon
<1>3. rs[Len(old)].seq = Len(old) + 1 /\ Len(old) \in DOMAIN rs
  BY <1>1, <1>2, Zenon DEF RowType
<1>4. rs[Len(old)].seq = Len(old)
  BY <1>3, Zenon DEF chain_ok
<1> QED BY <1>1, <1>3, <1>4, SMTT(60)

(* Two rows exchanged: the earlier one then has a hash of too many texts.  *)
LEMMA Exchange ==
    ASSUME NEW old, Chained(old), NEW n \in 1 .. Len(old), NEW m \in 1 .. Len(old), n < m,
           NEW rs, DOMAIN rs = 1 .. Len(old), rs[n].hash = old[m].hash,
           \A j \in 1 .. Len(old) : j < n => rs[j].hash = old[j].hash,
           chain_ok(rs)
    PROVE  FALSE
<1>1. Len(old) \in Nat /\ \A j \in 1 .. Len(old) : old[j].hash \in Hashes /\ Len(old[j].hash) = j
  BY ChainFacts, Zenon
<1>2. rs[n].hash = Append(prev_hash(rs, n), canonical(rs[n].event.val))
  BY Zenon DEF chain_ok, chain_hash
<1>3. prev_hash(rs, n) \in Seq(Texts) /\ Len(prev_hash(rs, n)) = n - 1
  <2>1. CASE n = 1
    BY <2>1 DEF prev_hash, GENESIS
  <2>2. CASE n # 1
    <3>1. n - 1 \in 1 .. Len(old) /\ n - 1 < n
      BY <1>1, <2>2
    <3>2. rs[n - 1].hash = old[n - 1].hash
      BY <3>1, Zenon
    <3> QED BY <1>1, <2>2, <3>1, <3>2, Zenon DEF prev_hash, Hashes
  <2> QED BY <2>1, <2>2, Zenon
<1>4. \A h \in Seq(Texts) : \A t : Len(Append(h, t)) = Len(h) + 1
  OBVIOUS
<1>5. Len(rs[n].hash) = n - 1 + 1
  BY <1>2, <1>3, <1>4, Zenon
<1> QED BY <1>1, <1>5, SMTT(60)

(* What verify() accepts of a damaged ledger is a prefix of what was       *)
(* written.                                                                *)
LEMMA AcceptedIsPrefix ==
    ASSUME NEW old, Chained(old), NEW rs, rs = old \/ rs \in Damages(old), chain_ok(rs)
    PROVE  IsPrefix(Content(rs), Content(old)) /\ Len(rs) \in Nat
<1>1. old \in Seq(RowType) /\ Len(old) \in Nat /\ DOMAIN old = 1 .. Len(old)
  BY ChainFacts, Zenon
<1>2. CASE rs = old
  <2>1. Len(rs) <= Len(old)
    BY <1>1, <1>2
  <2> QED BY <1>1, <1>2, <2>1, SameContent, Zenon
<1>3. ASSUME NEW n \in 1 .. Len(old), NEW e \in Texts, rs = Changed(old, n, e)
      PROVE  Len(rs) = Len(old) /\ IsPrefix(Content(rs), Content(old))
  BY <1>3, EventDamage, Zenon
<1>4. ASSUME NEW n \in 1 .. Len(old), rs = RemoveAt(old, n)
      PROVE  IsPrefix(Content(rs), Content(old)) /\ Len(rs) \in Nat
  BY <1>4, RowLoss, Zenon
<1>5. ASSUME NEW n \in 1 .. Len(old), rs = [old EXCEPT ![Len(old)].seq = @ + 1]
      PROVE  FALSE
  BY <1>5, SeqDamage, Zenon
<1>6. ASSUME NEW n \in 1 .. Len(old), NEW m \in 1 .. Len(old), rs = Exchanged(old, n, m)
      PROVE  Len(rs) = Len(old) /\ IsPrefix(Content(rs), Content(old))
  <2>1. \A j \in 1 .. Len(old) : old[j] \in RowType
    BY ChainFacts, Zenon
  <2>2. /\ DOMAIN rs = 1 .. Len(old)
        /\ \A j \in 1 .. Len(old) : j # n /\ j # m => rs[j] = old[j]
    BY <1>1, <1>6, Zenon DEF Exchanged
  <2>3. n # m => rs[n].hash = old[m].hash /\ rs[m].hash = old[n].hash
    BY <1>1, <1>6, <2>1, Zenon DEF RowType, Exchanged
  <2>4. CASE n < m
    <3>1. n # m /\ \A j \in 1 .. Len(old) : j < n => j # n /\ j # m
      BY <1>1, <2>4
    <3>2. \A j \in 1 .. Len(old) : j < n => rs[j].hash = old[j].hash
      BY <2>2, <3>1, Zenon
    <3> QED BY <2>2, <2>3, <2>4, <3>1, <3>2, Exchange, ZenonT(60)
  <2>5. CASE m < n
    <3>1. n # m /\ \A j \in 1 .. Len(old) : j < m => j # n /\ j # m
      BY <1>1, <2>5
    <3>2. \A j \in 1 .. Len(old) : j < m => rs[j].hash = old[j].hash
      BY <2>2, <3>1, Zenon
    <3> QED BY <2>2, <2>3, <2>5, <3>1, <3>2, Exchange, ZenonT(60)
  <2>6. CASE n = m
    <3>1. old[n].event = old[m].event /\ old[n].hash = old[m].hash
      BY <2>6, Zenon
    <3>2. rs = old
      BY <1>1, <1>6, <2>1, <2>6, SMTT(60) DEF RowType, Exchanged
    <3> QED BY <1>2, <3>2, Zenon
  <2> QED BY <1>1, <2>4, <2>5, <2>6, SMTT(60)
<1>7. CASE rs \in Damages(old)
  <2>1. \/ \E n \in 1 .. Len(old), e \in Texts : rs = Changed(old, n, e)
        \/ \E n \in 1 .. Len(old) : rs = RemoveAt(old, n)
        \/ \E n \in 1 .. Len(old) : rs = [old EXCEPT ![Len(old)].seq = @ + 1]
        \/ \E n \in 1 .. Len(old), m \in 1 .. Len(old) : rs = Exchanged(old, n, m)
    BY <1>1, <1>7 DEF Damages
  <2> QED BY <1>1, <1>3, <1>4, <1>5, <1>6, <2>1, ZenonT(60)
<1> QED BY <1>2, <1>7, Zenon

(* The program's steps and the damage keep this.                           *)
LEMMA DamageStep == Inv /\ DamageInv /\ [Next]_vars => DamageInv'
<1> SUFFICES ASSUME Inv, DamageInv, [Next]_vars PROVE DamageInv'
  BY Zenon
<1>1. CASE UNCHANGED vars
  BY <1>1, Zenon DEF vars, DamageInv
<1>2. ASSUME NEW s \in Sessions, Damage(s) PROVE DamageInv'
  <2>1. ~damaged /\ damaged' /\ UNCHANGED <<seals, written>>
    BY <1>2, Zenon DEF Damage
  <2>2. RowsInv /\ SealsInv /\ written = rows
    BY <2>1, Zenon DEF Inv, DamageInv
  <2>3. PICK rs \in Damages(rows[s]) : rows' = [rows EXCEPT ![s] = rs]
    BY <1>2, Zenon DEF Damage
  <2>4. \A t \in Sessions : rows'[t] = IF t = s THEN rs ELSE rows[t]
    BY <2>2, <2>3, Zenon DEF RowsInv
  <2>5. \A t \in Sessions : rows'[t] = written[t] \/ rows'[t] \in Damages(written[t])
    BY <2>2, <2>3, <2>4, Zenon
  <2> QED BY <2>1, <2>2, <2>5, Zenon DEF DamageInv, RowsInv, SealsInv
<1>3. CASE Next /\ ~\E s \in Sessions : Damage(s)
  <2>1. /\ ~damaged /\ ~damaged'
        /\ written' = rows' \/ UNCHANGED <<rows, written>>
    <3>1. ASSUME NEW a \in Writers, AppendInsert(a) PROVE ~damaged /\ ~damaged' /\ written' = rows'
      BY <3>1, Zenon DEF AppendInsert
    <3>2. ~(\E a \in Writers : AppendInsert(a)) => ~damaged /\ ~damaged' /\ UNCHANGED <<rows, written>>
      BY <1>3, Zenon DEF Next, AppendHead, Join, ExportTeam, ExportSession,
             SealHead, SealWrite, BuildTeam, ReadEvents, ReadSeal, ExportAgain
    <3> QED BY <3>1, <3>2, Zenon
  <2> QED BY <2>1, Zenon DEF DamageInv
<1> QED BY <1>1, <1>2, <1>3, Zenon

(* ledger.py, verify: a ledger it accepts after any one damage is a prefix *)
(* of what was appended, and has every row that its seal counted.          *)
THEOREM DamageShows == Spec => []TamperEvident
<1>1. Inv /\ DamageInv => TamperEvident
  <2> SUFFICES ASSUME Inv, DamageInv, NEW s \in Sessions, verify(rows[s], seals[s], NoKey)
               PROVE  IsPrefix(Content(rows[s]), Content(written[s])) /\ Len(rows[s]) >= seals[s].count
    BY Zenon DEF TamperEvident
  <2>1. /\ Chained(written[s]) /\ Past(written[s], seals[s].head, seals[s].count)
        /\ rows[s] = written[s] \/ rows[s] \in Damages(written[s])
    BY Zenon DEF Inv, DamageInv, RowsInv, SealsInv
  <2>2. chain_ok(rows[s]) /\ (seals[s] # NoSeal => seals[s].count = Len(rows[s]))
    BY Zenon DEF verify
  <2>3. IsPrefix(Content(rows[s]), Content(written[s])) /\ Len(rows[s]) \in Nat
    BY <2>1, <2>2, AcceptedIsPrefix, Zenon
  <2>4. Len(rows[s]) >= seals[s].count
    BY <2>2, <2>3 DEF NoSeal
  <2> QED BY <2>3, <2>4, Zenon
<1>2. Init => DamageInv
  BY Zenon DEF Init, DamageInv
<1> QED BY <1>1, <1>2, DamageStep, InvHolds, PTL DEF Spec

-----------------------------------------------------------------------------
(***************************************************************************)
(* An export in flight.  What it has read is a prefix of the ledger that   *)
(* reaches back to its start, and the sessions it sealed have its seal.    *)
(***************************************************************************)
Orders == Seq(Sessions)
RowSeqs == Seq(RowType)
SealRow == [head: Hashes, count: Nat, key: Keys \cup {NoKey}]
Part == [session: Sessions, events: RowSeqs, seal: SealRow]
Parts == Seq(Part)
Marks == [Sessions -> Nat]
Export == [pc: {"seal", "events", "readseal", "done"}, key: Keys, team: BOOLEAN,
           todo: Orders, own: Orders, got: Parts, at: Marks]
Sealing == [pc: {"sealing"}, key: Keys, team: BOOLEAN, todo: Orders, own: Orders, got: Parts,
            at: Marks, head: Hashes, count: Nat]

PartOk(g, at) ==
    /\ Chained(g.events) /\ IsPrefix(g.events, rows[g.session])
    /\ Len(g.events) >= at[g.session]
    /\ Past(rows[g.session], g.seal.head, g.seal.count)

(* A seal this export wrote: under its key, of all rows it started with.   *)
Covers(seal, key, n) == seal.key = key /\ seal.count >= n

(* The seal of the last part is still to be read in "readseal".            *)
GotInv ==
    \A i \in 1 .. Len(x.got) :
        /\ PartOk(x.got[i], x.at)
        /\ ~(x.pc = "readseal" /\ i = Len(x.got)) /\ x.got[i].session \in ToSet(x.own)
              => Covers(x.got[i].seal, x.key, x.at[x.got[i].session])
OwnInv ==
    \A s \in ToSet(x.own) : \/ x.pc \in {"seal", "sealing"} /\ s \in ToSet(x.todo)
                            \/ Covers(seals[s], x.key, x.at[s])

BundleInv ==
    /\ seals \in [Sessions -> SealRow]
    /\ x = Idle \/ x \in Export \/ x \in Sealing
    /\ x # Idle =>
         /\ \A s \in Sessions : x.at[s] <= Len(rows[s])
         /\ GotInv /\ OwnInv
         /\ x.pc \in {"seal", "sealing"} /\ ~x.team => \E s \in Sessions : x.todo = <<s>>
         /\ x.pc = "sealing" => x.count >= x.at[Head(x.todo)]
         /\ x.pc = "readseal" => x.got # <<>> /\ x.got[Len(x.got)].session = Head(x.todo)

(* The fields of an export.                                                *)
LEMMA ExportFields ==
    ASSUME BundleInv, x.pc # "idle"
    PROVE  /\ x # Idle /\ x \in Export \cup Sealing
           /\ x.key \in Keys /\ x.todo \in Orders /\ x.own \in Orders /\ x.got \in Parts /\ x.at \in Marks
           /\ x.pc # "sealing" => x \in Export
           /\ x.pc = "sealing" => x.head \in Hashes /\ x.count \in Nat
<1>1. x # Idle /\ (x \in Export \/ x \in Sealing)
  BY DEF BundleInv, Idle
<1> QED BY <1>1, Zenon DEF Export, Sealing

(* The set of the sessions in a list.                                      *)
LEMMA Listed ==
    ASSUME NEW S, NEW l \in Seq(S)
    PROVE  /\ ToSet(l) \subseteq S
           /\ l # <<>> => /\ Head(l) \in ToSet(l) /\ Tail(l) \in Seq(S)
                          /\ \A s \in ToSet(l) : s = Head(l) \/ s \in ToSet(Tail(l))
<1>1. Len(l) \in Nat /\ DOMAIN l = 1 .. Len(l) /\ \A i \in 1 .. Len(l) : l[i] \in S
  OBVIOUS
<1>2. ToSet(l) \subseteq S
  BY <1>1, Zenon DEF ToSet
<1>3. ASSUME l # <<>>
      PROVE  /\ Head(l) \in ToSet(l) /\ Tail(l) \in Seq(S)
             /\ \A s \in ToSet(l) : s = Head(l) \/ s \in ToSet(Tail(l))
  <2>1. Head(l) = l[1] /\ 1 \in 1 .. Len(l)
    BY <1>1, <1>3, SMTT(60)
  <2>2. /\ Tail(l) \in Seq(S) /\ Len(Tail(l)) = Len(l) - 1
        /\ \A i \in 1 .. Len(l) - 1 : Tail(l)[i] = l[i + 1]
    BY <1>1, <1>3, SMTT(60)
  <2>3. ASSUME NEW i \in 1 .. Len(l), i # 1 PROVE l[i] \in ToSet(Tail(l))
    <3>1. i - 1 \in 1 .. Len(l) - 1 /\ (i - 1) + 1 = i
      BY <1>1, <2>3, SMTT(60)
    <3>2. Tail(l)[i - 1] = l[i] /\ i - 1 \in DOMAIN Tail(l)
      BY <2>2, <3>1
    <3> QED BY <3>2, Zenon DEF ToSet
  <2>4. \A s \in ToSet(l) : s = Head(l) \/ s \in ToSet(Tail(l))
    BY <1>1, <2>1, <2>3, Zenon DEF ToSet
  <2> QED BY <1>1, <2>1, <2>2, <2>4, Zenon DEF ToSet
<1> QED BY <1>2, <1>3, Zenon

(* Prefixes, row by row.                                                   *)
LEMMA PrefixFacts ==
    ASSUME NEW S, NEW a \in Seq(S), NEW b \in Seq(S)
    PROVE  /\ IsPrefix(a, b) <=> Len(a) <= Len(b) /\ \A i \in 1 .. Len(a) : a[i] = b[i]
           /\ IsPrefix(a, b) /\ Len(b) <= Len(a) => a = b
           /\ IsPrefix(a, a)
<1>1. Len(a) \in Nat /\ Len(b) \in Nat
  OBVIOUS
<1>2. SubSeq(a, 1, Len(a)) = [i \in 1 .. Len(a) |-> a[i]]
  BY <1>1
<1>3. SubSeq(b, 1, Len(a)) = [i \in 1 .. Len(a) |-> b[i]]
  BY <1>1
<1>4. IsPrefix(a, b) <=> Len(a) <= Len(b) /\ \A i \in 1 .. Len(a) : a[i] = b[i]
  BY <1>2, <1>3, Zenon DEF IsPrefix
<1>5. IsPrefix(a, b) /\ Len(b) <= Len(a) => a = b
  <2> SUFFICES ASSUME IsPrefix(a, b), Len(b) <= Len(a) PROVE a = b
    BY Zenon
  <2>1. Len(a) = Len(b) /\ \A i \in 1 .. Len(a) : a[i] = b[i]
    BY <1>1, <1>4, SMTT(60)
  <2> QED BY <2>1, SeqEqual, Zenon
<1>6. IsPrefix(a, a)
  BY <1>1 DEF IsPrefix
<1> QED BY <1>4, <1>5, <1>6, Zenon

(* Rows that are added take nothing from what an export has read.          *)
LEMMA PartGrows ==
    ASSUME NEW g \in Part, NEW at, PartOk(g, at), rows \in [Sessions -> RowSeqs],
           rows' \in [Sessions -> RowSeqs],
           \A s \in Sessions : Len(rows[s]) <= Len(rows'[s]) /\ \A n \in 1 .. Len(rows[s]) : rows'[s][n] = rows[s][n],
           \A s \in Sessions : \A h, c : Past(rows[s], h, c) => Past(rows'[s], h, c)
    PROVE  PartOk(g, at)'
<1> DEFINE s == g.session
<1>1. s \in Sessions /\ g.events \in RowSeqs
  BY Zenon DEF Part
<1>2. rows[s] \in RowSeqs /\ rows'[s] \in RowSeqs
  BY <1>1, Zenon
<1>3. Len(g.events) \in Nat /\ Len(rows[s]) \in Nat /\ Len(rows'[s]) \in Nat
  BY <1>1, <1>2, SMTT(60) DEF RowSeqs
<1>4. Len(g.events) <= Len(rows[s]) /\ \A i \in 1 .. Len(g.events) : g.events[i] = rows[s][i]
  BY <1>1, <1>2, PrefixFacts, SMTT(60) DEF PartOk, RowSeqs
<1>5. Len(g.events) <= Len(rows'[s]) /\ \A i \in 1 .. Len(g.events) : g.events[i] = rows'[s][i]
  BY <1>1, <1>3, <1>4, SMTT(60)
<1>6. IsPrefix(g.events, rows'[s])
  <2>1. \A a, b \in RowSeqs : Len(a) <= Len(b) /\ (\A i \in 1 .. Len(a) : a[i] = b[i]) => IsPrefix(a, b)
    BY PrefixFacts, Zenon DEF RowSeqs
  <2> QED BY <1>1, <1>2, <1>5, <2>1, Zenon
<1>7. Past(rows'[s], g.seal.head, g.seal.count)
  BY <1>1, Zenon DEF PartOk
<1> QED BY <1>6, <1>7, Zenon DEF PartOk

(* append() adds a row, if any, at the end of one session.                 *)
LEMMA RowsGrow ==
    ASSUME Inv, NEW a \in Writers, AppendInsert(a)
    PROVE  /\ rows \in [Sessions -> RowSeqs] /\ rows' \in [Sessions -> RowSeqs]
           /\ \A s \in Sessions : /\ Len(rows[s]) <= Len(rows'[s])
                                  /\ \A n \in 1 .. Len(rows[s]) : rows'[s][n] = rows[s][n]
           /\ \A s \in Sessions : \A h, c : Past(rows[s], h, c) => Past(rows'[s], h, c)
<1>1. rows \in [Sessions -> RowSeqs]
  BY Zenon DEF Inv, AppendInsert, RowsInv, RowSeqs
<1>2. CASE UNCHANGED rows
  <2>1. \A s \in Sessions : Len(rows[s]) \in Nat
    BY <1>1 DEF RowSeqs
  <2> QED BY <1>1, <1>2, <2>1, SMTT(60)
<1>3. ASSUME NEW t \in Sessions, NEW row \in RowType, rows' = [rows EXCEPT ![t] = Append(rows[t], row)]
      PROVE  /\ rows' \in [Sessions -> RowSeqs]
             /\ \A s \in Sessions : /\ Len(rows[s]) <= Len(rows'[s])
                                    /\ \A n \in 1 .. Len(rows[s]) : rows'[s][n] = rows[s][n]
             /\ \A s \in Sessions : \A h, c : Past(rows[s], h, c) => Past(rows'[s], h, c)
  <2> DEFINE new == Append(rows[t], row)
  <2>1. rows[t] \in Seq(RowType) /\ Len(rows[t]) \in Nat
    BY <1>1 DEF RowSeqs
  <2>2. new \in RowSeqs /\ Len(rows[t]) <= Len(new) /\ \A n \in 1 .. Len(rows[t]) : new[n] = rows[t][n]
    BY <2>1 DEF RowSeqs
  <2>3. \A h, c : Past(rows[t], h, c) => Past(new, h, c)
    BY <2>1, PastGrows, Zenon
  <2> HIDE DEF new
  <2>4. \A s \in Sessions : rows'[s] = IF s = t THEN new ELSE rows[s]
    BY <1>1, <1>3, Zenon DEF new
  <2>5. rows' \in [Sessions -> RowSeqs]
    BY <1>1, <1>3, <2>2, ZenonT(60) DEF new
  <2>6. \A s \in Sessions : Len(rows[s]) \in Nat
    BY <1>1 DEF RowSeqs
  <2> QED BY <2>2, <2>3, <2>4, <2>5, <2>6, SMTT(60)
<1> QED BY <1>1, <1>2, <1>3, InsertCases, Zenon

(* append() leaves an export in flight as it should be.                    *)
LEMMA BundleAppend ==
    ASSUME Inv, BundleInv, NEW a \in Writers, AppendInsert(a)
    PROVE  BundleInv'
<1>1. UNCHANGED <<seals, x>>
  BY Zenon DEF AppendInsert
<1> SUFFICES ASSUME x # Idle
             PROVE  (\A s \in Sessions : x.at[s] <= Len(rows'[s])) /\ GotInv'
  BY <1>1, Zenon DEF BundleInv, OwnInv
<1>2. x.got \in Parts /\ x.at \in Marks
  BY Zenon DEF BundleInv, Export, Sealing
<1>3. \A s \in Sessions : x.at[s] <= Len(rows'[s])
  <2> TAKE s \in Sessions
  <2>1. x.at[s] \in Nat /\ Len(rows[s]) \in Nat /\ Len(rows'[s]) \in Nat
    BY <1>2, RowsGrow, SMTT(60) DEF Marks, RowSeqs
  <2>2. x.at[s] <= Len(rows[s]) /\ Len(rows[s]) <= Len(rows'[s])
    BY RowsGrow, Zenon DEF BundleInv
  <2> QED BY <2>1, <2>2, SMTT(60)
<1>4. ASSUME NEW i \in 1 .. Len(x.got) PROVE PartOk(x.got[i], x.at)'
  <2>1. x.got[i] \in Part
    BY <1>2, SMTT(60) DEF Parts
  <2>2. PartOk(x.got[i], x.at)
    BY Zenon DEF BundleInv, GotInv
  <2>3. \A g \in Part : \A at : PartOk(g, at) => PartOk(g, at)'
    BY RowsGrow, PartGrows, Zenon
  <2> QED BY <1>1, <2>1, <2>2, <2>3, ZenonT(60)
<1>5. GotInv'
  BY <1>1, <1>4, Zenon DEF BundleInv, GotInv
<1> QED BY <1>3, <1>5, Zenon

(* The fields that a new export starts with.                               *)
LEMMA BundleStart ==
    ASSUME Inv, BundleInv, ~damaged,
           \/ \E k \in Keys : ExportTeam(k)
           \/ \E k \in Keys, s \in Sessions, b \in BOOLEAN : ExportSession(k, s, b)
    PROVE  BundleInv'
<1>1. UNCHANGED <<rows, seals>> /\ members \in Orders /\ rows \in [Sessions -> RowSeqs]
  BY Zenon DEF ExportTeam, ExportSession, Inv, ExportInv, RowsInv, Orders, RowSeqs
<1>2. PICK k \in Keys, t \in BOOLEAN, todo \in Orders, own \in Orders, p \in {"seal", "events"} :
        /\ x' = [pc |-> p, key |-> k, team |-> t, todo |-> todo, own |-> own, got |-> <<>>, at |-> Started]
        /\ p = "seal" => own = todo
        /\ p = "events" => own = <<>>
        /\ p = "seal" /\ ~t => \E s \in Sessions : todo = <<s>>
  <2>1. ASSUME NEW k \in Keys, ExportTeam(k)
        PROVE  x' = [pc |-> "seal", key |-> k, team |-> TRUE, todo |-> members, own |-> members,
                     got |-> <<>>, at |-> Started]
    BY <2>1, Zenon DEF ExportTeam
  <2>2. ASSUME NEW k \in Keys, NEW s \in Sessions, NEW b \in BOOLEAN, ExportSession(k, s, b)
        PROVE  \/ x' = [pc |-> "seal", key |-> k, team |-> FALSE, todo |-> <<s>>, own |-> <<s>>,
                        got |-> <<>>, at |-> Started]
               \/ x' = [pc |-> "events", key |-> k, team |-> FALSE, todo |-> <<s>>, own |-> <<>>,
                        got |-> <<>>, at |-> Started]
    BY <2>2, Zenon DEF ExportSession
  <2>3. <<>> \in Orders /\ \A s \in Sessions : <<s>> \in Orders
    BY DEF Orders
  <2> QED BY <1>1, <2>1, <2>2, <2>3, ZenonT(60)
<1>3. Started \in Marks /\ \A s \in Sessions : Started[s] = Len(rows[s]) /\ Started[s] <= Len(rows[s])
  BY <1>1, SMTT(60) DEF Started, Marks, RowSeqs
<1>4. x' \in Export /\ x'.got = <<>> /\ x'.at = Started /\ x'.pc = p /\ x'.own = own /\ x'.todo = todo
      /\ x'.team = t
  <2>1. <<>> \in Parts
    BY DEF Parts
  <2> QED BY <1>2, <1>3, <2>1, ZenonT(60) DEF Export
<1>5. ToSet(<<>>) = {}
  BY SMTT(60) DEF ToSet
<1>6. GotInv' /\ OwnInv'
  BY <1>2, <1>4, <1>5, SMTT(60) DEF GotInv, OwnInv
<1> QED BY <1>1, <1>2, <1>3, <1>4, <1>6, ZenonT(60) DEF BundleInv

(* seal() reads a head that counts at least the rows of the start.         *)
LEMMA BundleSealHead ==
    ASSUME Inv, BundleInv, SealHead
    PROVE  BundleInv'
<1>1. /\ UNCHANGED <<rows, seals>> /\ x.pc = "seal" /\ x.todo # <<>> /\ ~damaged
  BY Zenon DEF SealHead
<1>2. x \in Export /\ x.todo \in Orders /\ x.at \in Marks
  BY <1>1, ExportFields, Zenon
<1> DEFINE s == Head(x.todo)
           h == head(rows[s])
<1>3. s \in Sessions
  BY <1>1, <1>2, SMTT(60) DEF Orders
<1>4. Chained(rows[s])
  BY <1>1, <1>3, ZenonT(60) DEF Inv, RowsInv
<1>5. h.hash \in Hashes /\ h.seq \in Nat /\ h.seq = Len(rows[s])
  BY <1>4, HeadIsPast, SMTT(60) DEF Past
<1>6. x' = [pc |-> "sealing", key |-> x.key, team |-> x.team, todo |-> x.todo, own |-> x.own,
            got |-> x.got, at |-> x.at, head |-> h.hash, count |-> h.seq]
  BY Zenon DEF SealHead
<1> HIDE DEF h
<1>7. /\ x'.pc = "sealing" /\ x'.todo = x.todo /\ x'.own = x.own /\ x'.got = x.got /\ x'.at = x.at
      /\ x'.key = x.key /\ x'.count = h.seq /\ x'.team = x.team
  BY <1>6, Zenon
<1>8. x' \in Sealing
  BY <1>2, <1>5, <1>6, ZenonT(60) DEF Export, Sealing
<1>9. x # Idle
  BY <1>1, SMTT(60) DEF Idle
<1>10. x.at[s] <= Len(rows[s]) /\ x.at[s] \in Nat /\ Len(rows[s]) \in Nat
  BY <1>2, <1>3, <1>4, <1>9, ChainFacts, ZenonT(60) DEF BundleInv, Marks
<1>11. x'.count >= x'.at[Head(x'.todo)]
  BY <1>5, <1>7, <1>10, Zenon
<1>12. GotInv' /\ OwnInv'
  BY <1>1, <1>7, <1>9, Zenon DEF BundleInv, GotInv, OwnInv, PartOk
<1> QED BY <1>1, <1>7, <1>8, <1>9, <1>11, <1>12, ZenonT(60) DEF BundleInv

(* seal() writes it: one more of the export's sessions is sealed.          *)
LEMMA BundleSealWrite ==
    ASSUME Inv, BundleInv, SealWrite
    PROVE  BundleInv'
<1>1. UNCHANGED rows /\ x.pc = "sealing" /\ ~damaged
  BY Zenon DEF SealWrite
<1>2. x \in Sealing /\ x.todo \in Orders /\ x.own \in Orders /\ x.at \in Marks /\ x.key \in Keys
      /\ x.head \in Hashes /\ x.count \in Nat /\ x # Idle
  <2>1. x # Idle /\ x \in Export \cup Sealing
    BY <1>1, ExportFields, Zenon
  <2>2. x \in Sealing
    BY <1>1, <2>1, Zenon DEF Export
  <2> QED BY <1>1, <2>1, <2>2, ExportFields, Zenon
<1>3. x.todo # <<>>
  BY <1>1, Zenon DEF Inv, ExportInv
<1> DEFINE s == Head(x.todo)
           k == [head |-> x.head, count |-> x.count, key |-> x.key]
<1>4. /\ s \in Sessions /\ Tail(x.todo) \in Orders
      /\ \A t \in ToSet(x.todo) : t = s \/ t \in ToSet(Tail(x.todo))
  BY <1>2, <1>3, Listed, Zenon DEF Orders
<1>5. seals' = [seals EXCEPT ![s] = k]
  BY Zenon DEF SealWrite
<1>6. k \in SealRow /\ Covers(k, x.key, x.at[s])
  BY <1>1, <1>2, Zenon DEF SealRow, Covers, BundleInv
<1> HIDE DEF k
<1>7. seals' \in [Sessions -> SealRow] /\ \A t \in Sessions : seals'[t] = IF t = s THEN k ELSE seals[t]
  BY <1>5, <1>6, Zenon DEF BundleInv
<1>8. x' = [pc |-> IF x.team THEN "seal" ELSE "events", key |-> x.key,
            team |-> x.team, todo |-> IF x.team THEN Tail(x.todo) ELSE x.todo,
            own |-> x.own, got |-> x.got, at |-> x.at]
  BY Zenon DEF SealWrite
<1>9. /\ x'.pc = (IF x.team THEN "seal" ELSE "events") /\ x'.own = x.own /\ x'.got = x.got
      /\ x'.at = x.at /\ x'.key = x.key /\ x'.team = x.team /\ x'.todo = IF x.team THEN Tail(x.todo) ELSE x.todo
  BY <1>8, Zenon
<1>10. x' \in Export
  BY <1>2, <1>4, <1>8, Zenon DEF Export, Sealing
<1>11. GotInv'
  <2>1. x'.pc # "readseal"
    BY <1>9, Zenon
  <2> QED BY <1>1, <1>2, <1>9, <2>1, ZenonT(60) DEF BundleInv, GotInv, PartOk
<1>12. OwnInv'
  <2> SUFFICES ASSUME NEW t \in ToSet(x.own)
               PROVE  \/ x'.pc = "seal" /\ t \in ToSet(x'.todo)
                      \/ Covers(seals'[t], x.key, x.at[t])
    BY <1>9, Zenon DEF OwnInv
  <2>1. t \in Sessions
    BY <1>2, Listed, Zenon DEF Orders
  <2>2. t \in ToSet(x.todo) \/ Covers(seals[t], x.key, x.at[t])
    BY <1>2, Zenon DEF BundleInv, OwnInv
  <2>3. CASE t = s
    BY <1>6, <1>7, <2>1, <2>3, Zenon
  <2>4. CASE t # s /\ Covers(seals[t], x.key, x.at[t])
    BY <1>7, <2>1, <2>4, Zenon
  <2>5. CASE t # s /\ t \in ToSet(x.todo)
    <3>1. CASE x.team
      BY <1>4, <1>9, <2>5, <3>1, ZenonT(60)
    <3>2. CASE ~x.team
      <4>1. PICK u \in Sessions : x.todo = <<u>>
        BY <1>1, <1>2, <3>2, Zenon DEF BundleInv
      <4>2. ToSet(<<u>>) = {u} /\ Head(<<u>>) = u
        BY DEF ToSet
      <4> QED BY <2>5, <4>1, <4>2, SMTT(60)
    <3> QED BY <3>1, <3>2, Zenon
  <2> QED BY <2>2, <2>3, <2>4, <2>5, ZenonT(60)
<1>13. x'.pc \in {"seal", "events"}
  BY <1>9, Zenon
<1>14. x'.pc = "seal" => x'.team
  BY <1>2, <1>9, Zenon DEF Sealing
<1> QED BY <1>1, <1>2, <1>7, <1>9, <1>10, <1>11, <1>12, <1>13, <1>14, ZenonT(60) DEF BundleInv

(* The members are listed again; a session's rows are read, then its seal. *)
LEMMA BundleRead ==
    ASSUME Inv, BundleInv, BuildTeam \/ ReadEvents \/ ReadSeal
    PROVE  BundleInv'
<1>1. UNCHANGED <<rows, seals>> /\ x.pc \in {"seal", "events", "readseal"} /\ ~damaged
  BY Zenon DEF BuildTeam, ReadEvents, ReadSeal
<1>2. x \in Export /\ x # Idle /\ x.todo \in Orders /\ x.own \in Orders /\ x.got \in Parts /\ x.at \in Marks
  BY <1>1, ExportFields, Zenon
<1>3. /\ \A s \in Sessions : x.at[s] <= Len(rows[s])
      /\ GotInv /\ OwnInv
  BY <1>2, Zenon DEF BundleInv
<1>4. rows \in [Sessions -> RowSeqs] /\ \A s \in Sessions : Chained(rows[s])
  BY <1>1, Zenon DEF Inv, RowsInv, RowSeqs
<1>5. CASE BuildTeam
  <2>1. members \in Orders /\ x.pc = "seal" /\ x.todo = <<>>
    BY <1>1, <1>5, Zenon DEF BuildTeam, Inv, ExportInv, Orders
  <2>2. /\ x' \in Export /\ x'.pc = "events" /\ x'.own = x.own /\ x'.got = x.got
        /\ x'.at = x.at /\ x'.key = x.key
    BY <1>2, <1>5, <2>1, Zenon DEF BuildTeam, Export
  <2>3. ToSet(<<>>) = {}
    BY DEF ToSet
  <2>4. OwnInv'
    BY <1>1, <1>3, <2>1, <2>2, <2>3, ZenonT(60) DEF OwnInv
  <2>5. GotInv'
    BY <1>1, <1>3, <2>1, <2>2, Zenon DEF GotInv, PartOk
  <2> QED BY <1>1, <1>3, <2>2, <2>4, <2>5, ZenonT(60) DEF BundleInv, Idle
<1>6. CASE ReadEvents
  <2> DEFINE s == Head(x.todo)
             g == [session |-> s, events |-> rows[s], seal |-> NoSeal]
  <2>1. x.pc = "events" /\ x.todo # <<>> /\ s \in Sessions
    BY <1>2, <1>6, SMTT(60) DEF ReadEvents, Orders
  <2>2. g \in Part
    <3>1. NoSeal \in SealRow
      BY DEF NoSeal, SealRow, GENESIS, Hashes
    <3> QED BY <1>4, <2>1, <3>1, Zenon DEF Part
  <2>3. PartOk(g, x.at)
    <3>1. Chained(rows[s]) /\ rows[s] \in Seq(RowType) /\ Len(rows[s]) \in Nat
      BY <1>4, <2>1, ChainFacts, Zenon
    <3>2. IsPrefix(rows[s], rows[s])
      BY <3>1, PrefixFacts, SMTT(60)
    <3>3. Past(rows[s], NoSeal.head, NoSeal.count)
      BY <3>1 DEF Past, NoSeal, GENESIS, Hashes, prev_hash
    <3>4. Len(rows[s]) >= x.at[s]
      BY <1>2, <1>3, <2>1, <3>1, Zenon DEF Marks
    <3>5. g.session = s /\ g.events = rows[s] /\ g.seal = NoSeal
      BY Zenon
    <3> QED BY <3>1, <3>2, <3>3, <3>4, <3>5, ZenonT(60) DEF PartOk
  <2>4. x' = [x EXCEPT !.pc = "readseal", !.got = Append(x.got, g)]
    BY <1>2, <1>6, Zenon DEF ReadEvents, Export
  <2>5. g.session = s
    BY Zenon
  <2> HIDE DEF g
  <2>6. /\ Append(x.got, g) \in Parts /\ Len(Append(x.got, g)) = Len(x.got) + 1 /\ Len(x.got) \in Nat
        /\ Append(x.got, g)[Len(x.got) + 1] = g /\ \A i \in 1 .. Len(x.got) : Append(x.got, g)[i] = x.got[i]
        /\ Append(x.got, g) # <<>>
    BY <1>2, <2>2, AppendProperties, SMTT(60) DEF Parts
  <2>7. /\ x' \in Export /\ x'.pc = "readseal" /\ x'.own = x.own /\ x'.got = Append(x.got, g)
        /\ x'.at = x.at /\ x'.key = x.key /\ x'.todo = x.todo
    BY <1>2, <2>4, <2>6, Zenon DEF Export
  <2>8. OwnInv'
    BY <1>1, <1>3, <2>1, <2>7, Zenon DEF OwnInv
  <2>9. GotInv'
    <3> SUFFICES ASSUME NEW i \in 1 .. Len(x'.got)
                 PROVE  /\ PartOk(x'.got[i], x.at)
                        /\ i # Len(x'.got) /\ x'.got[i].session \in ToSet(x.own)
                              => Covers(x'.got[i].seal, x.key, x.at[x'.got[i].session])
      BY <1>1, <2>7, Zenon DEF GotInv, PartOk
    <3>1. CASE i = Len(x.got) + 1
      BY <2>3, <2>6, <2>7, <3>1, Zenon
    <3>2. CASE i # Len(x.got) + 1
      <4>1. i \in 1 .. Len(x.got)
        BY <2>6, <2>7, <3>2, SMTT(60)
      <4>2. x'.got[i] = x.got[i]
        BY <2>6, <2>7, <4>1, Zenon
      <4> QED BY <1>3, <2>1, <4>1, <4>2, ZenonT(60) DEF GotInv
    <3> QED BY <3>1, <3>2, Zenon
  <2>10. x'.got # <<>> /\ x'.got[Len(x'.got)].session = Head(x'.todo)
    BY <2>5, <2>6, <2>7, Zenon
  <2> QED BY <1>1, <1>3, <2>7, <2>8, <2>9, <2>10, ZenonT(60) DEF BundleInv, Idle
<1>7. CASE ReadSeal
  <2> DEFINE s == Head(x.todo)
             n == Len(x.got)
             g == [x.got[n] EXCEPT !.seal = seals[s]]
  <2>1. x.pc = "readseal" /\ x.todo # <<>> /\ s \in Sessions /\ Tail(x.todo) \in Orders
    BY <1>1, <1>2, <1>7, SMTT(60) DEF ReadSeal, Orders, Inv, ExportInv
  <2>2. x.got # <<>> /\ x.got[n].session = s
    BY <1>2, <2>1, Zenon DEF BundleInv
  <2>3. n \in Nat /\ n \in 1 .. n /\ x.got[n] \in Part
    BY <1>2, <2>2, SMTT(60) DEF Parts
  <2>4. seals[s] \in SealRow
    BY <2>1, Zenon DEF BundleInv
  <2>5. g \in Part /\ g.session = s /\ g.events = x.got[n].events /\ g.seal = seals[s]
    BY <2>2, <2>3, <2>4, ZenonT(60) DEF Part
  <2>6. x' = [x EXCEPT !.pc = IF Len(x.todo) = 1 THEN "done" ELSE "events", !.todo = Tail(x.todo),
                       !.got = [x.got EXCEPT ![n] = g]]
    BY <1>2, <1>7, <2>3, ZenonT(60) DEF ReadSeal, Export
  <2> HIDE DEF g, n
  <2>7. /\ [x.got EXCEPT ![n] = g] \in Parts /\ Len([x.got EXCEPT ![n] = g]) = n
        /\ \A i \in 1 .. n : [x.got EXCEPT ![n] = g][i] = IF i = n THEN g ELSE x.got[i]
    BY <1>2, <2>3, <2>5, ExceptSeq, SMTT(60) DEF Parts, n
  <2>8. /\ x' \in Export /\ x'.pc \in {"done", "events"} /\ x'.own = x.own /\ x'.at = x.at
        /\ x'.key = x.key /\ x'.got = [x.got EXCEPT ![n] = g]
    BY <1>2, <2>1, <2>6, <2>7, ZenonT(60) DEF Export
  <2>9. OwnInv'
    BY <1>1, <1>3, <2>1, <2>8, ZenonT(60) DEF OwnInv
  <2>10. PartOk(g, x.at)
    <3>1. PartOk(x.got[n], x.at)
      BY <1>3, <2>3, Zenon DEF GotInv, n
    <3>2. Past(rows[s], seals[s].head, seals[s].count)
      BY <1>1, <2>1, Zenon DEF Inv, SealsInv
    <3> QED BY <2>2, <2>5, <3>1, <3>2, ZenonT(60) DEF PartOk
  <2>11. s \in ToSet(x.own) => Covers(seals[s], x.key, x.at[s])
    BY <1>3, <2>1, Zenon DEF OwnInv
  <2>12. GotInv'
    <3> SUFFICES ASSUME NEW i \in 1 .. n
                 PROVE  /\ PartOk(x'.got[i], x.at)
                        /\ x'.got[i].session \in ToSet(x.own)
                              => Covers(x'.got[i].seal, x.key, x.at[x'.got[i].session])
      BY <1>1, <2>7, <2>8, Zenon DEF GotInv, PartOk
    <3>1. CASE i = n
      BY <2>5, <2>7, <2>8, <2>10, <2>11, <3>1, ZenonT(60)
    <3>2. CASE i # n
      <4>1. x'.got[i] = x.got[i]
        BY <2>7, <2>8, <3>2, Zenon
      <4> QED BY <1>3, <3>2, <4>1, Zenon DEF GotInv, n
    <3> QED BY <3>1, <3>2, Zenon
  <2> QED BY <1>1, <1>3, <2>8, <2>9, <2>12, ZenonT(60) DEF BundleInv, Idle
<1> QED BY <1>5, <1>6, <1>7, Zenon

(* Every step of the program keeps this, and damage ends it.               *)
LEMMA BundleStep == Inv /\ (~damaged => BundleInv) /\ [Next]_vars => (~damaged => BundleInv)'
<1> SUFFICES ASSUME Inv, ~damaged => BundleInv, [Next]_vars, ~damaged' PROVE BundleInv'
  BY Zenon
<1>1. CASE UNCHANGED vars
  BY <1>1, Zenon DEF vars, BundleInv, GotInv, OwnInv, PartOk
<1>2. ASSUME NEW s \in Sessions, Damage(s) PROVE FALSE
  BY <1>2, Zenon DEF Damage
<1>3. CASE (\E a \in Writers, s \in Sessions, v \in Values : AppendHead(a, s, v)) \/ \E s \in Sessions : Join(s)
  <2>1. ~damaged /\ UNCHANGED <<rows, seals, x>>
    BY <1>3, Zenon DEF AppendHead, Join
  <2> QED BY <2>1, Zenon DEF BundleInv, GotInv, OwnInv, PartOk
<1>4. ASSUME NEW a \in Writers, AppendInsert(a) PROVE BundleInv'
  <2>1. ~damaged
    BY <1>4, Zenon DEF AppendInsert
  <2> QED BY <1>4, <2>1, BundleAppend, Zenon
<1>5. CASE (\E k \in Keys : ExportTeam(k)) \/ \E k \in Keys, s \in Sessions, b \in BOOLEAN : ExportSession(k, s, b)
  <2>1. ~damaged
    BY <1>5, Zenon DEF ExportTeam, ExportSession
  <2> QED BY <1>5, <2>1, BundleStart, Zenon
<1>6. CASE SealHead
  BY <1>6, BundleSealHead, Zenon DEF SealHead
<1>7. CASE SealWrite
  BY <1>7, BundleSealWrite, Zenon DEF SealWrite
<1>8. CASE BuildTeam \/ ReadEvents \/ ReadSeal
  <2>1. ~damaged
    BY <1>8, Zenon DEF BuildTeam, ReadEvents, ReadSeal
  <2> QED BY <1>8, <2>1, BundleRead, Zenon
<1>9. CASE ExportAgain
  BY <1>9, Zenon DEF ExportAgain, BundleInv, Idle
<1> QED BY <1>1, <1>2, <1>3, <1>4, <1>5, <1>6, <1>7, <1>8, <1>9, ZenonT(60) DEF Next

(* evidence.py: a finished bundle is history, and it verifies unless it    *)
(* was overtaken or holds an older seal of a session it did not seal.      *)
THEOREM BundlesAreHistory == Spec => []BundleIsHistory
<1>1. Inv /\ (~damaged => BundleInv) => BundleIsHistory
  <2> SUFFICES ASSUME Inv, BundleInv, ~damaged, x.pc = "done"
               PROVE  /\ \A i \in DOMAIN x.got :
                           /\ recompute_chain(x.got[i].events)
                           /\ IsPrefix(x.got[i].events, rows[x.got[i].session])
                           /\ Len(x.got[i].events) >= x.at[x.got[i].session]
                      /\ \/ verify_bundle(x.got, x.key)
                         \/ \E i \in DOMAIN x.got :
                              \/ Len(rows[x.got[i].session]) > x.at[x.got[i].session]
                              \/ /\ x.got[i].session \notin ToSet(x.own)
                                 /\ x.got[i].seal.key # x.key \/ x.got[i].seal.count < Len(x.got[i].events)
    BY Zenon DEF BundleIsHistory
  <2>1. x # Idle /\ x.got \in Parts /\ x.at \in Marks
    BY ExportFields, Zenon
  <2>2. DOMAIN x.got = 1 .. Len(x.got) /\ \A i \in 1 .. Len(x.got) : x.got[i] \in Part
    BY <2>1 DEF Parts
  <2>3. GotInv /\ rows \in [Sessions -> RowSeqs]
    BY <2>1, Zenon DEF BundleInv, Inv, RowsInv, RowSeqs
  <2>4. ASSUME NEW i \in 1 .. Len(x.got)
        PROVE  /\ recompute_chain(x.got[i].events)
               /\ IsPrefix(x.got[i].events, rows[x.got[i].session])
               /\ Len(x.got[i].events) >= x.at[x.got[i].session]
    <3>1. PartOk(x.got[i], x.at)
      BY <2>3, Zenon DEF GotInv
    <3>2. recompute_chain(x.got[i].events)
      BY <3>1, ChainFacts, Zenon DEF PartOk, recompute_chain
    <3> QED BY <3>1, <3>2, Zenon DEF PartOk
  <2>5. ASSUME NEW i \in 1 .. Len(x.got),
               ~(Len(rows[x.got[i].session]) > x.at[x.got[i].session]),
               \/ x.got[i].session \in ToSet(x.own)
               \/ x.got[i].seal.key = x.key /\ ~(x.got[i].seal.count < Len(x.got[i].events))
        PROVE  seal_ok(x.got[i].events, x.got[i].seal, x.key)
    <3> DEFINE s == x.got[i].session
               es == x.got[i].events
               k == x.got[i].seal
    <3>0. /\ ~(Len(rows[s]) > x.at[s])
          /\ s \in ToSet(x.own) \/ (k.key = x.key /\ ~(k.count < Len(es)))
      BY <2>5, Zenon
    <3>1. s \in Sessions /\ es \in Seq(RowType) /\ k \in SealRow
      BY <2>2, Zenon DEF Part, RowSeqs
    <3>3. PartOk(x.got[i], x.at)
      BY <2>3, Zenon DEF GotInv
    <3>4. Chained(es) /\ IsPrefix(es, rows[s]) /\ Len(es) >= x.at[s] /\ Past(rows[s], k.head, k.count)
      BY <3>3, Zenon DEF PartOk
    <3>a. s \in ToSet(x.own) => k.key = x.key /\ k.count >= x.at[s]
      BY <2>3, Zenon DEF GotInv, Covers
    <3> HIDE DEF s, es, k
    <3>2. rows[s] \in Seq(RowType) /\ x.at[s] \in Nat /\ Len(rows[s]) \in Nat /\ Len(es) \in Nat
      BY <2>1, <2>3, <3>1 DEF RowSeqs, Marks
    <3>5. Len(es) <= Len(rows[s])
      BY <3>4, Zenon DEF IsPrefix
    <3>6. Len(rows[s]) <= Len(es) /\ Len(es) = x.at[s] /\ Len(rows[s]) = Len(es)
      BY <3>0, <3>2, <3>4, <3>5
    <3>7. es = rows[s]
      BY <3>1, <3>2, <3>4, <3>6, PrefixFacts
    <3>8. k.key = x.key /\ k.count \in Nat /\ k.count >= Len(es)
      <4>1. k.count \in Nat
        BY <3>1, Zenon DEF SealRow
      <4>2. CASE s \in ToSet(x.own)
        BY <3>6, <3>a, <4>1, <4>2, Zenon
      <4>3. CASE k.key = x.key /\ ~(k.count < Len(es))
        BY <3>2, <4>1, <4>3
      <4> QED BY <3>0, <4>1, <4>2, <4>3, Zenon
    <3>9. k.count = Len(es)
      BY <3>2, <3>4, <3>6, <3>8 DEF Past
    <3>10. k.head = prev_hash(es, Len(es) + 1)
      BY <3>4, <3>7, <3>9, Zenon DEF Past
    <3>11. head(es).hash = prev_hash(es, Len(es) + 1)
      BY <3>4, HeadIsPast, Zenon DEF Past
    <3> QED BY <3>8, <3>9, <3>10, <3>11, Zenon DEF seal_ok, es, k
  <2>6. ASSUME ~\E i \in DOMAIN x.got :
                  \/ Len(rows[x.got[i].session]) > x.at[x.got[i].session]
                  \/ /\ x.got[i].session \notin ToSet(x.own)
                     /\ x.got[i].seal.key # x.key \/ x.got[i].seal.count < Len(x.got[i].events)
        PROVE  verify_bundle(x.got, x.key)
    BY <2>2, <2>4, <2>5, <2>6, Zenon DEF verify_bundle
  <2> QED BY <2>2, <2>4, <2>6, Zenon
<1>2. Init => (~damaged => BundleInv)
  <2> SUFFICES ASSUME Init PROVE BundleInv
    BY Zenon
  <2>1. NoSeal \in SealRow
    BY DEF NoSeal, SealRow, GENESIS, Hashes
  <2> QED BY <2>1, Zenon DEF Init, BundleInv
<1> QED BY <1>1, <1>2, BundleStep, InvHolds, PTL DEF Spec
=============================================================================
