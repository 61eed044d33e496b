----------------------------- MODULE TeamProofs -----------------------------
(***************************************************************************)
(* Proofs about Team, for every forest of agents, every delegation policy, *)
(* any depth and any number of delegations: the delegation tree, the       *)
(* policy and the stops.                                                   *)
(***************************************************************************)
EXTENDS Team, FiniteSetTheorems, TLAPS

PCs == {"loop", "act", "sendtask", "logtask", "start", "wait", "fold", "sendres", "logres"}
Sending == {"sendtask", "logtask", "start"}
Waiting == {"wait", "fold"}

TaskNames == Tasks \cup {"none", "top"}
Results == {"none", "", "text", "CHILD STOPPED"}
Ends == {"running", "completed", "stopped", "max_steps", "cancelled"}
TailStates == {"settled", "kept", "model", "safe", "unsafe", "review"}
Counts == [Agents -> Nat]
Groups == SUBSET Agents
Denials == SUBSET (Agents \X TaskNames)

FrameType ==
  [a : Agents, s : Nat, d : Nat, pc : PCs, steps : Nat, child : Agents, task : TaskNames,
   count : Counts, completed : Groups, denied : Denials, res : Results]

MemberType ==
  [agent : Agents, parent : Nat, depth : Nat, task : TaskNames, execed : BOOLEAN, denied : BOOLEAN,
   end : Ends, delegates : Counts, tail : TailStates]

TypeInv ==
  /\ team \in Teams /\ stack \in Seq(FrameType) /\ members \in Seq(MemberType)
  /\ cancel \in BOOLEAN /\ late \subseteq DOMAIN members

One(test) == IF test THEN 1 ELSE 0

\* The delegation a frame is at was allowed by the delegate tool.
Asked(f) ==
  /\ f.child \in Edges[f.a] /\ f.d + 1 <= MaxDepth /\ f.count[f.child] < MaxPer
  /\ NoRedelegate => <<f.child, f.task>> \notin f.denied

\* A frame is the running session of its agent; it waits while another works.
OnStack ==
  \A i \in DOMAIN stack :
    /\ stack[i].s \in DOMAIN members
    /\ members[stack[i].s].agent = stack[i].a /\ members[stack[i].s].depth = stack[i].d
    /\ members[stack[i].s].end = "running"
    /\ stack[i].pc = "wait" <=> i < Len(stack)
    /\ stack[i].pc \in Sending \cup Waiting => Asked(stack[i])

\* Frames and parents are in the order of the table, from the lead's session on.
Order ==
  /\ \A i, j \in DOMAIN stack : i < j => stack[i].s < stack[j].s
  /\ 1 \in DOMAIN stack => stack[1].s = 1
  /\ \A x \in DOMAIN members : members[x].parent < x

\* Session c is the latest child of a frame, the one it asked for.
Latest(f, c) ==
  /\ c \in DOMAIN members
  /\ members[c].parent = f.s /\ members[c].agent = f.child /\ members[c].task = f.task
  /\ \A x \in DOMAIN members : members[x].parent = f.s => x <= c

Links ==
  \A i \in DOMAIN stack :
    /\ i < Len(stack) => Latest(stack[i], stack[i + 1].s)
    /\ stack[i].pc = "fold" => \E c \in DOMAIN members : Latest(stack[i], c)

\* What a frame has noted of its children, and what it has not noted yet.
Counted(f) ==
  \A k \in Agents :
    /\ Cardinality(Children(f.s, k)) = f.count[k] + One(f.pc \in Waiting /\ f.child = k)
    /\ Cardinality(Children(f.s, k)) + One(f.pc \in Sending /\ f.child = k) <= members[f.s].delegates[k]
Marked(f) ==
  /\ \A k \in f.completed : Children(f.s, k) # {}
  /\ \A c \in DOMAIN members : members[c].parent = f.s /\ _child_all_denied(c) =>
       \/ <<members[c].agent, members[c].task>> \in f.denied
       \/ f.pc \in Waiting /\ Latest(f, c)
Books == \A i \in DOMAIN stack : Counted(stack[i]) /\ Marked(stack[i])

\* What cancel() leaves to be done.
LateInv ==
  /\ late # {} => cancel /\ \A i \in DOMAIN stack : stack[i].pc \notin Sending
  /\ Cardinality(late) <= 1 /\ IsFiniteSet(late)
  /\ \A s \in late :
       /\ ~members[s].execed /\ ~members[s].denied /\ members[s].end \in {"running", "cancelled"}
       /\ \A i \in DOMAIN stack : stack[i].s = s => stack[i].pc = "loop"

IInv == TypeInv /\ OnStack /\ Order /\ Links /\ Books /\ TreeWellFormed /\ PolicyBinds /\ LateInv
-----------------------------------------------------------------------------
(* What a step does to the stack and the table, seen by the sessions.      *)

\* The innermost frame becomes g, its session m; both stay who they are.
InPlace(g, m) ==
  /\ stack # <<>> /\ g \in FrameType /\ m \in MemberType
  /\ stack' = [stack EXCEPT ![Len(stack)] = g] /\ members' = [members EXCEPT ![Top.s] = m]
  /\ g.a = Top.a /\ g.s = Top.s /\ g.d = Top.d
  /\ m.agent = members[Top.s].agent /\ m.parent = members[Top.s].parent
  /\ m.depth = members[Top.s].depth /\ m.task = members[Top.s].task /\ m.end = members[Top.s].end
  /\ team' = team /\ late' = late /\ cancel' = cancel
SameNotes(g) == g.count = Top.count /\ g.completed = Top.completed /\ g.denied = Top.denied

\* It works on, without touching its notes.
Works(g, m) ==
  /\ InPlace(g, m) /\ SameNotes(g) /\ m.delegates = members[Top.s].delegates
  /\ Top.pc \notin Waiting /\ g.pc \notin Sending \cup Waiting
  /\ \/ m = members[Top.s]
     \/ Top.pc # "loop"
  /\ Top.pc = "loop" => ~cancel
\* It asks for a child.
Asks(g, m) ==
  /\ InPlace(g, m) /\ SameNotes(g) /\ Top.pc = "act" /\ g.pc = "sendtask" /\ ~cancel
  /\ m = [members[Top.s] EXCEPT !.delegates[g.child] = @ + 1]
  /\ Asked(g)
\* It sends the task.
Tells(g) ==
  /\ InPlace(g, members[Top.s]) /\ SameNotes(g)
  /\ Top.pc \in Sending /\ g.pc \in Sending /\ g.child = Top.child /\ g.task = Top.task
\* It takes note of its child's end.
Folds(g) ==
  /\ InPlace(g, members[Top.s]) /\ Top.pc = "fold" /\ g.pc = "sendres"
  /\ g.count = [Top.count EXCEPT ![Top.child] = @ + 1]
  /\ g.completed \subseteq Top.completed \cup {Top.child}
  /\ Top.denied \subseteq g.denied
  /\ _child_all_denied(ChildSession) => <<Top.child, Top.task>> \in g.denied
\* The child starts.
Pushes ==
  /\ stack # <<>> /\ Top.pc = "start" /\ ~Severed(Top.child)
  /\ members' = Append(members, Session(Top.child, Top.s, Top.d + 1, Top.task))
  /\ stack' = Append([stack EXCEPT ![Len(stack)] = [Top EXCEPT !.pc = "wait"]],
                     Frame(Top.child, Len(members) + 1, Top.d + 1))
  /\ late' = (IF cancel THEN late \cup {Len(members) + 1} ELSE late)
  /\ team' = team /\ cancel' = cancel
\* The kernel returns.
Pops(end, res) ==
  /\ stack # <<>> /\ Top.pc \in {"loop", "act"}
  /\ end = "completed" => Top.pc = "act" /\ Required[Top.a] \subseteq Top.completed
  /\ Top.pc = "loop" /\ cancel => end = "cancelled"
  /\ end \in {"completed", "stopped", "max_steps", "cancelled"}
  /\ res \in Results
  /\ members' = [members EXCEPT ![Top.s].end = end]
  /\ Len(stack) = 1 => stack' = <<>>
  /\ Len(stack) > 1 =>
       stack' = [i \in 1..(Len(stack) - 1) |->
                   IF i = Len(stack) - 1 THEN [stack[i] EXCEPT !.pc = "fold", !.res = res] ELSE stack[i]]
  /\ team' = team /\ late' = late /\ cancel' = cancel
\* Two rows that differ in the journal's tail at most.
Alike(m, n) ==
  /\ m.agent = n.agent /\ m.parent = n.parent /\ m.depth = n.depth /\ m.task = n.task
  /\ m.execed = n.execed /\ m.denied = n.denied /\ m.end = n.end /\ m.delegates = n.delegates
\* The outside world leaves the frames alone or takes them all away.
Aside ==
  /\ stack' \in {stack, <<>>} /\ DOMAIN members' = DOMAIN members /\ members' \in Seq(MemberType)
  /\ \A x \in DOMAIN members : Alike(members'[x], members[x])
  /\ team' = team /\ late' = late /\ cancel' \in BOOLEAN /\ (cancel => cancel')

Kinds ==
  \/ \E g, m : Works(g, m) \/ Asks(g, m)
  \/ \E g : Tells(g) \/ Folds(g)
  \/ \E end, res : Pops(end, res)
  \/ Pushes \/ Aside

\* The innermost frame and its session are what their types say.
LEMMA TopIs ==
  ASSUME TypeInv, OnStack, stack # <<>>
  PROVE  /\ Len(stack) \in Nat /\ Len(stack) \in DOMAIN stack /\ Top \in FrameType
         /\ Top.s \in DOMAIN members /\ members[Top.s] \in MemberType /\ Len(members) \in Nat
         /\ DOMAIN members = 1..Len(members) /\ DOMAIN stack = 1..Len(stack)
<1>1. Len(stack) \in Nat /\ Len(stack) \in DOMAIN stack /\ Top \in FrameType /\ DOMAIN stack = 1..Len(stack)
  BY DEF TypeInv, Top
<1>2. Top.s \in DOMAIN members
  BY <1>1, Zenon DEF OnStack, Top
<1> QED BY <1>1, <1>2 DEF TypeInv

\* Writing back what is there changes nothing.
LEMMA Unwritten ==
  ASSUME TypeInv, OnStack, stack # <<>>
  PROVE  members = [members EXCEPT ![Top.s] = members[Top.s]]
BY TopIs DEF TypeInv

\* Counting one more.
LEMMA CountMore ==
  ASSUME NEW n \in Counts, NEW k \in Agents
  PROVE  [n EXCEPT ![k] = @ + 1] \in Counts
BY DEF Counts

\* A table rewritten row by row is a table.
LEMMA Retyped ==
  ASSUME NEW S, NEW s \in Seq(S), NEW t, t = [i \in DOMAIN s |-> t[i]], \A i \in DOMAIN s : t[i] \in S
  PROVE  t \in Seq(S)
OBVIOUS

\* Every action is of one of the kinds.
LEMMA KindsStep == TypeInv /\ OnStack /\ [Next]_vars => Kinds
<1> SUFFICES ASSUME TypeInv, OnStack, [Next]_vars
             PROVE  Kinds
  BY Zenon
<1>0. stack # <<>> => /\ Top \in FrameType /\ Top.s \in DOMAIN members /\ members[Top.s] \in MemberType
                      /\ members = [members EXCEPT ![Top.s] = members[Top.s]]
  BY TopIs, Unwritten, Zenon
<1>1. CASE Check
  <2> DEFINE g == [Top EXCEPT !.pc = "act", !.steps = @ + 1]
  <2>1. /\ stack # <<>> /\ Top.pc = "loop" /\ ~cancel /\ members' = members /\ UNCHANGED <<team, late, cancel>>
        /\ stack' = [stack EXCEPT ![Len(stack)] = g]
    BY <1>1, Zenon DEF Check, At, Set, outside, flags
  <2>2. g \in FrameType /\ g.pc = "act" /\ g.a = Top.a /\ g.s = Top.s /\ g.d = Top.d /\ SameNotes(g)
    <3>1. Top \in FrameType /\ Top.steps + 1 \in Nat /\ "act" \in PCs
      BY <1>0, <2>1 DEF FrameType, PCs
    <3> QED BY <3>1, Zenon DEF FrameType, SameNotes
  <2> HIDE DEF g
  <2>3. Works(g, members[Top.s])
    BY <1>0, <2>1, <2>2, Zenon DEF Works, InPlace, Sending, Waiting
  <2> QED BY <2>3, Zenon DEF Kinds
<1>2. ASSUME NEW ok \in BOOLEAN, UseTool(ok)
      PROVE  Kinds
  <2> DEFINE g == [Top EXCEPT !.pc = "loop"]
             m == IF ok THEN [members[Top.s] EXCEPT !.execed = TRUE] ELSE [members[Top.s] EXCEPT !.denied = TRUE]
  <2>1. /\ stack # <<>> /\ Top.pc = "act" /\ UNCHANGED <<team, late, cancel>>
        /\ stack' = [stack EXCEPT ![Len(stack)] = g]
    BY <1>2, Zenon DEF UseTool, At, Set, outside, flags
  <2>2. members' = [members EXCEPT ![Top.s] = m]
    BY <1>2, <1>0, <2>1, Zenon DEF UseTool, TypeInv
  <2>3. g \in FrameType /\ g.pc = "loop" /\ g.a = Top.a /\ g.s = Top.s /\ g.d = Top.d /\ SameNotes(g)
    BY <1>0, <2>1, Zenon DEF FrameType, PCs, SameNotes
  <2>4. /\ m \in MemberType /\ m.agent = members[Top.s].agent /\ m.parent = members[Top.s].parent
        /\ m.depth = members[Top.s].depth /\ m.task = members[Top.s].task /\ m.end = members[Top.s].end
        /\ m.delegates = members[Top.s].delegates
    BY <1>0, <2>1, Zenon DEF MemberType
  <2> HIDE DEF g, m
  <2>5. Works(g, m)
    BY <2>1, <2>2, <2>3, <2>4, Zenon DEF Works, InPlace, Sending, Waiting
  <2> QED BY <2>5, Zenon DEF Kinds
<1>3. ASSUME stack # <<>>, Top.pc \notin Waiting \cup {"loop"}, Returned(Top), UNCHANGED <<team, late, cancel>>
      PROVE  Kinds
  <2> DEFINE g == [Top EXCEPT !.pc = "loop"]
             m == [members[Top.s] EXCEPT !.execed = TRUE]
  <2>1. stack' = [stack EXCEPT ![Len(stack)] = g] /\ members' = [members EXCEPT ![Top.s] = m]
    BY <1>0, <1>3, Zenon DEF Returned, Set, TypeInv
  <2>2. g \in FrameType /\ g.pc = "loop" /\ g.a = Top.a /\ g.s = Top.s /\ g.d = Top.d /\ SameNotes(g)
    BY <1>0, <1>3, Zenon DEF FrameType, PCs, SameNotes
  <2>3. /\ m \in MemberType /\ m.agent = members[Top.s].agent /\ m.parent = members[Top.s].parent
        /\ m.depth = members[Top.s].depth /\ m.task = members[Top.s].task /\ m.end = members[Top.s].end
        /\ m.delegates = members[Top.s].delegates
    BY <1>0, <1>3, Zenon DEF MemberType
  <2> HIDE DEF g, m
  <2>4. Works(g, m)
    BY <1>3, <2>1, <2>2, <2>3, Zenon DEF Works, InPlace, Sending, Waiting
  <2> QED BY <2>4, Zenon DEF Kinds
<1>4. ASSUME NEW k \in Agents, NEW t \in Tasks, Refuse(k, t)
      PROVE  Kinds
  BY <1>3, <1>4, Zenon DEF Refuse, At, outside, flags, Waiting
<1>5. ASSUME NEW k \in Agents, NEW t \in Tasks, Delegate(k, t)
      PROVE  Kinds
  <2> DEFINE g == [Top EXCEPT !.pc = "sendtask", !.child = k, !.task = t]
             m == [members[Top.s] EXCEPT !.delegates[k] = @ + 1]
  <2>1. /\ stack # <<>> /\ Top.pc = "act" /\ ~cancel /\ ~Denial(Top, k, t) /\ UNCHANGED <<team, late, cancel>>
        /\ stack' = [stack EXCEPT ![Len(stack)] = g]
    BY <1>5, Zenon DEF Delegate, At, Set, outside, flags
  <2>2. members' = [members EXCEPT ![Top.s] = m]
    BY <1>0, <1>5, <2>1, Zenon DEF Delegate, TypeInv
  <2>3. /\ g \in FrameType /\ g.pc = "sendtask" /\ g.a = Top.a /\ g.s = Top.s /\ g.d = Top.d /\ SameNotes(g)
        /\ g.child = k /\ g.task = t
    BY <1>0, <2>1, Zenon DEF FrameType, PCs, SameNotes, TaskNames
  <2>4. /\ m \in MemberType /\ m.agent = members[Top.s].agent /\ m.parent = members[Top.s].parent
        /\ m.depth = members[Top.s].depth /\ m.task = members[Top.s].task /\ m.end = members[Top.s].end
    <3>1. members[Top.s] \in MemberType /\ members[Top.s].delegates \in Counts
      BY <1>0, <2>1, Zenon DEF MemberType
    <3>2. [members[Top.s].delegates EXCEPT ![k] = @ + 1] \in Counts
      BY <3>1, CountMore, Zenon
    <3> QED BY <3>1, <3>2, Zenon DEF MemberType
  <2>5. m = [members[Top.s] EXCEPT !.delegates[g.child] = @ + 1]
    BY <2>3, Zenon
  <2> HIDE DEF g, m
  <2>6. Asked(g)
    <3>1. /\ k \in Edges[Top.a] /\ ~(Top.d + 1 > MaxDepth) /\ ~(Top.count[k] >= MaxPer)
          /\ NoRedelegate => <<k, t>> \notin Top.denied
      BY <2>1, Zenon DEF Denial
    <3>2. Top.d \in Nat /\ Top.count[k] \in Nat /\ MaxPer \in Nat /\ MaxDepth \in Nat
      BY <1>0, <2>1, TeamAssumption, Zenon DEF FrameType, Counts, TypeInv, MaxPer, MaxDepth
    <3> QED BY <2>3, <3>1, <3>2 DEF Asked, SameNotes
  <2>7. Asks(g, m)
    BY <2>1, <2>2, <2>3, <2>4, <2>5, <2>6, Zenon DEF Asks, InPlace
  <2> QED BY <2>7, Zenon DEF Kinds
<1>6. CASE DeliverSend
  <2> DEFINE g == [Top EXCEPT !.pc = IF @ = "sendtask" THEN "logtask" ELSE "logres"]
  <2>1. /\ stack # <<>> /\ Top.pc \in {"sendtask", "sendres"} /\ members' = members /\ UNCHANGED <<team, late, cancel>>
        /\ stack' = [stack EXCEPT ![Len(stack)] = g]
    BY <1>6, Zenon DEF DeliverSend, At, Set, outside, flags
  <2>2. /\ g \in FrameType /\ g.pc = (IF Top.pc = "sendtask" THEN "logtask" ELSE "logres")
        /\ g.a = Top.a /\ g.s = Top.s /\ g.d = Top.d /\ SameNotes(g) /\ g.child = Top.child /\ g.task = Top.task
    BY <1>0, <2>1, Zenon DEF FrameType, PCs, SameNotes
  <2> HIDE DEF g
  <2>3. InPlace(g, members[Top.s])
    BY <1>0, <2>1, <2>2, Zenon DEF InPlace
  <2>4. IF Top.pc = "sendtask" THEN Tells(g) ELSE Works(g, members[Top.s])
    BY <2>1, <2>2, <2>3, Zenon DEF Works, Tells, Sending, Waiting
  <2> QED BY <2>4, Zenon DEF Kinds
<1>7. CASE DeliverLog
  <2>1. /\ stack # <<>> /\ Top.pc \in {"logtask", "logres"} /\ UNCHANGED <<team, late, cancel>>
    BY <1>7, Zenon DEF DeliverLog, At, outside, flags
  <2>2. CASE Top.pc = "logres"
    BY <1>3, <1>7, <2>1, <2>2, Zenon DEF DeliverLog, Waiting
  <2>3. CASE Top.pc = "logtask"
    <3> DEFINE g == [Top EXCEPT !.pc = "start"]
    <3>1. stack' = [stack EXCEPT ![Len(stack)] = g] /\ members' = members
      BY <1>7, <2>3, Zenon DEF DeliverLog, Set
    <3>2. /\ g \in FrameType /\ g.pc = "start"
          /\ g.a = Top.a /\ g.s = Top.s /\ g.d = Top.d /\ SameNotes(g) /\ g.child = Top.child /\ g.task = Top.task
      BY <1>0, <2>1, Zenon DEF FrameType, PCs, SameNotes
    <3> HIDE DEF g
    <3>3. Tells(g)
      BY <1>0, <2>1, <2>3, <3>1, <3>2, Zenon DEF InPlace, Tells, Sending
    <3> QED BY <3>3, Zenon DEF Kinds
  <2> QED BY <2>1, <2>2, <2>3, Zenon
<1>8. CASE Start
  <2>1. stack # <<>> /\ Top.pc = "start" /\ UNCHANGED <<team, cancel>>
    BY <1>8, Zenon DEF Start, At, flags
  <2>2. CASE Severed(Top.child)
    <3>1. Returned(Top)
      BY <1>8, <2>2, Zenon DEF Start
    <3>2. DOMAIN members' = DOMAIN members
      BY <3>1, Zenon DEF Returned
    <3>3. late' = late
      BY <1>8, <3>2, Zenon DEF Start
    <3> QED BY <1>3, <2>1, <3>1, <3>3, Zenon DEF Waiting
  <2>3. CASE ~Severed(Top.child)
    <3>1. /\ members' = Append(members, Session(Top.child, Top.s, Top.d + 1, Top.task))
          /\ stack' = Append([stack EXCEPT ![Len(stack)].pc = "wait"], Frame(Top.child, Len(members) + 1, Top.d + 1))
      BY <1>8, <2>3, Zenon DEF Start
    <3>2. DOMAIN members' \ DOMAIN members = {Len(members) + 1}
      <4> DEFINE e == Session(Top.child, Top.s, Top.d + 1, Top.task)
      <4>1. members \in Seq(MemberType) /\ members' = Append(members, e)
        BY <3>1, Zenon DEF TypeInv
      <4> HIDE DEF e
      <4>2. DOMAIN members = 1..Len(members) /\ DOMAIN members' = 1..(Len(members) + 1) /\ Len(members) \in Nat
        BY <4>1
      <4> QED BY <4>2
    <3>3. late' = (IF cancel THEN late \cup {Len(members) + 1} ELSE late)
      BY <1>8, <3>2, Zenon DEF Start
    <3>4. [stack EXCEPT ![Len(stack)].pc = "wait"] = [stack EXCEPT ![Len(stack)] = [Top EXCEPT !.pc = "wait"]]
      BY Zenon DEF Top
    <3>5. Pushes
      BY <2>1, <2>3, <3>1, <3>3, <3>4, Zenon DEF Pushes
    <3> QED BY <3>5, Zenon DEF Kinds
  <2> QED BY <2>2, <2>3, Zenon
<1>9. ASSUME NEW end \in {"completed", "stopped", "max_steps", "cancelled"}, NEW res \in Results,
             Return(end, res), stack # <<>>, Top.pc \in {"loop", "act"},
             end = "completed" => Top.pc = "act" /\ Required[Top.a] \subseteq Top.completed,
             Top.pc = "loop" /\ cancel => end = "cancelled"
      PROVE  Kinds
  <2>1. members' = [members EXCEPT ![Top.s].end = end] /\ UNCHANGED <<team, late, cancel>>
    BY <1>9, Zenon DEF Return, outside, flags
  <2>2. Len(stack) = 1 => stack' = <<>>
    BY <1>9, Zenon DEF Return
  <2>3. ASSUME Len(stack) > 1
        PROVE  stack' = [i \in 1..(Len(stack) - 1) |->
                   IF i = Len(stack) - 1 THEN [stack[i] EXCEPT !.pc = "fold", !.res = res] ELSE stack[i]]
    <3>0. stack \in Seq(FrameType)
      BY Zenon DEF TypeInv
    <3>1. stack \in Seq(FrameType) /\ Len(stack) \in Nat
      BY <3>0
    <3>2. SubSeq(stack, 1, Len(stack) - 1) = [i \in 1..(Len(stack) - 1) |-> stack[i]]
      BY <2>3, <3>1
    <3>3. stack' = [SubSeq(stack, 1, Len(stack) - 1) EXCEPT ![Len(stack) - 1].pc = "fold", ![Len(stack) - 1].res = res]
      <4>1. Len(stack) # 1
        <5>1. \A n \in Nat : n > 1 => n # 1
          OBVIOUS
        <5> QED BY <2>3, <3>1, <5>1, Zenon
      <4> QED BY <1>9, <4>1, Zenon DEF Return
    <3>4. Len(stack) - 1 \in 1..(Len(stack) - 1)
      BY <2>3, <3>1
    <3> QED BY <3>2, <3>3, <3>4, Zenon
  <2>4. Pops(end, res)
    BY <1>9, <2>1, <2>2, <2>3, Zenon DEF Pops
  <2> QED BY <2>4, Zenon DEF Kinds
<1>10. ASSUME NEW res \in {"", "text"}, Finalize(res)
       PROVE  Kinds
  <2>1. res \in Results
    BY <1>10, Zenon DEF Results
  <2> QED BY <1>9, <1>10, <2>1, Zenon DEF Finalize, FinalizeGuard, At
<1>11. CASE FinalizeRefused
  <2> DEFINE g == [Top EXCEPT !.pc = "loop"]
  <2>1. /\ stack # <<>> /\ Top.pc = "act" /\ members' = members /\ UNCHANGED <<team, late, cancel>>
        /\ stack' = [stack EXCEPT ![Len(stack)] = g]
    BY <1>11, Zenon DEF FinalizeRefused, At, Set, outside, flags
  <2>2. g \in FrameType /\ g.pc = "loop" /\ g.a = Top.a /\ g.s = Top.s /\ g.d = Top.d /\ SameNotes(g)
    BY <1>0, <2>1, Zenon DEF FrameType, PCs, SameNotes
  <2> HIDE DEF g
  <2>3. Works(g, members[Top.s])
    BY <1>0, <2>1, <2>2, Zenon DEF Works, InPlace, Sending, Waiting
  <2> QED BY <2>3, Zenon DEF Kinds
<1>12. CASE Stop
  <2>1. "CHILD STOPPED" \in Results
    BY Zenon DEF Results
  <2> QED BY <1>9, <1>12, <2>1, Zenon DEF Stop, At
<1>13. CASE MaxStepsReached
  <2>1. "CHILD STOPPED" \in Results
    BY Zenon DEF Results
  <2> QED BY <1>9, <1>13, <2>1, Zenon DEF MaxStepsReached, At
<1>14. CASE Cancelled
  <2>1. "CHILD STOPPED" \in Results
    BY Zenon DEF Results
  <2> QED BY <1>9, <1>14, <2>1, Zenon DEF Cancelled, At
<1>15. CASE Fold
  <2> DEFINE k == Top.child
             f == [Top EXCEPT !.pc = "sendres", !.count[k] = @ + 1]
             g == IF _child_all_denied(ChildSession) THEN [f EXCEPT !.denied = @ \cup {<<k, Top.task>>}]
                  ELSE IF NeedNonempty /\ Top.res = "" THEN f
                  ELSE [f EXCEPT !.completed = @ \cup {k}]
  <2>1. /\ stack # <<>> /\ Top.pc = "fold" /\ members' = members /\ UNCHANGED <<team, late, cancel>>
        /\ stack' = [stack EXCEPT ![Len(stack)] = g]
    BY <1>15, Zenon DEF Fold, At, Set, outside, flags
  <2>2. /\ f \in FrameType /\ f.pc = "sendres" /\ f.a = Top.a /\ f.s = Top.s /\ f.d = Top.d
        /\ f.count = [Top.count EXCEPT ![Top.child] = @ + 1] /\ f.completed = Top.completed /\ f.denied = Top.denied
    <3>1. Top \in FrameType /\ Top.count \in Counts /\ Top.child \in Agents /\ "sendres" \in PCs
      BY <1>0, <2>1, Zenon DEF FrameType, PCs
    <3>2. [Top.count EXCEPT ![Top.child] = @ + 1] \in Counts
      BY <3>1, CountMore, Zenon
    <3> QED BY <3>1, <3>2, Zenon DEF FrameType
  <2>3. k \in Agents /\ <<k, Top.task>> \in Agents \X TaskNames /\ k = Top.child
    BY <1>0, <2>1, Zenon DEF FrameType
  <2> HIDE DEF f, k
  <2>4. /\ g \in FrameType /\ g.pc = "sendres" /\ g.a = Top.a /\ g.s = Top.s /\ g.d = Top.d
        /\ g.count = [Top.count EXCEPT ![Top.child] = @ + 1]
        /\ g.completed \subseteq Top.completed \cup {Top.child} /\ Top.denied \subseteq g.denied
        /\ _child_all_denied(ChildSession) => <<Top.child, Top.task>> \in g.denied
    <3>1. f.denied \cup {<<k, Top.task>>} \in Denials /\ f.completed \cup {k} \in Groups
      BY <2>2, <2>3, Zenon DEF FrameType, Denials, Groups
    <3>2. CASE _child_all_denied(ChildSession)
      BY <2>2, <2>3, <3>1, <3>2, Zenon DEF FrameType
    <3>3. CASE ~_child_all_denied(ChildSession) /\ NeedNonempty /\ Top.res = ""
      BY <2>2, <2>3, <3>3, Zenon
    <3>4. CASE ~_child_all_denied(ChildSession) /\ ~(NeedNonempty /\ Top.res = "")
      BY <2>2, <2>3, <3>1, <3>4, Zenon DEF FrameType
    <3> QED BY <3>2, <3>3, <3>4, Zenon
  <2> HIDE DEF g
  <2>5. Folds(g)
    BY <1>0, <2>1, <2>4, Zenon DEF Folds, InPlace
  <2> QED BY <2>5, Zenon DEF Kinds
<1>16. ASSUME members' = members, stack' = stack, UNCHANGED <<team, late>>, cancel' \in BOOLEAN, cancel => cancel'
       PROVE  Kinds
  <2>1. Aside
    BY <1>16, Zenon DEF Aside, Alike, TypeInv
  <2> QED BY <2>1, Zenon DEF Kinds
<1>17. CASE Cancel \/ (\E a \in Agents : Revoke(a)) \/ Finished \/ UNCHANGED vars
  BY <1>16, <1>17, Zenon DEF Cancel, Revoke, Finished, vars, TypeInv
<1>18. CASE Crash
  <2>1. PICK tails \in [DOMAIN stack -> UNION {Tails(stack[i]) : i \in DOMAIN stack}] :
          /\ \A i \in DOMAIN stack : tails[i] \in Tails(stack[i])
          /\ members' = [s \in DOMAIN members |->
               IF \E i \in DOMAIN stack : stack[i].s = s
               THEN [members[s] EXCEPT !.tail = tails[CHOOSE i \in DOMAIN stack : stack[i].s = s]]
               ELSE members[s]]
    BY <1>18, Zenon DEF Crash
  <2>2. \A i \in DOMAIN stack : tails[i] \in TailStates
    BY <2>1, Zenon DEF Tails, TailStates
  <2>3. \A s \in DOMAIN members : \E t \in TailStates : members'[s] = members[s] \/ members'[s] = [members[s] EXCEPT !.tail = t]
    <3> SUFFICES ASSUME NEW s \in DOMAIN members
                 PROVE  \E t \in TailStates : members'[s] = members[s] \/ members'[s] = [members[s] EXCEPT !.tail = t]
      BY Zenon
    <3>1. CASE ~\E i \in DOMAIN stack : stack[i].s = s
      BY <2>1, <3>1, Zenon DEF TailStates
    <3>2. CASE \E i \in DOMAIN stack : stack[i].s = s
      <4> DEFINE j == CHOOSE i \in DOMAIN stack : stack[i].s = s
      <4>1. j \in DOMAIN stack
        BY <3>2, Zenon
      <4>2. members'[s] = [members[s] EXCEPT !.tail = tails[j]]
        BY <2>1, <3>2, Zenon
      <4> QED BY <2>2, <4>1, <4>2, Zenon
    <3> QED BY <3>1, <3>2, Zenon
  <2>4. DOMAIN members' = DOMAIN members /\ members' \in Seq(MemberType)
    <3>1. \A s \in DOMAIN members : members[s] \in MemberType
      BY DEF TypeInv
    <3>2. \A m \in MemberType, t \in TailStates : [m EXCEPT !.tail = t] \in MemberType
      BY Zenon DEF MemberType
    <3>3. \A s \in DOMAIN members : members'[s] \in MemberType
      <4> SUFFICES ASSUME NEW s \in DOMAIN members
                   PROVE  members'[s] \in MemberType
        BY Zenon
      <4>1. PICK t \in TailStates : members'[s] = members[s] \/ members'[s] = [members[s] EXCEPT !.tail = t]
        BY <2>3, Zenon
      <4>2. members[s] \in MemberType /\ [members[s] EXCEPT !.tail = t] \in MemberType
        BY <3>1, <3>2, Zenon
      <4> QED BY <4>1, <4>2, Zenon
    <3>4. DOMAIN members' = DOMAIN members /\ members' = [i \in DOMAIN members |-> members'[i]]
      BY <2>1, Zenon
    <3> QED BY <3>3, <3>4, Retyped, Zenon DEF TypeInv
  <2>5. UNCHANGED <<team, late, cancel>> /\ stack' = <<>>
    BY <1>18, Zenon DEF Crash
  <2>6. Aside
    <3>1. \A m \in MemberType, t \in TailStates : Alike([m EXCEPT !.tail = t], m)
      BY Zenon DEF MemberType, Alike
    <3>2. \A m : Alike(m, m)
      BY Zenon DEF Alike
    <3>3. \A s \in DOMAIN members : members[s] \in MemberType
      BY DEF TypeInv
    <3>4. \A s \in DOMAIN members : Alike(members'[s], members[s])
      BY <2>3, <3>1, <3>2, <3>3, Zenon
    <3> QED BY <2>4, <2>5, <3>4, Zenon DEF Aside, TypeInv
  <2> QED BY <2>6, Zenon DEF Kinds
<1>19. CASE team_recover
  <2>1. members' = [s \in DOMAIN members |-> [members[s] EXCEPT !.tail = recover(@)]]
    BY <1>19, Zenon DEF team_recover
  <2>2. \A s \in DOMAIN members : members[s] \in MemberType
    BY DEF TypeInv
  <2>3. \A s \in DOMAIN members : members'[s] \in MemberType /\ members'[s] = [members[s] EXCEPT !.tail = recover(members[s].tail)]
    <3>1. \A m \in MemberType : recover(m.tail) \in TailStates
      BY Zenon DEF MemberType, recover, TailStates
    <3>2. \A m \in MemberType, t \in TailStates : [m EXCEPT !.tail = t] \in MemberType
      BY Zenon DEF MemberType
    <3> QED BY <2>1, <2>2, <3>1, <3>2, Zenon
  <2>4. DOMAIN members' = DOMAIN members /\ members' \in Seq(MemberType)
    <3>1. DOMAIN members' = DOMAIN members
      BY <2>1, Zenon
    <3> QED BY <2>1, <2>3, <3>1, Retyped, Zenon DEF TypeInv
  <2>5. Aside
    <3>1. \A m \in MemberType : Alike([m EXCEPT !.tail = recover(m.tail)], m)
      BY Zenon DEF MemberType, Alike
    <3>2. \A s \in DOMAIN members : Alike(members'[s], members[s])
      BY <2>2, <2>3, <3>1, Zenon
    <3> QED BY <1>19, <2>4, <3>2, Zenon DEF Aside, TypeInv, team_recover
  <2> QED BY <2>5, Zenon DEF Kinds
<1> QED BY <1>1, <1>2, <1>4, <1>5, <1>6, <1>7, <1>8, <1>10, <1>11, <1>12, <1>13, <1>14, <1>15, <1>17, <1>18, <1>19, ZenonT(90) DEF Next, Run

\* Same agent, parent, depth and task.
SameRow(m, n) == m.agent = n.agent /\ m.parent = n.parent /\ m.depth = n.depth /\ m.task = n.task

\* What all steps but the start of a child do to the table.
Kept ==
  /\ DOMAIN members' = DOMAIN members /\ members' \in Seq(MemberType) /\ team' = team /\ late' = late
  /\ \A x \in DOMAIN members : SameRow(members'[x], members[x])
  /\ \A x \in DOMAIN members, k \in Agents : members[x].delegates[k] <= members'[x].delegates[k]
  /\ \A x \in DOMAIN members : stack = <<>> \/ x # Top.s => Alike(members'[x], members[x])

\* A step in place, frame by frame and row by row.
LEMMA InPlaceIs ==
  ASSUME TypeInv, OnStack, NEW g, NEW m, InPlace(g, m)
  PROVE  /\ stack' \in Seq(FrameType) /\ Len(stack') = Len(stack) /\ DOMAIN stack' = 1..Len(stack)
         /\ DOMAIN stack = 1..Len(stack)
         /\ Len(stack) \in DOMAIN stack /\ stack'[Len(stack)] = g /\ stack[Len(stack)] = Top
         /\ \A i \in DOMAIN stack : i # Len(stack) => stack'[i] = stack[i]
         /\ members' \in Seq(MemberType) /\ DOMAIN members' = DOMAIN members
         /\ Top.s \in DOMAIN members /\ members'[Top.s] = m
         /\ \A x \in DOMAIN members : x # Top.s => members'[x] = members[x]
         /\ \A x \in DOMAIN members : SameRow(members'[x], members[x]) /\ members'[x].end = members[x].end
<1>1. /\ Len(stack) \in Nat /\ Len(stack) \in DOMAIN stack /\ Top \in FrameType
      /\ Top.s \in DOMAIN members /\ members[Top.s] \in MemberType
      /\ DOMAIN members = 1..Len(members) /\ DOMAIN stack = 1..Len(stack)
  BY TopIs, Zenon DEF InPlace
<1>2. g \in FrameType /\ m \in MemberType /\ stack \in Seq(FrameType) /\ members \in Seq(MemberType)
  BY Zenon DEF InPlace, TypeInv
<1>3. stack' = [stack EXCEPT ![Len(stack)] = g] /\ members' = [members EXCEPT ![Top.s] = m]
  BY Zenon DEF InPlace
<1>4. /\ stack' \in Seq(FrameType) /\ Len(stack') = Len(stack) /\ DOMAIN stack' = 1..Len(stack)
      /\ stack'[Len(stack)] = g /\ \A i \in DOMAIN stack : i # Len(stack) => stack'[i] = stack[i]
  BY <1>1, <1>2, <1>3
<1>5. /\ members' \in Seq(MemberType) /\ DOMAIN members' = DOMAIN members /\ members'[Top.s] = m
      /\ \A x \in DOMAIN members : x # Top.s => members'[x] = members[x]
  BY <1>1, <1>2, <1>3
<1>6. \A x \in DOMAIN members : SameRow(members'[x], members[x]) /\ members'[x].end = members[x].end
  BY <1>5, Zenon DEF InPlace, SameRow
<1> QED BY <1>1, <1>4, <1>5, <1>6, Zenon DEF Top

\* The start of a child, frame by frame and row by row.
LEMMA PushesIs ==
  ASSUME TypeInv, OnStack, Pushes
  PROVE  /\ stack' \in Seq(FrameType) /\ Len(stack') = Len(stack) + 1 /\ DOMAIN stack' = 1..(Len(stack) + 1)
         /\ DOMAIN stack = 1..Len(stack) /\ Len(stack) \in DOMAIN stack /\ stack[Len(stack)] = Top /\ Len(stack) \in Nat
         /\ stack'[Len(stack)] = [Top EXCEPT !.pc = "wait"]
         /\ stack'[Len(stack) + 1] = Frame(Top.child, Len(members) + 1, Top.d + 1)
         /\ \A i \in DOMAIN stack : i # Len(stack) => stack'[i] = stack[i]
         /\ members' \in Seq(MemberType) /\ DOMAIN members = 1..Len(members) /\ Len(members) \in Nat
         /\ DOMAIN members' = 1..(Len(members) + 1) /\ Top.s \in DOMAIN members /\ Top \in FrameType
         /\ members'[Len(members) + 1] = Session(Top.child, Top.s, Top.d + 1, Top.task)
         /\ \A x \in DOMAIN members : members'[x] = members[x]
<1> DEFINE f == Frame(Top.child, Len(members) + 1, Top.d + 1)
           h == [Top EXCEPT !.pc = "wait"]
           e == Session(Top.child, Top.s, Top.d + 1, Top.task)
<1>1. /\ Len(stack) \in Nat /\ Len(stack) \in DOMAIN stack /\ Top \in FrameType
      /\ Top.s \in DOMAIN members /\ Len(members) \in Nat
      /\ DOMAIN members = 1..Len(members) /\ DOMAIN stack = 1..Len(stack)
  BY TopIs, Zenon DEF Pushes
<1>2. stack \in Seq(FrameType) /\ members \in Seq(MemberType)
  BY Zenon DEF TypeInv
<1>3. Top.child \in Agents /\ Top.s \in Nat /\ Top.d + 1 \in Nat /\ Top.task \in TaskNames /\ Len(members) + 1 \in Nat
  BY <1>1 DEF FrameType
<1>4. f \in FrameType
  <2>1. [k \in Agents |-> 0] \in Counts /\ {} \in Groups /\ {} \in Denials /\ "loop" \in PCs /\ "none" \in TaskNames
    BY Zenon DEF Counts, Groups, Denials, PCs, TaskNames
  <2>2. "none" \in Results
    BY Zenon DEF Results
  <2> QED BY <1>3, <2>1, <2>2, Zenon DEF Frame, FrameType
<1>5. h \in FrameType
  BY <1>1, Zenon DEF FrameType, PCs
<1>6. e \in MemberType
  <2>1. [k \in Agents |-> 0] \in Counts /\ "running" \in Ends /\ "settled" \in TailStates
    BY Zenon DEF Counts, Ends, TailStates
  <2> QED BY <1>3, <2>1, Zenon DEF Session, MemberType
<1>7. members' = Append(members, e) /\ stack' = Append([stack EXCEPT ![Len(stack)] = h], f)
  BY Zenon DEF Pushes
<1> HIDE DEF f, h, e
<1>8. /\ members' \in Seq(MemberType) /\ DOMAIN members' = 1..(Len(members) + 1)
      /\ members'[Len(members) + 1] = e /\ \A x \in DOMAIN members : members'[x] = members[x]
  BY <1>1, <1>2, <1>6, <1>7
<1> DEFINE base == [stack EXCEPT ![Len(stack)] = h]
<1>9. /\ base \in Seq(FrameType) /\ Len(base) = Len(stack) /\ base[Len(stack)] = h
      /\ \A i \in DOMAIN stack : i # Len(stack) => base[i] = stack[i]
  BY <1>1, <1>2, <1>5
<1>10. stack' = Append(base, f)
  BY <1>7, Zenon
<1> HIDE DEF base
<1>11. /\ stack' \in Seq(FrameType) /\ Len(stack') = Len(stack) + 1 /\ DOMAIN stack' = 1..(Len(stack) + 1)
       /\ stack'[Len(stack) + 1] = f
       /\ \A i \in 1..Len(stack) : stack'[i] = base[i]
  BY <1>4, <1>9, <1>10
<1>12. stack'[Len(stack)] = h /\ \A i \in DOMAIN stack : i # Len(stack) => stack'[i] = stack[i]
  BY <1>1, <1>9, <1>11, Zenon
<1> QED BY <1>1, <1>8, <1>11, <1>12, Zenon DEF f, h, e, Top

\* The return of a kernel, frame by frame and row by row.
LEMMA PopsIs ==
  ASSUME TypeInv, OnStack, NEW end, NEW res, Pops(end, res)
  PROVE  /\ stack' \in Seq(FrameType) /\ Len(stack') = Len(stack) - 1 /\ DOMAIN stack' = 1..(Len(stack) - 1)
         /\ DOMAIN stack = 1..Len(stack) /\ Len(stack) \in DOMAIN stack /\ stack[Len(stack)] = Top /\ Len(stack) \in Nat
         /\ \A i \in DOMAIN stack' : stack'[i] = IF i = Len(stack) - 1 THEN [stack[i] EXCEPT !.pc = "fold", !.res = res]
                                                 ELSE stack[i]
         /\ members' \in Seq(MemberType) /\ DOMAIN members' = DOMAIN members /\ Top.s \in DOMAIN members
         /\ \A x \in DOMAIN members : x # Top.s => members'[x] = members[x]
         /\ members'[Top.s] = [members[Top.s] EXCEPT !.end = end] /\ members[Top.s] \in MemberType
         /\ \A x \in DOMAIN members : SameRow(members'[x], members[x])
<1>1. /\ Len(stack) \in Nat /\ Len(stack) \in DOMAIN stack /\ Top \in FrameType
      /\ Top.s \in DOMAIN members /\ members[Top.s] \in MemberType /\ DOMAIN stack = 1..Len(stack)
  BY TopIs, Zenon DEF Pops
<1>2. stack \in Seq(FrameType) /\ members \in Seq(MemberType)
  BY Zenon DEF TypeInv
<1>3. /\ stack' \in Seq(FrameType) /\ Len(stack') = Len(stack) - 1 /\ DOMAIN stack' = 1..(Len(stack) - 1)
      /\ \A i \in DOMAIN stack' : stack'[i] = IF i = Len(stack) - 1 THEN [stack[i] EXCEPT !.pc = "fold", !.res = res]
                                              ELSE stack[i]
  <2>1. CASE Len(stack) = 1
    <3>1. stack' = <<>>
      BY <2>1, Zenon DEF Pops
    <3>2. stack' \in Seq(FrameType) /\ Len(stack') = 0 /\ DOMAIN stack' = {}
      BY <3>1
    <3> QED BY <2>1, <3>2
  <2>2. CASE Len(stack) > 1
    <3> DEFINE F(i) == IF i = Len(stack) - 1 THEN [stack[i] EXCEPT !.pc = "fold", !.res = res] ELSE stack[i]
    <3>1. stack' = [i \in 1..(Len(stack) - 1) |-> F(i)]
      BY <2>2, Zenon DEF Pops
    <3>2. \A i \in 1..(Len(stack) - 1) : stack[i] \in FrameType
      BY <1>1, <1>2
    <3>3. res \in Results /\ "fold" \in PCs
      BY Zenon DEF Pops, PCs
    <3>4. \A i \in 1..(Len(stack) - 1) : F(i) \in FrameType
      BY <3>2, <3>3, Zenon DEF FrameType
    <3>5. Len(stack) - 1 \in Nat
      BY <1>1, <2>2
    <3> HIDE DEF F
    <3>6. stack' \in Seq(FrameType) /\ Len(stack') = Len(stack) - 1 /\ DOMAIN stack' = 1..(Len(stack) - 1)
      BY <3>1, <3>4, <3>5
    <3>7. \A i \in DOMAIN stack' : stack'[i] = F(i)
      BY <3>1, <3>6, Zenon
    <3> QED BY <3>6, <3>7, Zenon DEF F
  <2>3. \A n \in Nat : n \in 1..n => n = 1 \/ n > 1
    OBVIOUS
  <2>4. Len(stack) = 1 \/ Len(stack) > 1
    BY <1>1, <2>3, Zenon
  <2> QED BY <2>1, <2>2, <2>4, Zenon
<1>4. /\ members' \in Seq(MemberType) /\ DOMAIN members' = DOMAIN members
      /\ \A x \in DOMAIN members : x # Top.s => members'[x] = members[x]
      /\ members'[Top.s] = [members[Top.s] EXCEPT !.end = end]
  <2> DEFINE m == [members[Top.s] EXCEPT !.end = end]
  <2>1. members' = [members EXCEPT ![Top.s] = m]
    BY Zenon DEF Pops
  <2>2. m \in MemberType
    BY <1>1, Zenon DEF Pops, MemberType, Ends
  <2> HIDE DEF m
  <2>3. /\ members' \in Seq(MemberType) /\ DOMAIN members' = DOMAIN members /\ members'[Top.s] = m
        /\ \A x \in DOMAIN members : x # Top.s => members'[x] = members[x]
    BY <1>1, <1>2, <2>1, <2>2
  <2> QED BY <2>3, Zenon DEF m
<1>5. \A x \in DOMAIN members : SameRow(members'[x], members[x])
  BY <1>1, <1>4, ZenonT(90) DEF SameRow, MemberType
<1> QED BY <1>1, <1>3, <1>4, <1>5, Zenon DEF Top

\* Every step but the start of a child keeps the rows.
LEMMA KeptStep == TypeInv /\ OnStack /\ Kinds => Kept \/ Pushes
<1> SUFFICES ASSUME TypeInv, OnStack, Kinds, ~Pushes
             PROVE  Kept
  BY Zenon
<1>0. \A x \in DOMAIN members : members[x] \in MemberType /\ members[x].delegates \in Counts
  <2>1. \A x \in DOMAIN members : members[x] \in MemberType
    BY DEF TypeInv
  <2> QED BY <2>1, Zenon DEF MemberType
<1>1. \A m : Alike(m, m) /\ SameRow(m, m)
  BY Zenon DEF Alike, SameRow
<1>2. \A x \in DOMAIN members, k \in Agents : members[x].delegates[k] \in Nat /\ members[x].delegates[k] <= members[x].delegates[k]
  BY <1>0 DEF Counts
<1>3. ASSUME NEW g, NEW m, InPlace(g, m), \A k \in Agents : members[Top.s].delegates[k] <= m.delegates[k]
      PROVE  Kept
  <2>1. /\ members' \in Seq(MemberType) /\ DOMAIN members' = DOMAIN members /\ members'[Top.s] = m
        /\ \A x \in DOMAIN members : x # Top.s => members'[x] = members[x]
        /\ \A x \in DOMAIN members : SameRow(members'[x], members[x])
    BY <1>3, InPlaceIs, Zenon
  <2>2. stack # <<>> /\ team' = team /\ late' = late
    BY <1>3, Zenon DEF InPlace
  <2>3. \A x \in DOMAIN members, k \in Agents : members[x].delegates[k] <= members'[x].delegates[k]
    BY <1>2, <1>3, <2>1, Zenon
  <2> QED BY <1>1, <2>1, <2>2, <2>3, Zenon DEF Kept
<1>4. ASSUME NEW g, NEW m, Works(g, m)
      PROVE  Kept
  <2>1. InPlace(g, m) /\ m.delegates = members[Top.s].delegates /\ Top.s \in DOMAIN members
    BY <1>4, InPlaceIs, Zenon DEF Works
  <2> QED BY <1>2, <1>3, <2>1, Zenon
<1>5. ASSUME NEW g, NEW m, Asks(g, m)
      PROVE  Kept
  <2>1. /\ InPlace(g, m) /\ Top.s \in DOMAIN members /\ g \in FrameType
        /\ m = [members[Top.s] EXCEPT !.delegates[g.child] = @ + 1]
    BY <1>5, InPlaceIs, Zenon DEF Asks, InPlace
  <2>2. members[Top.s] \in MemberType /\ members[Top.s].delegates \in [Agents -> Nat]
    BY <1>0, <2>1, Zenon DEF Counts
  <2>3. m.delegates = [members[Top.s].delegates EXCEPT ![g.child] = @ + 1]
    BY <2>1, <2>2, Zenon DEF MemberType
  <2>4. \A k \in Agents : members[Top.s].delegates[k] <= m.delegates[k]
    BY <2>2, <2>3
  <2> QED BY <1>3, <2>1, <2>4, Zenon
<1>6. ASSUME NEW g, Tells(g) \/ Folds(g)
      PROVE  Kept
  <2>1. InPlace(g, members[Top.s]) /\ Top.s \in DOMAIN members
    BY <1>6, InPlaceIs, Zenon DEF Tells, Folds
  <2> QED BY <1>2, <1>3, <2>1, Zenon
<1>7. ASSUME NEW end, NEW res, Pops(end, res)
      PROVE  Kept
  <2>1. /\ members' \in Seq(MemberType) /\ DOMAIN members' = DOMAIN members
        /\ \A x \in DOMAIN members : x # Top.s => members'[x] = members[x]
        /\ members'[Top.s] = [members[Top.s] EXCEPT !.end = end] /\ members[Top.s] \in MemberType
        /\ \A x \in DOMAIN members : SameRow(members'[x], members[x])
    BY <1>7, PopsIs, Zenon
  <2>2. stack # <<>> /\ team' = team /\ late' = late
    BY <1>7, Zenon DEF Pops
  <2>3. members'[Top.s].delegates = members[Top.s].delegates
    BY <2>1, Zenon DEF MemberType
  <2>4. \A x \in DOMAIN members, k \in Agents : members[x].delegates[k] <= members'[x].delegates[k]
    BY <1>2, <2>1, <2>3, Zenon
  <2> QED BY <1>1, <2>1, <2>2, <2>4, Zenon DEF Kept
<1>8. CASE Aside
  BY <1>2, <1>8, Zenon DEF Aside, Kept, Alike, SameRow
<1> QED BY <1>4, <1>5, <1>6, <1>7, <1>8, Zenon DEF Kinds

\* The types hold.
LEMMA TypeStep == TypeInv /\ OnStack /\ Kinds => TypeInv'
<1> SUFFICES ASSUME TypeInv, OnStack, Kinds
             PROVE  TypeInv'
  BY Zenon
<1>1. stack' \in Seq(FrameType)
  <2>1. ASSUME NEW g, NEW m, InPlace(g, m)
        PROVE  stack' \in Seq(FrameType)
    BY <2>1, InPlaceIs, Zenon
  <2>2. Pushes => stack' \in Seq(FrameType)
    BY PushesIs, Zenon
  <2>3. \A end, res : Pops(end, res) => stack' \in Seq(FrameType)
    BY PopsIs, Zenon
  <2>4. Aside => stack' \in Seq(FrameType)
    <3>1. stack \in Seq(FrameType) /\ <<>> \in Seq(FrameType)
      BY DEF TypeInv
    <3> QED BY <3>1, Zenon DEF Aside
  <2> QED BY <2>1, <2>2, <2>3, <2>4, Zenon DEF Kinds, Works, Asks, Tells, Folds
<1>2. team' \in Teams /\ cancel' \in BOOLEAN
  BY ZenonT(90) DEF Kinds, Works, Asks, Tells, Folds, InPlace, Pushes, Pops, Aside, TypeInv
<1>3. members' \in Seq(MemberType) /\ late' \subseteq DOMAIN members'
  <2>1. CASE Kept
    BY <2>1, Zenon DEF Kept, TypeInv
  <2>2. CASE Pushes
    <3>1. /\ members' \in Seq(MemberType) /\ DOMAIN members = 1..Len(members) /\ Len(members) \in Nat
          /\ DOMAIN members' = 1..(Len(members) + 1)
      BY <2>2, PushesIs, Zenon
    <3>2. late' = (IF cancel THEN late \cup {Len(members) + 1} ELSE late) /\ late \subseteq DOMAIN members
      BY <2>2, Zenon DEF Pushes, TypeInv
    <3> QED BY <3>1, <3>2
  <2> QED BY <2>1, <2>2, KeptStep, Zenon
<1> QED BY <1>1, <1>2, <1>3, Zenon DEF TypeInv

\* The children of a session are a finite set.
LEMMA ChildrenFinite ==
  ASSUME TypeInv, NEW s, NEW k
  PROVE  /\ IsFiniteSet(Children(s, k)) /\ Cardinality(Children(s, k)) \in Nat
         /\ Children(s, k) \subseteq DOMAIN members
<1>1. DOMAIN members = 1..Len(members) /\ Len(members) \in Nat
  BY DEF TypeInv
<1>2. IsFiniteSet(DOMAIN members) /\ Children(s, k) \subseteq DOMAIN members
  BY <1>1, FS_Interval DEF Children
<1> QED BY <1>2, FS_Subset, FS_CardinalityType, Zenon

\* Rows that are kept keep their children.
LEMMA ChildrenKept ==
  ASSUME Kept, NEW s, NEW k
  PROVE  Children(s, k)' = Children(s, k)
BY Zenon DEF Kept, SameRow, Children

\* A child that starts is one more child of its parent, and of no other.
LEMMA ChildrenMore ==
  ASSUME TypeInv, OnStack, Pushes, NEW s, NEW k
  PROVE  /\ Children(s, k)' = IF s = Top.s /\ k = Top.child THEN Children(s, k) \cup {Len(members) + 1} ELSE Children(s, k)
         /\ Len(members) + 1 \notin Children(s, k)
         /\ Cardinality(Children(s, k)') = Cardinality(Children(s, k)) + One(s = Top.s /\ k = Top.child)
<1>1. /\ DOMAIN members = 1..Len(members) /\ Len(members) \in Nat /\ DOMAIN members' = 1..(Len(members) + 1)
      /\ members'[Len(members) + 1] = Session(Top.child, Top.s, Top.d + 1, Top.task)
      /\ \A x \in DOMAIN members : members'[x] = members[x]
  BY PushesIs, Zenon
<1>2. members'[Len(members) + 1].agent = Top.child /\ members'[Len(members) + 1].parent = Top.s
  BY <1>1 DEF Session
<1>3. Children(s, k)' = {i \in 1..(Len(members) + 1) : members'[i].parent = s /\ members'[i].agent = k}
  BY <1>1, Zenon DEF Children
<1>4. Children(s, k) = {i \in 1..Len(members) : members[i].parent = s /\ members[i].agent = k}
  BY <1>1, Zenon DEF Children
<1>5. Len(members) + 1 \notin Children(s, k)
  BY <1>1, <1>4
<1>6. Children(s, k)' = IF s = Top.s /\ k = Top.child THEN Children(s, k) \cup {Len(members) + 1} ELSE Children(s, k)
  BY <1>1, <1>2, <1>3, <1>4
<1>7. IsFiniteSet(Children(s, k)) /\ Cardinality(Children(s, k)) \in Nat
  BY ChildrenFinite, Zenon
<1>8. Cardinality(Children(s, k) \cup {Len(members) + 1}) = Cardinality(Children(s, k)) + 1
  BY <1>5, <1>7, FS_AddElement, Zenon
<1> QED BY <1>5, <1>6, <1>7, <1>8 DEF One
-----------------------------------------------------------------------------
(* The stack. *)

\* What a frame was allowed does not depend on the step.
LEMMA AskedKept ==
  ASSUME NEW f, NEW g, Asked(f), team' = team, f.a = g.a, f.d = g.d, f.child = g.child, f.task = g.task,
         f.count = g.count, f.denied = g.denied
  PROVE  Asked(g)'
BY Zenon DEF Asked, Edges, MaxDepth, MaxPer, NoRedelegate

\* The frames are the running sessions.
LEMMA OnStackStep == TypeInv /\ OnStack /\ Order /\ Kinds => OnStack'
<1> SUFFICES ASSUME TypeInv, OnStack, Order, Kinds
             PROVE  OnStack'
  BY Zenon
<1>n. PICK n \in Nat : n = Len(stack)
  BY DEF TypeInv
<1> DEFINE Placed(f, i, last) ==
             /\ f.s \in DOMAIN members'
             /\ members'[f.s].agent = f.a /\ members'[f.s].depth = f.d /\ members'[f.s].end = "running"
             /\ f.pc = "wait" <=> i < last
             /\ f.pc \in Sending \cup Waiting => Asked(f)'
<1>0. ASSUME \A i \in DOMAIN stack' : \A f : f = stack'[i] => Placed(f, i, Len(stack'))
      PROVE  OnStack'
  <2>1. \A i \in DOMAIN stack' : \A f : f = stack'[i] => (Asked(f)' <=> Asked(stack[i])')
    BY Zenon DEF Asked
  <2> QED BY <1>0, <2>1, Zenon DEF OnStack
<1>1. ASSUME NEW i \in DOMAIN stack, NEW f, f = stack[i], stack[i].pc = "wait" <=> i < n, team' = team,
             DOMAIN members' = DOMAIN members \/ Pushes,
             SameRow(members'[f.s], members[f.s]), members'[f.s].end = members[f.s].end
      PROVE  Placed(f, i, n)
  <2>1. /\ f.s \in DOMAIN members /\ members[f.s].agent = f.a /\ members[f.s].depth = f.d
        /\ members[f.s].end = "running" /\ (f.pc \in Sending \cup Waiting => Asked(f))
    BY <1>1, Zenon DEF OnStack
  <2>2. f.pc \in Sending \cup Waiting => Asked(f)'
    BY <1>1, <2>1, AskedKept, Zenon
  <2>3. Pushes => DOMAIN members \subseteq DOMAIN members'
    BY PushesIs
  <2> QED BY <1>1, <2>1, <2>2, <2>3, Zenon DEF SameRow
<1>2. ASSUME NEW g, NEW m, InPlace(g, m), g.pc # "wait", g.pc \in Sending \cup Waiting => Asked(g)'
      PROVE  OnStack'
  <2>1. /\ Len(stack') = n /\ DOMAIN stack' = 1..n /\ DOMAIN stack = 1..n /\ n \in DOMAIN stack
        /\ stack'[n] = g /\ stack[n] = Top
        /\ \A i \in DOMAIN stack : i # n => stack'[i] = stack[i]
        /\ DOMAIN members' = DOMAIN members
        /\ \A x \in DOMAIN members : SameRow(members'[x], members[x]) /\ members'[x].end = members[x].end
    BY <1>n, <1>2, InPlaceIs, Zenon
  <2>2. team' = team /\ g.a = Top.a /\ g.s = Top.s /\ g.d = Top.d
    BY <1>2, Zenon DEF InPlace
  <2>3. /\ \A i \in DOMAIN stack : stack[i].s \in DOMAIN members /\ (stack[i].pc = "wait" <=> i < n)
        /\ members[Top.s].agent = Top.a /\ members[Top.s].depth = Top.d /\ members[Top.s].end = "running"
    BY <1>n, <2>1, Zenon DEF OnStack
  <2>4. ~(n < n)
    BY <2>1
  <2>5. Placed(g, n, n)
    BY <1>2, <2>1, <2>2, <2>3, <2>4, SMTT(60) DEF SameRow
  <2>6. \A i \in DOMAIN stack : \A f : i # n /\ f = stack[i] => Placed(f, i, n)
    BY <1>1, <2>1, <2>2, <2>3
  <2> QED BY <1>0, <2>1, <2>5, <2>6
<1>3. ASSUME NEW g, NEW m, Works(g, m)
      PROVE  OnStack'
  BY <1>2, <1>3, Zenon DEF Works, Waiting
<1>4. ASSUME NEW g, NEW m, Asks(g, m)
      PROVE  OnStack'
  BY <1>2, <1>4, AskedKept, Zenon DEF Asks, InPlace
<1>5. ASSUME NEW g, Tells(g)
      PROVE  OnStack'
  <2>1. /\ InPlace(g, members[Top.s]) /\ SameNotes(g) /\ team' = team /\ g.a = Top.a /\ g.d = Top.d
        /\ Top.pc \in Sending /\ g.pc \in Sending /\ g.child = Top.child /\ g.task = Top.task
    BY <1>5, Zenon DEF Tells, InPlace
  <2>2. Asked(Top)
    BY <2>1, InPlaceIs, Zenon DEF OnStack
  <2>3. Asked(g)'
    BY <2>1, <2>2, AskedKept, Zenon DEF SameNotes
  <2> QED BY <1>2, <2>1, <2>3, Zenon DEF Sending
<1>6. ASSUME NEW g, Folds(g)
      PROVE  OnStack'
  BY <1>2, <1>6, Zenon DEF Folds, Sending, Waiting
<1>7. CASE Pushes
  <2>0. PICK h, f0, e : /\ h = [Top EXCEPT !.pc = "wait"]
                        /\ f0 = Frame(Top.child, Len(members) + 1, Top.d + 1)
                        /\ e = Session(Top.child, Top.s, Top.d + 1, Top.task)
    BY Zenon
  <2>1. /\ Len(stack') = n + 1 /\ DOMAIN stack' = 1..(n + 1) /\ DOMAIN stack = 1..n /\ n \in DOMAIN stack
        /\ stack[n] = Top /\ n \in Nat /\ stack'[n] = h /\ stack'[n + 1] = f0
        /\ \A i \in DOMAIN stack : i # n => stack'[i] = stack[i]
        /\ Top.s \in DOMAIN members /\ Top \in FrameType
        /\ DOMAIN members = 1..Len(members) /\ Len(members) \in Nat /\ DOMAIN members' = 1..(Len(members) + 1)
        /\ members'[Len(members) + 1] = e
        /\ \A x \in DOMAIN members : members'[x] = members[x]
    BY <1>n, <1>7, <2>0, PushesIs, Zenon
  <2>2. /\ h.a = Top.a /\ h.s = Top.s /\ h.d = Top.d /\ h.pc = "wait" /\ h.child = Top.child /\ h.task = Top.task
        /\ h.count = Top.count /\ h.denied = Top.denied
    BY <2>0, <2>1, Zenon DEF FrameType
  <2>3. /\ f0.a = Top.child /\ f0.s = Len(members) + 1 /\ f0.d = Top.d + 1 /\ f0.pc = "loop"
        /\ e.agent = Top.child /\ e.depth = Top.d + 1 /\ e.end = "running"
    BY <2>0, Zenon DEF Frame, Session
  <2>4. Top.pc = "start" /\ team' = team
    BY <1>7, Zenon DEF Pushes
  <2>5. Asked(Top) /\ members[Top.s].agent = Top.a /\ members[Top.s].depth = Top.d /\ members[Top.s].end = "running"
    BY <2>1, <2>4, Zenon DEF OnStack, Sending
  <2>6. Asked(h)'
    BY <2>2, <2>4, <2>5, AskedKept, Zenon
  <2>7. n < n + 1 /\ ~(n + 1 < n + 1)
    BY <2>1
  <2>8. Placed(h, n, n + 1)
    BY <2>1, <2>2, <2>5, <2>6, <2>7, SMTT(60)
  <2>9. Placed(f0, n + 1, n + 1)
    BY <2>1, <2>3, <2>7 DEF Sending, Waiting
  <2>10. \A i \in DOMAIN stack : \A f : i # n /\ f = stack[i] => Placed(f, i, n)
    <3>1. \A x \in DOMAIN members : SameRow(members'[x], members[x]) /\ members'[x].end = members[x].end
      BY <2>1, Zenon DEF SameRow
    <3>2. \A i \in DOMAIN stack : stack[i].s \in DOMAIN members /\ (stack[i].pc = "wait" <=> i < n)
      BY <1>n, Zenon DEF OnStack
    <3> QED BY <1>1, <1>7, <2>4, <3>1, <3>2, Zenon
  <2>11. \A i \in 1..n : i # n => i < n /\ i < n + 1
    BY <2>1
  <2>12. \A i \in 1..(n + 1) : i \in 1..n \/ i = n + 1
    BY <2>1
  <2> QED BY <1>0, <2>1, <2>8, <2>9, <2>10, <2>11, <2>12, SMTT(90)
<1>8. ASSUME NEW end, NEW res, Pops(end, res)
      PROVE  OnStack'
  <2>1. /\ Len(stack') = n - 1 /\ DOMAIN stack' = 1..(n - 1) /\ DOMAIN stack = 1..n /\ n \in DOMAIN stack
        /\ stack[n] = Top /\ n \in Nat
        /\ \A i \in DOMAIN stack' : stack'[i] = IF i = n - 1 THEN [stack[i] EXCEPT !.pc = "fold", !.res = res] ELSE stack[i]
        /\ DOMAIN members' = DOMAIN members /\ Top.s \in DOMAIN members
        /\ \A x \in DOMAIN members : x # Top.s => members'[x] = members[x]
    BY <1>n, <1>8, PopsIs, ZenonT(90)
  <2>2. team' = team
    BY <1>8, Zenon DEF Pops
  <2>3. \A i \in 1..(n - 1) : i \in DOMAIN stack /\ i < n /\ i # n /\ (i # n - 1 <=> i < n - 1)
    <3>1. \A i \in 1..(n - 1) : i \in 1..n /\ i < n /\ i # n /\ (i # n - 1 <=> i < n - 1)
      OBVIOUS
    <3> QED BY <2>1, <3>1, Zenon
  <2>4. \A i \in DOMAIN stack : stack[i].s \in DOMAIN members /\ stack[i] \in FrameType
    BY DEF OnStack, TypeInv
  <2>5. \A i \in 1..(n - 1) : stack[i].s # Top.s /\ stack[i].pc = "wait"
    <3>1. \A i \in 1..(n - 1) : stack[i].s < stack[n].s /\ stack[i].pc = "wait"
      BY <1>n, <2>1, <2>3, Zenon DEF Order, OnStack
    <3>2. stack[n].s \in Nat /\ \A i \in 1..(n - 1) : stack[i].s \in Nat
      BY <2>1, <2>3, <2>4, Zenon DEF FrameType
    <3>3. stack[n] = Top
      BY <2>1, Zenon
    <3>4. \A i, j \in Nat : i < j => i # j
      OBVIOUS
    <3> QED BY <3>1, <3>2, <3>3, <3>4, Zenon
  <2>6. \A i \in 1..(n - 1) : \A f : f = stack[i] => Placed(f, i, n)
    <3>1. \A i \in 1..(n - 1) : members'[stack[i].s] = members[stack[i].s]
      BY <2>1, <2>3, <2>4, <2>5, Zenon
    <3>2. DOMAIN members' = DOMAIN members
      BY <2>1, Zenon
    <3>3. \A m : SameRow(m, m)
      BY Zenon DEF SameRow
    <3> QED BY <1>1, <2>2, <2>3, <2>5, <3>1, <3>2, <3>3, SMTT(60)
  <2>7. ASSUME NEW i \in 1..(n - 1), NEW f, f = stack'[i]
        PROVE  Placed(f, i, n - 1)
    <3>1. PICK b : b = stack[i]
      BY Zenon
    <3>2. Placed(b, i, n) /\ b \in FrameType /\ b.pc = "wait"
      BY <2>3, <2>4, <2>5, <2>6, <3>1, Zenon
    <3>3. CASE i = n - 1
      <4>1. f = [b EXCEPT !.pc = "fold", !.res = res]
        BY <2>1, <2>7, <3>1, <3>3, Zenon
      <4>2. /\ f.a = b.a /\ f.s = b.s /\ f.d = b.d /\ f.pc = "fold" /\ f.child = b.child /\ f.task = b.task
            /\ f.count = b.count /\ f.denied = b.denied
        BY <3>2, <4>1, Zenon DEF FrameType
      <4>3. Asked(b)'
        BY <3>2, Zenon DEF Waiting
      <4>4. Asked(f)'
        BY <4>2, <4>3, Zenon DEF Asked
      <4>5. ~(i < n - 1)
        BY <2>3, <3>3, Zenon
      <4> QED BY <3>2, <4>2, <4>4, <4>5, Zenon
    <3>4. CASE i # n - 1
      <4>1. f = b
        BY <2>1, <2>7, <3>1, <3>4, Zenon
      <4> QED BY <2>3, <3>2, <3>4, <4>1, Zenon
    <3> QED BY <3>3, <3>4, Zenon
  <2>8. DOMAIN stack' = 1..(n - 1) /\ Len(stack') = n - 1
    BY <2>1, Zenon
  <2> QED BY <1>0, <2>7, <2>8, Zenon
<1>9. CASE Aside
  <2>1. /\ stack' = stack \/ stack' = <<>>
        /\ DOMAIN members' = DOMAIN members /\ team' = team
        /\ \A x \in DOMAIN members : SameRow(members'[x], members[x]) /\ members'[x].end = members[x].end
    BY <1>9, Zenon DEF Aside, Alike, SameRow
  <2>2. \A i \in DOMAIN stack : stack[i].s \in DOMAIN members /\ (stack[i].pc = "wait" <=> i < n)
    BY <1>n, Zenon DEF OnStack
  <2> QED BY <1>n, <1>0, <1>1, <2>1, <2>2
<1> QED BY <1>3, <1>4, <1>5, <1>6, <1>7, <1>8, <1>9, Zenon DEF Kinds
-----------------------------------------------------------------------------
(* The order of the sessions and the links between them. *)

\* A frame that waits before and after a step, and says the same.
Awaits(g, f) ==
  /\ g.s = f.s /\ g.child = f.child /\ g.task = f.task
  /\ g.count = f.count /\ g.completed = f.completed /\ g.denied = f.denied
  /\ f.pc = "wait" /\ g.pc \in Waiting

\* What every step but the start of a child does to the frames.
Framed ==
  /\ Len(stack) \in Nat /\ DOMAIN stack = 1..Len(stack)
  /\ Len(stack') \in Nat /\ DOMAIN stack' = 1..Len(stack') /\ Len(stack') <= Len(stack)
  /\ \A i \in DOMAIN stack' : stack'[i].s = stack[i].s
  /\ \A i \in DOMAIN stack' : i < Len(stack) => Awaits(stack'[i], stack[i])
  /\ \A i \in DOMAIN stack' : i = Len(stack) =>
       \/ stack'[i] = stack[i] /\ Aside
       \/ \E g, m : stack'[i] = g /\ (Works(g, m) \/ Asks(g, m))
       \/ \E g : stack'[i] = g /\ (Tells(g) \/ Folds(g))

\* Every step but the start of a child keeps the frames that wait.
LEMMA FramedStep == TypeInv /\ OnStack /\ Kinds => Framed \/ Pushes
<1> SUFFICES ASSUME TypeInv, OnStack, Kinds, ~Pushes
             PROVE  Framed
  BY Zenon
<1>n. PICK n \in Nat : n = Len(stack)
  BY DEF TypeInv
<1>0. /\ DOMAIN stack = 1..n /\ \A i \in DOMAIN stack : stack[i] \in FrameType
      /\ \A i \in DOMAIN stack : i < n => stack[i].pc = "wait"
  BY <1>n DEF TypeInv, OnStack
<1>1. \A i \in DOMAIN stack : i < n => Awaits(stack[i], stack[i])
  BY <1>0, Zenon DEF Awaits, Waiting
<1>2. ASSUME NEW g, NEW m, InPlace(g, m),
             Works(g, m) \/ Asks(g, m) \/ (\E h : h = g /\ (Tells(h) \/ Folds(h)))
      PROVE  Framed
  <2>1. /\ Len(stack') = n /\ DOMAIN stack' = 1..n /\ n \in DOMAIN stack
        /\ stack'[n] = g /\ stack[n] = Top
        /\ \A i \in DOMAIN stack : i # n => stack'[i] = stack[i]
    BY <1>n, <1>2, InPlaceIs, Zenon
  <2>2. g.s = Top.s
    BY <1>2, Zenon DEF InPlace
  <2>3. \A i \in DOMAIN stack : i < n => i # n
    BY <1>0
  <2>4. n <= n
    OBVIOUS
  <2>5. \A i \in DOMAIN stack' : stack'[i].s = stack[i].s
    BY <1>0, <2>1, <2>2, Zenon
  <2>6. \A i \in DOMAIN stack' : i < n => Awaits(stack'[i], stack[i])
    BY <1>0, <1>1, <2>1, <2>3, Zenon
  <2> QED BY <1>n, <1>0, <1>2, <2>1, <2>4, <2>5, <2>6, Zenon DEF Framed
<1>3. ASSUME NEW end, NEW res, Pops(end, res)
      PROVE  Framed
  <2>1. /\ Len(stack') = n - 1 /\ DOMAIN stack' = 1..(n - 1) /\ n \in DOMAIN stack
        /\ \A i \in DOMAIN stack' : stack'[i] = IF i = n - 1 THEN [stack[i] EXCEPT !.pc = "fold", !.res = res] ELSE stack[i]
    BY <1>n, <1>3, PopsIs, ZenonT(90)
  <2>2. n - 1 \in Nat /\ n - 1 <= n /\ \A i \in 1..(n - 1) : i \in 1..n /\ i < n /\ i # n
    <3>1. n \in 1..n
      BY <1>0, <2>1, Zenon
    <3> QED BY <3>1
  <2>3. ASSUME NEW i \in 1..(n - 1)
        PROVE  Awaits(stack'[i], stack[i])
    <3>1. PICK f : f = stack[i]
      BY Zenon
    <3>2. f \in FrameType /\ f.pc = "wait" /\ Awaits(f, f)
      BY <1>0, <1>1, <2>2, <3>1, Zenon
    <3>3. stack'[i] = [f EXCEPT !.pc = "fold", !.res = res] \/ stack'[i] = f
      BY <2>1, <3>1, Zenon
    <3>4. Awaits([f EXCEPT !.pc = "fold", !.res = res], f)
      BY <3>2, Zenon DEF Awaits, Waiting, FrameType
    <3> QED BY <3>1, <3>2, <3>3, <3>4, Zenon
  <2>4. \A i \in DOMAIN stack' : stack'[i].s = stack[i].s
    BY <2>1, <2>3, Zenon DEF Awaits
  <2>5. Len(stack') = n - 1 /\ DOMAIN stack' = 1..(n - 1)
    BY <2>1, Zenon
  <2> QED BY <1>n, <1>0, <2>2, <2>3, <2>4, <2>5, Zenon DEF Framed
<1>4. CASE Aside
  <2>1. CASE stack' = stack
    <3>1. n <= n
      OBVIOUS
    <3> QED BY <1>n, <1>0, <1>1, <1>4, <2>1, <3>1, Zenon DEF Framed
  <2>2. CASE stack' = <<>>
    <3>1. Len(stack') = 0 /\ DOMAIN stack' = {} /\ DOMAIN stack' = 1..Len(stack')
      BY <2>2
    <3>2. 0 \in Nat /\ 0 <= n
      OBVIOUS
    <3> QED BY <1>n, <1>0, <3>1, <3>2, Zenon DEF Framed
  <2> QED BY <1>4, <2>1, <2>2, Zenon DEF Aside
<1>5. \A g, m : Works(g, m) \/ Asks(g, m) => InPlace(g, m)
  BY Zenon DEF Works, Asks
<1>6. \A g : Tells(g) \/ Folds(g) => InPlace(g, members[Top.s])
  BY Zenon DEF Tells, Folds
<1> QED BY <1>2, <1>3, <1>4, <1>5, <1>6, Zenon DEF Kinds

\* Sessions and parents stay in order.
LEMMA OrderStep == TypeInv /\ OnStack /\ Order /\ Kinds => Order'
<1> SUFFICES ASSUME TypeInv, OnStack, Order, Kinds
             PROVE  Order'
  BY Zenon
<1>1. CASE Framed /\ Kept
  <2>1. \A i \in DOMAIN stack' : i \in DOMAIN stack /\ stack'[i].s = stack[i].s
    <3>1. /\ Len(stack) \in Nat /\ DOMAIN stack = 1..Len(stack) /\ Len(stack') \in Nat
          /\ DOMAIN stack' = 1..Len(stack') /\ Len(stack') <= Len(stack)
      BY <1>1, Zenon DEF Framed
    <3>2. \A m, n \in Nat : m <= n => \A i \in 1..m : i \in 1..n
      OBVIOUS
    <3>3. DOMAIN stack' \subseteq DOMAIN stack
      BY <3>1, <3>2, Zenon
    <3> QED BY <1>1, <3>3, Zenon DEF Framed
  <2>2. \A x \in DOMAIN members' : x \in DOMAIN members /\ members'[x].parent = members[x].parent
    BY <1>1, Zenon DEF Kept, SameRow
  <2> QED BY <2>1, <2>2, Zenon DEF Order
<1>2. CASE Pushes
  <2>n. PICK n \in Nat, l \in Nat : n = Len(stack) /\ l = Len(members)
    BY DEF TypeInv
  <2>1. /\ DOMAIN stack' = 1..(n + 1) /\ DOMAIN stack = 1..n /\ n \in DOMAIN stack /\ stack[n] = Top
        /\ stack'[n] = [Top EXCEPT !.pc = "wait"] /\ Top \in FrameType
        /\ stack'[n + 1] = Frame(Top.child, l + 1, Top.d + 1)
        /\ \A i \in DOMAIN stack : i # n => stack'[i] = stack[i]
    BY <1>2, <2>n, PushesIs, Zenon
  <2>2. /\ DOMAIN members = 1..l /\ DOMAIN members' = 1..(l + 1) /\ Top.s \in DOMAIN members
        /\ members'[l + 1] = Session(Top.child, Top.s, Top.d + 1, Top.task)
        /\ \A x \in DOMAIN members : members'[x] = members[x]
    BY <1>2, <2>n, PushesIs, Zenon
  <2>3. \A i \in DOMAIN stack : stack'[i].s = stack[i].s
    BY <2>1, SMTT(90) DEF FrameType
  <2>4. \A i \in DOMAIN stack : stack[i].s \in 1..l
    BY <2>2, Zenon DEF OnStack
  <2>5. stack'[n + 1].s = l + 1
    BY <2>1 DEF Frame
  <2>6. \A i \in 1..(n + 1) : i \in 1..n \/ i = n + 1
    OBVIOUS
  <2>7. \A i \in 1..n : \A v \in 1..l : i < n + 1 /\ ~(n + 1 < i) /\ ~(n + 1 < n + 1) /\ v < l + 1
    OBVIOUS
  <2>8. ASSUME NEW i \in 1..(n + 1), NEW j \in 1..(n + 1), i < j
        PROVE  stack'[i].s < stack'[j].s
    <3>1. CASE j = n + 1
      <4>1. i \in 1..n
        BY <2>8, <3>1
      <4> QED BY <2>1, <2>3, <2>4, <2>5, <2>7, <3>1, <4>1, SMTT(90)
    <3>2. CASE j \in 1..n
      <4>1. i \in 1..n
        BY <2>6, <2>7, <2>8, <3>2
      <4> QED BY <2>1, <2>3, <2>8, <3>2, <4>1, Zenon DEF Order
    <3> QED BY <2>6, <3>1, <3>2, Zenon
  <2>9. stack'[1].s = 1
    <3>1. n \in 1..n
      BY <2>1, Zenon
    <3>2. 1 \in 1..n
      BY <3>1
    <3> QED BY <2>1, <2>3, <3>2, Zenon DEF Order
  <2>10. \A x \in DOMAIN members' : members'[x].parent < x
    <3>1. members'[l + 1].parent = Top.s /\ Top.s \in 1..l
      BY <2>2 DEF Session
    <3>2. \A x \in 1..l : members'[x].parent < x
      BY <2>2, Zenon DEF Order
    <3>3. \A x \in 1..(l + 1) : x \in 1..l \/ x = l + 1
      OBVIOUS
    <3> QED BY <2>2, <2>7, <3>1, <3>2, <3>3, SMTT(90)
  <2> QED BY <2>1, <2>8, <2>9, <2>10, Zenon DEF Order
<1> QED BY <1>1, <1>2, FramedStep, KeptStep, Zenon

\* A latest child stays so while no other starts.
LEMMA LatestKept ==
  ASSUME Kept, NEW f, NEW g, NEW c, Latest(f, c), g.s = f.s, g.child = f.child, g.task = f.task
  PROVE  Latest(g, c)'
BY Zenon DEF Kept, SameRow, Latest

\* A child that starts is no child of a frame further out.
LEMMA LatestOut ==
  ASSUME TypeInv, OnStack, Pushes, NEW f, NEW c, Latest(f, c), f.s # Top.s
  PROVE  Latest(f, c)'
<1> PICK l \in Nat : l = Len(members)
  BY DEF TypeInv
<1>1. /\ DOMAIN members = 1..l /\ DOMAIN members' = 1..(l + 1)
      /\ members'[l + 1] = Session(Top.child, Top.s, Top.d + 1, Top.task)
      /\ \A x \in DOMAIN members : members'[x] = members[x]
  BY PushesIs, Zenon
<1>2. members'[l + 1].parent # f.s
  BY <1>1, SMTT(90) DEF Session
<1>3. \A x \in DOMAIN members' : members'[x].parent = f.s => x \in DOMAIN members
  <2>1. \A x \in 1..(l + 1) : x \in 1..l \/ x = l + 1
    BY SMTT(90)
  <2> QED BY <1>1, <1>2, <2>1, Zenon
<1>4. DOMAIN members \subseteq DOMAIN members'
  BY <1>1
<1> QED BY <1>1, <1>3, <1>4, Zenon DEF Latest

\* A child that starts is the latest of its parent.
LEMMA LatestIn ==
  ASSUME TypeInv, OnStack, Pushes, NEW f, f.s = Top.s, f.child = Top.child, f.task = Top.task,
         NEW c, c = Len(members) + 1
  PROVE  Latest(f, c)'
<1> PICK l \in Nat : l = Len(members)
  BY DEF TypeInv
<1>1. /\ DOMAIN members' = 1..(l + 1)
      /\ members'[l + 1] = Session(Top.child, Top.s, Top.d + 1, Top.task)
  BY PushesIs, Zenon
<1>2. members'[l + 1].parent = Top.s /\ members'[l + 1].agent = Top.child /\ members'[l + 1].task = Top.task
  BY <1>1 DEF Session
<1>3. l + 1 \in 1..(l + 1) /\ \A x \in 1..(l + 1) : x <= l + 1
  OBVIOUS
<1> QED BY <1>1, <1>2, <1>3, Zenon DEF Latest

\* A frame's child is its latest, and stays so until its return is noted.
LEMMA LinksStep == TypeInv /\ OnStack /\ Order /\ Links /\ Kinds => Links'
<1> SUFFICES ASSUME TypeInv, OnStack, Order, Links, Kinds
             PROVE  Links'
  BY Zenon
<1>n. PICK n \in Nat : n = Len(stack)
  BY SMTT(90) DEF TypeInv
<1>0. ASSUME \A i \in DOMAIN stack' : \A f : f = stack'[i] =>
               /\ i < Len(stack') => \A c : c = stack'[i + 1].s => Latest(f, c)'
               /\ f.pc = "fold" => \E c \in DOMAIN members' : Latest(f, c)'
      PROVE  Links'
  BY <1>0 DEF Links, Latest
<1>1. CASE Framed /\ Kept
  <2>n. PICK m \in Nat : m = Len(stack')
    BY <1>1, Zenon DEF Framed
  <2>1. DOMAIN stack = 1..n /\ DOMAIN stack' = 1..m /\ m <= n
    BY <1>n, <1>1, <2>n, Zenon DEF Framed
  <2>2. \A i \in 1..m : i \in 1..n /\ (i < m => i < n /\ i + 1 \in 1..m) /\ (i = n \/ i < n)
    BY <2>1
  <2>3. ASSUME NEW i \in DOMAIN stack', NEW f, f = stack'[i], i < m, NEW c, c = stack'[i + 1].s
        PROVE  Latest(f, c)'
    <3>1. PICK b : b = stack[i]
      BY Zenon
    <3>2. i \in DOMAIN stack /\ i < n /\ i + 1 \in DOMAIN stack'
      BY <2>1, <2>2, <2>3, Zenon
    <3>3. Awaits(f, b)
      BY <1>1, <1>n, <2>3, <3>1, <3>2, Zenon DEF Framed
    <3>4. c = stack[i + 1].s
      BY <1>1, <2>3, <3>2, Zenon DEF Framed
    <3>5. Latest(b, c)
      BY <1>n, <3>1, <3>2, <3>4, Zenon DEF Links
    <3> QED BY <1>1, <3>3, <3>5, LatestKept, Zenon DEF Awaits
  <2>4. ASSUME NEW i \in DOMAIN stack', NEW f, f = stack'[i], f.pc = "fold"
        PROVE  \E c \in DOMAIN members' : Latest(f, c)'
    <3>1. PICK b : b = stack[i]
      BY Zenon
    <3>2. i \in DOMAIN stack /\ (i = n \/ i < n)
      BY <2>1, <2>2, Zenon
    <3>3. ASSUME NEW c, Latest(b, c), f.s = b.s, f.child = b.child, f.task = b.task
          PROVE  \E x \in DOMAIN members' : Latest(f, x)'
      <4>1. Latest(f, c)'
        BY <1>1, <3>3, LatestKept, Zenon
      <4>2. c \in DOMAIN members'
        BY <4>1, Zenon DEF Latest
      <4> QED BY <4>1, <4>2, Zenon
    <3>4. CASE i < n
      <4>1. Awaits(f, b)
        BY <1>1, <1>n, <2>4, <3>1, <3>4, Zenon DEF Framed
      <4>2. PICK c : c = stack[i + 1].s
        BY Zenon
      <4>3. Latest(b, c)
        BY <1>n, <3>1, <3>2, <3>4, <4>2, Zenon DEF Links
      <4> QED BY <3>3, <4>1, <4>3, Zenon DEF Awaits
    <3>5. CASE i = n
      <4>1. f.pc # "fold" \/ f = b
        BY <1>1, <1>n, <2>4, <3>1, <3>5, Zenon DEF Framed, Works, Asks, Tells, Folds, Sending, Waiting
      <4>2. f = b
        BY <2>4, <4>1, Zenon
      <4>3. \E c \in DOMAIN members : Latest(b, c)
        BY <2>4, <3>1, <3>2, <4>2, Zenon DEF Links
      <4> QED BY <3>3, <4>2, <4>3, Zenon
    <3> QED BY <3>2, <3>4, <3>5, Zenon
  <2> QED BY <1>0, <2>n, <2>3, <2>4, Zenon
<1>2. CASE Pushes
  <2>1. /\ Len(stack') = n + 1 /\ DOMAIN stack' = 1..(n + 1) /\ DOMAIN stack = 1..n /\ n \in DOMAIN stack
        /\ stack[n] = Top /\ Top \in FrameType /\ stack'[n] = [Top EXCEPT !.pc = "wait"]
        /\ stack'[n + 1] = Frame(Top.child, Len(members) + 1, Top.d + 1)
        /\ \A i \in DOMAIN stack : i # n => stack'[i] = stack[i]
    BY <1>n, <1>2, PushesIs, Zenon
  <2>2. /\ stack'[n].s = Top.s /\ stack'[n].child = Top.child /\ stack'[n].task = Top.task /\ stack'[n].pc = "wait"
        /\ stack'[n + 1].s = Len(members) + 1 /\ stack'[n + 1].pc = "loop"
    BY <2>1 DEF Frame, FrameType
  <2>3. \A i \in 1..(n + 1) : i = n + 1 \/ i = n \/ (i \in 1..n /\ i # n /\ i < n /\ i + 1 \in 1..n)
    OBVIOUS
  <2>4. n < n + 1 /\ ~(n + 1 < n + 1)
    OBVIOUS
  <2>5. ASSUME NEW i \in 1..n, i # n, i < n, i + 1 \in 1..n
        PROVE  /\ stack[i].pc = "wait" /\ stack[i].s # Top.s /\ Latest(stack[i], stack[i + 1].s)
               /\ stack'[i + 1].s = stack[i + 1].s /\ stack'[i] = stack[i]
    <3>1. stack[i].pc = "wait" /\ Latest(stack[i], stack[i + 1].s)
      BY <1>n, <2>1, <2>5, Zenon DEF OnStack, Links
    <3>2. stack[i].s < stack[n].s
      BY <2>1, <2>5, Zenon DEF Order
    <3>3. stack[i].s \in Nat /\ stack[n].s \in Nat
      <4>1. stack[i] \in FrameType /\ stack[n] \in FrameType
        BY <2>1, <2>5 DEF TypeInv
      <4> QED BY <4>1, Zenon DEF FrameType
    <3>4. stack[i].s # stack[n].s
      BY <3>2, <3>3
    <3> QED BY <2>1, <2>2, <2>5, <3>1, <3>4, ZenonT(90)
  <2>6. ASSUME NEW i \in 1..(n + 1), NEW f, f = stack'[i]
        PROVE  /\ i < n + 1 => \A c : c = stack'[i + 1].s => Latest(f, c)'
               /\ f.pc # "fold"
    <3>1. CASE i = n + 1
      BY <2>2, <2>4, <2>6, <3>1, Zenon
    <3>2. CASE i = n
      <4>1. PICK c : c = Len(members) + 1
        BY Zenon
      <4>2. f.s = Top.s /\ f.child = Top.child /\ f.task = Top.task /\ f.pc = "wait" /\ stack'[i + 1].s = Len(members) + 1
        BY <2>2, <2>6, <3>2, Zenon
      <4>3. Latest(f, c)'
        BY <1>2, <4>1, <4>2, LatestIn, Zenon
      <4> QED BY <4>1, <4>2, <4>3, Zenon
    <3>3. CASE i \in 1..n /\ i # n /\ i < n /\ i + 1 \in 1..n
      <4>1. PICK c : c = stack[i + 1].s
        BY Zenon
      <4>2. f = stack[i] /\ f.pc = "wait" /\ f.s # Top.s /\ Latest(f, c) /\ stack'[i + 1].s = c
        BY <2>5, <2>6, <3>3, <4>1, Zenon
      <4>3. Latest(f, c)'
        BY <1>2, <4>2, LatestOut, Zenon
      <4> QED BY <4>2, <4>3, Zenon
    <3> QED BY <2>3, <3>1, <3>2, <3>3, Zenon
  <2>7. Len(stack') = n + 1 /\ DOMAIN stack' = 1..(n + 1)
    BY <2>1, Zenon
  <2> QED BY <1>0, <2>6, <2>7, Zenon
<1> QED BY <1>1, <1>2, FramedStep, KeptStep, Zenon
-----------------------------------------------------------------------------
(* What the frames have noted. *)

\* A frame's numbers still add up.
LEMMA CountedKept ==
  ASSUME TypeInv, Kept, NEW f \in FrameType, NEW g \in FrameType, f.s \in DOMAIN members, g.s = f.s, Counted(f),
         \A k \in Agents :
           /\ g.count[k] + One(g.pc \in Waiting /\ g.child = k) = f.count[k] + One(f.pc \in Waiting /\ f.child = k)
           /\ members[f.s].delegates[k] + One(g.pc \in Sending /\ g.child = k)
                <= members'[f.s].delegates[k] + One(f.pc \in Sending /\ f.child = k)
  PROVE  Counted(g)'
<1> SUFFICES ASSUME NEW k \in Agents
             PROVE  /\ Cardinality(Children(f.s, k)) = g.count[k] + One(g.pc \in Waiting /\ g.child = k)
                    /\ Cardinality(Children(f.s, k)) + One(g.pc \in Sending /\ g.child = k) <= members'[f.s].delegates[k]
  <2>1. \A k \in Agents : Children(g.s, k)' = Children(f.s, k)
    BY ChildrenKept, Zenon
  <2> QED BY <2>1, Zenon DEF Counted, One
<1>1. /\ Cardinality(Children(f.s, k)) = f.count[k] + One(f.pc \in Waiting /\ f.child = k)
      /\ Cardinality(Children(f.s, k)) + One(f.pc \in Sending /\ f.child = k) <= members[f.s].delegates[k]
  BY Zenon DEF Counted
<1>2. members[f.s].delegates[k] \in Nat /\ members'[f.s].delegates[k] \in Nat
  <2>1. members[f.s] \in MemberType /\ members'[f.s] \in MemberType
    BY SMTT(90) DEF TypeInv, Kept
  <2> QED BY <2>1, Zenon DEF MemberType, Counts
<1>3. Cardinality(Children(f.s, k)) \in Nat
  BY ChildrenFinite, Zenon
<1>4. \A b : One(b) \in Nat
  BY Zenon DEF One
<1>5. \A c, x, y, d, e \in Nat : c + x <= d /\ d + y <= e + x => c + y <= e
  BY SMTT(90)
<1>6. Cardinality(Children(f.s, k)) + One(g.pc \in Sending /\ g.child = k) <= members'[f.s].delegates[k]
  BY <1>1, <1>2, <1>3, <1>4, <1>5, Zenon
<1> QED BY <1>1, <1>6, Zenon

\* The frame of the innermost session's parent is the one that waits for it.
LEMMA ParentFrame ==
  ASSUME TypeInv, OnStack, Order, Links, NEW i \in DOMAIN stack, members[Top.s].parent = stack[i].s
  PROVE  stack[i].pc = "wait" /\ Latest(stack[i], Top.s)
<1>n. PICK n \in Nat : n = Len(stack)
  BY DEF TypeInv
<1>1. DOMAIN stack = 1..n /\ Top = stack[n] /\ \A j \in DOMAIN stack : stack[j] \in FrameType
  BY <1>n DEF TypeInv, Top
<1>2. n \in DOMAIN stack /\ n - 1 \in Nat
  <2>1. i \in 1..n
    BY <1>1, Zenon
  <2> QED BY <1>1, <2>1
<1>3. stack[n].s \in DOMAIN members /\ \A j \in DOMAIN stack : stack[j].s \in Nat
  BY <1>1, <1>2, Zenon DEF OnStack, FrameType
<1>4. stack[i].s < stack[n].s
  BY <1>1, <1>3, Zenon DEF Order
<1>5. i # n
  <2>1. \A x \in Nat : ~(x < x)
    OBVIOUS
  <2> QED BY <1>2, <1>3, <1>4, <2>1, Zenon
<1>6. i \in 1..n /\ i < n /\ n - 1 \in 1..n /\ n - 1 < n
  <2>1. i \in 1..n
    BY <1>1, Zenon
  <2> QED BY <1>5, <2>1
<1>7. Latest(stack[n - 1], stack[(n - 1) + 1].s) /\ (n - 1) + 1 = n
  <2>1. (n - 1) + 1 = n
    OBVIOUS
  <2> QED BY <1>n, <1>1, <1>6, <2>1, Zenon DEF Links
<1>8. stack[n - 1].s = stack[i].s
  BY <1>1, <1>7, Zenon DEF Latest
<1>9. i = n - 1
  <2>1. i < n - 1 => stack[i].s < stack[n - 1].s
    BY <1>1, <1>6, Zenon DEF Order
  <2>2. ~(stack[i].s < stack[n - 1].s)
    <3>1. stack[i].s \in Nat
      BY <1>3, Zenon
    <3>2. \A x \in Nat : ~(x < x)
      OBVIOUS
    <3> QED BY <1>8, <3>1, <3>2, Zenon
  <2>3. ~(i < n - 1)
    BY <2>1, <2>2, Zenon
  <2> QED BY <1>6, <2>3
<1> QED BY <1>n, <1>1, <1>6, <1>7, <1>9, Zenon DEF OnStack

\* A frame's marks are still right.
LEMMA MarkedKept ==
  ASSUME TypeInv, OnStack, Order, Links, Kept, NEW i \in DOMAIN stack, NEW f, f = stack[i], NEW g, g.s = f.s, Marked(f),
         \A k \in g.completed : k \in f.completed \/ Children(f.s, k) # {},
         f.denied \subseteq g.denied,
         \A c \in DOMAIN members : f.pc \in Waiting /\ Latest(f, c) =>
           \/ g.pc \in Waiting /\ g.child = f.child /\ g.task = f.task
           \/ _child_all_denied(c)' => <<members[c].agent, members[c].task>> \in g.denied
  PROVE  Marked(g)'
<1>1. \A k \in g.completed : Children(g.s, k)' # {}
  BY ChildrenKept, Zenon DEF Marked
<1>2. ASSUME NEW c \in DOMAIN members, members'[c].parent = g.s, _child_all_denied(c)'
      PROVE  \/ <<members'[c].agent, members'[c].task>> \in g.denied
             \/ g.pc \in Waiting /\ Latest(g, c)'
  <2>1. /\ members'[c].agent = members[c].agent /\ members'[c].task = members[c].task
        /\ members[c].parent = f.s
    BY <1>2, Zenon DEF Kept, SameRow
  <2>2. ASSUME f.pc \in Waiting, Latest(f, c)
        PROVE  \/ <<members'[c].agent, members'[c].task>> \in g.denied
               \/ g.pc \in Waiting /\ Latest(g, c)'
    <3>1. CASE g.pc \in Waiting /\ g.child = f.child /\ g.task = f.task
      BY <2>2, <3>1, LatestKept, Zenon
    <3> QED BY <1>2, <2>1, <2>2, <3>1, Zenon
  <2>3. CASE Alike(members'[c], members[c])
    <3>1. _child_all_denied(c)
      BY <1>2, <2>3, Zenon DEF Alike, _child_all_denied
    <3>2. <<members[c].agent, members[c].task>> \in f.denied \/ (f.pc \in Waiting /\ Latest(f, c))
      BY <2>1, <3>1, Zenon DEF Marked
    <3> QED BY <2>1, <2>2, <3>2, Zenon
  <2>4. CASE ~Alike(members'[c], members[c])
    <3>1. c = Top.s
      BY <2>4, Zenon DEF Kept
    <3>2. f.pc = "wait" /\ Latest(f, c)
      BY <2>1, <3>1, ParentFrame, Zenon
    <3> QED BY <2>2, <3>2, Zenon DEF Waiting
  <2> QED BY <2>3, <2>4, Zenon
<1>3. DOMAIN members' = DOMAIN members
  BY Zenon DEF Kept
<1> QED BY <1>1, <1>2, <1>3, Zenon DEF Marked

\* The books of the innermost frame after a step that keeps the table's rows.
LEMMA TopBooks ==
  ASSUME TypeInv, OnStack, Order, Links, Books, Kept, NEW g, NEW m,
         Works(g, m) \/ Asks(g, m) \/ Tells(g) \/ Folds(g)
  PROVE  Counted(g)' /\ Marked(g)'
<1>0. PICK b : b = Top
  BY Zenon
<1>1. InPlace(g, m) \/ InPlace(g, members[Top.s])
  BY Zenon DEF Works, Asks, Tells, Folds
<1>2. /\ g \in FrameType /\ b \in FrameType /\ g.s = b.s /\ b.s \in DOMAIN members
      /\ Len(stack) \in DOMAIN stack /\ b = stack[Len(stack)]
  BY <1>0, <1>1, TopIs, Zenon DEF InPlace, Top
<1>3. Counted(b) /\ Marked(b)
  BY <1>2, Zenon DEF Books
<1>4. /\ members[b.s].delegates \in Counts /\ g.count \in Counts /\ b.count \in Counts
      /\ \A k \in Agents : members[b.s].delegates[k] \in Nat /\ members[b.s].delegates[k] <= members'[b.s].delegates[k]
                           /\ members'[b.s].delegates[k] \in Nat
  <2>1. members[b.s] \in MemberType /\ members'[b.s] \in MemberType
    BY <1>2, SMTT(90) DEF TypeInv, Kept
  <2>2. \A k \in Agents : members[b.s].delegates[k] \in Nat /\ members'[b.s].delegates[k] \in Nat
    BY <2>1, Zenon DEF MemberType, Counts
  <2> QED BY <1>2, <2>1, <2>2, ZenonT(90) DEF Kept, MemberType, FrameType
<1>5. One(TRUE) = 1 /\ One(FALSE) = 0 /\ \A x : One(x) \in {0, 1}
  BY Zenon DEF One
<1>6. \A pc : ~(pc \in Waiting /\ pc \in Sending)
  BY Zenon DEF Waiting, Sending
<1>7. CASE Works(g, m)
  <2>1. g.count = b.count /\ g.completed = b.completed /\ g.denied = b.denied /\ b.pc \notin Waiting /\ g.pc \notin Waiting /\ g.pc \notin Sending
    BY <1>0, <1>7, Zenon DEF Works, SameNotes
  <2>2. \A k \in Agents : /\ One(g.pc \in Waiting /\ g.child = k) = 0 /\ One(b.pc \in Waiting /\ b.child = k) = 0
                          /\ One(g.pc \in Sending /\ g.child = k) = 0 /\ One(b.pc \in Sending /\ b.child = k) \in {0, 1}
    BY <2>1, Zenon DEF One
  <2>3. \A k \in Agents : members[b.s].delegates[k] + 0 <= members'[b.s].delegates[k] + One(b.pc \in Sending /\ b.child = k)
    BY <1>4, <2>2, SMTT(90)
  <2>4. Counted(g)'
    BY <1>2, <1>3, <2>1, <2>2, <2>3, CountedKept, ZenonT(60)
  <2>5. Marked(g)'
    BY <1>2, <1>3, <2>1, MarkedKept, Zenon
  <2> QED BY <2>4, <2>5, Zenon
<1>8. CASE Asks(g, m)
  <2>1. /\ g.count = b.count /\ g.completed = b.completed /\ g.denied = b.denied /\ b.pc = "act" /\ g.pc = "sendtask"
        /\ m = [members[b.s] EXCEPT !.delegates[g.child] = @ + 1] /\ InPlace(g, m)
    BY <1>0, <1>8, Zenon DEF Asks, SameNotes
  <2>2. members'[b.s] = m /\ members[b.s] \in MemberType /\ g.child \in Agents
    BY <1>0, <1>2, <2>1, InPlaceIs DEF TypeInv, FrameType
  <2>3. members'[b.s].delegates = [members[b.s].delegates EXCEPT ![g.child] = @ + 1]
    BY <2>1, <2>2, Zenon DEF MemberType
  <2>4. \A k \in Agents : /\ One(g.pc \in Waiting /\ g.child = k) = 0 /\ One(b.pc \in Waiting /\ b.child = k) = 0
                          /\ One(g.pc \in Sending /\ g.child = k) = One(g.child = k) /\ One(b.pc \in Sending /\ b.child = k) = 0
    BY <2>1, Zenon DEF One, Waiting, Sending
  <2>5. \A k \in Agents : members[b.s].delegates[k] + One(g.child = k) <= members'[b.s].delegates[k] + 0
    BY <1>4, <2>2, <2>3, SMTT(60) DEF One, Counts
  <2>6. Counted(g)'
    BY <1>2, <1>3, <2>1, <2>4, <2>5, CountedKept, SMTT(90)
  <2>7. Marked(g)'
    BY <1>2, <1>3, <2>1, MarkedKept, Zenon DEF Waiting
  <2> QED BY <2>6, <2>7, Zenon
<1>9. CASE Tells(g)
  <2>1. /\ g.count = b.count /\ g.completed = b.completed /\ g.denied = b.denied /\ b.pc \in Sending /\ g.pc \in Sending
        /\ g.child = b.child
    BY <1>0, <1>9, Zenon DEF Tells, SameNotes
  <2>2. b.pc \notin Waiting /\ g.pc \notin Waiting
    BY <1>6, <2>1, Zenon
  <2>3. \A k \in Agents : /\ One(g.pc \in Waiting /\ g.child = k) = 0 /\ One(b.pc \in Waiting /\ b.child = k) = 0
                          /\ One(g.pc \in Sending /\ g.child = k) = One(b.pc \in Sending /\ b.child = k)
                          /\ One(b.pc \in Sending /\ b.child = k) \in Nat
    BY <2>1, <2>2, Zenon DEF One
  <2>4. \A k \in Agents : members[b.s].delegates[k] + One(b.pc \in Sending /\ b.child = k)
                            <= members'[b.s].delegates[k] + One(b.pc \in Sending /\ b.child = k)
    BY <1>4, <2>3, SMTT(90)
  <2>5. Counted(g)'
    BY <1>2, <1>3, <2>1, <2>3, <2>4, CountedKept, SMTT(90)
  <2>6. Marked(g)'
    BY <1>2, <1>3, <2>1, <2>2, MarkedKept, Zenon
  <2> QED BY <2>5, <2>6, Zenon
<1>10. CASE Folds(g)
  <2>1. /\ InPlace(g, members[b.s]) /\ b.pc = "fold" /\ g.pc = "sendres" /\ g.count = [b.count EXCEPT ![b.child] = @ + 1]
        /\ g.completed \subseteq b.completed \cup {b.child} /\ b.denied \subseteq g.denied
        /\ (_child_all_denied(ChildSession) => <<b.child, b.task>> \in g.denied)
    BY <1>0, <1>10, Zenon DEF Folds
  <2>2. PICK c0 \in DOMAIN members : Latest(b, c0)
    BY <1>2, <2>1, Zenon DEF Links
  <2>3. \A c \in DOMAIN members : Latest(b, c) => c = c0
    <3>1. \A c \in DOMAIN members : Latest(b, c) => c <= c0 /\ c0 <= c
      BY <2>2, Zenon DEF Latest
    <3>2. DOMAIN members \subseteq Nat
      BY DEF TypeInv
    <3>3. \A x, y \in Nat : x <= y /\ y <= x => x = y
      OBVIOUS
    <3> QED BY <3>1, <3>2, <3>3, Zenon
  <2>4. ChildSession = c0
    <3> DEFINE P(s) == /\ members[s].parent = b.s /\ members[s].agent = b.child
                       /\ \A x \in DOMAIN members : members[x].parent = b.s => x <= s
    <3>1. ChildSession = CHOOSE s \in DOMAIN members : P(s)
      BY <1>0, Zenon DEF ChildSession
    <3>2. P(c0) /\ \A s \in DOMAIN members : P(s) => s = c0
      <4>1. P(c0)
        BY <2>2, Zenon DEF Latest
      <4>2. \A s \in DOMAIN members : P(s) => s <= c0 /\ c0 <= s
        BY <4>1, Zenon
      <4>3. DOMAIN members \subseteq Nat
        BY DEF TypeInv
      <4>4. \A x, y \in Nat : x <= y /\ y <= x => x = y
        OBVIOUS
      <4> HIDE DEF P
      <4> QED BY <4>1, <4>2, <4>3, <4>4, Zenon
    <3> HIDE DEF P
    <3> QED BY <2>2, <3>1, <3>2, Zenon
  <2>5. b.child \in Agents /\ b.count \in [Agents -> Nat]
    BY <1>2, <1>4, Zenon DEF FrameType, Counts
  <2>6. \A k \in Agents : /\ One(g.pc \in Waiting /\ g.child = k) = 0 /\ One(b.pc \in Waiting /\ b.child = k) = One(b.child = k)
                          /\ One(g.pc \in Sending /\ g.child = k) = 0 /\ One(b.pc \in Sending /\ b.child = k) = 0
    BY <2>1, Zenon DEF One, Waiting, Sending
  <2>7. \A k \in Agents : g.count[k] + 0 = b.count[k] + One(b.child = k)
    BY <2>1, <2>5, SMTT(90) DEF One
  <2>8. \A k \in Agents : members[b.s].delegates[k] + 0 <= members'[b.s].delegates[k] + 0
    BY <1>4, SMTT(90)
  <2>9. Counted(g)'
    BY <1>2, <1>3, <2>6, <2>7, <2>8, CountedKept, SMTT(90)
  <2>10. members' = members
    <3>1. /\ members'[Top.s] = members[b.s] /\ \A x \in DOMAIN members : x # Top.s => members'[x] = members[x]
          /\ members' \in Seq(MemberType) /\ DOMAIN members' = DOMAIN members
      BY <1>0, <2>1, InPlaceIs, Zenon
    <3>2. members \in Seq(MemberType)
      BY Zenon DEF TypeInv
    <3> QED BY <1>0, <3>1, <3>2, SMTT(90)
  <2>11. \A c \in DOMAIN members : Latest(b, c) /\ _child_all_denied(c)' => <<members[c].agent, members[c].task>> \in g.denied
    <3>1. members[c0].agent = b.child /\ members[c0].task = b.task
      BY <2>2, Zenon DEF Latest
    <3>2. \A c : _child_all_denied(c)' <=> _child_all_denied(c)
      BY <2>10, Zenon DEF _child_all_denied
    <3> QED BY <2>1, <2>3, <2>4, <3>1, <3>2, Zenon
  <2>12. \A k \in g.completed : k \in b.completed \/ Children(b.s, k) # {}
    <3>1. c0 \in Children(b.s, b.child)
      BY <2>2, Zenon DEF Latest, Children
    <3> QED BY <2>1, <3>1, Zenon
  <2>13. Marked(g)'
    BY <1>2, <1>3, <2>1, <2>11, <2>12, MarkedKept, ZenonT(90)
  <2> QED BY <2>9, <2>13, Zenon
<1> QED BY <1>7, <1>8, <1>9, <1>10, Zenon

\* A session that is yet to start has no children.
LEMMA Unborn ==
  ASSUME TypeInv, Order, NEW k
  PROVE  Children(Len(members) + 1, k) = {}
<1>1. DOMAIN members = 1..Len(members) /\ Len(members) \in Nat /\ \A x \in DOMAIN members : members[x] \in MemberType
  BY SMTT(90) DEF TypeInv
<1>2. \A x \in DOMAIN members : members[x].parent < x /\ members[x].parent \in Nat
  BY <1>1, Zenon DEF Order, MemberType
<1>3. \A l \in Nat : \A x \in 1..l : \A p \in Nat : p < x => p # l + 1
  OBVIOUS
<1>4. \A x \in DOMAIN members : members[x].parent # Len(members) + 1
  BY <1>1, <1>2, <1>3, Zenon
<1> QED BY <1>4, Zenon DEF Children

\* The books when a child starts.
LEMMA PushBooks ==
  ASSUME TypeInv, OnStack, Order, Links, Books, Pushes, NEW i \in DOMAIN stack', NEW f, f = stack'[i]
  PROVE  Counted(f)' /\ Marked(f)'
<1>t. PICK top : top = Top
  BY Zenon
<1>n. PICK n \in Nat, l \in Nat : n = Len(stack) /\ l = Len(members)
  BY DEF TypeInv
<1>1. /\ DOMAIN stack' = 1..(n + 1) /\ DOMAIN stack = 1..n /\ n \in DOMAIN stack /\ stack[n] = top /\ top \in FrameType
      /\ stack'[n] = [top EXCEPT !.pc = "wait"] /\ stack'[n + 1] = Frame(top.child, l + 1, top.d + 1)
      /\ \A j \in DOMAIN stack : j # n => stack'[j] = stack[j]
  BY <1>n, <1>t, PushesIs, Zenon
<1>2. /\ DOMAIN members = 1..l /\ DOMAIN members' = 1..(l + 1) /\ top.s \in DOMAIN members
      /\ members'[l + 1] = Session(top.child, top.s, top.d + 1, top.task)
      /\ \A x \in DOMAIN members : members'[x] = members[x]
  BY <1>n, <1>t, PushesIs, Zenon
<1>3. /\ members'[l + 1].parent = top.s /\ members'[l + 1].agent = top.child /\ members'[l + 1].task = top.task
      /\ ~members'[l + 1].denied /\ members'[l + 1].delegates = [k \in Agents |-> 0]
  BY <1>2 DEF Session
<1>4. \A x \in DOMAIN members' : x \in DOMAIN members \/ x = l + 1
  BY <1>2
<1>5. \A s, k : /\ Children(s, k) \subseteq Children(s, k)'
                /\ Cardinality(Children(s, k)') = Cardinality(Children(s, k)) + One(s = top.s /\ k = top.child)
                /\ Cardinality(Children(s, k)) \in Nat
                /\ s # top.s => Children(s, k)' = Children(s, k)
  BY <1>n, <1>t, ChildrenMore, ChildrenFinite, Zenon
<1>6. ~_child_all_denied(l + 1)' /\ \A x \in DOMAIN members : _child_all_denied(x)' <=> _child_all_denied(x)
  <2>1. PICK y : y = l + 1
    BY Zenon
  <2>2. ~_child_all_denied(y)'
    BY <1>3, <2>1, Zenon DEF _child_all_denied
  <2>3. \A x \in DOMAIN members : _child_all_denied(x)' <=> _child_all_denied(x)
    BY <1>2, Zenon DEF _child_all_denied
  <2> QED BY <2>1, <2>2, <2>3, Zenon
<1>7. CASE i \in DOMAIN stack /\ i # n
  <2>1. f = stack[i] /\ Counted(f) /\ Marked(f) /\ f.s \in DOMAIN members
    BY <1>1, <1>7, Zenon DEF Books, OnStack
  <2>2. f.s # top.s
    <3>1. f.s < top.s \/ top.s < f.s
      <4>1. i < n \/ n < i
        BY <1>1, <1>7
      <4> QED BY <1>1, <1>7, <2>1, <4>1, Zenon DEF Order
    <3>2. f.s \in Nat /\ top.s \in Nat
      BY <1>1, <1>2, <2>1, SMTT(90)
    <3> QED BY <3>1, <3>2
  <2>3. Counted(f)'
    BY <1>2, <1>5, <2>1, <2>2, SMTT(90) DEF Counted, One
  <2>4. ASSUME NEW c \in DOMAIN members', members'[c].parent = f.s, _child_all_denied(c)'
        PROVE  <<members'[c].agent, members'[c].task>> \in f.denied \/ (f.pc \in Waiting /\ Latest(f, c)')
    <3>1. c \in DOMAIN members /\ members'[c] = members[c] /\ _child_all_denied(c)
      BY <1>2, <1>3, <1>4, <1>6, <2>2, <2>4, Zenon
    <3>2. <<members[c].agent, members[c].task>> \in f.denied \/ (f.pc \in Waiting /\ Latest(f, c))
      BY <2>1, <2>4, <3>1, Zenon DEF Marked
    <3>3. Latest(f, c) => Latest(f, c)'
      BY <1>t, <2>2, LatestOut, Zenon
    <3> QED BY <3>1, <3>2, <3>3, Zenon
  <2>5. \A k \in f.completed : Children(f.s, k)' # {}
    BY <1>5, <2>1, Zenon DEF Marked
  <2> QED BY <2>3, <2>4, <2>5, Zenon DEF Marked
<1>8. CASE i = n
  <2>1. /\ f.s = top.s /\ f.child = top.child /\ f.task = top.task /\ f.count = top.count /\ f.completed = top.completed
        /\ f.denied = top.denied /\ f.pc = "wait"
    BY <1>1, <1>8, Zenon DEF FrameType
  <2>2. top.pc = "start" /\ Counted(top) /\ Marked(top)
    BY <1>t, <1>1, Zenon DEF Pushes, Books
  <2>3. top.count \in [Agents -> Nat] /\ members[top.s].delegates \in [Agents -> Nat]
    <3>1. members[top.s] \in MemberType
      BY <1>2, SMTT(90) DEF TypeInv
    <3> QED BY <1>1, <3>1, ZenonT(90) DEF FrameType, MemberType, Counts
  <2>4. ASSUME NEW k \in Agents
        PROVE  /\ Cardinality(Children(f.s, k)') = f.count[k] + One(f.pc \in Waiting /\ f.child = k)
               /\ Cardinality(Children(f.s, k)') + One(f.pc \in Sending /\ f.child = k) <= members'[f.s].delegates[k]
    <3>1. /\ Cardinality(Children(top.s, k)) = top.count[k] + 0
          /\ Cardinality(Children(top.s, k)) + One(top.child = k) <= members[top.s].delegates[k]
      BY <2>2, Zenon DEF Counted, One, Waiting, Sending
    <3>2. One(f.pc \in Waiting /\ f.child = k) = One(top.child = k) /\ One(f.pc \in Sending /\ f.child = k) = 0
      BY <2>1, Zenon DEF One, Waiting, Sending
    <3>3. Cardinality(Children(f.s, k)') = Cardinality(Children(top.s, k)) + One(top.child = k)
      BY <1>5, <2>1, Zenon DEF One
    <3>4. top.count[k] \in Nat /\ One(top.child = k) \in Nat /\ members[top.s].delegates[k] \in Nat
      BY <2>3, Zenon DEF One
    <3>5. members'[f.s] = members[top.s]
      BY <1>2, <2>1, Zenon
    <3> QED BY <2>1, <3>1, <3>2, <3>3, <3>4, <3>5, SMTT(90)
  <2>5. Counted(f)'
    BY <2>4, Zenon DEF Counted, One
  <2>6. ASSUME NEW c \in DOMAIN members', members'[c].parent = f.s, _child_all_denied(c)'
        PROVE  <<members'[c].agent, members'[c].task>> \in f.denied
    <3>1. c # l + 1
      BY <1>6, <2>6, Zenon
    <3>2. c \in DOMAIN members /\ members'[c] = members[c] /\ _child_all_denied(c)
      BY <1>2, <1>4, <1>6, <2>6, <3>1, Zenon
    <3> QED BY <2>1, <2>2, <2>6, <3>2, Zenon DEF Marked, Waiting
  <2>7. \A k \in f.completed : Children(f.s, k)' # {}
    BY <1>5, <2>1, <2>2, Zenon DEF Marked
  <2> QED BY <2>5, <2>6, <2>7, Zenon DEF Marked
<1>9. CASE i = n + 1
  <2>1. f.s = l + 1 /\ f.count = [k \in Agents |-> 0] /\ f.completed = {} /\ f.pc = "loop"
    BY <1>1, <1>9, SMTT(90) DEF Frame
  <2>2. l + 1 # top.s
    BY <1>2
  <2>3. \A k : Children(l + 1, k)' = {}
    <3>1. PICK y : y = l + 1
      BY Zenon
    <3>2. \A k : Children(y, k) = {} /\ y # top.s
      BY <1>n, <2>2, <3>1, Unborn, Zenon
    <3>3. \A k : Children(y, k)' = {}
      BY <1>5, <3>2, Zenon
    <3> QED BY <3>1, <3>3, Zenon
  <2>4. Cardinality({}) = 0
    BY FS_EmptySet, Zenon
  <2>5. \A k : Children(f.s, k)' = {}
    BY <2>1, <2>3, Zenon
  <2>6. Counted(f)'
    <3>1. ASSUME NEW k \in Agents
          PROVE  /\ 0 = f.count[k] + One(f.pc \in Waiting /\ f.child = k)
                 /\ 0 + One(f.pc \in Sending /\ f.child = k) <= members'[f.s].delegates[k]
      <4>1. One(f.pc \in Waiting /\ f.child = k) = 0 /\ One(f.pc \in Sending /\ f.child = k) = 0
        BY <2>1, Zenon DEF One, Waiting, Sending
      <4>2. f.count[k] = 0 /\ members'[f.s].delegates[k] = 0
        BY <1>3, <2>1, SMTT(90)
      <4> QED BY <4>1, <4>2
    <3> QED BY <2>4, <2>5, <3>1, Zenon DEF Counted, One
  <2>7. \A c \in DOMAIN members' : members'[c].parent # f.s
    <3>1. \A k : \A c \in DOMAIN members' : members'[c].parent = f.s /\ members'[c].agent = k => c \in Children(f.s, k)'
      BY Zenon DEF Children
    <3> QED BY <2>5, <3>1, Zenon
  <2> QED BY <2>1, <2>6, <2>7, Zenon DEF Marked
<1>10. \A j \in 1..(n + 1) : j \in 1..n \/ j = n + 1
  OBVIOUS
<1> QED BY <1>1, <1>7, <1>8, <1>9, <1>10, Zenon

\* The books are kept.
LEMMA BooksStep == TypeInv /\ OnStack /\ Order /\ Links /\ Books /\ Kinds => Books'
<1> SUFFICES ASSUME TypeInv, OnStack, Order, Links, Books, Kinds
             PROVE  Books'
  BY Zenon
<1>0. ASSUME \A i \in DOMAIN stack' : \A f : f = stack'[i] => Counted(f)' /\ Marked(f)'
      PROVE  Books'
  BY <1>0, ZenonT(90) DEF Books, Counted, Marked, Latest, Children
<1>1. CASE Pushes
  BY <1>0, <1>1, PushBooks, Zenon
<1>2. CASE Framed /\ Kept
  <2>1. ASSUME NEW i \in DOMAIN stack', NEW f, f = stack'[i]
        PROVE  Counted(f)' /\ Marked(f)'
    <3>1. PICK b : b = stack[i]
      BY Zenon
    <3>2. i \in DOMAIN stack /\ (i < Len(stack) \/ i = Len(stack))
      <4>1. PICK n \in Nat, m \in Nat : n = Len(stack) /\ m = Len(stack')
        BY <1>2, ZenonT(90) DEF Framed
      <4>2. DOMAIN stack = 1..n /\ DOMAIN stack' = 1..m /\ m <= n
        BY <1>2, <4>1, Zenon DEF Framed
      <4>3. i \in 1..n /\ (i < n \/ i = n)
        BY <4>2, SMTT(90)
      <4> QED BY <4>1, <4>2, <4>3, Zenon
    <3>3. b \in FrameType /\ b.s \in DOMAIN members /\ Counted(b) /\ Marked(b)
      BY <3>1, <3>2 DEF TypeInv, OnStack, Books
    <3>4. f \in FrameType
      <4>1. stack' \in Seq(FrameType)
        BY TypeStep, Zenon DEF TypeInv
      <4> QED BY <2>1, <4>1
    <3>5. \A k \in Agents : members[b.s].delegates[k] \in Nat /\ members[b.s].delegates[k] <= members'[b.s].delegates[k]
                            /\ members'[b.s].delegates[k] \in Nat
      <4>1. members[b.s] \in MemberType /\ members'[b.s] \in MemberType
        BY <1>2, <3>3, SMTT(90) DEF TypeInv, Kept
      <4>2. \A k \in Agents : members[b.s].delegates[k] \in Nat /\ members'[b.s].delegates[k] \in Nat
        BY <4>1, Zenon DEF MemberType, Counts
      <4> QED BY <1>2, <3>3, <4>2, Zenon DEF Kept
    <3>6. ASSUME f.s = b.s, f.child = b.child, f.task = b.task, f.count = b.count, f.completed = b.completed, f.denied = b.denied,
                 f.pc \in Waiting <=> b.pc \in Waiting, f.pc \in Sending <=> b.pc \in Sending
          PROVE  Counted(f)' /\ Marked(f)'
      <4>1. \A k \in Agents :
              /\ f.count[k] + One(f.pc \in Waiting /\ f.child = k) = b.count[k] + One(b.pc \in Waiting /\ b.child = k)
              /\ One(f.pc \in Sending /\ f.child = k) = One(b.pc \in Sending /\ b.child = k)
              /\ One(b.pc \in Sending /\ b.child = k) \in Nat
        BY <3>6, Zenon DEF One
      <4>2. \A k \in Agents : members[b.s].delegates[k] + One(b.pc \in Sending /\ b.child = k)
                                <= members'[b.s].delegates[k] + One(b.pc \in Sending /\ b.child = k)
        BY <3>5, <4>1, SMTT(90)
      <4>3. Counted(f)'
        BY <1>2, <3>3, <3>4, <3>6, <4>1, <4>2, CountedKept, Zenon
      <4>4. Marked(f)'
        BY <1>2, <3>1, <3>2, <3>3, <3>6, MarkedKept, ZenonT(90)
      <4> QED BY <4>3, <4>4, Zenon
    <3>7. CASE i < Len(stack)
      <4>1. Awaits(f, b)
        BY <1>2, <2>1, <3>1, <3>7, Zenon DEF Framed
      <4> QED BY <3>6, <4>1, Zenon DEF Awaits, Waiting, Sending
    <3>8. CASE i = Len(stack)
      <4>1. \/ f = b
            \/ \E m : Works(f, m) \/ Asks(f, m)
            \/ Tells(f) \/ Folds(f)
        BY <1>2, <2>1, <3>1, <3>8, Zenon DEF Framed
      <4>2. f = b => Counted(f)' /\ Marked(f)'
        BY <3>6, Zenon
      <4> QED BY <1>2, <4>1, <4>2, TopBooks, Zenon
    <3> QED BY <3>2, <3>7, <3>8, Zenon
  <2> QED BY <1>0, <2>1, Zenon
<1> QED BY <1>1, <1>2, FramedStep, KeptStep, Zenon
-----------------------------------------------------------------------------
(* The tree, the policy and the stops. *)

\* The recorded tree stays the real one.
LEMMA TreeStep == TypeInv /\ OnStack /\ Order /\ Books /\ TreeWellFormed /\ Kinds => TreeWellFormed'
<1> SUFFICES ASSUME TypeInv, OnStack, Order, Books, TreeWellFormed, Kinds
             PROVE  TreeWellFormed'
  BY Zenon
<1> DEFINE Hangs(s) == /\ members[s].parent \in 1 .. s - 1
                       /\ members[s].agent \in Edges[members[members[s].parent].agent]
                       /\ members[s].depth = members[members[s].parent].depth + 1
                       /\ members[s].depth <= MaxDepth
<1>0. ASSUME \A s \in DOMAIN members' \ {1} : Hangs(s)',
             \A s \in DOMAIN members', k \in Agents : Cardinality(Children(s, k)') <= members'[s].delegates[k]
      PROVE  TreeWellFormed'
  BY <1>0, Zenon DEF TreeWellFormed
<1>1. /\ \A s \in DOMAIN members \ {1} : Hangs(s)
      /\ \A s \in DOMAIN members, k \in Agents : Cardinality(Children(s, k)) <= members[s].delegates[k]
  BY Zenon DEF TreeWellFormed
<1>2. \A s \in DOMAIN members : members[s] \in MemberType
  BY SMTT(90) DEF TypeInv
<1>3. CASE Kept
  <2>1. /\ DOMAIN members' = DOMAIN members /\ team' = team /\ members' \in Seq(MemberType)
        /\ \A x \in DOMAIN members : SameRow(members'[x], members[x])
        /\ \A x \in DOMAIN members, k \in Agents : members[x].delegates[k] <= members'[x].delegates[k]
    BY <1>3, Zenon DEF Kept
  <2>2. ASSUME NEW s \in DOMAIN members \ {1}
        PROVE  Hangs(s)'
    <3>1. PICK q : q = members[s].parent
      BY Zenon
    <3>2. q \in 1 .. s - 1 /\ q \in DOMAIN members
      <4>1. DOMAIN members = 1..Len(members) /\ Len(members) \in Nat
        BY DEF TypeInv
      <4> QED BY <1>1, <3>1, <4>1, SMTT(60)
    <3>3. members'[s].parent = q /\ members'[s].agent = members[s].agent /\ members'[s].depth = members[s].depth
      BY <2>1, <3>1, Zenon DEF SameRow
    <3>4. members'[q].agent = members[q].agent /\ members'[q].depth = members[q].depth
      BY <2>1, <3>2, Zenon DEF SameRow
    <3>5. Edges' = Edges /\ MaxDepth' = MaxDepth
      BY <2>1, Zenon DEF Edges, MaxDepth
    <3> QED BY <1>1, <3>1, <3>2, <3>3, <3>4, <3>5, Zenon
  <2>3. ASSUME NEW s \in DOMAIN members, NEW k \in Agents
        PROVE  Cardinality(Children(s, k)') <= members'[s].delegates[k]
    <3>1. Children(s, k)' = Children(s, k)
      BY <1>3, ChildrenKept, Zenon
    <3>2. members[s].delegates[k] \in Nat /\ members'[s].delegates[k] \in Nat
      <4>1. members[s] \in MemberType /\ members'[s] \in MemberType
        BY <1>2, <2>1
      <4> QED BY <4>1, Zenon DEF MemberType, Counts
    <3>3. Cardinality(Children(s, k)) \in Nat
      BY ChildrenFinite, Zenon
    <3>4. \A x, y, z \in Nat : x <= y /\ y <= z => x <= z
      OBVIOUS
    <3> QED BY <1>1, <2>1, <3>1, <3>2, <3>3, <3>4, Zenon
  <2> QED BY <1>0, <2>1, <2>2, <2>3, Zenon
<1>4. CASE Pushes
  <2>t. PICK top, l : top = Top /\ l = Len(members)
    BY Zenon
  <2>1. /\ DOMAIN members = 1..l /\ l \in Nat /\ DOMAIN members' = 1..(l + 1) /\ top.s \in DOMAIN members
        /\ top \in FrameType /\ Len(stack) \in DOMAIN stack /\ stack[Len(stack)] = top
        /\ members'[l + 1] = Session(top.child, top.s, top.d + 1, top.task)
        /\ \A x \in DOMAIN members : members'[x] = members[x]
    BY <1>4, <2>t, PushesIs, Zenon
  <2>2. /\ members'[l + 1].parent = top.s /\ members'[l + 1].agent = top.child /\ members'[l + 1].depth = top.d + 1
        /\ members'[l + 1].delegates = [k \in Agents |-> 0]
    BY <2>1 DEF Session
  <2>3. top.pc = "start" /\ team' = team
    BY <1>4, <2>t, Zenon DEF Pushes
  <2>4. Asked(top) /\ members[top.s].agent = top.a /\ members[top.s].depth = top.d /\ Counted(top)
    BY <2>1, <2>3, Zenon DEF OnStack, Sending, Books
  <2>5. Edges' = Edges /\ MaxDepth' = MaxDepth
    BY <2>3, Zenon DEF Edges, MaxDepth
  <2>6. ASSUME NEW s \in DOMAIN members' \ {1}
        PROVE  Hangs(s)'
    <3>1. CASE s = l + 1
      <4>1. top.s \in 1..l /\ (l + 1) - 1 = l
        BY <2>1
      <4>2. top.child \in Edges[top.a] /\ top.d + 1 <= MaxDepth
        BY <2>4, Zenon DEF Asked
      <4> QED BY <2>1, <2>2, <2>4, <2>5, <3>1, <4>1, <4>2, Zenon
    <3>2. CASE s # l + 1
      <4>1. s \in DOMAIN members \ {1}
        BY <2>1, <3>2
      <4>2. PICK q : q = members[s].parent
        BY Zenon
      <4>3. q \in 1 .. s - 1 /\ q \in DOMAIN members
        BY <1>1, <2>1, <4>1, <4>2, SMTT(90)
      <4> QED BY <1>1, <2>1, <2>5, <4>1, <4>2, <4>3, ZenonT(60)
    <3> QED BY <3>1, <3>2, Zenon
  <2>7. ASSUME NEW s \in DOMAIN members', NEW k \in Agents
        PROVE  Cardinality(Children(s, k)') <= members'[s].delegates[k]
    <3>1. /\ Cardinality(Children(s, k)') = Cardinality(Children(s, k)) + One(s = top.s /\ k = top.child)
          /\ Cardinality(Children(s, k)) \in Nat
      BY <1>4, <2>t, ChildrenMore, ChildrenFinite, Zenon
    <3>2. CASE s = top.s
      <4>1. Cardinality(Children(top.s, k)) + One(top.pc \in Sending /\ top.child = k) <= members[top.s].delegates[k]
        BY <2>4, Zenon DEF Counted
      <4>2. One(top.pc \in Sending /\ top.child = k) = One(s = top.s /\ k = top.child)
        BY <2>3, <3>2, Zenon DEF One, Sending
      <4>3. members'[s] = members[top.s]
        BY <2>1, <3>2, Zenon
      <4> QED BY <3>1, <3>2, <4>1, <4>2, <4>3, Zenon
    <3>3. CASE s = l + 1
      <4>1. Children(s, k) = {} /\ s # top.s
        BY <2>t, <2>1, <3>3, Unborn, SMTT(60)
      <4>2. Cardinality(Children(s, k)) = 0 /\ One(s = top.s /\ k = top.child) = 0
        BY <4>1, FS_EmptySet, Zenon DEF One
      <4>3. members'[s].delegates[k] = 0
        BY <2>2, <3>3, Zenon
      <4> QED BY <3>1, <4>2, <4>3, SMTT(90)
    <3>4. CASE s # top.s /\ s # l + 1
      <4>1. s \in DOMAIN members /\ members'[s] = members[s]
        BY <2>1, <3>4
      <4>2. One(s = top.s /\ k = top.child) = 0
        BY <3>4, Zenon DEF One
      <4> QED BY <1>1, <3>1, <4>1, <4>2, SMTT(90)
    <3> QED BY <3>2, <3>3, <3>4, Zenon
  <2> QED BY <1>0, <2>6, <2>7, Zenon
<1> QED BY <1>3, <1>4, KeptStep, Zenon

\* The policy binds.
LEMMA PolicyStep == IInv /\ Kinds => PolicyBinds'
<1> SUFFICES ASSUME IInv, Kinds
             PROVE  PolicyBinds'
  BY Zenon
<1> TypeInv /\ OnStack /\ Order /\ Links /\ Books /\ TreeWellFormed /\ PolicyBinds
  BY Zenon DEF IInv
<1> DEFINE Fits(s, k) == Cardinality(Children(s, k)) <= MaxPer
           Fresh(s, k) == NoRedelegate => \A i, j \in Children(s, k) :
                            i < j /\ members[i].task = members[j].task => ~_child_all_denied(i)
           Heard(s) == members[s].end = "completed" => \A k \in Required[members[s].agent] : Children(s, k) # {}
<1>0. ASSUME \A s \in DOMAIN members' : (\A k \in Agents : Fits(s, k)' /\ Fresh(s, k)') /\ Heard(s)'
      PROVE  PolicyBinds'
  BY <1>0, Zenon DEF PolicyBinds
<1>1. \A s \in DOMAIN members : (\A k \in Agents : Fits(s, k) /\ Fresh(s, k)) /\ Heard(s)
  BY Zenon DEF PolicyBinds
<1>2. \A s \in DOMAIN members : members[s] \in MemberType
  BY SMTT(90) DEF TypeInv
<1>3. CASE Kept
  <2>1. /\ DOMAIN members' = DOMAIN members /\ team' = team
        /\ \A x \in DOMAIN members : SameRow(members'[x], members[x])
        /\ \A x \in DOMAIN members : stack = <<>> \/ x # Top.s => Alike(members'[x], members[x])
    BY <1>3, Zenon DEF Kept
  <2>2. \A s, k : Children(s, k)' = Children(s, k)
    BY <1>3, ChildrenKept, Zenon
  <2>3. MaxPer' = MaxPer /\ NoRedelegate' = NoRedelegate /\ Required' = Required
    BY <2>1, Zenon DEF MaxPer, NoRedelegate, Required
  <2>4. ASSUME NEW s \in DOMAIN members, NEW k \in Agents
        PROVE  Fits(s, k)'
    BY <1>1, <2>2, <2>3, Zenon
  <2>5. ASSUME NEW s \in DOMAIN members, NEW k \in Agents, NoRedelegate, NEW i \in Children(s, k), NEW j \in Children(s, k),
               i < j, members'[i].task = members'[j].task
        PROVE  ~_child_all_denied(i)'
    <3>1. i \in DOMAIN members /\ j \in DOMAIN members /\ members[i].parent = s /\ members[j].parent = s
      BY Zenon DEF Children
    <3>2. members[i].task = members[j].task
      BY <2>1, <2>5, <3>1, Zenon DEF SameRow
    <3>3. ~_child_all_denied(i)
      BY <1>1, <2>5, <3>2, Zenon
    <3>4. CASE Alike(members'[i], members[i])
      BY <3>3, <3>4, Zenon DEF Alike, _child_all_denied
    <3>5. CASE stack # <<>> /\ i = Top.s
      <4>n. PICK n \in Nat : n = Len(stack)
        BY DEF TypeInv
      <4>1. DOMAIN stack = 1..n /\ n \in DOMAIN stack /\ Top = stack[n]
        BY <3>5, <4>n, TopIs, Zenon DEF Top
      <4>2. CASE n = 1
        <5>1. i = 1
          BY <3>5, <4>1, <4>2, Zenon DEF Order
        <5>2. members[1].parent < 1 /\ members[1].parent \in Nat
          BY <1>2, <3>1, <5>1, Zenon DEF Order, MemberType
        <5>3. j # 1 /\ members[j].parent \in 1 .. j - 1
          <6>1. j # 1
            BY <2>5, <5>1, SMTT(90)
          <6> QED BY <3>1, <6>1, Zenon DEF TreeWellFormed
        <5>4. members[1].parent = 0 /\ members[j].parent # 0
          <6>1. DOMAIN members \subseteq Nat
            BY DEF TypeInv
          <6>2. j \in Nat
            BY <3>1, <6>1, Zenon
          <6> QED BY <5>2, <5>3, <6>2, SMTT(60)
        <5> QED BY <3>1, <5>1, <5>4, Zenon
      <4>3. CASE n # 1
        <5>1. n - 1 \in 1..n /\ n - 1 < n /\ (n - 1) + 1 = n
          <6>1. n \in 1..n
            BY <4>1, Zenon
          <6> QED BY <4>3, <6>1
        <5>2. Latest(stack[n - 1], stack[n].s)
          BY <4>n, <4>1, <5>1, Zenon DEF Links
        <5>3. members[i].parent = stack[n - 1].s /\ \A x \in DOMAIN members : members[x].parent = stack[n - 1].s => x <= i
          BY <3>5, <4>1, <5>2, Zenon DEF Latest
        <5>4. j <= i
          BY <3>1, <5>3, Zenon
        <5>5. i \in Nat /\ j \in Nat
          BY <3>1, SMTT(90) DEF TypeInv
        <5> QED BY <2>5, <5>4, <5>5, SMTT(60)
      <4> QED BY <4>2, <4>3, Zenon
    <3> QED BY <2>1, <3>1, <3>4, <3>5, Zenon
  <2>6. ASSUME NEW s \in DOMAIN members
        PROVE  Heard(s)'
    <3>1. members'[s].agent = members[s].agent
      BY <2>1, Zenon DEF SameRow
    <3>2. CASE members'[s].end = members[s].end
      BY <1>1, <2>2, <2>3, <3>1, <3>2, ZenonT(90)
    <3>3. ASSUME NEW end, NEW res, Pops(end, res), s = Top.s
          PROVE  Heard(s)'
      <4>1. members'[s] = [members[s] EXCEPT !.end = end] /\ members[s] \in MemberType
        BY <3>3, PopsIs, Zenon
      <4>2. members'[s].end = end
        BY <4>1, Zenon DEF MemberType
      <4>3. end = "completed" => Required[Top.a] \subseteq Top.completed
        BY <3>3, Zenon DEF Pops
      <4>4. members[s].agent = Top.a /\ Marked(Top)
        BY <3>3, TopIs, ZenonT(90) DEF Pops, OnStack, Books, Top
      <4>5. \A k \in Top.completed : Children(s, k) # {}
        BY <3>3, <4>4, Zenon DEF Marked
      <4> QED BY <2>2, <2>3, <3>1, <4>2, <4>3, <4>4, <4>5, Zenon
    <3>4. \/ members'[s].end = members[s].end
          \/ \E end, res : Pops(end, res) /\ s = Top.s
      <4>1. \A g, m : InPlace(g, m) => members'[s].end = members[s].end
        BY InPlaceIs, Zenon
      <4>2. \A end, res : Pops(end, res) => s = Top.s \/ members'[s].end = members[s].end
        BY PopsIs, ZenonT(90)
      <4>3. Aside => members'[s].end = members[s].end
        BY Zenon DEF Aside, Alike
      <4>4. Pushes => members'[s].end = members[s].end
        BY PushesIs, Zenon
      <4> QED BY <4>1, <4>2, <4>3, <4>4, Zenon DEF Kinds, Works, Asks, Tells, Folds
    <3> QED BY <3>2, <3>3, <3>4, Zenon
  <2>7. ASSUME NEW s \in DOMAIN members, NEW k \in Agents
        PROVE  Fresh(s, k)'
    BY <2>2, <2>3, <2>5, Zenon
  <2> QED BY <1>0, <2>1, <2>4, <2>6, <2>7, Zenon
<1>4. CASE Pushes
  <2>t. PICK top, l : top = Top /\ l = Len(members)
    BY Zenon
  <2>1. /\ DOMAIN members = 1..l /\ l \in Nat /\ DOMAIN members' = 1..(l + 1) /\ top.s \in DOMAIN members
        /\ top \in FrameType /\ Len(stack) \in DOMAIN stack /\ stack[Len(stack)] = top
        /\ members'[l + 1] = Session(top.child, top.s, top.d + 1, top.task)
        /\ \A x \in DOMAIN members : members'[x] = members[x]
    BY <1>4, <2>t, PushesIs, Zenon
  <2>2. members'[l + 1].task = top.task /\ members'[l + 1].end = "running"
    BY <2>1 DEF Session
  <2>3. top.pc = "start" /\ team' = team
    BY <1>4, <2>t, Zenon DEF Pushes
  <2>4. Asked(top) /\ Counted(top) /\ Marked(top)
    BY <2>1, <2>3, Zenon DEF OnStack, Sending, Books
  <2>5. MaxPer' = MaxPer /\ NoRedelegate' = NoRedelegate /\ Required' = Required
    BY <2>3, Zenon DEF MaxPer, NoRedelegate, Required
  <2>6. \A s, k : /\ Children(s, k)' = IF s = top.s /\ k = top.child THEN Children(s, k) \cup {l + 1} ELSE Children(s, k)
                  /\ Cardinality(Children(s, k)') = Cardinality(Children(s, k)) + One(s = top.s /\ k = top.child)
                  /\ Cardinality(Children(s, k)) \in Nat /\ Children(s, k) \subseteq DOMAIN members
    BY <1>4, <2>t, ChildrenMore, ChildrenFinite, Zenon
  <2>7. \A k : Children(l + 1, k) = {}
    BY <2>t, Unborn, Zenon
  <2>8. \A x \in DOMAIN members : _child_all_denied(x)' <=> _child_all_denied(x)
    BY <2>1, Zenon DEF _child_all_denied
  <2>9. MaxPer \in Nat /\ top.count \in [Agents -> Nat] /\ top.child \in Agents
    BY <2>1, TeamAssumption, Zenon DEF TypeInv, MaxPer, FrameType, Counts
  <2>10. ASSUME NEW s \in DOMAIN members', NEW k \in Agents
         PROVE  Fits(s, k)'
    <3>1. CASE s = top.s /\ k = top.child
      <4>1. Cardinality(Children(s, k)) = top.count[k] + One(top.pc \in Waiting /\ top.child = k)
        BY <2>4, <3>1, Zenon DEF Counted
      <4>2. One(top.pc \in Waiting /\ top.child = k) = 0 /\ One(s = top.s /\ k = top.child) = 1
        BY <2>3, <3>1, Zenon DEF One, Waiting
      <4>3. top.count[k] < MaxPer /\ top.count[k] \in Nat
        BY <2>4, <2>9, <3>1, Zenon DEF Asked
      <4>4. Cardinality(Children(s, k)') <= MaxPer
        BY <2>6, <2>9, <4>1, <4>2, <4>3, SMTT(90)
      <4> QED BY <2>5, <4>4, Zenon
    <3>2. CASE ~(s = top.s /\ k = top.child)
      <4>1. Children(s, k)' = Children(s, k)
        BY <2>6, <3>2, Zenon
      <4>2. CASE s = l + 1
        <5>1. Cardinality(Children(s, k)) = 0
          BY <2>7, <4>2, FS_EmptySet, Zenon
        <5> QED BY <2>5, <2>9, <4>1, <5>1, SMTT(90)
      <4>3. CASE s # l + 1
        <5>1. s \in DOMAIN members
          BY <2>1, <4>3
        <5> QED BY <1>1, <2>5, <4>1, <5>1, Zenon
      <4> QED BY <4>2, <4>3, Zenon
    <3> QED BY <3>1, <3>2, Zenon
  <2>11. ASSUME NEW s \in DOMAIN members', NEW k \in Agents, NoRedelegate, NEW i \in Children(s, k)', NEW j \in Children(s, k)',
                i < j, members'[i].task = members'[j].task
         PROVE  ~_child_all_denied(i)'
    <3>1. i \in DOMAIN members' /\ j \in DOMAIN members'
      BY Zenon DEF Children
    <3>2. i \in DOMAIN members /\ i \in Children(s, k)
      <4>1. i # l + 1
        BY <2>1, <2>11, <3>1
      <4> QED BY <2>6, <2>11, <4>1, Zenon
    <3>3. CASE j = l + 1
      <4>1. s = top.s /\ k = top.child
        BY <2>1, <2>6, <2>11, <3>3, SMTT(90)
      <4>2. members[i].parent = top.s /\ members[i].agent = top.child /\ members[i].task = top.task
        BY <2>1, <2>2, <2>11, <3>2, <3>3, <4>1, Zenon DEF Children
      <4>3. <<members[i].agent, members[i].task>> \notin top.denied
        BY <2>4, <2>11, <4>2, Zenon DEF Asked
      <4>4. ~_child_all_denied(i)
        BY <2>3, <2>4, <3>2, <4>2, <4>3, Zenon DEF Marked, Waiting
      <4> QED BY <2>8, <3>2, <4>4, Zenon
    <3>4. CASE j # l + 1
      <4>1. j \in Children(s, k) /\ j \in DOMAIN members
        BY <2>6, <2>11, <3>4, Zenon
      <4>2. s # l + 1
        BY <2>7, <4>1, Zenon
      <4>3. s \in DOMAIN members
        BY <2>1, <4>2, SMTT(90)
      <4>4. members[i].task = members[j].task
        BY <2>1, <2>11, <3>2, <4>1, Zenon
      <4>5. ~_child_all_denied(i)
        BY <1>1, <2>11, <3>2, <4>1, <4>3, <4>4, Zenon
      <4> QED BY <2>8, <3>2, <4>5, Zenon
    <3> QED BY <3>3, <3>4, Zenon
  <2>12. ASSUME NEW s \in DOMAIN members'
         PROVE  Heard(s)'
    <3>1. CASE s = l + 1
      BY <2>2, <3>1, Zenon
    <3>2. CASE s # l + 1
      <4>1. s \in DOMAIN members /\ members'[s] = members[s]
        BY <2>1, <3>2, SMTT(90)
      <4>2. \A k : Children(s, k) # {} => Children(s, k)' # {}
        BY <2>6, Zenon
      <4> QED BY <1>1, <2>5, <4>1, <4>2, Zenon
    <3> QED BY <3>1, <3>2, Zenon
  <2>13. ASSUME NEW s \in DOMAIN members', NEW k \in Agents
         PROVE  Fresh(s, k)'
    BY <2>5, <2>11, Zenon
  <2> QED BY <1>0, <2>10, <2>12, <2>13, Zenon
<1> QED BY <1>3, <1>4, KeptStep, Zenon

\* What is left to be done after a cancel.
LEMMA LateStep == IInv /\ Kinds => LateInv'
<1> SUFFICES ASSUME IInv, Kinds
             PROVE  LateInv'
  BY Zenon
<1> TypeInv /\ OnStack /\ Order /\ LateInv
  BY Zenon DEF IInv
<1> DEFINE Idle(s) == ~members[s].execed /\ ~members[s].denied /\ members[s].end \in {"running", "cancelled"}
<1>n. PICK n \in Nat : n = Len(stack)
  BY SMTT(90) DEF TypeInv
<1>0. /\ late # {} => cancel /\ \A i \in DOMAIN stack : stack[i].pc \notin Sending
      /\ Cardinality(late) <= 1 /\ IsFiniteSet(late)
      /\ \A s \in late : Idle(s) /\ \A i \in DOMAIN stack : stack[i].s = s => stack[i].pc = "loop"
      /\ late \subseteq DOMAIN members
  BY Zenon DEF LateInv, TypeInv
<1>1. DOMAIN stack = 1..n /\ \A i \in DOMAIN stack : i < n => stack[i].pc = "wait"
  BY <1>n, SMTT(90) DEF TypeInv, OnStack
<1>2. ASSUME NEW g, NEW m, InPlace(g, m), late = {} \/ g.pc \notin Sending, Top.s \notin late
      PROVE  LateInv'
  <2>1. /\ DOMAIN stack' = 1..n /\ n \in DOMAIN stack /\ stack'[n] = g /\ stack[n] = Top
        /\ \A i \in DOMAIN stack : i # n => stack'[i] = stack[i]
        /\ \A x \in DOMAIN members : x # Top.s => members'[x] = members[x]
    BY <1>n, <1>2, InPlaceIs, ZenonT(90)
  <2>2. late' = late /\ cancel' = cancel /\ g.s = Top.s
    BY <1>2, Zenon DEF InPlace
  <2>3. \A s \in late : Idle(s)'
    BY <1>0, <1>2, <2>1, Zenon
  <2>4. \A s \in late : \A i \in DOMAIN stack' : stack'[i].s = s => stack'[i].pc = "loop"
    BY <1>0, <1>1, <1>2, <2>1, <2>2, SMTT(90)
  <2>5. late # {} => \A i \in DOMAIN stack' : stack'[i].pc \notin Sending
    BY <1>0, <1>1, <1>2, <2>1, Zenon
  <2> QED BY <1>0, <2>2, <2>3, <2>4, <2>5, Zenon DEF LateInv
<1>3. stack # <<>> => Len(stack) \in DOMAIN stack /\ Top = stack[Len(stack)]
  BY TopIs, Zenon DEF Top
<1>4. ASSUME NEW g, NEW m, Works(g, m)
      PROVE  LateInv'
  <2>1. InPlace(g, m) /\ g.pc \notin Sending /\ (Top.pc = "loop" => ~cancel) /\ stack # <<>>
    BY <1>4, Zenon DEF Works, InPlace
  <2>2. Top.s \notin late
    BY <1>0, <1>3, <2>1, Zenon
  <2> QED BY <1>2, <2>1, <2>2, Zenon
<1>5. ASSUME NEW g, NEW m, Asks(g, m)
      PROVE  LateInv'
  <2>1. InPlace(g, m) /\ ~cancel
    BY <1>5, Zenon DEF Asks
  <2>2. late = {}
    BY <1>0, <2>1, Zenon
  <2> QED BY <1>2, <2>1, <2>2, Zenon
<1>6. ASSUME NEW g, Tells(g)
      PROVE  LateInv'
  <2>1. InPlace(g, members[Top.s]) /\ Top.pc \in Sending /\ stack # <<>>
    BY <1>6, Zenon DEF Tells, InPlace
  <2>2. late = {}
    BY <1>0, <1>3, <2>1, Zenon
  <2> QED BY <1>2, <2>1, <2>2, Zenon
<1>7. ASSUME NEW g, Folds(g)
      PROVE  LateInv'
  <2>1. InPlace(g, members[Top.s]) /\ Top.pc = "fold" /\ g.pc = "sendres" /\ stack # <<>>
    BY <1>7, Zenon DEF Folds, InPlace
  <2>2. Top.s \notin late
    BY <1>0, <1>3, <2>1, Zenon
  <2> QED BY <1>2, <2>1, <2>2, Zenon DEF Sending
<1>8. CASE Pushes
  <2>t. PICK top, l : top = Top /\ l = Len(members)
    BY Zenon
  <2>1. /\ DOMAIN stack' = 1..(n + 1) /\ n \in DOMAIN stack /\ stack[n] = top /\ top \in FrameType
        /\ stack'[n] = [top EXCEPT !.pc = "wait"] /\ stack'[n + 1] = Frame(top.child, l + 1, top.d + 1)
        /\ \A i \in DOMAIN stack : i # n => stack'[i] = stack[i]
    BY <1>n, <1>8, <2>t, PushesIs, Zenon
  <2>2. /\ DOMAIN members = 1..l /\ l \in Nat /\ members'[l + 1] = Session(top.child, top.s, top.d + 1, top.task)
    BY <1>8, <2>t, PushesIs, Zenon
  <2>3. /\ top.pc = "start" /\ cancel' = cancel
        /\ late' = (IF cancel THEN late \cup {l + 1} ELSE late)
    BY <1>8, <2>t, Zenon DEF Pushes
  <2>4. late = {}
    BY <1>0, <2>1, <2>3, Zenon DEF Sending
  <2>5. late' = {} \/ (late' = {l + 1} /\ cancel')
    BY <2>3, <2>4, Zenon
  <2>6. stack'[n].pc = "wait" /\ stack'[n].s = top.s /\ stack'[n + 1].pc = "loop"
    BY <2>1 DEF Frame, FrameType
  <2>7. \A i \in 1..(n + 1) : i = n + 1 \/ i = n \/ (i \in 1..n /\ i # n /\ i < n)
    OBVIOUS
  <2>8. \A i \in DOMAIN stack' : stack'[i].pc \notin Sending
    <3>1. "wait" \notin Sending /\ "loop" \notin Sending
      BY Zenon DEF Sending
    <3>2. DOMAIN stack' = 1..(n + 1) /\ DOMAIN stack = 1..n
      BY <1>1, <2>1, Zenon
    <3>3. \A i \in 1..n : i # n /\ i < n => stack'[i].pc = "wait"
      BY <1>1, <2>1, Zenon
    <3> QED BY <2>6, <2>7, <3>1, <3>2, <3>3, Zenon
  <2>9. \A i \in DOMAIN stack' : stack'[i].s = l + 1 => stack'[i].pc = "loop"
    <3>1. \A i \in DOMAIN stack : stack[i].s # l + 1
      BY <2>2 DEF OnStack
    <3>2. \A i \in 1..n : stack'[i].s = stack[i].s
      BY <1>1, <2>1, <2>6, ZenonT(90)
    <3> QED BY <1>1, <2>1, <2>6, <2>7, <3>1, <3>2, SMTT(90)
  <2>10. Idle(l + 1)'
    <3>1. PICK y : y = l + 1
      BY Zenon
    <3>2. Idle(y)'
      BY <2>2, <3>1 DEF Session
    <3> QED BY <3>1, <3>2, Zenon
  <2>11. IsFiniteSet(late') /\ Cardinality(late') <= 1
    <3>1. \A x : IsFiniteSet({x}) /\ Cardinality({x}) = 1
      BY FS_Singleton, Zenon
    <3>2. IsFiniteSet({}) /\ Cardinality({}) = 0
      BY FS_EmptySet, Zenon
    <3>3. 0 <= 1 /\ 1 <= 1
      BY SMTT(90)
    <3> QED BY <2>5, <3>1, <3>2, <3>3, Zenon
  <2> QED BY <2>5, <2>8, <2>9, <2>10, <2>11, Zenon DEF LateInv
<1>9. ASSUME NEW end, NEW res, Pops(end, res)
      PROVE  LateInv'
  <2>1. /\ DOMAIN stack' = 1..(n - 1) /\ n \in DOMAIN stack /\ stack[n] = Top
        /\ DOMAIN members' = DOMAIN members /\ Top.s \in DOMAIN members
        /\ \A x \in DOMAIN members : x # Top.s => members'[x] = members[x]
        /\ members'[Top.s] = [members[Top.s] EXCEPT !.end = end] /\ members[Top.s] \in MemberType
    BY <1>n, <1>9, PopsIs, Zenon
  <2>2. late' = late /\ cancel' = cancel /\ (Top.pc = "loop" /\ cancel => end = "cancelled")
    BY <1>9, Zenon DEF Pops
  <2>3. Framed
    <3>1. Kinds /\ ~Pushes
      <4>1. Kinds
        BY Zenon
      <4>2. ~Pushes
        BY <1>9, Zenon DEF Pops, Pushes
      <4> QED BY <4>1, <4>2, Zenon
    <3> QED BY <3>1, FramedStep, Zenon
  <2>4. \A i \in DOMAIN stack' : Awaits(stack'[i], stack[i]) /\ i \in DOMAIN stack
    <3>1. \A i \in 1..(n - 1) : i < n /\ i \in 1..n
      OBVIOUS
    <3> QED BY <1>n, <1>1, <2>1, <2>3, <3>1, Zenon DEF Framed
  <2>5. \A i \in DOMAIN stack' : stack'[i].pc \notin Sending
    BY <2>4, Zenon DEF Awaits, Waiting, Sending
  <2>6. \A s \in late : \A i \in DOMAIN stack' : stack'[i].s # s
    BY <1>0, <2>4 DEF Awaits
  <2>7. \A s \in late : Idle(s)'
    <3>1. ASSUME Top.s \in late
          PROVE  end = "cancelled" /\ Idle(Top.s)
      BY <1>0, <2>1, <2>2, <3>1, Zenon
    <3>2. PICK y : y = Top.s
      BY Zenon
    <3>3. y \in late => Idle(y)'
      <4>1. members'[y].end = end /\ members'[y].execed = members[y].execed /\ members'[y].denied = members[y].denied
        BY <2>1, <3>2, Zenon DEF MemberType
      <4> QED BY <3>1, <3>2, <4>1, Zenon
    <3> QED BY <1>0, <2>1, <3>2, <3>3, Zenon
  <2> QED BY <1>0, <2>2, <2>5, <2>6, <2>7, Zenon DEF LateInv
<1>10. CASE Aside
  <2>1. /\ stack' = stack \/ stack' = <<>>
        /\ late' = late /\ (cancel => cancel')
        /\ \A x \in DOMAIN members : Alike(members'[x], members[x])
    BY <1>10, Zenon DEF Aside
  <2>2. \A s \in late : Idle(s)'
    BY <1>0, <2>1, Zenon DEF Alike
  <2> QED BY <1>0, <2>1, <2>2, SMTT(90) DEF LateInv
<1> QED BY <1>4, <1>5, <1>6, <1>7, <1>8, <1>9, <1>10, Zenon DEF Kinds

\* run() of the entry agent establishes it all.
LEMMA InitIInv == Init => IInv
<1> SUFFICES ASSUME Init
             PROVE  IInv
  BY Zenon
<1>1. PICK f, m : f = Frame(Root, 1, 0) /\ m = Session(Root, 0, 0, "top")
  BY Zenon
<1>2. stack = <<f>> /\ members = <<m>> /\ team \in Teams /\ cancel = FALSE /\ late = {}
  BY <1>1, Zenon DEF Init
<1>3. /\ f.a = Root /\ f.s = 1 /\ f.d = 0 /\ f.pc = "loop" /\ f.count = [k \in Agents |-> 0] /\ f.completed = {}
      /\ m.agent = Root /\ m.parent = 0 /\ m.depth = 0 /\ ~m.denied /\ m.end = "running" /\ m.delegates = [k \in Agents |-> 0]
  BY <1>1, Zenon DEF Frame, Session
<1>4. f \in FrameType /\ m \in MemberType
  <2>1. Root \in Agents
    BY <1>2, TeamAssumption, Zenon
  <2>2. [k \in Agents |-> 0] \in Counts /\ {} \in Groups /\ {} \in Denials /\ "loop" \in PCs /\ "none" \in TaskNames /\ "top" \in TaskNames
    BY Zenon DEF Counts, Groups, Denials, PCs, TaskNames
  <2>3. "none" \in Results
    BY Zenon DEF Results
  <2>4. "running" \in Ends /\ "settled" \in TailStates
    BY Zenon DEF Ends, TailStates
  <2> QED BY <1>1, <2>1, <2>2, <2>3, <2>4, Zenon DEF Frame, Session, FrameType, MemberType
<1>5. /\ stack \in Seq(FrameType) /\ members \in Seq(MemberType) /\ DOMAIN stack = {1} /\ DOMAIN members = {1}
      /\ Len(stack) = 1 /\ stack[1] = f /\ members[1] = m
  BY <1>2, <1>4
<1>6. TypeInv
  BY <1>2, <1>5, ZenonT(90) DEF TypeInv
<1>7. OnStack /\ Order /\ Links
  BY <1>3, <1>5, SMTT(90) DEF OnStack, Order, Links, Sending, Waiting
<1>8. \A s, k : s # 0 => Children(s, k) = {}
  BY <1>3, <1>5, Zenon DEF Children
<1>9. Cardinality({}) = 0 /\ IsFiniteSet({})
  BY FS_EmptySet, Zenon
<1>10. Books
  <2>1. Counted(f)
    <3>1. \A k \in Agents : Children(f.s, k) = {} /\ f.count[k] = 0 /\ members[f.s].delegates[k] = 0
      BY <1>3, <1>5, <1>8, SMTT(90)
    <3>2. \A k : One(f.pc \in Waiting /\ f.child = k) = 0 /\ One(f.pc \in Sending /\ f.child = k) = 0
      BY <1>3, Zenon DEF One, Waiting, Sending
    <3> QED BY <1>9, <3>1, <3>2, SMTT(90) DEF Counted
  <2>2. Marked(f)
    BY <1>3, <1>5, SMTT(90) DEF Marked
  <2> QED BY <1>5, <2>1, <2>2, Zenon DEF Books
<1>11. TreeWellFormed
  <2>1. \A k \in Agents : Cardinality(Children(1, k)) = 0 /\ members[1].delegates[k] = 0
    <3>1. \A k \in Agents : m.delegates[k] = 0
      BY <1>3, Zenon
    <3>2. \A k : Children(1, k) = {}
      BY <1>8
    <3> QED BY <1>5, <1>9, <3>1, <3>2, ZenonT(90)
  <2>2. DOMAIN members \ {1} = {} /\ 0 <= 0
    BY <1>5
  <2> QED BY <1>5, <2>1, <2>2, Zenon DEF TreeWellFormed
<1>12. PolicyBinds
  <2>1. MaxPer \in Nat
    BY <1>2, TeamAssumption, Zenon DEF MaxPer
  <2>2. \A k : Children(1, k) = {}
    BY <1>8
  <2>3. 0 <= MaxPer
    BY <2>1
  <2>4. members[1].end # "completed"
    BY <1>3, <1>5, Zenon
  <2> QED BY <1>5, <1>9, <2>2, <2>3, <2>4, ZenonT(90) DEF PolicyBinds
<1>13. LateInv
  BY <1>2, <1>9 DEF LateInv
<1> QED BY <1>6, <1>7, <1>10, <1>11, <1>12, <1>13, Zenon DEF IInv

\* The inductive invariant.
LEMMA TeamAlways == Spec => []IInv
<1>1. ASSUME IInv, [Next]_vars
      PROVE  IInv'
  <2>1. TypeInv /\ OnStack /\ Order /\ Links /\ Books /\ TreeWellFormed
    BY <1>1, Zenon DEF IInv
  <2>2. Kinds
    BY <1>1, <2>1, KindsStep, Zenon
  <2>3. TypeInv' /\ OnStack' /\ Order' /\ Links' /\ Books' /\ TreeWellFormed' /\ PolicyBinds' /\ LateInv'
    BY <1>1, <2>1, <2>2, TypeStep, OnStackStep, OrderStep, LinksStep, BooksStep, TreeStep, PolicyStep, LateStep, Zenon
  <2> QED BY <2>3, Zenon DEF IInv
<1> QED BY <1>1, InitIInv, PTL DEF Spec
-----------------------------------------------------------------------------
(* The table team_sessions that TeamRunner.run writes, and the "delegate"   *)
(* events of its delegate tool, describe the delegations that happened, for *)
(* every forest of agents and any depth.                                    *)
THEOREM TreeIsReal == Spec => []TreeWellFormed
<1>1. IInv => TreeWellFormed
  BY Zenon DEF IInv
<1> QED BY <1>1, TeamAlways, PTL

(* The refusals of the delegate tool and the finalize guard enforce the     *)
(* policy, although they look at what was noted when children returned.     *)
THEOREM PolicyAlwaysBinds == Spec => []PolicyBinds
<1>1. IInv => PolicyBinds
  BY Zenon DEF IInv
<1> QED BY <1>1, TeamAlways, PTL

(* cancel() and revoke() bind: see StopsBind. run() looks at the revocation *)
(* again before it opens a session, and the loop at the cancel flag before  *)
(* it does anything.                                                        *)
THEOREM StopsAlwaysBind == Spec => StopsBind
<1> DEFINE Quiet == /\ Cardinality(late) <= 1
                    /\ \A s \in late : /\ ~members[s].execed /\ ~members[s].denied
                                       /\ members[s].end \in {"running", "cancelled"}
           Step == Len(members') > Len(members) => ~Severed(members'[Len(members')].agent)
<1>1. IInv => Quiet
  BY Zenon DEF IInv, LateInv
<1>2. IInv /\ [Next]_vars => [Step]_vars
  <2> SUFFICES ASSUME IInv, [Next]_vars
               PROVE  Step
    BY Zenon DEF Step
  <2>1. TypeInv /\ OnStack
    BY Zenon DEF IInv
  <2>2. Kinds
    BY <2>1, KindsStep, Zenon
  <2>3. CASE Kept
    <3>1. members \in Seq(MemberType) /\ members' \in Seq(MemberType) /\ DOMAIN members' = DOMAIN members
      BY <2>1, <2>3, Zenon DEF TypeInv, Kept
    <3>2. Len(members') = Len(members) /\ Len(members) \in Nat
      BY <3>1
    <3> QED BY <3>2, SMTT(90)
  <2>4. CASE Pushes
    <3>1. PICK l : l = Len(members)
      BY Zenon
    <3>2. /\ members' \in Seq(MemberType) /\ DOMAIN members' = 1..(l + 1) /\ l \in Nat
          /\ members'[l + 1] = Session(Top.child, Top.s, Top.d + 1, Top.task)
      BY <2>1, <2>4, <3>1, PushesIs, Zenon
    <3>3. Len(members') = l + 1
      BY <3>2, SMTT(90)
    <3>4. members'[Len(members')].agent = Top.child
      BY <3>2, <3>3 DEF Session
    <3> QED BY <2>4, <3>4, Zenon DEF Pushes
  <2> QED BY <2>1, <2>2, <2>3, <2>4, KeptStep, Zenon
<1> QED BY <1>1, <1>2, TeamAlways, PTL DEF Spec, StopsBind
=============================================================================
