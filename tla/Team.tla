-------------------------------- MODULE Team --------------------------------
(***************************************************************************)
(* Team execution (scr/team.py, scr/orchestration.py): an orchestrator     *)
(* delegates subtasks to its declared children, each in a session of its   *)
(* own, and waits for them.  Delegation is synchronous, so the agents at   *)
(* work are a stack of frames.  cancel() and revoke() come from other      *)
(* threads at any time; the process may be killed between any two writes.  *)
(*                                                                         *)
(* An agent's kernel (module Kernel) is seen from here as a loop that      *)
(* checks the cancel flag and then uses a tool, delegates, finalizes or    *)
(* stops.  A session keeps what the code reads back from its ledger: were  *)
(* tools executed or denied, and the delegate events it holds.             *)
(***************************************************************************)
EXTENDS Naturals, Sequences, FiniteSets

CONSTANTS
    Agents, Tasks,
    Root,           \* the entry agent
    Teams,          \* the teams that may be loaded
    MaxRevokes      \* bound: calls of revoke()

VARIABLES
    team,           \* the loaded team with its policies, fixed at the start
    stack,          \* the frames of TeamRunner.run, the innermost last
    members,        \* table team_sessions with what each session's ledger shows
    mailbox,        \* table mailbox
    logged,         \* the "mailbox" events of all ledgers
    cancel, revoked,
    crashed,
    late            \* history: sessions started after the cancel

vars == <<team, stack, members, mailbox, logged, cancel, revoked, crashed, late>>

Edges == team.edges                  \* agent -> set of its delegates
Required == team.required            \* agent -> its required_children
MaxPer == team.max_per               \* max_delegations_per_child
NoRedelegate == team.no_redelegate   \* no_redelegate_after_denial
NeedNonempty == team.nonempty        \* require_nonempty_result
MaxDepth == team.max_depth           \* TeamRunner.max_depth
MaxSteps == team.steps               \* agent -> max_steps of its kernel

(* _validate_forest guarantees this of a loaded team (module Forest). *)
Parent(a) == CHOOSE b \in Agents : a \in Edges[b]
ASSUME TeamAssumption ==
    \A g \in Teams :
        /\ g.edges \in [Agents -> SUBSET Agents] /\ g.required \in [Agents -> SUBSET Agents]
        /\ g.max_per \in Nat /\ g.max_depth \in Nat /\ g.steps \in [Agents -> Nat]
        /\ Root \in Agents /\ \A a \in Agents : a \notin g.edges[a]
        /\ \A a \in Agents \ {Root} : \E b \in Agents : a \in g.edges[b]
        /\ \A a, b, k \in Agents : k \in g.edges[a] /\ k \in g.edges[b] => a = b
        /\ \A a \in Agents : g.required[a] \subseteq g.edges[a] /\ Root \notin g.edges[a]

path_to[n \in Nat] == [a \in Agents |->
    IF n = 0 \/ a = Root THEN {a} ELSE {a} \cup path_to[n - 1][Parent(a)]]
Severed(a) == path_to[Cardinality(Agents)][a] \cap revoked # {}

Top == stack[Len(stack)]
Frame(a, s, d) ==
    [a |-> a, s |-> s, d |-> d, pc |-> "loop", steps |-> 0, child |-> a, task |-> "none",
     count |-> [k \in Agents |-> 0], completed |-> {}, denied |-> {}, res |-> "none"]
Session(a, parent, d, t) ==
    [agent |-> a, parent |-> parent, depth |-> d, task |-> t, execed |-> FALSE,
     denied |-> FALSE, end |-> "running", delegates |-> [k \in Agents |-> 0],
     tail |-> "settled"]

(* run(entry, task) at depth 0. *)
Init ==
    /\ team \in Teams
    /\ stack = <<Frame(Root, 1, 0)>>
    /\ members = <<Session(Root, 0, 0, "top")>>
    /\ mailbox = <<>> /\ logged = <<>>
    /\ cancel = FALSE /\ revoked = {} /\ crashed = FALSE /\ late = {}

At(pc) == stack # <<>> /\ Top.pc = pc
Set(f) == stack' = [stack EXCEPT ![Len(stack)] = f]
flags == <<team, cancel, revoked, crashed>>
outside == <<flags, late>>
mail == <<mailbox, logged>>

MutCheck ==
    /\ At("loop") /\ (~cancel \/ Top.d > 0) /\ Top.steps < MaxSteps[Top.a]
    /\ Set([Top EXCEPT !.pc = "act", !.steps = @ + 1])
    /\ UNCHANGED <<members, mail, outside>>

(* Kernel._loop: cancel_check, then the model decides. *)
Check ==
    /\ At("loop") /\ ~cancel /\ Top.steps < MaxSteps[Top.a]
    /\ Set([Top EXCEPT !.pc = "act", !.steps = @ + 1])
    /\ UNCHANGED <<members, mail, outside>>

UseTool(ok) ==
    /\ At("act")
    /\ members' = IF ok THEN [members EXCEPT ![Top.s].execed = TRUE]
                  ELSE [members EXCEPT ![Top.s].denied = TRUE]
    /\ Set([Top EXCEPT !.pc = "loop"])
    /\ UNCHANGED <<mail, outside>>

(* A delegate call that returned: the kernel ledgers its tool_exec. *)
Returned(f) == /\ Set([f EXCEPT !.pc = "loop"])
               /\ members' = [members EXCEPT ![f.s].execed = TRUE]

MutDenialByName(f, k, t) ==
    \/ k \notin Edges[f.a]
    \/ f.d + 1 > MaxDepth
    \/ f.count[k] >= MaxPer
    \/ Severed(k)

(* fn of _delegate_tool: its refusals, in its order. *)
Denial(f, k, t) ==
    \/ k \notin Edges[f.a]
    \/ f.d + 1 > MaxDepth
    \/ NoRedelegate /\ <<k, t>> \in f.denied
    \/ f.count[k] >= MaxPer
    \/ Severed(k)

Refuse(k, t) ==
    /\ At("act") /\ (cancel \/ Denial(Top, k, t))
    /\ Returned(Top)
    /\ UNCHANGED <<mail, outside>>

(* The "delegate" event is appended before anything else happens. *)
Delegate(k, t) ==
    /\ At("act") /\ ~cancel /\ ~Denial(Top, k, t)
    /\ members' = [members EXCEPT ![Top.s].delegates[k] = @ + 1]
    /\ Set([Top EXCEPT !.pc = "sendtask", !.child = k, !.task = t])
    /\ UNCHANGED <<mail, outside>>

(* _deliver: the mailbox row, then its ledger event. *)
Message(f) == IF f.pc \in {"sendtask", "logtask"} THEN <<f.a, f.child, f.task>>
              ELSE <<f.child, f.a, f.res>>

DeliverSend ==
    /\ At("sendtask") \/ At("sendres")
    /\ mailbox' = Append(mailbox, Message(Top))
    /\ Set([Top EXCEPT !.pc = IF @ = "sendtask" THEN "logtask" ELSE "logres"])
    /\ UNCHANGED <<members, logged, outside>>

DeliverLog ==
    /\ At("logtask") \/ At("logres")
    /\ logged' = Append(logged, Message(Top))
    /\ IF Top.pc = "logtask"
       THEN Set([Top EXCEPT !.pc = "start"]) /\ UNCHANGED members
       ELSE Returned(Top)
    /\ UNCHANGED <<mailbox, outside>>

MutStart ==
    /\ At("start")
    /\ IF Severed(Top.child) THEN Returned(Top)
       ELSE /\ members' = Append(members, Session(Top.child, 1, Top.d + 1, Top.task))
            /\ stack' = Append([stack EXCEPT ![Len(stack)].pc = "wait"],
                               Frame(Top.child, Len(members) + 1, Top.d + 1))
    /\ late' = IF cancel THEN late \cup (DOMAIN members' \ DOMAIN members) ELSE late
    /\ UNCHANGED <<mail, flags>>

(* run() for the child asks for its effective manifest again: severed by    *)
(* now, it raises and the delegate tool fails.                              *)
Start ==
    /\ At("start")
    /\ IF Severed(Top.child) THEN Returned(Top)
       ELSE /\ members' = Append(members, Session(Top.child, Top.s, Top.d + 1, Top.task))
            /\ stack' = Append([stack EXCEPT ![Len(stack)].pc = "wait"],
                               Frame(Top.child, Len(members) + 1, Top.d + 1))
    /\ late' = IF cancel THEN late \cup (DOMAIN members' \ DOMAIN members) ELSE late
    /\ UNCHANGED <<mail, flags>>

(* The kernel of the innermost agent returns to the delegate tool. *)
Return(end, res) ==
    /\ members' = [members EXCEPT ![Top.s].end = end]
    /\ stack' = IF Len(stack) = 1 THEN <<>>
                ELSE [SubSeq(stack, 1, Len(stack) - 1) EXCEPT
                          ![Len(stack) - 1].pc = "fold", ![Len(stack) - 1].res = res]
    /\ UNCHANGED <<mail, outside>>

FinalizeGuard(f) == Required[f.a] \subseteq f.completed

Finalize(res) == At("act") /\ FinalizeGuard(Top) /\ Return("completed", res)

FinalizeRefused ==
    /\ At("act") /\ ~FinalizeGuard(Top)
    /\ Set([Top EXCEPT !.pc = "loop"])
    /\ UNCHANGED <<members, mail, outside>>

(* model_error, loop_detected and the like; no final text. *)
Stop == At("act") /\ Return("stopped", "CHILD STOPPED")
MaxStepsReached == At("loop") /\ ~cancel /\ Top.steps = MaxSteps[Top.a]
                   /\ Return("max_steps", "CHILD STOPPED")
Cancelled == At("loop") /\ cancel /\ Return("cancelled", "CHILD STOPPED")

(* What the delegate tool makes of the child's result. *)
_child_all_denied(s) == members[s].denied /\ ~members[s].execed
ChildSession == CHOOSE s \in DOMAIN members :
    /\ members[s].parent = Top.s /\ members[s].agent = Top.child
    /\ \A i \in DOMAIN members : members[i].parent = Top.s => i <= s

Fold ==
    /\ At("fold")
    /\ LET k == Top.child
           f == [Top EXCEPT !.pc = "sendres", !.count[k] = @ + 1]
       IN  Set(IF _child_all_denied(ChildSession)
               THEN [f EXCEPT !.denied = @ \cup {<<k, Top.task>>}]
               ELSE IF NeedNonempty /\ Top.res = "" THEN f
               ELSE [f EXCEPT !.completed = @ \cup {k}])
    /\ UNCHANGED <<members, mail, outside>>

(***************************************************************************)
(* The outside world.                                                      *)
(***************************************************************************)
Cancel == /\ ~cancel /\ ~crashed /\ cancel' = TRUE
          /\ UNCHANGED <<stack, members, team, mail, revoked, crashed, late>>

Revoke(a) == /\ a \notin revoked /\ Cardinality(revoked) < MaxRevokes /\ ~crashed
             /\ revoked' = revoked \cup {a}
             /\ UNCHANGED <<stack, members, team, mail, cancel, crashed, late>>

(* What the journal of a frame's session may end with when the process dies: *)
(* a row that settles the last step; the intent of a model call; the intent *)
(* of a tool, kept if its result is stored, safe if it may be repeated.     *)
(* delegate may not be.                                                     *)
MutTails(f) == CASE f.pc = "loop" -> {"settled", "kept"}
                 [] f.pc = "act" -> {"settled", "model", "safe", "unsafe"}
                 [] OTHER -> {"safe"}

Tails(f) == CASE f.pc = "loop" -> {"settled", "kept"}
              [] f.pc = "act" -> {"settled", "model", "safe", "unsafe"}
              [] OTHER -> {"unsafe"}

Crash ==
    /\ stack # <<>> /\ crashed' = TRUE /\ stack' = <<>>
    /\ \E tails \in [DOMAIN stack -> UNION {Tails(stack[i]) : i \in DOMAIN stack}] :
        /\ \A i \in DOMAIN stack : tails[i] \in Tails(stack[i])
        /\ members' = [s \in DOMAIN members |->
             IF \E i \in DOMAIN stack : stack[i].s = s
             THEN [members[s] EXCEPT !.tail = tails[CHOOSE i \in DOMAIN stack : stack[i].s = s]]
             ELSE members[s]]
    /\ UNCHANGED <<team, mail, cancel, revoked, late>>

(* team_recover: Kernel.recover on every session of the team, in order.     *)
recover(tail) == IF tail = "unsafe" THEN "review" ELSE IF tail = "review" THEN tail ELSE "settled"

team_recover ==
    /\ crashed
    /\ members' = [s \in DOMAIN members |-> [members[s] EXCEPT !.tail = recover(@)]]
    /\ UNCHANGED <<team, stack, mail, cancel, revoked, crashed, late>>

Finished == stack = <<>> /\ UNCHANGED vars

Run ==
    \/ Check \/ DeliverSend \/ DeliverLog \/ Start \/ Fold
    \/ FinalizeRefused \/ Stop \/ MaxStepsReached \/ Cancelled
    \/ \E ok \in BOOLEAN : UseTool(ok)
    \/ \E k \in Agents, t \in Tasks : Refuse(k, t) \/ Delegate(k, t)
    \/ \E res \in {"", "text"} : Finalize(res)

Next == Run \/ Cancel \/ (\E a \in Agents : Revoke(a)) \/ Crash \/ team_recover \/ Finished

Spec == Init /\ [][Next]_vars

-----------------------------------------------------------------------------
Children(s, k) == {i \in DOMAIN members : members[i].parent = s /\ members[i].agent = k}

(* The delegation tree that evidence exports is the real one: every session *)
(* below the lead hangs under an earlier session of its agent's parent, one *)
(* level deeper, never deeper than max_depth, and the "delegate" events of  *)
(* that session announce it, also when the process dies right after.        *)
TreeWellFormed ==
    /\ \A s \in DOMAIN members \ {1} :
        LET q == members[s].parent
        IN  /\ q \in 1 .. s - 1
            /\ members[s].agent \in Edges[members[q].agent]
            /\ members[s].depth = members[q].depth + 1
            /\ members[s].depth <= MaxDepth
    /\ \A s \in DOMAIN members, k \in Agents :
        Cardinality(Children(s, k)) <= members[s].delegates[k]

(* The delegation policy binds, although counts and denials are only noted  *)
(* when a child returns: max_delegations_per_child bounds the sessions a    *)
(* child gets from one session of its parent; after a task that ended with  *)
(* every tool call denied the child never gets that task again; an agent    *)
(* that finalized has run each of its required_children.                    *)
PolicyBinds ==
    \A s \in DOMAIN members :
        /\ \A k \in Agents :
            /\ Cardinality(Children(s, k)) <= MaxPer
            /\ NoRedelegate => \A i, j \in Children(s, k) :
                i < j /\ members[i].task = members[j].task => ~_child_all_denied(i)
        /\ members[s].end = "completed" =>
            \A k \in Required[members[s].agent] : Children(s, k) # {}

(* cancel() and revoke() bind at every level, also when they fall between    *)
(* the delegate tool's check and the start: a delegation under way when     *)
(* cancel() comes may still open its session, but only that one, and the    *)
(* session does nothing and ends cancelled; no session starts for an agent  *)
(* that is revoked, or below one.                                           *)
StopsBind ==
    /\ [](/\ Cardinality(late) <= 1
          /\ \A s \in late : /\ ~members[s].execed /\ ~members[s].denied
                             /\ members[s].end \in {"running", "cancelled"})
    /\ [][Len(members') > Len(members) => ~Severed(members'[Len(members')].agent)]_vars
=============================================================================
