------------------------------- MODULE Forest -------------------------------
(***************************************************************************)
(* Loading the teams of a package (scr/team.py): _validate_forest decides  *)
(* whether the agents' delegates form disjoint trees under the declared    *)
(* roots, and _build_loaded then walks each tree breadth first to build    *)
(* its Team object.                                                        *)
(*                                                                         *)
(* The inputs are arbitrary: a delegates list may repeat an agent, name an *)
(* unknown one or close a cycle, and a declared root may be anything.  The *)
(* order in which sibling roots are taken is left open.                    *)
(***************************************************************************)
EXTENDS Naturals, Sequences, FiniteSets

CONSTANTS
    Agents,         \* the agents the package defines (specs)
    Unknown,        \* a name that is no agent
    MaxDelegates,   \* bound: length of a delegates list
    MaxRoots,       \* bound: declared roots
    Requirements,   \* the required_children policies considered, as sets of <<agent, child>>
    Widenings       \* the edges _reject_widening refuses, as sets of <<parent, child>>

Mentioned == Agents \cup {Unknown}
Lists == UNION {[1 .. n -> Mentioned] : n \in 0 .. MaxDelegates}

VARIABLES
    edges,          \* agent -> its delegates, in order
    required, widens,
    roots,          \* declared_roots
    pc,             \* "check" | "walk" | "build" | "loaded" | "rejected"
    todo,           \* roots not walked yet
    root, seen, stack,
    owner,          \* agent -> the root that reached it, Unknown before
    queue, team_of, \* _build_loaded
    why             \* the check that raised

vars == <<edges, required, widens, roots, pc, todo, root, seen, stack, owner, queue, team_of, why>>
inputs == <<edges, required, widens>>

Kids(a) == {edges[a][i] : i \in DOMAIN edges[a]}
Slots == {s \in Agents \X (1 .. MaxDelegates) : s[2] \in DOMAIN edges[s[1]]}
HasParent(n) == \E s \in Slots : edges[s[1]][s[2]] = n
natural_roots == {a \in Agents : ~HasParent(a)}

Init ==
    /\ edges \in [Agents -> Lists]
    /\ required \in Requirements /\ widens \in Widenings
    /\ roots \in {r \in SUBSET Mentioned : Cardinality(r) <= MaxRoots}
    /\ pc = "check" /\ todo = {} /\ root = Unknown /\ seen = {} /\ stack = <<>>
    /\ owner = [a \in Agents |-> Unknown] /\ queue = <<>>
    /\ team_of = [a \in Agents |-> Unknown] /\ why = "none"

Raise(check) ==
    /\ pc' = "rejected" /\ why' = check
    /\ UNCHANGED <<inputs, roots, todo, root, seen, stack, owner, queue, team_of>>

(***************************************************************************)
(* The checks before the walk.                                             *)
(***************************************************************************)
unknown_delegate == \E s \in Slots : edges[s[1]][s[2]] \notin Agents
multiple_parents == \E s, t \in Slots : s # t /\ edges[s[1]][s[2]] = edges[t[1]][t[2]]
EffectiveRoots == IF roots = {} THEN natural_roots ELSE roots
bad_roots ==
    \/ roots = {} /\ Cardinality(natural_roots) # 1
    \/ \E r \in EffectiveRoots : r \notin Agents \/ HasParent(r)

Check ==
    /\ pc = "check"
    /\ \/ unknown_delegate /\ Raise("unknown delegate")
       \/ ~unknown_delegate /\ multiple_parents /\ Raise("multiple parents")
       \/ ~unknown_delegate /\ ~multiple_parents /\ bad_roots /\ Raise("roots")
       \/ /\ ~unknown_delegate /\ ~multiple_parents /\ ~bad_roots
          /\ roots' = EffectiveRoots /\ todo' = EffectiveRoots /\ pc' = "walk"
          /\ UNCHANGED <<inputs, root, seen, stack, owner, queue, team_of, why>>

(***************************************************************************)
(* The walk: each root owns what a depth-first search from it reaches.     *)
(***************************************************************************)
NextRoot(r) ==
    /\ pc = "walk" /\ stack = <<>>
    /\ root' = r /\ todo' = todo \ {r} /\ seen' = {} /\ stack' = <<r>>
    /\ UNCHANGED <<inputs, roots, pc, owner, queue, team_of, why>>

Pop ==
    /\ pc = "walk" /\ stack # <<>>
    /\ LET n == stack[Len(stack)]
           rest == SubSeq(stack, 1, Len(stack) - 1)
           clash == IF n \in seen THEN "cycle" ELSE IF owner[n] # Unknown THEN "two teams" ELSE "none"
           ok == clash = "none"
       IN /\ why' = clash /\ pc' = (IF ok THEN "walk" ELSE "rejected")
          /\ seen' = seen \cup {n} /\ owner' = (IF ok THEN [owner EXCEPT ![n] = root] ELSE owner)
          /\ stack' = (IF ok THEN rest \o edges[n] ELSE rest)
    /\ UNCHANGED <<inputs, roots, todo, root, queue, team_of>>

(* What is left after the walk: coverage, widening edges, policies.        *)
Mut_uncovered == FALSE
uncovered == \E a \in Agents : owner[a] = Unknown
widening == \E a \in Agents : \E k \in Kids(a) : <<a, k>> \in widens
bad_policy == \E a \in Agents, k \in Mentioned : <<a, k>> \in required /\ k \notin Kids(a)

Final ==
    /\ pc = "walk" /\ stack = <<>> /\ todo = {}
    /\ \/ uncovered /\ Raise("uncovered")
       \/ ~uncovered /\ widening /\ Raise("widening")
       \/ ~uncovered /\ ~widening /\ bad_policy /\ Raise("policy")
       \/ /\ ~uncovered /\ ~widening /\ ~bad_policy
          /\ pc' = "build" /\ todo' = roots
          /\ UNCHANGED <<inputs, roots, root, seen, stack, owner, queue, team_of, why>>

(***************************************************************************)
(* _build_loaded: breadth first, parents before children.                  *)
(***************************************************************************)
NewTeam(r) ==
    /\ pc = "build" /\ queue = <<>>
    /\ root' = r /\ todo' = todo \ {r} /\ queue' = <<r>>
    /\ UNCHANGED <<inputs, roots, pc, seen, stack, owner, team_of, why>>

AddChildren ==
    /\ pc = "build" /\ queue # <<>>
    /\ team_of' = [team_of EXCEPT ![queue[1]] = root]
    /\ queue' = Tail(queue) \o edges[queue[1]]
    /\ UNCHANGED <<inputs, roots, pc, todo, root, seen, stack, owner, why>>

Loaded ==
    /\ pc = "build" /\ queue = <<>> /\ todo = {}
    /\ pc' = "loaded"
    /\ UNCHANGED <<inputs, roots, todo, root, seen, stack, owner, queue, team_of, why>>

Next == Check \/ Pop \/ Final \/ AddChildren \/ Loaded \/ \E r \in todo : NextRoot(r) \/ NewTeam(r)
Spec == Init /\ [][Next]_vars

-----------------------------------------------------------------------------
(* The number of walks of n edges from a root to an agent, each entry of a  *)
(* delegates list being an edge of its own.                                 *)
Walks[n \in Nat] == [a \in Agents |->
    IF n = 0 THEN IF a \in EffectiveRoots THEN 1 ELSE 0
    ELSE LET into == {s \in Slots : edges[s[1]][s[2]] = a}
             prev == Walks[n - 1]
             Total[S \in SUBSET into] ==
                 IF S = {} THEN 0 ELSE LET s == CHOOSE s \in S : TRUE
                                       IN prev[s[1]] + Total[S \ {s}]
         IN Total[into]]

(* A forest, by counting: names known, and exactly one walk to each agent.  *)
IsForest ==
    /\ ~unknown_delegate /\ EffectiveRoots \subseteq Agents
    /\ roots = {} => Cardinality(natural_roots) = 1
    /\ LET W == [n \in 0 .. 2 * Cardinality(Agents) |-> Walks[n]] IN
       \A a \in Agents : \E n \in DOMAIN W :
           W[n][a] = 1 /\ \A k \in DOMAIN W \ {n} : W[k][a] = 0

(* _validate_forest accepts exactly the forests: "every agent belongs to    *)
(* exactly one team", no cycle, no second parent, nobody unreachable, and   *)
(* among those only the ones without a widening edge or a policy naming an  *)
(* undeclared child.  The Team objects built afterwards cover the agents    *)
(* just as validated: each is in the one team whose root owns it.           *)
LoaderExact ==
    /\ pc \in {"build", "loaded"} => IsForest /\ ~widening /\ ~bad_policy
    /\ pc = "rejected" => ~(IsForest /\ ~widening /\ ~bad_policy)
    /\ pc = "loaded" => team_of = owner
=============================================================================
