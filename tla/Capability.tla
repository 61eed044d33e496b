----------------------------- MODULE Capability -----------------------------
(***************************************************************************)
(* Capability manifests (scr/capability.py), their attenuation down a      *)
(* delegation path (Team.effective_manifest in scr/orchestration.py), the  *)
(* loader's check for widening (_reject_widening in scr/team.py) and the   *)
(* administrator's tightening (scr/policy.py).                             *)
(*                                                                         *)
(* A behaviour walks one delegation path from the root: each step adds the *)
(* manifest the next agent declares and attenuates, as the loop of         *)
(* effective_manifest does.  Resolved paths are ordered by Under ("sits at *)
(* or below"); an exec rule matters by the commands it matches; the four   *)
(* classification levels are their ranks.                                  *)
(***************************************************************************)
EXTENDS Naturals, Sequences

CONSTANTS
    Tools, Hosts,
    Paths,      \* resolved file system paths
    Under,      \* <<p, r>>: commonpath([p, r]) = r
    Rules,      \* exec rules (binary, arg_pattern)
    Commands,   \* command lines
    Matches,    \* <<r, c>>: the rule allows the command
    Manifests,  \* the manifests agents declare
    Policies,   \* tightening policies: the tools and hosts they name, or None
    None,       \* a policy that does not mention tools (hosts)
    MaxDepth    \* bound: length of a delegation path

Levels == 0 .. 3
Manifest == [tools: SUBSET Tools, hosts: SUBSET Hosts, read: SUBSET Paths,
             write: SUBSET Paths, rules: SUBSET Rules, budget: Nat, ceiling: Levels]

ASSUME CapabilityAssumption ==
    /\ Manifests \subseteq Manifest
    /\ \A p \in Paths : <<p, p>> \in Under
    /\ \A p, q, r \in Paths : <<p, q>> \in Under /\ <<q, r>> \in Under => <<p, r>> \in Under

VARIABLES
    path,       \* the manifests declared from the root to the current agent
    eff,        \* its effective manifest
    loaded      \* TRUE while _reject_widening accepted every edge

vars == <<path, eff, loaded>>

(***************************************************************************)
(* What a manifest permits: the check_* methods.                           *)
(***************************************************************************)
check_tool(m, t) == t \in m.tools
check_net(m, h) == h \in m.hosts
resolve_within(p, roots) == \E r \in roots : <<p, r>> \in Under
check_read(m, p) == resolve_within(p, m.read)
check_write(m, p) == resolve_within(p, m.write)
check_exec(m, c) == \E r \in m.rules : <<r, c>> \in Matches
check_classification(m, l) == l <= m.ceiling

(* Everything m permits, n permits. *)
NoWider(m, n) ==
    /\ \A t \in Tools : check_tool(m, t) => check_tool(n, t)
    /\ \A h \in Hosts : check_net(m, h) => check_net(n, h)
    /\ \A p \in Paths : check_read(m, p) => check_read(n, p)
    /\ \A p \in Paths : check_write(m, p) => check_write(n, p)
    /\ \A c \in Commands : check_exec(m, c) => check_exec(n, c)
    /\ \A l \in Levels : check_classification(m, l) => check_classification(n, l)
    /\ m.budget <= n.budget

(***************************************************************************)
(* attenuate: child cut down to what the parent has.                       *)
(***************************************************************************)
Mut_roots_contained(child, parent) ==
    IF parent = {} THEN child ELSE {c \in child : resolve_within(c, parent)}
_roots_contained(child, parent) == {c \in child : resolve_within(c, parent)}
lower(a, b) == IF a <= b THEN a ELSE b

attenuate(parent, child) ==
    [tools   |-> child.tools \cap parent.tools,
     hosts   |-> child.hosts \cap parent.hosts,
     read    |-> _roots_contained(child.read, parent.read),
     write   |-> _roots_contained(child.write, parent.write),
     rules   |-> child.rules \cap parent.rules,
     budget  |-> lower(child.budget, parent.budget),
     ceiling |-> lower(child.ceiling, parent.ceiling)]

Mut_reject_widening(pm, cm) ==
    \/ ~(cm.tools \subseteq pm.tools)
    \/ ~(cm.hosts \subseteq pm.hosts)
    \/ _roots_contained(cm.read, pm.read) # cm.read

(* _reject_widening raises; it looks at tools, hosts and roots only. *)
_reject_widening(pm, cm) ==
    \/ ~(cm.tools \subseteq pm.tools)
    \/ ~(cm.hosts \subseteq pm.hosts)
    \/ _roots_contained(cm.read, pm.read) # cm.read
    \/ _roots_contained(cm.write, pm.write) # cm.write

(* base cut to the policy; one that names nothing leaves the base as it is. *)
cut(base, named) == IF named = None THEN base ELSE base \cap named

(* Policy.tighten: PolicyError (no new manifest) or base cut to the policy. *)
(* The returned manifest is built without the base's ceiling and so gets    *)
(* the default, "secret".                                                   *)
validate_tightening(pol, base) ==
    /\ pol.tools # None => pol.tools \subseteq base.tools
    /\ pol.hosts # None => pol.hosts \subseteq base.hosts
tighten(pol, base) ==
    [base EXCEPT !.tools = cut(@, pol.tools), !.hosts = cut(@, pol.hosts), !.ceiling = 3]

-----------------------------------------------------------------------------
Init == \E m \in Manifests : path = <<m>> /\ eff = m /\ loaded = TRUE

Descend(m) ==
    /\ Len(path) < MaxDepth
    /\ path' = Append(path, m)
    /\ eff' = attenuate(eff, m)
    /\ loaded' = (loaded /\ ~_reject_widening(path[Len(path)], m))

Next == \E m \in Manifests : Descend(m)
Spec == Init /\ [][Next]_vars

-----------------------------------------------------------------------------
(* Type invariant: an effective manifest is a manifest. *)
TypeOK == eff \in Manifest /\ path \in Seq(Manifest) /\ path # <<>> /\ loaded \in BOOLEAN

(* Monotone attenuation: at every depth the effective manifest permits      *)
(* nothing that any agent on the path, the root or the agent itself, does   *)
(* not declare: no tool, host, path, command, level or budget.              *)
NeverBeyondPath == \A i \in DOMAIN path : NoWider(eff, path[i])

(* What the loader accepted is what runs: when no edge of the path widens,  *)
(* attenuation takes no tool, host or root away from what the agent's       *)
(* signed package declares.  (Exec rules, budget and ceiling may shrink.)   *)
LoadedIsEffective ==
    loaded => LET m == path[Len(path)] IN
        /\ eff.tools = m.tools /\ eff.hosts = m.hosts
        /\ eff.read = m.read /\ eff.write = m.write

(* No delegation widens what the manifest before it permitted, also where   *)
(* the parent has no roots at all.                                          *)
StepNarrows == [][NoWider(eff', eff)]_vars

(* Policy.tighten on an effective manifest: a policy it accepts permits     *)
(* nothing the manifest did not, the classification ceiling excepted, which *)
(* the result takes from the default.                                       *)
TighteningNarrows ==
    \A pol \in Policies : validate_tightening(pol, eff) =>
        NoWider(tighten(pol, eff), [eff EXCEPT !.ceiling = 3])
=============================================================================
