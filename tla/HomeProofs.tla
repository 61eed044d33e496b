----------------------------- MODULE HomeProofs -----------------------------
(***************************************************************************)
(* Proofs about the parts of Home, for any values of their constants:      *)
(* attenuation along delegation paths of any depth, the staged updater,    *)
(* the model settings, the package registry, and backup and restore.  Each *)
(* part has an inductive invariant of its own.                             *)
(***************************************************************************)
EXTENDS Home, TLAPS

-----------------------------------------------------------------------------
(***************************************************************************)
(* Capability: attenuate returns something no wider than either argument,  *)
(* NoWider is transitive, so no step of the walk leaves the bound of an    *)
(* ancestor.                                                               *)
(***************************************************************************)
(* attenuate returns a manifest. *)
LEMMA AttenuateType ==
    ASSUME NEW p \in Manifest, NEW c \in Manifest
    PROVE  attenuate(p, c) \in Manifest
<1>1. lower(c.budget, p.budget) \in Nat /\ lower(c.ceiling, p.ceiling) \in Levels
  BY Zenon DEF lower, Manifest
<1>2. /\ _roots_contained(c.read, p.read) \in SUBSET Paths
      /\ _roots_contained(c.write, p.write) \in SUBSET Paths
  BY Zenon DEF _roots_contained, Manifest
<1> QED
  BY <1>1, <1>2, Zenon DEF attenuate, Manifest

(* Containment of roots (_roots_contained, resolve_within): a path under a *)
(* root that is itself under a parent's root is under the parent's root.   *)
LEMMA RootsNarrow ==
    ASSUME NEW child \in SUBSET Paths, NEW parent \in SUBSET Paths, NEW p \in Paths,
           resolve_within(p, _roots_contained(child, parent))
    PROVE  resolve_within(p, child) /\ resolve_within(p, parent)
<1>1. PICK c \in child : <<p, c>> \in Under /\ resolve_within(c, parent)
  BY Zenon DEF resolve_within, _roots_contained
<1>2. PICK r \in parent : <<c, r>> \in Under
  BY <1>1, Zenon DEF resolve_within
<1>3. <<p, r>> \in Under
  BY <1>1, <1>2, CapabilityAssumption, Zenon
<1> QED
  BY <1>1, <1>3, Zenon DEF resolve_within

(* attenuate(parent, child) permits nothing the parent does not permit,    *)
(* and nothing the child did not declare.                                  *)
LEMMA AttenuateNarrows ==
    ASSUME NEW p \in Manifest, NEW c \in Manifest
    PROVE  NoWider(attenuate(p, c), p) /\ NoWider(attenuate(p, c), c)
<1> DEFINE a == attenuate(p, c)
<1>1. /\ a.tools = c.tools \cap p.tools /\ a.hosts = c.hosts \cap p.hosts
      /\ a.rules = c.rules \cap p.rules
      /\ a.read = _roots_contained(c.read, p.read)
      /\ a.write = _roots_contained(c.write, p.write)
      /\ a.budget = lower(c.budget, p.budget) /\ a.ceiling = lower(c.ceiling, p.ceiling)
  BY Zenon DEF attenuate
<1>2. /\ p.budget \in Nat /\ c.budget \in Nat /\ p.ceiling \in Levels /\ c.ceiling \in Levels
      /\ p.read \in SUBSET Paths /\ c.read \in SUBSET Paths
      /\ p.write \in SUBSET Paths /\ c.write \in SUBSET Paths
  BY Zenon DEF Manifest
<1> HIDE DEF a
<1>3. ASSUME NEW t \in Tools, check_tool(a, t) PROVE check_tool(p, t) /\ check_tool(c, t)
  BY <1>1, <1>3, Zenon DEF check_tool
<1>4. ASSUME NEW h \in Hosts, check_net(a, h) PROVE check_net(p, h) /\ check_net(c, h)
  BY <1>1, <1>4, Zenon DEF check_net
<1>5. ASSUME NEW q \in Paths, check_read(a, q) PROVE check_read(p, q) /\ check_read(c, q)
  BY <1>1, <1>2, <1>5, RootsNarrow DEF check_read
<1>6. ASSUME NEW q \in Paths, check_write(a, q) PROVE check_write(p, q) /\ check_write(c, q)
  BY <1>1, <1>2, <1>6, RootsNarrow DEF check_write
<1>7. ASSUME NEW x \in Commands, check_exec(a, x) PROVE check_exec(p, x) /\ check_exec(c, x)
  BY <1>1, <1>7, Zenon DEF check_exec
<1>8. ASSUME NEW l \in Levels, check_classification(a, l)
      PROVE  check_classification(p, l) /\ check_classification(c, l)
  BY <1>1, <1>2, <1>8 DEF check_classification, lower, Levels
<1>9. a.budget <= p.budget /\ a.budget <= c.budget
  BY <1>1, <1>2 DEF lower
<1> QED
  BY <1>3, <1>4, <1>5, <1>6, <1>7, <1>8, <1>9, Zenon DEF NoWider, a

(* "Permits no more than" is transitive along a delegation path. *)
LEMMA NoWiderTransitive ==
    ASSUME NEW m \in Manifest, NEW k \in Manifest, NEW o \in Manifest,
           NoWider(m, k), NoWider(k, o)
    PROVE  NoWider(m, o)
<1>1. m.budget <= o.budget
  BY DEF NoWider, Manifest
<1> QED
  BY <1>1, Zenon DEF NoWider

(* "Permits no more than" is reflexive. *)
LEMMA NoWiderReflexive ==
    ASSUME NEW m \in Manifest
    PROVE  NoWider(m, m)
<1>1. m.budget <= m.budget
  BY DEF Manifest
<1> QED
  BY <1>1, Zenon DEF NoWider

(* What effective_manifest keeps true while it walks down: the types, the  *)
(* bound of every ancestor, and what the loader accepted.                  *)
Inv == TypeOK /\ NeverBeyondPath /\ LoadedIsEffective

(* One edge of the walk appends a manifest and attenuates. *)
LEMMA DescendKeeps ==
    ASSUME Inv, NEW m \in Manifests, Descend(m)
    PROVE  Inv'
<1>1. m \in Manifest
  BY CapabilityAssumption, Zenon
<1>2. eff \in Manifest /\ path \in Seq(Manifest) /\ path # <<>> /\ loaded \in BOOLEAN
  BY Zenon DEF Inv, TypeOK
<1>3. /\ path' \in Seq(Manifest) /\ path' # <<>> /\ Len(path') = Len(path) + 1
      /\ path'[Len(path')] = m
      /\ \A i \in DOMAIN path' : (i \in DOMAIN path /\ path'[i] = path[i]) \/ path'[i] = m
  BY <1>1, <1>2 DEF Descend
<1>4. eff' = attenuate(eff, m) /\ eff' \in Manifest
  BY <1>1, <1>2, AttenuateType, Zenon DEF Descend
<1>5. loaded' \in BOOLEAN
  BY <1>2, Zenon DEF Descend
<1>6. TypeOK'
  BY <1>3, <1>4, <1>5, Zenon DEF TypeOK
<1>7. NeverBeyondPath'
  <2> SUFFICES ASSUME NEW i \in DOMAIN path' PROVE NoWider(eff', path'[i])
    BY Zenon DEF NeverBeyondPath
  <2>1. NoWider(eff', eff) /\ NoWider(eff', m)
    BY <1>1, <1>2, <1>4, AttenuateNarrows, Zenon
  <2>2. CASE path'[i] = m
    BY <2>1, <2>2, Zenon
  <2>3. CASE i \in DOMAIN path /\ path'[i] = path[i]
    <3>1. path[i] \in Manifest /\ NoWider(eff, path[i])
      BY <1>2, <2>3 DEF Inv, NeverBeyondPath
    <3> QED
      BY <1>2, <1>4, <2>1, <2>3, <3>1, NoWiderTransitive, Zenon
  <2> QED
    BY <1>3, <2>2, <2>3, Zenon
<1>8. LoadedIsEffective'
  <2> SUFFICES ASSUME loaded'
               PROVE  /\ eff'.tools = m.tools /\ eff'.hosts = m.hosts
                      /\ eff'.read = m.read /\ eff'.write = m.write
    BY <1>3, Zenon DEF LoadedIsEffective
  <2> DEFINE pm == path[Len(path)]
  <2>1. loaded /\ ~_reject_widening(pm, m)
    BY Zenon DEF Descend
  <2>2. eff.tools = pm.tools /\ eff.hosts = pm.hosts /\ eff.read = pm.read /\ eff.write = pm.write
    BY <2>1, Zenon DEF Inv, LoadedIsEffective
  <2>3. /\ m.tools \subseteq eff.tools /\ m.hosts \subseteq eff.hosts
        /\ _roots_contained(m.read, eff.read) = m.read
        /\ _roots_contained(m.write, eff.write) = m.write
    BY <2>1, <2>2, Zenon DEF _reject_widening
  <2>4. /\ eff'.tools = m.tools \cap eff.tools /\ eff'.hosts = m.hosts \cap eff.hosts
        /\ eff'.read = _roots_contained(m.read, eff.read)
        /\ eff'.write = _roots_contained(m.write, eff.write)
    BY <1>4, Zenon DEF attenuate
  <2> QED
    BY <2>3, <2>4, Zenon
<1> QED
  BY <1>6, <1>7, <1>8, Zenon DEF Inv

(* The root's effective manifest is the one it declares. *)
LEMMA InitKeeps == Init => Inv
<1> SUFFICES ASSUME Init PROVE Inv
  BY Zenon
<1>1. PICK m \in Manifests : path = <<m>> /\ eff = m /\ loaded = TRUE
  BY Zenon DEF Init
<1>2. m \in Manifest
  BY CapabilityAssumption, Zenon
<1>3. TypeOK
  BY <1>1, <1>2 DEF TypeOK
<1>4. NeverBeyondPath
  BY <1>1, <1>2, NoWiderReflexive DEF NeverBeyondPath
<1>5. LoadedIsEffective
  BY <1>1, Zenon DEF LoadedIsEffective
<1> QED
  BY <1>3, <1>4, <1>5, Zenon DEF Inv

(* The three together are an invariant of the walk. *)
THEOREM InvHolds == Spec => []Inv
<1>1. Inv /\ [Next]_vars => Inv'
  <2> SUFFICES ASSUME Inv, [Next]_vars PROVE Inv'
    BY Zenon
  <2>1. CASE Next
    BY <2>1, DescendKeeps, Zenon DEF Next
  <2>2. CASE UNCHANGED vars
    BY <2>2, Zenon DEF vars, Inv, TypeOK, NeverBeyondPath, LoadedIsEffective
  <2> QED
    BY <2>1, <2>2, Zenon
<1> QED
  BY <1>1, InitKeeps, PTL DEF Spec

(* capability.py, "Delegation is monotonic": at any depth of any path, the *)
(* effective manifest permits nothing that an ancestor, or the agent       *)
(* itself, does not declare.                                               *)
THEOREM Monotone == Spec => []NeverBeyondPath
BY InvHolds, PTL DEF Inv

(* team.py, _reject_widening: on a path the loader accepted, an agent has  *)
(* exactly the tools, hosts and roots its package declares.                *)
THEOREM Accepted == Spec => []LoadedIsEffective
BY InvHolds, PTL DEF Inv

(* orchestration.py, effective_manifest: each edge of the walk narrows.    *)
THEOREM EdgesNarrow == Spec => StepNarrows
<1>1. Inv /\ [Next]_vars => [NoWider(eff', eff)]_vars
  <2> SUFFICES ASSUME Inv, Next PROVE NoWider(eff', eff)
    BY Zenon
  <2>1. PICK m \in Manifests : Descend(m)
    BY Zenon DEF Next
  <2>2. m \in Manifest /\ eff \in Manifest
    BY CapabilityAssumption, Zenon DEF Inv, TypeOK
  <2> QED
    BY <2>1, <2>2, AttenuateNarrows, Zenon DEF Descend
<1> QED
  BY <1>1, InvHolds, PTL DEF Spec, StepNarrows

(* An effective manifest is a manifest at every depth. *)
THEOREM TypeCorrect == Spec => []TypeOK
BY InvHolds, PTL DEF Inv

(* policy.py, Policy.tighten: whatever policy is laid over an effective    *)
(* manifest, nothing but the classification ceiling can grow.              *)
THEOREM PolicyNarrows == Spec => []TighteningNarrows
<1>1. TypeOK => TighteningNarrows
  <2> SUFFICES ASSUME TypeOK, NEW pol \in Policies
               PROVE  NoWider(tighten(pol, eff), [eff EXCEPT !.ceiling = 3])
    BY Zenon DEF TighteningNarrows
  <2> DEFINE t == tighten(pol, eff)
             b == [eff EXCEPT !.ceiling = 3]
  <2>1. eff \in Manifest
    BY Zenon DEF TypeOK
  <2>2. /\ t.tools \subseteq b.tools /\ t.hosts \subseteq b.hosts
        /\ t.read = b.read /\ t.write = b.write /\ t.rules = b.rules
        /\ t.ceiling = b.ceiling /\ t.budget = b.budget /\ b.budget \in Nat
    BY <2>1, Zenon DEF tighten, cut, Manifest
  <2> QED
    BY <2>2 DEF NoWider, check_tool, check_net, check_read, check_write, check_exec,
                check_classification
<1> QED
  BY <1>1, TypeCorrect, PTL
-----------------------------------------------------------------------------
(***************************************************************************)
(* Updater.  What apply() may roll back to is what it read from the        *)
(* pointer, so it was healthy too.                                         *)
(***************************************************************************)
Good == Healthy \cup {NoVersion}
UpdaterStates == [pc: {"idle", "probe", "write", "switched", "rolled_back"},
                  version: Builds \cup {NoVersion}, previous: Good]
UpdaterInv == current \in Good /\ u \in [Updaters -> UpdaterStates]

(* apply(): the pointer names a healthy build at every moment, for any     *)
(* number of overlapping updates and crashes, if the first one was healthy. *)
THEOREM PointerIsHealthy == U!Spec => []PointsAtHealthy
<1>1. U!Init => UpdaterInv
  BY HomeAssumption DEF U!Init, UpdaterInv, UpdaterStates, U!Idle, Good
<1>2. UpdaterInv /\ [U!Next]_U!vars => UpdaterInv'
  <2> SUFFICES ASSUME UpdaterInv, [U!Next]_U!vars PROVE UpdaterInv'
    BY Zenon
  <2>1. CASE UNCHANGED U!vars
    BY <2>1, Zenon DEF UpdaterInv, U!vars
  <2>2. ASSUME NEW p \in Updaters, NEW v \in Builds, U!apply(p, v) PROVE UpdaterInv'
    BY <2>2, Zenon DEF UpdaterInv, U!apply, UpdaterStates
  <2>3. ASSUME NEW p \in Updaters, U!Probe(p) PROVE UpdaterInv'
    BY <2>3, Zenon DEF UpdaterInv, U!Probe, UpdaterStates
  <2>4. ASSUME NEW p \in Updaters, U!Write(p) PROVE UpdaterInv'
    BY <2>4, Zenon DEF UpdaterInv, U!Write, UpdaterStates, Good
  <2>5. ASSUME NEW p \in Updaters, U!Crash(p) PROVE UpdaterInv'
    BY <2>5, Zenon DEF UpdaterInv, U!Crash, UpdaterStates, U!Idle, Good
  <2> QED BY <2>1, <2>2, <2>3, <2>4, <2>5, Zenon DEF U!Next
<1>3. UpdaterInv => PointsAtHealthy
  BY Zenon DEF UpdaterInv, Good, PointsAtHealthy, U!PointsAtHealthy
<1> QED BY <1>1, <1>2, <1>3, PTL DEF U!Spec

-----------------------------------------------------------------------------
(***************************************************************************)
(* Settings.  A command that reached its save has stored the secret its    *)
(* entry names, and no step takes a secret out of the vault, so every copy *)
(* of the configuration stays closed while commands overlap.               *)
(***************************************************************************)
Vaults == [{Blob[m] : m \in Models} -> M!Secrets \cup {M!NoSecret}]
CommandStates == [pc: {"idle", "secret", "save"}, model: Models \cup {NoModel},
             entry: M!Entries, secret: M!Secrets \cup {M!NoSecret}, _data: M!Configs]

(* The entry a command is about to save. *)
Pending(c) ==
    /\ c.pc = "secret" => c.model \in Models /\ c.secret \in M!Secrets
    /\ c.model \in Models => c.entry # M!NoEntry
    /\ c.pc = "save" /\ c.model \in Models /\ c.entry.secret_ref => vault[Blob[c.model]] # M!NoSecret

SettingsInv ==
    /\ config \in M!Configs /\ vault \in Vaults /\ cmd \in [Procs -> CommandStates]
    /\ service = <<>> \/ \E data \in M!Configs : service = <<data>>
    /\ \A p \in Procs : Pending(cmd[p])
    /\ \A b \in DOMAIN vault : vault[b] = "word" => b \in misfits
    /\ M!SettingsClosed

(* Storing a secret keeps a closed configuration closed. *)
LEMMA StillClosed ==
    ASSUME NEW data \in M!Configs, vault \in Vaults, M!Closed(data),
           \A b \in DOMAIN vault : vault[b] # M!NoSecret => vault'[b] # M!NoSecret
    PROVE  /\ data.default_model # NoModel => data.models[data.default_model] # M!NoEntry
           /\ \A m \in Models : data.models[m].secret_ref => vault'[Blob[m]] # M!NoSecret
<1> QED BY Zenon DEF M!Closed, Vaults

(* add_model adds an entry whose secret is in the vault. *)
LEMMA AddKeepsClosed ==
    ASSUME NEW data \in M!Configs, NEW m \in Models, NEW entry \in M!Entries,
           NoModel \notin Models, M!Closed(data), entry # M!NoEntry,
           entry.secret_ref => vault[Blob[m]] # M!NoSecret
    PROVE  M!add_model(data, m, entry) \in M!Configs /\ M!Closed(M!add_model(data, m, entry))
<1>1. M!add_model(data, m, entry) \in M!Configs
  BY Zenon DEF M!add_model, M!Configs
<1> QED BY <1>1, Zenon DEF M!add_model, M!Configs, M!Closed

(* Init. *)
LEMMA SettingsInit == NoModel \notin Models /\ M!Init => SettingsInv
<1> SUFFICES ASSUME NoModel \notin Models, M!Init PROVE SettingsInv
  BY Zenon
<1>1. M!NoEntry \in M!Entries /\ ~M!NoEntry.secret_ref
  BY Zenon DEF M!NoEntry, M!Entries
<1>2. M!_DEFAULTS \in M!Configs /\ M!Closed(M!_DEFAULTS)
  BY <1>1, Zenon DEF M!_DEFAULTS, M!Configs, M!Closed
<1>3. M!Idle \in CommandStates /\ Pending(M!Idle) /\ M!Idle._data = M!_DEFAULTS
  BY <1>1, <1>2, Zenon DEF M!Idle, CommandStates, Pending
<1>4. vault \in Vaults /\ \A b \in DOMAIN vault : vault[b] # "word"
  BY Zenon DEF M!Init, Vaults, M!NoSecret
<1>5. adapter.result = "none"
  BY Zenon DEF M!Init, M!Unbuilt
<1> QED BY <1>2, <1>3, <1>4, <1>5, Zenon DEF M!Init, SettingsInv, M!SettingsClosed

(* Every step keeps all copies closed. *)
LEMMA SettingsStep == NoModel \notin Models /\ SettingsInv /\ [M!Next]_M!vars => SettingsInv'
<1> SUFFICES ASSUME NoModel \notin Models, SettingsInv, [M!Next]_M!vars PROVE SettingsInv'
  BY Zenon
<1>1. M!NoEntry \in M!Entries /\ ~M!NoEntry.secret_ref
  BY Zenon DEF M!NoEntry, M!Entries
<1>2. M!_DEFAULTS \in M!Configs /\ M!Closed(M!_DEFAULTS)
  BY <1>1, Zenon DEF M!_DEFAULTS, M!Configs, M!Closed
<1>3. M!Idle \in CommandStates /\ Pending(M!Idle) /\ M!Idle._data = M!_DEFAULTS /\ M!Idle.model = NoModel
  BY <1>1, <1>2, Zenon DEF M!Idle, CommandStates, Pending
<1>4. CASE UNCHANGED M!vars
  BY <1>4, Zenon DEF M!vars, SettingsInv, M!SettingsClosed, M!Closed, Pending
<1>5. ASSUME NEW p \in Procs, M!Load(p) PROVE SettingsInv'
  <2>1. PICK c \in CommandStates : cmd' = [cmd EXCEPT ![p] = c] /\ Pending(c) /\ c._data = config
    <3>1. ASSUME NEW m \in Models, NEW kind \in M!Kinds, NEW secret \in M!Secrets \cup {M!NoSecret},
                 cmd' = [cmd EXCEPT ![p] =
                            [pc |-> IF secret = M!NoSecret THEN "save" ELSE "secret", model |-> m,
                             entry |-> [kind |-> kind, secret_ref |-> secret # M!NoSecret],
                             secret |-> secret, _data |-> config]]
          PROVE  \E c \in CommandStates :
                    cmd' = [cmd EXCEPT ![p] = c] /\ Pending(c) /\ c._data = config
      <4> DEFINE e == [kind |-> kind, secret_ref |-> secret # M!NoSecret]
                 c == [pc |-> IF secret = M!NoSecret THEN "save" ELSE "secret", model |-> m, entry |-> e,
                       secret |-> secret, _data |-> config]
      <4>1. e \in M!Entries /\ e # M!NoEntry /\ e.secret_ref = (secret # M!NoSecret)
        BY Zenon DEF M!Entries, M!NoEntry, M!Kinds
      <4> HIDE DEF e
      <4>2. c \in CommandStates /\ Pending(c) /\ c._data = config
        BY <4>1, Zenon DEF SettingsInv, CommandStates, Pending
      <4> QED BY <3>1, <4>2, Zenon DEF e
    <3>2. CASE cmd' = [cmd EXCEPT ![p] = [M!Idle EXCEPT !.pc = "save", !._data = config]]
      <4> DEFINE c == [M!Idle EXCEPT !.pc = "save", !._data = config]
      <4>1. c \in CommandStates /\ Pending(c) /\ c._data = config
        BY <1>1, Zenon DEF SettingsInv, CommandStates, Pending, M!Idle
      <4> QED BY <3>2, <4>1, Zenon
    <3> QED BY <1>5, <3>1, <3>2, Zenon DEF M!Load
  <2>2. UNCHANGED <<config, vault, service, adapter, misfits>>
    BY <1>5, Zenon DEF M!Load
  <2> QED BY <2>1, <2>2, Zenon DEF SettingsInv, M!SettingsClosed, M!Closed, Pending
<1>6. ASSUME NEW p \in Procs, M!store_secret(p) PROVE SettingsInv'
  <2>1. cmd[p] \in CommandStates /\ cmd[p].pc = "secret" /\ cmd[p].model \in Models /\ cmd[p].secret \in M!Secrets
    BY <1>6, Zenon DEF M!store_secret, SettingsInv, Pending
  <2>2. M!NoSecret \notin M!Secrets
    BY Zenon DEF M!NoSecret, M!Secrets
  <2>3. vault' = [vault EXCEPT ![Blob[cmd[p].model]] = cmd[p].secret]
    BY <1>6, Zenon DEF M!store_secret
  <2>4. vault' \in Vaults /\ \A b \in DOMAIN vault : vault[b] # M!NoSecret => vault'[b] # M!NoSecret
    BY <2>1, <2>2, <2>3, Zenon DEF SettingsInv, Vaults
  <2>5. vault'[Blob[cmd[p].model]] # M!NoSecret
    BY <2>1, <2>2, <2>3, Zenon DEF SettingsInv, Vaults
  <2>6. misfits \subseteq misfits' /\ \A b \in DOMAIN vault' : vault'[b] = "word" => b \in misfits'
    BY <1>6, <2>1, <2>3, Zenon DEF M!store_secret, SettingsInv, Vaults
  <2>7. cmd' = [cmd EXCEPT ![p].pc = "save"] /\ UNCHANGED <<config, service, adapter>>
    BY <1>6, Zenon DEF M!store_secret
  <2>8. cmd' \in [Procs -> CommandStates] /\ \A k \in Procs : cmd'[k]._data = cmd[k]._data
    BY <2>7, Zenon DEF SettingsInv, CommandStates
  <2>9. \A k \in Procs : Pending(cmd[k])'
    BY <2>4, <2>1, <2>5, <2>7, Zenon DEF SettingsInv, Pending, CommandStates, Vaults
  <2>10. \A data \in M!Configs : M!Closed(data) => M!Closed(data)'
    BY <2>4, StillClosed, Zenon DEF M!Closed, SettingsInv
  <2>11. M!SettingsClosed'
    <3>1. M!Closed(config)' /\ \A k \in Procs : M!Closed(cmd[k]._data)'
      <4>1. \A k \in Procs : cmd[k]._data \in M!Configs /\ M!Closed(cmd[k]._data)
        BY Zenon DEF SettingsInv, CommandStates, M!SettingsClosed
      <4> QED BY <2>7, <2>8, <2>10, <4>1, Zenon DEF SettingsInv, M!SettingsClosed, M!Closed
    <3>2. CASE service # <<>>
      <4>1. PICK data \in M!Configs : service = <<data>>
        BY <3>2, Zenon DEF SettingsInv
      <4>2. service[1] = data
        BY <4>1
      <4>3. M!Closed(data) /\ M!Closed(data)'
        BY <2>10, <3>2, <4>2, Zenon DEF SettingsInv, M!SettingsClosed
      <4> QED BY <2>6, <2>7, <3>1, <4>2, <4>3, Zenon DEF SettingsInv, M!SettingsClosed, M!Closed
    <3>3. CASE service = <<>>
      BY <2>6, <2>7, <3>1, <3>3, Zenon DEF SettingsInv, M!SettingsClosed
    <3> QED BY <3>2, <3>3, Zenon
  <2> QED BY <2>4, <2>7, <2>8, <2>9, <2>11, <2>6, Zenon DEF SettingsInv
<1>7. ASSUME NEW p \in Procs, M!save(p) PROVE SettingsInv'
  <2>1. cmd[p] \in CommandStates /\ Pending(cmd[p]) /\ M!Closed(cmd[p]._data) /\ cmd[p].pc = "save"
    BY <1>7, Zenon DEF M!save, SettingsInv, M!SettingsClosed
  <2>2. config' \in M!Configs /\ M!Closed(config')
    <3>1. CASE cmd[p].model = NoModel
      BY <1>7, <2>1, <3>1, Zenon DEF M!save, CommandStates
    <3>2. CASE cmd[p].model # NoModel
      <4>1. cmd[p].model \in Models /\ cmd[p].entry \in M!Entries /\ cmd[p]._data \in M!Configs
        BY <2>1, <3>2, Zenon DEF CommandStates
      <4>2. config' = M!add_model(cmd[p]._data, cmd[p].model, cmd[p].entry)
        BY <1>7, <3>2, Zenon DEF M!save
      <4> QED BY <2>1, <4>1, <4>2, AddKeepsClosed, Zenon DEF Pending
    <3> QED BY <3>1, <3>2, Zenon
  <2>3. cmd' = [cmd EXCEPT ![p] = M!Idle] /\ UNCHANGED <<vault, service, adapter, misfits>>
    BY <1>7, Zenon DEF M!save
  <2> QED BY <1>2, <1>3, <2>2, <2>3, Zenon DEF SettingsInv, M!SettingsClosed, M!Closed, Pending
<1>8. ASSUME NEW p \in Procs, M!Kill(p) PROVE SettingsInv'
  BY <1>2, <1>3, <1>8, Zenon DEF M!Kill, SettingsInv, M!SettingsClosed, M!Closed, Pending
<1>9. CASE M!StartService
  <2>1. service' = <<config>> /\ adapter'.result = "none" /\ UNCHANGED <<config, vault, cmd, misfits>>
    BY <1>9, Zenon DEF M!StartService, M!Unbuilt
  <2> QED BY <2>1, Zenon DEF SettingsInv, M!SettingsClosed, M!Closed, Pending
<1>10. ASSUME NEW m \in Models, M!Build(m) PROVE SettingsInv'
  <2>1. PICK data \in M!Configs : service = <<data>> /\ M!Closed(data)
    <3>1. service # <<>> /\ M!Closed(service[1])
      BY <1>10, Zenon DEF M!Build, SettingsInv, M!SettingsClosed
    <3>2. PICK data \in M!Configs : service = <<data>>
      BY <3>1, Zenon DEF SettingsInv
    <3>3. service[1] = data
      BY <3>2
    <3> QED BY <3>1, <3>2, <3>3, Zenon
  <2> DEFINE entry == data.models[m]
             secret == IF entry.secret_ref THEN vault[Blob[m]] ELSE M!NoSecret
  <2>2. /\ adapter' = [model |-> m, result |-> IF entry = M!NoEntry THEN "no model configured"
                                               ELSE M!build_adapter(entry, secret)]
        /\ UNCHANGED <<config, vault, cmd, service, misfits>>
    BY <1>10, <2>1, Zenon DEF M!Build
  <2>3. entry \in M!Entries /\ vault[Blob[m]] \in M!Secrets \cup {M!NoSecret} /\ Blob[m] \in DOMAIN vault
    <3>1. data.models \in [Models -> M!Entries]
      BY <2>1, Zenon DEF M!Configs
    <3>2. vault \in Vaults /\ Blob[m] \in {Blob[k] : k \in Models}
      BY Zenon DEF SettingsInv
    <3> QED BY <3>1, <3>2, Zenon DEF Vaults
  <2>4. entry.secret_ref => vault[Blob[m]] # M!NoSecret
    BY <2>1, Zenon DEF M!Closed
  <2> HIDE DEF entry
  <2>5. adapter'.result = "requires a stored secret" => ~entry.secret_ref
    BY <2>2, <2>3, <2>4, Zenon DEF M!build_adapter, M!Entries, M!Kinds, M!NoEntry
  <2>6. adapter'.result = "secret must be access:secret:region" /\ entry.secret_ref => vault[Blob[m]] = "word"
    BY <2>2, <2>3, <2>4, Zenon DEF M!build_adapter, M!Entries, M!Kinds, M!NoEntry, M!Secrets
  <2>7. adapter'.model = m /\ service'[1].models[m] = entry
    BY <2>1, <2>2, Zenon DEF entry
  <2> QED BY <2>1, <2>2, <2>3, <2>5, <2>6, <2>7, Zenon DEF SettingsInv, M!SettingsClosed, M!Closed, Pending
<1> QED BY <1>4, <1>5, <1>6, <1>7, <1>8, <1>9, <1>10, Zenon DEF M!Next

(* cmd_model_add and save(): for any models and any number of overlapping,  *)
(* dying commands and restarts of the service, every copy of the           *)
(* configuration is closed, no kernel lacks a secret that was given, and   *)
(* one that cannot split its secret was given one without three parts.     *)
THEOREM SettingsStayClosed == M!Spec => []SettingsClosed
<1>1. M!Init => SettingsInv
  BY HomeAssumption, SettingsInit, Zenon
<1>2. SettingsInv /\ [M!Next]_M!vars => SettingsInv'
  BY HomeAssumption, SettingsStep, Zenon
<1>3. SettingsInv => SettingsClosed
  BY Zenon DEF SettingsInv, SettingsClosed
<1> QED BY <1>1, <1>2, <1>3, PTL DEF M!Spec

-----------------------------------------------------------------------------
(***************************************************************************)
(* Packages.  While updates come one at a time the shadow that is promoted *)
(* is the one that was tested, and the index that is saved is the one that *)
(* was loaded.                                                             *)
(***************************************************************************)
(* The file is there and verify_package accepts it. *)
Verified(f) == f # NoFile /\ P!verify_package(f) = "ok"

Indexes == [Names -> Versions \cup {NoVersion}]
Working == [pc: {"copy", "copying", "shadow", "shadowing", "test", "index"}, file: Offered]
IsTested(o) == o = [pc |-> "promote", file |-> o.file, passed |-> o.passed] /\ o.file \in Offered
IsLoaded(o) == /\ o = [pc |-> "save", file |-> o.file, idx |-> o.idx]
               /\ o.file \in Offered /\ o.idx \in Indexes

PackageTypes ==
    /\ disk = [p \in P!Places |-> disk[p]] /\ shadow = [p \in P!Places |-> shadow[p]]
    /\ index \in Indexes /\ op = [k \in Procs |-> op[k]]
    /\ \A k \in Procs : op[k] = P!Idle \/ op[k] \in Working \/ IsTested(op[k]) \/ IsLoaded(op[k])

(* One process at a time. *)
Alone ==
    /\ ~untested
    /\ \A j, k \in Procs : op[j] # P!Idle /\ op[k] # P!Idle => j = k
    /\ \A k \in Procs : op[k].pc = "promote" => shadow[P!PathOf(op[k].file)] = op[k].passed
    /\ \A k \in Procs : op[k].pc = "save" => op[k].idx = index

(* And nothing installed in place or revoked. *)
Updating ==
    /\ \A k \in Procs : op[k].pc \notin {"copy", "copying"}
    /\ \A k \in Procs : op[k].pc = "promote" => Verified(op[k].passed)
    /\ \A k \in Procs : op[k].pc \in {"index", "save"} => Verified(disk[P!PathOf(op[k].file)])
    /\ \A name \in Names : index[name] # NoVersion => Verified(disk[<<name, index[name]>>])

PackagesInv ==
    /\ PackageTypes
    /\ ~exposed => revoked = {}
    /\ ~overlapped => Alone
    /\ ~overlapped /\ ~exposed => Updating

(* Init. *)
LEMMA PackagesInit == PackageFiles /\ StockVerifies /\ P!Init => PackagesInv
<1> SUFFICES ASSUME PackageFiles, StockVerifies, P!Init PROVE PackagesInv
  BY Zenon
<1>1. op = [k \in Procs |-> P!Idle] /\ \A k \in Procs : op[k] = P!Idle /\ op[k].pc = "idle"
  BY Zenon DEF P!Init, P!Idle
<1>2. ASSUME NEW name \in Names
      PROVE  /\ index[name] \in Versions \cup {NoVersion}
             /\ index[name] # NoVersion => Verified(disk[<<name, index[name]>>])
  <2>1. CASE \E f \in Stocked : f.name = name
    <3> DEFINE g == CHOOSE f \in Stocked : f.name = name
    <3>1. g \in Stocked /\ g.name = name /\ index[name] = g.version
      BY <2>1, Zenon DEF P!Init
    <3> HIDE DEF g
    <3> DEFINE p == <<name, g.version>>
               h == CHOOSE f \in Stocked : P!PathOf(f) = p
    <3>2. P!PathOf(g) = p /\ p \in P!Places
      BY <3>1, Zenon DEF P!PathOf, P!Places, PackageFiles
    <3>3. h \in Stocked /\ P!PathOf(h) = p
      BY <3>1, <3>2, Zenon
    <3>4. disk[p] = h
      BY <3>1, <3>2, Zenon DEF P!Init
    <3> HIDE DEF h
    <3>5. Verified(h)
      BY <3>3, Zenon DEF Verified, P!verify_package, StockVerifies, P!Init
    <3> QED BY <3>1, <3>4, <3>5, Zenon DEF PackageFiles
  <2>2. CASE ~\E f \in Stocked : f.name = name
    BY <2>2, Zenon DEF P!Init
  <2> QED BY <2>1, <2>2, Zenon
<1>3. index \in Indexes
  BY <1>2, Zenon DEF P!Init, Indexes
<1>4. PackageTypes
  BY <1>1, <1>3, Zenon DEF P!Init, PackageTypes
<1> QED BY <1>1, <1>2, <1>4, Zenon DEF P!Init, PackagesInv, Alone, Updating

(* Where the files of a process are. *)
LEMMA OpFacts ==
    ASSUME PackageFiles, PackageTypes, NEW k \in Procs, op[k] # P!Idle
    PROVE  /\ op[k].file \in Offered /\ P!PathOf(op[k].file) \in P!Places
           /\ op[k].file.name \in Names /\ op[k].file.version \in Versions
           /\ op[k].pc = "promote" => IsTested(op[k])
           /\ op[k].pc = "save" => IsLoaded(op[k])
           /\ op[k].pc \notin {"promote", "save"} => op[k] \in Working
<1>1. op[k] \in Working \/ IsTested(op[k]) \/ IsLoaded(op[k])
  BY Zenon DEF PackageTypes
<1>2. ASSUME op[k] \in Working PROVE op[k].file \in Offered /\ op[k].pc \notin {"promote", "save"}
  BY <1>2, Zenon DEF Working
<1>3. ASSUME IsTested(op[k]) PROVE op[k].file \in Offered /\ op[k].pc = "promote"
  BY <1>3 DEF IsTested
<1>4. ASSUME IsLoaded(op[k]) PROVE op[k].file \in Offered /\ op[k].pc = "save"
  BY <1>4 DEF IsLoaded
<1>5. op[k].file \in Offered
  BY <1>1, <1>2, <1>3, <1>4, Zenon
<1> QED BY <1>1, <1>2, <1>3, <1>4, <1>5, Zenon DEF PackageFiles, P!PathOf, P!Places

(* A step of process k of the registry. *)
Moves(k, o) == op' = [j \in Procs |-> IF j = k THEN o ELSE op[j]]

(* A step of one process keeps the types. *)
LEMMA TypesKept ==
    ASSUME PackageTypes, NEW k \in Procs, NEW o, Moves(k, o),
           o = P!Idle \/ o \in Working \/ IsTested(o) \/ IsLoaded(o),
           \/ UNCHANGED disk
           \/ \E p, v : disk' = [disk EXCEPT ![p] = v],
           \/ UNCHANGED shadow
           \/ \E p, v : shadow' = [shadow EXCEPT ![p] = v],
           index' \in Indexes
    PROVE  PackageTypes'
<1>1. disk' = [p \in P!Places |-> disk'[p]]
  BY Zenon DEF PackageTypes
<1>2. shadow' = [p \in P!Places |-> shadow'[p]]
  BY Zenon DEF PackageTypes
<1>3. op' = [j \in Procs |-> op'[j]] /\ op'[k] = o /\ \A j \in Procs \ {k} : op'[j] = op[j]
  BY Zenon DEF Moves
<1> QED BY <1>1, <1>2, <1>3, Zenon DEF PackageTypes

(* A process that is alone: what it leaves behind is all there is to know. *)
LEMMA AloneKept ==
    ASSUME NEW k \in Procs, NEW o, Moves(k, o), \A j \in Procs \ {k} : op[j] = P!Idle,
           ~untested', o.pc = "promote" => shadow'[P!PathOf(o.file)] = o.passed,
           o.pc = "save" => o.idx = index'
    PROVE  Alone'
<1>1. op'[k] = o /\ \A j \in Procs \ {k} : op'[j] = P!Idle /\ op'[j].pc = "idle"
  BY DEF Moves, P!Idle
<1> QED BY <1>1, Zenon DEF Alone, P!PathOf

(* What is known of the update of a process survives a step that leaves its files alone. *)
LEMMA UpdatingKept ==
    ASSUME NEW k \in Procs, NEW o, Moves(k, o), \A j \in Procs \ {k} : op[j] = P!Idle,
           UNCHANGED revoked, o.pc \notin {"copy", "copying"},
           o.pc = "promote" => Verified(o.passed),
           o.pc \in {"index", "save"} => Verified(disk'[P!PathOf(o.file)]),
           \A name \in Names : index'[name] # NoVersion => Verified(disk'[<<name, index'[name]>>])
    PROVE  Updating'
<1>1. op'[k] = o /\ \A j \in Procs \ {k} : op'[j] = P!Idle /\ op'[j].pc = "idle"
  BY DEF Moves, P!Idle
<1>2. \A f : Verified(f) => (f # NoFile /\ P!verify_package(f)' = "ok")
  BY Zenon DEF Verified, P!verify_package, P!PathOf
<1> QED BY <1>1, <1>2, Zenon DEF Updating, Verified, P!PathOf

(* The only process at work. *)
LEMMA OnlyOne ==
    ASSUME Alone, NEW k \in Procs, op[k] # P!Idle
    PROVE  \A j \in Procs \ {k} : op[j] = P!Idle
  BY Zenon DEF Alone

(* Every step of the registry keeps the invariant. *)
LEMMA PackagesStep == PackageFiles /\ PackagesInv /\ [P!Next]_P!vars => PackagesInv'
<1> SUFFICES ASSUME PackageFiles, PackagesInv, [P!Next]_P!vars PROVE PackagesInv'
  BY Zenon
<1> USE DEF P!stored, P!flags, P!history
<1>1. PackageTypes /\ index \in Indexes /\ op = [k \in Procs |-> op[k]]
  BY ZenonT(60) DEF PackagesInv, PackageTypes
<1>2. ASSUME UNCHANGED P!vars PROVE PackagesInv'
  BY <1>2, ZenonT(60) DEF P!vars, PackagesInv, PackageTypes, Alone, Updating, Verified, P!verify_package, P!PathOf, IsTested, IsLoaded
<1>3. ASSUME NEW k \in Procs, NEW f \in Offered, NEW kind \in {"install", "update"}, P!Begin(k, kind, f)
      PROVE  PackagesInv'
  <2> DEFINE o == [pc |-> IF kind = "install" THEN "copy" ELSE "shadow", file |-> f]
  <2>1. Moves(k, o) /\ o \in Working /\ UNCHANGED <<disk, shadow, index, revoked, untested>>
    BY <1>1, <1>3, Zenon DEF P!Begin, Moves, Working
  <2>2. PackageTypes'
    BY <1>1, <2>1, TypesKept, Zenon
  <2>3. /\ ~overlapped' => ~overlapped /\ \A j \in Procs : op[j] = P!Idle
        /\ ~exposed' => ~exposed /\ kind # "install"
    BY <1>3, Zenon DEF P!Begin
  <2>4. ~overlapped' => Alone'
    <3> SUFFICES ASSUME ~overlapped' PROVE Alone'
      BY Zenon
    <3>1. ~untested'
      BY <2>1, <2>3, Zenon DEF PackagesInv, Alone
    <3>2. o.pc \notin {"promote", "save"}
      BY Zenon
    <3> QED BY <2>1, <2>3, <3>1, <3>2, AloneKept, Zenon
  <2>5. ~overlapped' /\ ~exposed' => Updating'
    <3> SUFFICES ASSUME ~overlapped', ~exposed' PROVE Updating'
      BY Zenon
    <3>1. o.pc = "shadow"
      BY <2>3, Zenon
    <3>2. \A name \in Names : index'[name] # NoVersion => Verified(disk'[<<name, index'[name]>>])
      BY <2>1, <2>3, Zenon DEF PackagesInv, Updating
    <3> QED BY <2>1, <2>3, <3>1, <3>2, UpdatingKept, Zenon
  <2> QED BY <2>1, <2>2, <2>3, <2>4, <2>5, Zenon DEF PackagesInv
<1>4. ASSUME NEW k \in Procs, P!CopyBegins(k) \/ P!CopyEnds(k) PROVE PackagesInv'
  <2> DEFINE o == [pc |-> IF op[k].pc = "copy" THEN "copying" ELSE "index", file |-> op[k].file]
  <2>1. op[k].pc \in {"copy", "copying"} /\ op[k] # P!Idle /\ op[k] \in Working
    BY <1>1, <1>4, OpFacts DEF P!CopyBegins, P!CopyEnds, P!Idle
  <2>2. Moves(k, o)
    BY <1>1, <1>4, <2>1, Zenon DEF P!CopyBegins, P!CopyEnds, P!Goto, Moves, Working
  <2>3. /\ \E p, v : disk' = [disk EXCEPT ![p] = v]
        /\ UNCHANGED <<shadow, index, revoked, untested, overlapped, exposed>>
    BY <1>4, Zenon DEF P!CopyBegins, P!CopyEnds
  <2>4. PackageTypes'
    <3>1. o \in Working
      BY <2>1, Zenon DEF Working
    <3> QED BY <1>1, <2>2, <2>3, <3>1, TypesKept, Zenon
  <2>5. ~overlapped => Alone'
    <3> SUFFICES ASSUME ~overlapped PROVE Alone'
      BY Zenon
    <3>1. ~untested' /\ \A j \in Procs \ {k} : op[j] = P!Idle
      BY <2>1, <2>3, OnlyOne, Zenon DEF PackagesInv, Alone
    <3>2. o.pc \notin {"promote", "save"}
      BY Zenon
    <3> QED BY <2>2, <3>1, <3>2, AloneKept, Zenon
  <2>6. overlapped \/ exposed
    BY <2>1, Zenon DEF PackagesInv, Updating
  <2> QED BY <2>3, <2>4, <2>5, <2>6, Zenon DEF PackagesInv
<1>5. ASSUME NEW k \in Procs, P!ShadowBegins(k) \/ P!ShadowEnds(k) PROVE PackagesInv'
  <2> DEFINE o == [pc |-> IF op[k].pc = "shadow" THEN "shadowing" ELSE "test", file |-> op[k].file]
  <2>1. op[k].pc \in {"shadow", "shadowing"} /\ op[k] # P!Idle /\ op[k] \in Working
    BY <1>1, <1>5, OpFacts DEF P!ShadowBegins, P!ShadowEnds, P!Idle
  <2>2. Moves(k, o)
    BY <1>1, <1>5, <2>1, Zenon DEF P!ShadowBegins, P!ShadowEnds, P!Goto, Moves, Working
  <2>3. /\ \E p, v : shadow' = [shadow EXCEPT ![p] = v]
        /\ UNCHANGED <<disk, index, revoked, untested, overlapped, exposed>>
    BY <1>5, Zenon DEF P!ShadowBegins, P!ShadowEnds
  <2>4. PackageTypes'
    <3>1. o \in Working
      BY <2>1, Zenon DEF Working
    <3> QED BY <1>1, <2>2, <2>3, <3>1, TypesKept, Zenon
  <2>5. o.pc \notin {"promote", "save", "index", "copy", "copying"}
    BY Zenon
  <2>6. ~overlapped => Alone'
    <3> SUFFICES ASSUME ~overlapped PROVE Alone'
      BY Zenon
    <3>1. ~untested' /\ \A j \in Procs \ {k} : op[j] = P!Idle
      BY <2>1, <2>3, OnlyOne, Zenon DEF PackagesInv, Alone
    <3> QED BY <2>2, <2>5, <3>1, AloneKept, Zenon
  <2>7. ~overlapped /\ ~exposed => Updating'
    <3> SUFFICES ASSUME ~overlapped, ~exposed PROVE Updating'
      BY Zenon
    <3>1. \A j \in Procs \ {k} : op[j] = P!Idle
      BY <2>1, OnlyOne, Zenon DEF PackagesInv
    <3>2. \A name \in Names : index'[name] # NoVersion => Verified(disk'[<<name, index'[name]>>])
      BY <2>3, Zenon DEF PackagesInv, Updating
    <3> QED BY <2>2, <2>3, <2>5, <3>1, <3>2, UpdatingKept, Zenon
  <2> QED BY <2>3, <2>4, <2>6, <2>7, Zenon DEF PackagesInv
<1>6. ASSUME NEW k \in Procs, NEW passed \in BOOLEAN, P!run_selftests(k, passed) PROVE PackagesInv'
  <2> DEFINE p == P!PathOf(op[k].file)
             o == IF ~passed THEN P!Idle
                  ELSE [pc |-> "promote", file |-> op[k].file, passed |-> shadow[p]]
  <2>1. op[k].pc = "test" /\ op[k] # P!Idle /\ op[k].file \in Offered
    BY <1>1, <1>6, OpFacts DEF P!run_selftests, P!Idle
  <2>2. /\ Moves(k, o) /\ UNCHANGED <<disk, index, revoked, untested, overlapped, exposed>>
        /\ shadow[p] # NoFile /\ (passed => P!verify_package(shadow[p]) = "ok")
        /\ UNCHANGED shadow \/ \E a, v : shadow' = [shadow EXCEPT ![a] = v]
        /\ passed => UNCHANGED shadow
    BY <1>1, <1>6, Zenon DEF P!run_selftests, Moves
  <2>3. o = P!Idle \/ IsTested(o)
    BY <2>1, Zenon DEF IsTested
  <2>4. PackageTypes'
    BY <1>1, <2>2, <2>3, TypesKept, Zenon
  <2>5. /\ o.pc \notin {"save", "index", "copy", "copying"}
        /\ o.pc = "promote" => passed /\ o.file = op[k].file /\ o.passed = shadow[p]
    BY Zenon DEF P!Idle
  <2> HIDE DEF o
  <2>6. ~overlapped => Alone'
    <3> SUFFICES ASSUME ~overlapped PROVE Alone'
      BY Zenon
    <3>1. ~untested' /\ \A j \in Procs \ {k} : op[j] = P!Idle
      BY <2>1, <2>2, OnlyOne, Zenon DEF PackagesInv, Alone
    <3> QED BY <2>2, <2>5, <3>1, AloneKept, Zenon
  <2>7. ~overlapped /\ ~exposed => Updating'
    <3> SUFFICES ASSUME ~overlapped, ~exposed PROVE Updating'
      BY Zenon
    <3>1. \A j \in Procs \ {k} : op[j] = P!Idle
      BY <2>1, OnlyOne, Zenon DEF PackagesInv
    <3>2. \A name \in Names : index'[name] # NoVersion => Verified(disk'[<<name, index'[name]>>])
      BY <2>2, Zenon DEF PackagesInv, Updating
    <3>3. o.pc = "promote" => Verified(o.passed)
      BY <2>2, <2>5, Zenon DEF Verified
    <3> QED BY <2>2, <2>5, <3>1, <3>2, <3>3, UpdatingKept, Zenon
  <2> QED BY <2>2, <2>4, <2>6, <2>7, Zenon DEF PackagesInv
<1>7. ASSUME NEW k \in Procs, P!Promote(k) PROVE PackagesInv'
  <2> DEFINE p == P!PathOf(op[k].file)
             o == [pc |-> "index", file |-> op[k].file]
  <2>1. op[k].pc = "promote" /\ op[k] # P!Idle /\ op[k].file \in Offered /\ p \in P!Places
    BY <1>1, <1>7, OpFacts DEF P!Promote, P!Idle
  <2>2. /\ Moves(k, o) /\ disk' = [disk EXCEPT ![p] = shadow[p]]
        /\ shadow' = [shadow EXCEPT ![p] = NoFile]
        /\ untested' = (untested \/ shadow[p] # op[k].passed)
        /\ UNCHANGED <<index, revoked, overlapped, exposed>>
    BY <1>1, <1>7, Zenon DEF P!Promote, Moves
  <2>3. o \in Working
    BY <2>1, Zenon DEF Working
  <2>4. PackageTypes'
    BY <1>1, <2>2, <2>3, TypesKept, Zenon
  <2>5. ~overlapped => Alone'
    <3> SUFFICES ASSUME ~overlapped PROVE Alone'
      BY Zenon
    <3>1. ~untested' /\ \A j \in Procs \ {k} : op[j] = P!Idle
      BY <2>1, <2>2, OnlyOne, Zenon DEF PackagesInv, Alone
    <3>2. o.pc \notin {"promote", "save"}
      BY Zenon
    <3> QED BY <2>2, <3>1, <3>2, AloneKept, Zenon
  <2>6. ~overlapped /\ ~exposed => Updating'
    <3> SUFFICES ASSUME ~overlapped, ~exposed PROVE Updating'
      BY Zenon
    <3>1. \A j \in Procs \ {k} : op[j] = P!Idle
      BY <2>1, OnlyOne, Zenon DEF PackagesInv
    <3>2. Verified(shadow[p])
      BY <2>1, Zenon DEF PackagesInv, Alone, Updating
    <3>3. disk'[p] = shadow[p] /\ \A r \in P!Places \ {p} : disk'[r] = disk[r]
      BY <1>1, <2>1, <2>2, Zenon DEF PackageTypes
    <3>4. \A name \in Names : index'[name] # NoVersion => Verified(disk'[<<name, index'[name]>>])
      BY <1>1, <2>2, <3>2, <3>3, Zenon DEF PackagesInv, Updating, P!Places, Indexes
    <3>5. o.pc = "index" /\ o.file = op[k].file
      BY Zenon
    <3> HIDE DEF o
    <3> QED BY <2>2, <3>1, <3>2, <3>3, <3>4, <3>5, UpdatingKept, Zenon
  <2> QED BY <2>2, <2>4, <2>5, <2>6, Zenon DEF PackagesInv
<1>8. ASSUME NEW k \in Procs, P!ShadowGone(k) \/ P!Crash(k) PROVE PackagesInv'
  <2>1. op[k] # P!Idle /\ Moves(k, P!Idle)
        /\ UNCHANGED <<disk, shadow, index, revoked, untested, overlapped, exposed>>
    BY <1>1, <1>8 DEF P!ShadowGone, P!Crash, P!Idle, Moves
  <2>2. PackageTypes'
    BY <1>1, <2>1, TypesKept, Zenon
  <2>3. P!Idle.pc = "idle"
    BY Zenon DEF P!Idle
  <2>4. ~overlapped => Alone'
    <3> SUFFICES ASSUME ~overlapped PROVE Alone'
      BY Zenon
    <3>1. ~untested' /\ \A j \in Procs \ {k} : op[j] = P!Idle
      BY <2>1, OnlyOne, Zenon DEF PackagesInv, Alone
    <3> QED BY <2>1, <2>3, <3>1, AloneKept, Zenon
  <2>5. ~overlapped /\ ~exposed => Updating'
    <3> SUFFICES ASSUME ~overlapped, ~exposed PROVE Updating'
      BY Zenon
    <3>1. \A j \in Procs \ {k} : op[j] = P!Idle
      BY <2>1, OnlyOne, Zenon DEF PackagesInv
    <3>2. \A name \in Names : index'[name] # NoVersion => Verified(disk'[<<name, index'[name]>>])
      BY <2>1, Zenon DEF PackagesInv, Updating
    <3> QED BY <2>1, <2>3, <3>1, <3>2, UpdatingKept, Zenon
  <2> QED BY <2>1, <2>2, <2>4, <2>5, Zenon DEF PackagesInv
<1>9. ASSUME NEW k \in Procs, P!_load_index(k) PROVE PackagesInv'
  <2> DEFINE o == IF disk[P!PathOf(op[k].file)].readable
                  THEN [pc |-> "save", file |-> op[k].file, idx |-> index] ELSE P!Idle
  <2>1. op[k].pc = "index" /\ op[k] # P!Idle /\ op[k].file \in Offered
    BY <1>1, <1>9, OpFacts DEF P!_load_index, P!Idle
  <2>2. Moves(k, o) /\ UNCHANGED <<disk, shadow, index, revoked, untested, overlapped, exposed>>
    BY <1>1, <1>9, Zenon DEF P!_load_index, Moves
  <2>3. o = P!Idle \/ IsLoaded(o)
    BY <1>1, <2>1, Zenon DEF IsLoaded
  <2>4. PackageTypes'
    BY <1>1, <2>2, <2>3, TypesKept, Zenon
  <2>5. /\ o.pc \notin {"promote", "index", "copy", "copying"}
        /\ o.pc = "save" => o.file = op[k].file /\ o.idx = index
    BY Zenon DEF P!Idle
  <2> HIDE DEF o
  <2>6. ~overlapped => Alone'
    <3> SUFFICES ASSUME ~overlapped PROVE Alone'
      BY Zenon
    <3>1. ~untested' /\ \A j \in Procs \ {k} : op[j] = P!Idle
      BY <2>1, <2>2, OnlyOne, Zenon DEF PackagesInv, Alone
    <3> QED BY <2>2, <2>5, <3>1, AloneKept, Zenon
  <2>7. ~overlapped /\ ~exposed => Updating'
    <3> SUFFICES ASSUME ~overlapped, ~exposed PROVE Updating'
      BY Zenon
    <3>1. \A j \in Procs \ {k} : op[j] = P!Idle
      BY <2>1, OnlyOne, Zenon DEF PackagesInv
    <3>2. /\ Verified(disk'[P!PathOf(op[k].file)])
          /\ \A name \in Names : index'[name] # NoVersion => Verified(disk'[<<name, index'[name]>>])
      BY <2>1, <2>2, Zenon DEF PackagesInv, Updating
    <3> QED BY <2>2, <2>5, <3>1, <3>2, UpdatingKept, Zenon
  <2> QED BY <2>2, <2>4, <2>6, <2>7, Zenon DEF PackagesInv
<1>10. ASSUME NEW k \in Procs, P!_save_index(k) PROVE PackagesInv'
  <2>1. op[k].pc = "save" /\ op[k] # P!Idle /\ IsLoaded(op[k]) /\ P!PathOf(op[k].file) \in P!Places
        /\ op[k].file.name \in Names /\ op[k].file.version \in Versions
    BY <1>1, <1>10, OpFacts DEF P!_save_index, P!Idle
  <2>2. /\ Moves(k, P!Idle) /\ UNCHANGED <<disk, shadow, revoked, untested, overlapped, exposed>>
        /\ index' = [op[k].idx EXCEPT ![op[k].file.name] = op[k].file.version]
    BY <1>1, <1>10, Zenon DEF P!_save_index, Moves
  <2>3. index' \in Indexes
    BY <2>1, <2>2, Zenon DEF IsLoaded, Indexes
  <2>4. PackageTypes'
    BY <1>1, <2>2, <2>3, TypesKept, Zenon
  <2>5. P!Idle.pc = "idle"
    BY Zenon DEF P!Idle
  <2>6. ~overlapped => Alone'
    <3> SUFFICES ASSUME ~overlapped PROVE Alone'
      BY Zenon
    <3>1. ~untested' /\ \A j \in Procs \ {k} : op[j] = P!Idle
      BY <2>1, <2>2, OnlyOne, Zenon DEF PackagesInv, Alone
    <3> QED BY <2>2, <2>5, <3>1, AloneKept, Zenon
  <2>7. ~overlapped /\ ~exposed => Updating'
    <3> SUFFICES ASSUME ~overlapped, ~exposed PROVE Updating'
      BY Zenon
    <3>1. \A j \in Procs \ {k} : op[j] = P!Idle
      BY <2>1, OnlyOne, Zenon DEF PackagesInv
    <3>2. op[k].idx = index /\ Verified(disk[P!PathOf(op[k].file)])
      BY <2>1, Zenon DEF PackagesInv, Alone, Updating
    <3>3. \A name \in Names : index'[name] # NoVersion => Verified(disk'[<<name, index'[name]>>])
      <4> SUFFICES ASSUME NEW name \in Names, index'[name] # NoVersion
                   PROVE  Verified(disk[<<name, index'[name]>>])
        BY <2>2, Zenon
      <4>1. CASE name = op[k].file.name
        <5>1. <<name, index'[name]>> = P!PathOf(op[k].file)
          BY <1>1, <2>2, <3>2, <4>1, Zenon DEF Indexes, P!PathOf
        <5> QED BY <3>2, <5>1, Zenon
      <4>2. CASE name # op[k].file.name
        <5>1. index'[name] = index[name]
          BY <1>1, <2>2, <3>2, <4>2, Zenon DEF Indexes
        <5> QED BY <5>1, Zenon DEF PackagesInv, Updating
      <4> QED BY <4>1, <4>2, Zenon
    <3> QED BY <2>2, <2>5, <3>1, <3>3, UpdatingKept, Zenon
  <2> QED BY <2>2, <2>4, <2>6, <2>7, Zenon DEF PackagesInv
<1>11. ASSUME NEW p \in P!Places, P!Revoke(p) PROVE PackagesInv'
  <2>1. exposed' /\ UNCHANGED <<disk, shadow, index, op, untested, overlapped>>
    BY <1>11, Zenon DEF P!Revoke
  <2> QED BY <2>1, Zenon DEF PackagesInv, PackageTypes, Alone, P!PathOf, IsTested, IsLoaded
<1>12. ASSUME NEW k \in Procs, NEW f \in Offered, P!Reject(k, f) PROVE PackagesInv'
  BY <1>2, <1>12, Zenon DEF P!Reject
<1> QED BY <1>2, <1>3, <1>4, <1>5, <1>6, <1>7, <1>8, <1>9, <1>10, <1>11, <1>12, Zenon DEF P!Next

(* shadow_update, one at a time: for any packages, names, versions and      *)
(* processes, and crashes at every step, what is promoted was tested and   *)
(* the active file verifies.                                               *)
THEOREM UpdatesAreSafe == P!Spec => []ShadowUpdateSafe
<1>1. P!Init => PackagesInv
  BY HomeAssumption, PackagesInit, Zenon
<1>2. PackagesInv /\ [P!Next]_P!vars => PackagesInv'
  BY HomeAssumption, PackagesStep, Zenon
<1>3. PackagesInv => ShadowUpdateSafe
  BY Zenon DEF PackagesInv, Alone, Updating, Verified, ShadowUpdateSafe, P!ShadowUpdateSafe,
         P!verify_installed, P!Active
<1> QED BY <1>1, <1>2, <1>3, PTL DEF P!Spec

-----------------------------------------------------------------------------
(***************************************************************************)
(* Backup.  No command takes a file out of the vault, and a restore        *)
(* overlays it, so what a copy of the configuration names stays there.     *)
(* While a restore moves its files, or after it died, a copy may name      *)
(* files that only the archive has; the rest of the restore, or another    *)
(* one of the same archive, brings them.                                   *)
(***************************************************************************)
VaultFiles == {Blob[m] : m \in Models}
JobStates == [pc: {"idle", "store", "secret", "save"}, blob: VaultFiles \cup {Absent},
              _data: SUBSET VaultFiles]
HomeTypes ==
    /\ home = [f \in B!Files |-> home[f]] /\ B!Named(home["config"]) \subseteq VaultFiles
    /\ edits \in Nat /\ job \in [Admins -> JobStates]
    /\ \A a \in Admins : /\ job[a].pc = "secret" => job[a].blob \in VaultFiles
                         /\ job[a].pc = "store" => job[a].blob = Absent
RunTypes ==
    /\ bk = [pc |-> bk.pc, todo |-> bk.todo, got |-> bk.got]
    /\ bk.pc \in {"off", "config", "db", "list", "vault"}
    /\ bk.got = [f \in B!Files |-> bk.got[f]] /\ bk.todo \subseteq VaultFiles
    /\ B!Named(bk.got["config"]) \subseteq VaultFiles /\ B!Named(archive["config"]) \subseteq VaultFiles
    /\ rs = [pc |-> rs.pc, todo |-> rs.todo, home |-> rs.home, wal |-> rs.wal, alone |-> rs.alone]
    /\ rs.pc \in {"idle", "move", "ok"}

(* What the vault has, or will have when the archive is restored. *)
Owed == halved \/ rs.pc = "move"
Kept == {b \in VaultFiles : home[b] # Absent \/ (Owed /\ archive[b] # Absent)}
Refs ==
    /\ B!Named(home["config"]) \subseteq Kept
    /\ \A a \in Admins : /\ job[a]._data \subseteq Kept
                         /\ job[a].pc = "save" => job[a].blob \in Kept \cup {Absent}

(* What create_backup has read of a home in which no restore died. *)
Read ==
    /\ \A b \in bk.todo : home[b] # Absent
    /\ \A b \in B!Named(bk.got["config"]) :
        IF bk.pc = "vault" THEN b \in bk.todo \/ bk.got[b] # Absent ELSE home[b] # Absent

(* What restore_backup has moved. *)
Moved ==
    /\ bk.pc = "off" /\ ~open
    /\ \A f \in rs.todo : archive[f] # Absent
    /\ \A b \in VaultFiles : archive[b] # Absent /\ b \notin rs.todo => home[b] # Absent
    /\ rs.alone =>
        /\ wal = rs.wal
        /\ \A f \in B!Files : home[f] = IF archive[f] # Absent /\ f \notin rs.todo
                                        THEN archive[f] ELSE rs.home[f]
    /\ rs.pc = "ok" => rs.todo = {}

Whole == \A b \in B!Named(archive["config"]) : archive[b] # Absent
Runs ==
    /\ RunTypes
    /\ tainted \/ Whole
    /\ bk.pc = "off" \/ halved \/ Read
    /\ rs.pc = "idle" \/ Moved
BackupInv == HomeTypes /\ Runs /\ ((tainted /\ Owed) \/ Refs)

(* The names of files (_collect): those of the vault are others than the   *)
(* two of the top directory.                                               *)
LEMMA FileNames ==
    /\ "config" \in B!Files /\ "db" \in B!Files /\ VaultFiles \subseteq B!Files
    /\ "config" # "db" /\ "config" \notin VaultFiles /\ "db" \notin VaultFiles
    /\ B!Files = {"config", "db"} \cup VaultFiles
<1>1. "config" \notin VaultFiles /\ "db" \notin VaultFiles
  BY HomeAssumption, Zenon DEF VaultFiles
<1>2. B!Files = {"config", "db"} \cup VaultFiles
  BY Zenon DEF B!Files, VaultFiles
<1> QED BY <1>1, <1>2, Zenon

(* Replacing one file leaves the others. *)
LEMMA OneFile ==
    ASSUME NEW g \in B!Files, NEW d,
           home = [f \in B!Files |-> home[f]], home' = [home EXCEPT ![g] = d]
    PROVE  /\ home' = [f \in B!Files |-> home'[f]] /\ home'[g] = d
           /\ \A f \in B!Files \ {g} : home'[f] = home[f]
<1>1. home' = [f \in B!Files |-> IF f = g THEN d ELSE home[f]]
  BY Zenon
<1> QED BY <1>1, Zenon

(* A step that leaves jobs and configuration alone and loses no file keeps *)
(* what they name.                                                         *)
LEMMA RefsStay ==
    ASSUME Refs, Kept \subseteq Kept', UNCHANGED job, home'["config"] = home["config"]
    PROVE  Refs'
<1> QED BY Zenon DEF Refs, B!Named

(* NoRestore and NoBackup are records of the right shape. *)
LEMMA Resets ==
    /\ B!NoRestore.pc = "idle" /\ B!NoBackup.pc = "off" /\ B!NoBackup.todo = {}
    /\ B!NoBackup.got = B!Nothing /\ B!Nothing = [f \in B!Files |-> Absent]
    /\ B!NoRestore = [pc |-> B!NoRestore.pc, todo |-> B!NoRestore.todo, home |-> B!NoRestore.home,
                      wal |-> B!NoRestore.wal, alone |-> B!NoRestore.alone]
    /\ B!NoBackup = [pc |-> B!NoBackup.pc, todo |-> B!NoBackup.todo, got |-> B!NoBackup.got]
<1> QED BY Zenon DEF B!NoRestore, B!NoBackup, B!Nothing

(* A write of one file, by a command or by the service while no restore    *)
(* runs, keeps what backup and restore rely on.                            *)
LEMMA Writing ==
    ASSUME HomeTypes, Runs, NEW g \in B!Files, NEW d, home' = [home EXCEPT ![g] = d],
           g \in VaultFiles => d # Absent, UNCHANGED <<bk, archive, halved, tainted>>,
           \/ rs.pc = "idle" /\ rs' = rs
           \/ rs.pc # "move" /\ rs' = B!NoRestore
           \/ rs.pc = "move" /\ rs' = [rs EXCEPT !.alone = FALSE] /\ open' = open
    PROVE  Runs' /\ Owed' = Owed /\ Kept \subseteq Kept'
<1>1. \A f \in VaultFiles : home[f] # Absent => home'[f] # Absent
  BY OneFile, FileNames, Zenon DEF HomeTypes
<1>2. CASE rs'.pc = "idle" /\ rs.pc # "move" /\ RunTypes'
  <2>1. Owed' = Owed /\ Kept \subseteq Kept'
    BY <1>1, <1>2, Zenon DEF Owed, Kept
  <2>2. Read => Read'
    BY <1>1, Zenon DEF Read, Runs, RunTypes
  <2> QED BY <1>2, <2>1, <2>2, Zenon DEF Runs, Whole
<1>3. CASE rs.pc = "move"
  <2>1. rs' = [pc |-> "move", todo |-> rs.todo, home |-> rs.home, wal |-> rs.wal, alone |-> FALSE]
    BY <1>3, Resets, Zenon DEF Runs, RunTypes
  <2>2. RunTypes' /\ rs'.pc = "move" /\ rs'.todo = rs.todo /\ ~rs'.alone /\ open' = open
    BY <1>3, <2>1, Zenon DEF Runs, RunTypes
  <2>3. Owed' = Owed /\ Kept \subseteq Kept'
    BY <1>1, <1>3, <2>2, Zenon DEF Owed, Kept
  <2>4. Moved'
    BY <1>1, <1>3, <2>2, Zenon DEF Runs, Moved
  <2> QED BY <1>3, <2>2, <2>3, <2>4, Zenon DEF Runs, Whole, Moved
<1>4. rs' = B!NoRestore \/ rs' = rs => RunTypes'
  BY Resets, Zenon DEF Runs, RunTypes
<1> QED BY <1>2, <1>3, <1>4, Resets, Zenon

(* Every step keeps this. *)
LEMMA BackupStep == BackupInv /\ [B!Next]_B!vars => BackupInv'
<1> SUFFICES ASSUME BackupInv, [B!Next]_B!vars PROVE BackupInv'
  BY Zenon
<1> USE DEF B!db, B!history
<1>1. HomeTypes /\ Runs /\ RunTypes /\ ((tainted /\ Owed) \/ Refs) /\ (rs.pc = "idle" \/ ~open)
  BY Zenon DEF BackupInv, Runs, Moved
<1>2. CASE UNCHANGED B!vars
  BY <1>2, Zenon DEF B!vars, BackupInv, HomeTypes, Runs, RunTypes, Whole, Refs, Owed, Kept, Read, Moved
<1>3. ASSUME NEW d, home' = [home EXCEPT !["db"] = d],
             UNCHANGED <<edits, job, bk, archive, halved, tainted>>,
             \/ rs.pc = "idle" /\ rs' = rs
             \/ rs.pc # "move" /\ rs' = B!NoRestore
      PROVE  BackupInv'
  <2>1. home' = [f \in B!Files |-> home'[f]] /\ home'["config"] = home["config"]
    BY <1>1, <1>3, OneFile, FileNames, Zenon DEF HomeTypes
  <2>2. Runs' /\ Owed' = Owed /\ Kept \subseteq Kept'
    BY <1>1, <1>3, Writing, FileNames, Zenon
  <2>3. (tainted' /\ Owed') \/ Refs'
    BY <1>1, <1>3, <2>1, <2>2, RefsStay, Zenon
  <2> QED BY <1>1, <1>3, <2>1, <2>2, <2>3, Zenon DEF BackupInv, HomeTypes
<1>4. CASE B!Start
  BY <1>3, <1>4, Zenon DEF B!Start
<1>5. CASE B!Checkpoint \/ B!Close
  BY <1>1, <1>3, <1>5, Zenon DEF B!Checkpoint, B!Close
<1>6. CASE B!Commit \/ B!Kill
  <2>1. open /\ UNCHANGED <<home, edits, job, bk, archive, rs, halved, tainted>>
    BY <1>6, Zenon DEF B!Commit, B!Kill
  <2> QED BY <1>1, <2>1, Zenon DEF BackupInv, HomeTypes, Runs, RunTypes, Whole, Refs, Owed, Kept, Read
<1>7. ASSUME NEW a \in Admins, NEW j \in JobStates, job' = [job EXCEPT ![a] = j],
             j.pc = "secret" => j.blob \in VaultFiles, j.pc = "store" => j.blob = Absent, edits' \in Nat,
             (tainted /\ Owed) \/ (j._data \subseteq Kept /\ (j.pc = "save" => j.blob = Absent)),
             UNCHANGED <<home, wal, open, bk, archive, rs, halved, tainted>>
      PROVE  BackupInv'
  <2>1. HomeTypes'
    BY <1>1, <1>7, Zenon DEF HomeTypes
  <2>2. Owed' = Owed /\ Kept' = Kept /\ Runs'
    BY <1>1, <1>7, Zenon DEF Owed, Kept, Runs, RunTypes, Whole, Read, Moved
  <2>3. (tainted' /\ Owed') \/ Refs'
    BY <1>1, <1>7, <2>2, Zenon DEF Refs, HomeTypes
  <2> QED BY <2>1, <2>2, <2>3, Zenon DEF BackupInv
<1>8. ASSUME NEW a \in Admins, B!Load(a) PROVE BackupInv'
  <2> DEFINE data == B!Named(home["config"])
  <2>1. /\ data \subseteq VaultFiles /\ ((tainted /\ Owed) \/ data \subseteq Kept)
        /\ UNCHANGED <<home, wal, open, bk, archive, rs, halved, tainted>>
    BY <1>1, <1>8, Zenon DEF HomeTypes, Refs, B!Load
  <2>2. edits' \in Nat
    <3>1. edits' = edits + 1 /\ edits \in Nat
      BY <1>1, <1>8, Zenon DEF HomeTypes, B!Load
    <3> QED BY <3>1
  <2>3. CASE job' = [job EXCEPT ![a] = [pc |-> "store", blob |-> Absent, _data |-> data]]
    <3> DEFINE j == [pc |-> "store", blob |-> Absent, _data |-> data]
    <3>1. j \in JobStates /\ j.pc = "store" /\ j.blob = Absent /\ j._data = data
      BY <2>1, Zenon DEF JobStates
    <3> QED BY <1>7, <2>1, <2>2, <2>3, <3>1, Zenon
  <2>4. ASSUME NEW b \in VaultFiles, job' = [job EXCEPT ![a] = [pc |-> "secret", blob |-> b, _data |-> data]]
        PROVE  BackupInv'
    <3> DEFINE j == [pc |-> "secret", blob |-> b, _data |-> data]
    <3>1. j \in JobStates /\ j.pc = "secret" /\ j.blob = b /\ j._data = data
      BY <2>1, Zenon DEF JobStates
    <3> QED BY <1>7, <2>1, <2>2, <2>4, <3>1, Zenon
  <2>5. ASSUME NEW b \in VaultFiles, job' = [job EXCEPT ![a] = [pc |-> "save", blob |-> Absent, _data |-> data \ {b}]]
        PROVE  BackupInv'
    <3> DEFINE j == [pc |-> "save", blob |-> Absent, _data |-> data \ {b}]
    <3>1. j \in JobStates /\ j.pc = "save" /\ j.blob = Absent /\ j._data \subseteq data
      BY <2>1, Zenon DEF JobStates
    <3> QED BY <1>7, <2>1, <2>2, <2>5, <3>1, Zenon
  <2> QED BY <1>8, <2>3, <2>4, <2>5, Zenon DEF B!Load, VaultFiles
<1>9. ASSUME NEW a \in Admins, B!KillJob(a) PROVE BackupInv'
  <2>1. B!NoJob \in JobStates /\ B!NoJob.pc = "idle" /\ B!NoJob._data = {}
    BY Zenon DEF B!NoJob, JobStates
  <2> QED BY <1>1, <1>7, <1>9, <2>1, Zenon DEF B!KillJob, HomeTypes
<1>10. ASSUME NEW g \in B!Files, NEW d, home' = [home EXCEPT ![g] = d], g \in VaultFiles => d # Absent,
              B!Write, UNCHANGED <<edits, open, bk, archive, halved, tainted>>
       PROVE  /\ Runs' /\ Owed' = Owed /\ Kept \subseteq Kept' /\ home' = [f \in B!Files |-> home'[f]]
              /\ home'[g] = d /\ \A f \in B!Files \ {g} : home'[f] = home[f]
  BY <1>1, <1>10, Writing, OneFile, Zenon DEF B!Write, HomeTypes
<1>11. ASSUME NEW a \in Admins, NEW j \in JobStates, job' = [job EXCEPT ![a] = j],
              j.pc \in {"idle", "save"}, edits' = edits, Runs', UNCHANGED tainted, Owed' = Owed,
              Kept \subseteq Kept', home' = [f \in B!Files |-> home'[f]],
              B!Named(home'["config"]) \subseteq VaultFiles,
              \/ tainted /\ Owed
              \/ /\ B!Named(home'["config"]) \subseteq Kept' /\ j._data \subseteq Kept'
                 /\ j.pc = "save" => j.blob \in Kept' \cup {Absent}
       PROVE  BackupInv'
  <2>1. HomeTypes'
    BY <1>1, <1>11, Zenon DEF HomeTypes
  <2>2. (tainted' /\ Owed') \/ Refs'
    BY <1>1, <1>11, Zenon DEF Refs, HomeTypes
  <2> QED BY <1>11, <2>1, <2>2, Zenon DEF BackupInv
<1>12. ASSUME NEW a \in Admins, B!OpenStore(a) PROVE BackupInv'
  <2> DEFINE j == [job[a] EXCEPT !.pc = "save"]
  <2>1. /\ job' = [job EXCEPT ![a] = j] /\ job[a].pc = "store" /\ job[a].blob = Absent /\ job[a] \in JobStates
        /\ UNCHANGED <<edits, open, bk, archive, halved, tainted>> /\ B!Write
    BY <1>1, <1>12, Zenon DEF B!OpenStore, HomeTypes
  <2>2. j \in JobStates /\ j.pc = "save" /\ j.blob = Absent /\ j._data = job[a]._data
    BY <2>1, Zenon DEF JobStates
  <2>3. PICK d : home' = [home EXCEPT !["db"] = d]
    BY <1>12, Zenon DEF B!OpenStore
  <2>4. /\ Runs' /\ Owed' = Owed /\ Kept \subseteq Kept' /\ home' = [f \in B!Files |-> home'[f]]
        /\ home'["config"] = home["config"]
    BY <1>10, <2>1, <2>3, FileNames, Zenon
  <2> HIDE DEF j
  <2>5. (tainted /\ Owed) \/ (B!Named(home'["config"]) \subseteq Kept' /\ j._data \subseteq Kept')
    <3>1. B!Named(home'["config"]) = B!Named(home["config"])
      BY <2>4, Zenon
    <3>2. (tainted /\ Owed) \/ (B!Named(home["config"]) \subseteq Kept /\ job[a]._data \subseteq Kept)
      BY <1>1, Zenon DEF Refs
    <3> QED BY <2>2, <2>4, <3>1, <3>2, Zenon
  <2>6. B!Named(home'["config"]) \subseteq VaultFiles
    BY <1>1, <2>4, Zenon DEF HomeTypes
  <2> QED BY <1>11, <2>1, <2>2, <2>4, <2>5, <2>6, Zenon
<1>13. ASSUME NEW a \in Admins, B!store_secret(a) PROVE BackupInv'
  <2> DEFINE j == [job[a] EXCEPT !.pc = "save"]
             b == job[a].blob
  <2>1. /\ job' = [job EXCEPT ![a] = j] /\ job[a].pc = "secret" /\ b \in VaultFiles /\ job[a] \in JobStates
        /\ UNCHANGED <<edits, open, bk, archive, halved, tainted>> /\ B!Write
        /\ home' = [home EXCEPT ![b] = edits]
    BY <1>1, <1>13, Zenon DEF B!store_secret, HomeTypes
  <2>2. j \in JobStates /\ j.pc = "save" /\ j.blob = b /\ j._data = job[a]._data
    BY <2>1, Zenon DEF JobStates
  <2>3. edits # Absent
    BY <1>1, HomeAssumption, Zenon DEF HomeTypes
  <2> HIDE DEF b
  <2>4. /\ Runs' /\ Owed' = Owed /\ Kept \subseteq Kept' /\ home' = [f \in B!Files |-> home'[f]]
        /\ home'["config"] = home["config"] /\ home'[b] = edits
    BY <1>10, <2>1, <2>3, FileNames, Zenon
  <2>5. b \in Kept'
    BY <2>1, <2>3, <2>4, Zenon DEF Kept
  <2> HIDE DEF j
  <2>6. (tainted /\ Owed) \/ (B!Named(home'["config"]) \subseteq Kept' /\ j._data \subseteq Kept')
    <3>1. B!Named(home'["config"]) = B!Named(home["config"])
      BY <2>4, Zenon
    <3>2. (tainted /\ Owed) \/ (B!Named(home["config"]) \subseteq Kept /\ job[a]._data \subseteq Kept)
      BY <1>1, Zenon DEF Refs
    <3> QED BY <2>2, <2>4, <3>1, <3>2, Zenon
  <2>7. B!Named(home'["config"]) \subseteq VaultFiles
    BY <1>1, <2>4, Zenon DEF HomeTypes
  <2> QED BY <1>11, <2>1, <2>2, <2>4, <2>5, <2>6, <2>7, Zenon
<1>14. ASSUME NEW a \in Admins, B!save(a) PROVE BackupInv'
  <2> DEFINE d == job[a]._data \cup ({job[a].blob} \ {Absent})
  <2>1. /\ job' = [job EXCEPT ![a] = B!NoJob] /\ job[a].pc = "save" /\ job[a] \in JobStates
        /\ UNCHANGED <<edits, open, bk, archive, halved, tainted>> /\ B!Write
        /\ home' = [home EXCEPT !["config"] = d]
    BY <1>1, <1>14, Zenon DEF B!save, HomeTypes
  <2>2. B!NoJob \in JobStates /\ B!NoJob.pc = "idle" /\ B!NoJob._data = {}
    BY Zenon DEF B!NoJob, JobStates
  <2>3. d \subseteq VaultFiles /\ ((tainted /\ Owed) \/ d \subseteq Kept)
    BY <1>1, <2>1, Zenon DEF JobStates, Refs
  <2> HIDE DEF d
  <2>4. /\ Runs' /\ Owed' = Owed /\ Kept \subseteq Kept' /\ home' = [f \in B!Files |-> home'[f]]
        /\ home'["config"] = d
    BY <1>10, <2>1, FileNames, Zenon
  <2>5. B!Named(home'["config"]) \subseteq VaultFiles /\ ((tainted /\ Owed) \/ B!Named(home'["config"]) \subseteq Kept')
    BY <2>3, <2>4, Zenon DEF B!Named
  <2> QED BY <1>11, <2>1, <2>2, <2>4, <2>5, Zenon
<1>15. ASSUME RunTypes', UNCHANGED <<home, wal, open, edits, job, archive, tainted>>, Owed' = Owed,
              halved' = halved, bk.pc # "off", rs'.pc = "idle", halved \/ Read' \/ bk'.pc = "off"
       PROVE  BackupInv'
  <2>1. HomeTypes' /\ Kept' = Kept
    BY <1>1, <1>15, Zenon DEF HomeTypes, Kept
  <2>2. (tainted' /\ Owed') \/ Refs'
    BY <1>1, <1>15, <2>1, RefsStay, Zenon
  <2> QED BY <1>1, <1>15, <2>1, <2>2, Zenon DEF BackupInv, Runs, Whole
<1>16. CASE B!create_backup
  <2>1. /\ UNCHANGED <<home, wal, open, edits, job, archive, halved, tainted>> /\ rs.pc # "move"
        /\ bk' = [B!NoBackup EXCEPT !.pc = "config"] /\ rs' = B!NoRestore
    BY <1>16, Zenon DEF B!create_backup, B!Idle
  <2>2. bk'.pc = "config" /\ bk'.todo = {} /\ bk'.got = B!Nothing /\ bk' = [pc |-> bk'.pc, todo |-> bk'.todo, got |-> bk'.got]
    BY <2>1, Zenon DEF B!NoBackup
  <2>3. B!Named(bk'.got["config"]) = {}
    BY <2>2, Resets, FileNames, Zenon DEF B!Named
  <2>4. RunTypes' /\ Owed' = Owed
    BY <1>1, <2>1, <2>2, <2>3, Resets, Zenon DEF RunTypes, Owed
  <2>5. Read'
    BY <2>2, <2>3, Zenon DEF Read
  <2>6. HomeTypes' /\ Kept' = Kept
    BY <1>1, <2>1, <2>4, Zenon DEF HomeTypes, Kept
  <2>7. (tainted' /\ Owed') \/ Refs'
    BY <1>1, <2>1, <2>4, <2>6, RefsStay, Zenon
  <2> QED BY <1>1, <2>1, <2>4, <2>5, <2>6, <2>7, Resets, Zenon DEF BackupInv, Runs, Whole
<1>17. bk.pc # "off" => rs.pc = "idle" /\ (halved \/ Read)
  BY <1>1, Zenon DEF Runs, Moved
<1>18. CASE B!_collect
  <2>1. /\ bk.pc \in {"config", "db"} /\ UNCHANGED <<home, wal, open, edits, job, archive, rs, halved, tainted>>
        /\ bk' = [pc |-> IF bk.pc = "config" THEN "db" ELSE "list", todo |-> bk.todo,
                  got |-> [bk.got EXCEPT ![bk.pc] = home[bk.pc]]]
    BY <1>1, <1>18, Zenon DEF B!_collect, RunTypes
  <2>2. bk'.got = [f \in B!Files |-> IF f = bk.pc THEN home[f] ELSE bk.got[f]]
    BY <1>1, <2>1, Zenon DEF RunTypes
  <2>3. bk'.pc \in {"db", "list"} /\ bk'.todo = bk.todo
    BY <2>1, Zenon
  <2>4. bk'.got["config"] = IF bk.pc = "config" THEN home["config"] ELSE bk.got["config"]
    BY <2>2, FileNames, Zenon
  <2>5. RunTypes' /\ Owed' = Owed
    BY <1>1, <2>1, <2>2, <2>3, <2>4, Zenon DEF RunTypes, HomeTypes, Owed
  <2>6. halved \/ B!Named(home["config"]) \subseteq Kept
    BY <1>1, <1>17, <2>1, Zenon DEF Refs, Owed
  <2>7. halved \/ \A b \in Kept : home[b] # Absent
    BY <1>17, <2>1, Zenon DEF Kept, Owed
  <2>8. halved \/ Read'
    <3>1. CASE bk.pc = "config"
      BY <1>1, <1>17, <2>1, <2>3, <2>4, <2>6, <2>7, <3>1, Zenon DEF Read, HomeTypes
    <3>2. CASE bk.pc = "db"
      BY <1>17, <2>1, <2>3, <2>4, <3>2, Zenon DEF Read
    <3> QED BY <2>1, <3>1, <3>2, Zenon
  <2> QED BY <1>15, <1>17, <2>1, <2>5, <2>8, Zenon
<1>19. CASE B!ListVault
  <2>1. /\ bk.pc = "list" /\ UNCHANGED <<home, wal, open, edits, job, archive, rs, halved, tainted>>
        /\ bk' = [pc |-> "vault", todo |-> VaultFiles \cap B!Present(home), got |-> bk.got]
    BY <1>1, <1>19, Zenon DEF B!ListVault, RunTypes, VaultFiles
  <2>2. bk'.pc = "vault" /\ bk'.todo = VaultFiles \cap B!Present(home) /\ bk'.got = bk.got
    BY <2>1, Zenon
  <2>3. RunTypes' /\ Owed' = Owed
    BY <1>1, <2>1, <2>2, Zenon DEF RunTypes, Owed
  <2>4. halved \/ Read'
    BY <1>1, <1>17, <2>1, <2>2, FileNames, Zenon DEF Read, B!Present, RunTypes
  <2> QED BY <1>15, <1>17, <2>1, <2>3, <2>4, Zenon
<1>20. ASSUME NEW b \in VaultFiles, B!CollectBlob(b) PROVE BackupInv'
  <2>1. /\ bk.pc = "vault" /\ b \in bk.todo /\ UNCHANGED <<home, wal, open, edits, job, archive, rs, halved, tainted>>
        /\ bk' = [pc |-> "vault", todo |-> bk.todo \ {b}, got |-> [bk.got EXCEPT ![b] = home[b]]]
    BY <1>1, <1>20, Zenon DEF B!CollectBlob, RunTypes
  <2>2. bk'.got = [f \in B!Files |-> IF f = b THEN home[f] ELSE bk.got[f]]
    BY <1>1, <2>1, Zenon DEF RunTypes
  <2>3. bk'.pc = "vault" /\ bk'.todo = bk.todo \ {b}
    BY <2>1, Zenon
  <2>4. bk'.got["config"] = bk.got["config"]
    BY <2>2, FileNames, Zenon
  <2>5. RunTypes' /\ Owed' = Owed
    BY <1>1, <2>1, <2>2, <2>3, <2>4, Zenon DEF RunTypes, Owed
  <2>6. halved \/ Read'
    BY <1>1, <1>17, <2>1, <2>2, <2>3, <2>4, FileNames, Zenon DEF Read, RunTypes
  <2> QED BY <1>15, <1>17, <2>1, <2>5, <2>6, Zenon
<1>21. B!Named(B!NoBackup.got["config"]) = {}
  BY Resets, FileNames, Zenon DEF B!Named
<1>22. CASE B!WriteArchive
  <2>1. /\ bk.pc = "vault" /\ bk.todo = {} /\ bk' = B!NoBackup /\ archive' = bk.got /\ tainted' = halved
        /\ UNCHANGED <<home, wal, open, edits, job, rs, halved>>
    BY <1>22, Zenon DEF B!WriteArchive
  <2>2. rs.pc = "idle" /\ (Owed <=> halved) /\ (Owed' <=> halved)
    BY <1>17, <2>1, Zenon DEF Owed
  <2>3. RunTypes' /\ HomeTypes'
    BY <1>1, <2>1, <1>21, Resets, Zenon DEF RunTypes, HomeTypes
  <2>4. halved \/ Whole'
    BY <1>17, <2>1, Zenon DEF Read, Whole
  <2>5. halved \/ Refs'
    <3>1. halved \/ Kept \subseteq Kept'
      BY <2>1, <2>2, Zenon DEF Kept
    <3> QED BY <1>1, <2>1, <2>2, <3>1, RefsStay, Zenon
  <2> QED BY <2>1, <2>2, <2>3, <2>4, <2>5, Resets, Zenon DEF BackupInv, Runs
<1>23. CASE B!Damage
  <2>1. UNCHANGED <<home, wal, open, edits, job, bk, archive, rs, halved, tainted>>
    BY <1>23, Zenon DEF B!Damage
  <2> QED BY <1>1, <2>1, Zenon DEF BackupInv, HomeTypes, Runs, RunTypes, Whole, Refs, Owed, Kept, Read, Moved
<1>24. CASE B!restore_backup
  <2>1. /\ bk.pc = "off" /\ ~open /\ UNCHANGED <<home, wal, open, edits, job, bk, archive, halved, tainted>>
        /\ rs' = [pc |-> "move", todo |-> B!Present(archive), home |-> home, wal |-> wal, alone |-> TRUE]
    BY <1>24, Zenon DEF B!restore_backup, B!Idle
  <2>2. rs'.pc = "move" /\ rs'.todo = B!Present(archive) /\ rs'.home = home /\ rs'.wal = wal
    BY <2>1, Zenon
  <2>3. RunTypes' /\ HomeTypes'
    BY <1>1, <2>1, Zenon DEF RunTypes, HomeTypes
  <2>4. Moved'
    BY <2>1, <2>2, FileNames, Zenon DEF Moved, B!Present
  <2>5. Owed' /\ Kept \subseteq Kept'
    BY <2>1, <2>2, Zenon DEF Kept, Owed
  <2>6. (tainted' /\ Owed') \/ Refs'
    BY <1>1, <2>1, <2>5, RefsStay, Zenon
  <2> QED BY <1>1, <2>1, <2>3, <2>4, <2>6, Zenon DEF BackupInv, Runs, Whole
<1>25. ASSUME NEW f \in B!Files, B!Move(f) PROVE BackupInv'
  <2>1. /\ rs.pc = "move" /\ f \in rs.todo /\ home' = [home EXCEPT ![f] = archive[f]]
        /\ rs' = [pc |-> IF rs.todo = {f} THEN "ok" ELSE "move", todo |-> rs.todo \ {f},
                  home |-> rs.home, wal |-> rs.wal, alone |-> rs.alone]
        /\ halved' = IF rs.todo = {f} THEN tainted ELSE halved
        /\ UNCHANGED <<wal, open, edits, job, bk, archive, tainted>>
    BY <1>1, <1>25, Zenon DEF B!Move, RunTypes
  <2>2. /\ rs'.pc = (IF rs.todo = {f} THEN "ok" ELSE "move") /\ rs'.todo = rs.todo \ {f}
        /\ rs'.home = rs.home /\ rs'.wal = rs.wal /\ rs'.alone = rs.alone
    BY <2>1, Zenon
  <2>3. /\ home' = [x \in B!Files |-> home'[x]] /\ home'[f] = archive[f]
        /\ \A x \in B!Files \ {f} : home'[x] = home[x]
    BY <1>1, <2>1, OneFile, Zenon DEF HomeTypes
  <2>4. Moved /\ Owed
    BY <1>1, <2>1, Zenon DEF Runs, Owed
  <2>5. RunTypes'
    BY <1>1, <2>1, <2>2, Zenon DEF RunTypes
  <2>6. Moved'
    <3>1. \A x \in rs'.todo : archive'[x] # Absent
      BY <2>1, <2>2, <2>4, Zenon DEF Moved
    <3>2. \A b \in VaultFiles : archive'[b] # Absent /\ b \notin rs'.todo => home'[b] # Absent
      BY <2>1, <2>2, <2>3, <2>4, FileNames, Zenon DEF Moved
    <3>3. rs.alone => \A x \in B!Files : home'[x] = IF archive'[x] # Absent /\ x \notin rs'.todo
                                                     THEN archive'[x] ELSE rs'.home[x]
      BY <2>1, <2>2, <2>3, <2>4, Zenon DEF Moved
    <3>4. rs'.pc = "ok" => rs'.todo = {}
      BY <2>2, Zenon
    <3> QED BY <2>1, <2>2, <2>4, <3>1, <3>2, <3>3, <3>4, Zenon DEF Moved
  <2>7. \A b \in VaultFiles : home[b] # Absent => home'[b] # Absent
    BY <2>1, <2>3, <2>4, FileNames, Zenon DEF Moved
  <2>8. (tainted /\ Owed') \/ (~tainted /\ Kept \subseteq Kept')
    <3>1. CASE rs.todo = {f}
      <4>1. \A b \in VaultFiles : archive[b] # Absent => home'[b] # Absent
        BY <2>1, <2>2, <2>6, <3>1, Zenon DEF Moved
      <4> QED BY <2>1, <2>7, <3>1, <4>1, Zenon DEF Kept, Owed
    <3>2. CASE rs.todo # {f}
      BY <2>1, <2>2, <2>7, <3>2, Zenon DEF Kept, Owed
    <3> QED BY <3>1, <3>2, Zenon
  <2>9. ~tainted => B!Named(home'["config"]) \subseteq Kept'
    <3> SUFFICES ASSUME ~tainted PROVE B!Named(home'["config"]) \subseteq Kept'
      BY Zenon
    <3>1. Whole /\ Refs
      BY <1>1, Zenon DEF Runs
    <3>2. B!Named(archive["config"]) \subseteq Kept
      BY <1>1, <2>4, <3>1, Zenon DEF Whole, Kept, RunTypes
    <3>3. home'["config"] = archive["config"] \/ home'["config"] = home["config"]
      BY <2>3, FileNames, Zenon
    <3> QED BY <2>8, <3>1, <3>2, <3>3, Zenon DEF Refs
  <2>10. (tainted' /\ Owed') \/ Refs'
    BY <1>1, <2>1, <2>8, <2>9, Zenon DEF Refs
  <2>11. B!Named(home'["config"]) \subseteq VaultFiles
    <3>1. home'["config"] = archive["config"] \/ home'["config"] = home["config"]
      BY <2>3, FileNames, Zenon
    <3> QED BY <1>1, <3>1, Zenon DEF HomeTypes, RunTypes
  <2> QED BY <1>1, <2>1, <2>3, <2>4, <2>5, <2>6, <2>10, <2>11, Zenon DEF BackupInv, HomeTypes, Runs, Whole, Moved
<1>26. CASE B!Crash
  <2>1. /\ bk' = B!NoBackup /\ rs' = (IF rs.pc = "move" THEN B!NoRestore ELSE rs) /\ rs'.pc # "move"
        /\ halved' = (halved \/ rs.pc = "move") /\ UNCHANGED <<home, wal, open, edits, job, archive, tainted>>
    BY <1>26, Resets, Zenon DEF B!Crash
  <2>2. RunTypes' /\ HomeTypes'
    BY <1>1, <1>21, <2>1, Resets, Zenon DEF RunTypes, HomeTypes
  <2>3. Owed' = Owed /\ Kept' = Kept
    BY <2>1, Zenon DEF Owed, Kept
  <2>4. rs'.pc = "idle" \/ Moved'
    BY <1>1, <2>1, Resets, Zenon DEF Runs, Moved
  <2>5. (tainted' /\ Owed') \/ Refs'
    BY <1>1, <2>1, <2>3, RefsStay, Zenon
  <2> QED BY <1>1, <2>1, <2>2, <2>4, <2>5, Resets, Zenon DEF BackupInv, Runs, Whole
<1>27. CASE B!NewHome
  <2>1. /\ job = [a \in Admins |-> B!NoJob] /\ home' = B!Nothing /\ rs' = B!NoRestore /\ halved' = FALSE
        /\ bk.pc = "off" /\ UNCHANGED <<open, edits, job, bk, archive, tainted>>
    BY <1>27, Zenon DEF B!NewHome, B!Idle
  <2>2. home' = [f \in B!Files |-> home'[f]] /\ B!Named(home'["config"]) = {}
    BY <2>1, Resets, FileNames, Zenon DEF B!Named
  <2>3. RunTypes' /\ HomeTypes'
    BY <1>1, <2>1, <2>2, Resets, Zenon DEF RunTypes, HomeTypes
  <2>4. B!NoJob.pc = "idle" /\ B!NoJob._data = {}
    BY Zenon DEF B!NoJob
  <2>5. Refs'
    BY <2>1, <2>2, <2>4, Zenon DEF Refs
  <2> QED BY <1>1, <2>1, <2>3, <2>5, Resets, Zenon DEF BackupInv, Runs, Whole
<1> QED
  BY <1>2, <1>4, <1>5, <1>6, <1>8, <1>9, <1>12, <1>13, <1>14, <1>16, <1>18, <1>19, <1>20, <1>22, <1>23,
     <1>24, <1>25, <1>26, <1>27, Zenon DEF B!Next, VaultFiles

(* create_backup and restore_backup, for any number of models, commands,   *)
(* commits, backups, restores and deaths: a restore no command disturbed   *)
(* lays the archive over the home, and config.json names only secrets that *)
(* the vault has unless a restore died.                                    *)
THEOREM HomesStayWhole == B!Spec => []HomeStaysWhole
<1>1. B!Init => BackupInv
  <2> SUFFICES ASSUME B!Init PROVE BackupInv
    BY Zenon
  <2>1. /\ home = B!Nothing /\ edits \in Nat /\ job = [a \in Admins |-> B!NoJob] /\ bk = B!NoBackup
        /\ archive = B!Nothing /\ rs = B!NoRestore
    BY DEF B!Init
  <2>2. B!NoJob \in JobStates /\ B!NoJob.pc = "idle" /\ B!NoJob._data = {}
    BY Zenon DEF B!NoJob, JobStates
  <2>3. B!Named(B!Nothing["config"]) = {}
    BY Resets, FileNames, Zenon DEF B!Named
  <2>4. HomeTypes
    BY <2>1, <2>2, <2>3, Resets, Zenon DEF HomeTypes
  <2>5. Runs
    BY <2>1, <2>3, Resets, Zenon DEF Runs, RunTypes, Whole
  <2>6. Refs
    BY <2>1, <2>2, <2>3, Zenon DEF Refs
  <2> QED BY <2>4, <2>5, <2>6, Zenon DEF BackupInv
<1>2. BackupInv => HomeStaysWhole
  <2> SUFFICES ASSUME BackupInv PROVE B!HomeStaysWhole
    BY Zenon DEF HomeStaysWhole
  <2>1. ASSUME rs.pc = "ok", rs.alone
        PROVE  home = B!Over(archive, rs.home) /\ (rs.wal = {} => B!Visible = B!Named(home["db"]))
    <3>1. Moved /\ rs.todo = {} /\ home = [f \in B!Files |-> home[f]]
      BY <2>1, Zenon DEF BackupInv, Runs, Moved, HomeTypes
    <3>2. home = B!Over(archive, rs.home)
      BY <2>1, <3>1, Zenon DEF Moved, B!Over
    <3>3. rs.wal = {} => B!Visible = B!Named(home["db"])
      BY <2>1, <3>1, Zenon DEF Moved, B!Visible
    <3> QED BY <3>2, <3>3, Zenon
  <2>2. ASSUME ~halved, rs.pc # "move" PROVE B!Named(home["config"]) \subseteq B!Present(home)
    <3>1. ~Owed /\ Refs
      BY <2>2, Zenon DEF BackupInv, Owed
    <3> QED BY <3>1, FileNames, Zenon DEF Refs, Kept, B!Present
  <2> QED BY <2>1, <2>2, Zenon DEF B!HomeStaysWhole
<1> QED BY <1>1, <1>2, BackupStep, PTL DEF B!Spec

=============================================================================
