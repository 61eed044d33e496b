------------------------------ MODULE Settings ------------------------------
(***************************************************************************)
(* Configured models: config.json (scr/config.py), the vault (scr/vault.py)*)
(* and what builds adapters from the two (scr/model_factory.py).  `scr     *)
(* init' and `scr model add' read the whole file, change their copy and    *)
(* replace the file; a secret goes into the vault before the entry that    *)
(* names it.  Commands of several processes overlap and may be killed;     *)
(* the service reads the file once, when it starts, and the vault for      *)
(* every kernel it builds.  --adapter and --secret may be any text: a      *)
(* secret is told apart by whether it has the three parts bedrock needs.   *)
(***************************************************************************)
EXTENDS Naturals

CONSTANTS
    Models,       \* names of models
    Blob,         \* Blob[m]: the vault file of the secret of m, after sanitising
    Procs,        \* processes that run commands
    NoModel,
    MaxAdds       \* bound: commands

VARIABLES
    config,       \* config.json
    vault,        \* per vault file: the secret
    cmd,          \* per process: the command it is in
    service,      \* the service, or `scr run': its copy of the configuration
    adapter,      \* the last model it built an adapter for, and what came of it
    misfits,      \* history: vault files that were given a secret without three parts
    adds

vars == <<config, vault, cmd, service, adapter, misfits, adds>>

(* openai-compat, anthropic and azure need a secret, ollama needs none, and *)
(* no adapter has any other name.                                           *)
Kinds == {"cloud", "bedrock", "ollama", "unknown"}
Secrets == {"word", "access:secret:region"}
NoSecret == "none"
Unbuilt == [model |-> NoModel, result |-> "none"]
NoEntry == [kind |-> "none", secret_ref |-> FALSE]
Entries == {NoEntry} \cup [kind: Kinds, secret_ref: BOOLEAN]
Configs == [models: [Models -> Entries], default_model: Models \cup {NoModel}]
_DEFAULTS == [models |-> [m \in Models |-> NoEntry], default_model |-> NoModel]
Idle == [pc |-> "idle", model |-> NoModel, entry |-> NoEntry, secret |-> NoSecret, _data |-> _DEFAULTS]

Init ==
    /\ config = _DEFAULTS /\ vault = [b \in {Blob[m] : m \in Models} |-> NoSecret]
    /\ cmd = [p \in Procs |-> Idle] /\ service = <<>> /\ adapter = Unbuilt
    /\ misfits = {} /\ adds = 0

add_model(data, m, entry) ==
    [models |-> [data.models EXCEPT ![m] = entry],
     default_model |-> IF data.default_model = NoModel THEN m ELSE data.default_model]

(* Config(): the defaults under what the file has. *)
Load(p) ==
    /\ cmd[p] = Idle /\ adds < MaxAdds /\ adds' = adds + 1
    /\ \/ \E m \in Models, kind \in Kinds, secret \in Secrets \cup {NoSecret} :
            cmd' = [cmd EXCEPT ![p] =
                        [pc |-> IF secret = NoSecret THEN "save" ELSE "secret", model |-> m,
                         entry |-> [kind |-> kind, secret_ref |-> secret # NoSecret],
                         secret |-> secret, _data |-> config]]
       \/ cmd' = [cmd EXCEPT ![p] = [Idle EXCEPT !.pc = "save", !._data = config]]  \* scr init
    /\ UNCHANGED <<config, vault, service, adapter, misfits>>

store_secret(p) ==
    /\ cmd[p].pc = "secret"
    /\ vault' = [vault EXCEPT ![Blob[cmd[p].model]] = cmd[p].secret]
    /\ misfits' = misfits \cup (IF cmd[p].secret = "word" THEN {Blob[cmd[p].model]} ELSE {})
    /\ cmd' = [cmd EXCEPT ![p].pc = "save"]
    /\ UNCHANGED <<config, service, adapter, adds>>

MutSave(p) ==
    /\ cmd[p].pc \in {"secret", "save"}
    /\ config' = IF cmd[p].model = NoModel THEN cmd[p]._data
                 ELSE add_model(cmd[p]._data, cmd[p].model, cmd[p].entry)
    /\ cmd' = [cmd EXCEPT ![p] = IF cmd[p].pc = "save" THEN Idle ELSE @]
    /\ UNCHANGED <<vault, service, adapter, misfits, adds>>

save(p) ==
    /\ cmd[p].pc = "save"
    /\ config' = IF cmd[p].model = NoModel THEN cmd[p]._data
                 ELSE add_model(cmd[p]._data, cmd[p].model, cmd[p].entry)
    /\ cmd' = [cmd EXCEPT ![p] = Idle]
    /\ UNCHANGED <<vault, service, adapter, misfits, adds>>

Kill(p) ==
    /\ cmd[p] # Idle /\ cmd' = [cmd EXCEPT ![p] = Idle]
    /\ UNCHANGED <<config, vault, service, adapter, misfits, adds>>

(* _build_app, at a start or a restart of the service; a command that runs *)
(* a model loads a copy too.                                                *)
StartService == /\ service' = <<config>> /\ adapter' = Unbuilt
                /\ UNCHANGED <<config, vault, cmd, misfits, adds>>

(* Each ModelConfigError by its message. *)
build_adapter(entry, secret) ==
    CASE entry.kind = "ollama" -> "adapter"
      [] entry.kind = "cloud" -> IF secret = NoSecret THEN "requires a stored secret" ELSE "adapter"
      [] entry.kind = "bedrock" -> IF secret = "access:secret:region" THEN "adapter"
                                   ELSE "secret must be access:secret:region"
      [] entry.kind = "unknown" -> "unknown adapter kind"

(* factory() for the default model; `scr run' and `scr model test' may name *)
(* another one.                                                             *)
Build(m) ==
    /\ service # <<>>
    /\ LET entry == service[1].models[m]
           secret == IF entry.secret_ref THEN vault[Blob[m]] ELSE NoSecret
       IN  adapter' = [model |-> m, result |-> IF entry = NoEntry THEN "no model configured"
                                               ELSE build_adapter(entry, secret)]
    /\ UNCHANGED <<config, vault, cmd, service, misfits, adds>>

Next == \/ \E p \in Procs : Load(p) \/ store_secret(p) \/ save(p) \/ Kill(p)
        \/ StartService \/ \E m \in Models : Build(m)

Spec == Init /\ [][Next]_vars

-----------------------------------------------------------------------------
(* However adds and inits overlap or die, the file and every copy a process *)
(* may still save or use are closed: the default model is configured, and  *)
(* a secret that an entry names is in the vault (cmd_model_add, save).  So  *)
(* no kernel fails for want of a secret that was given, and a secret that   *)
(* bedrock cannot split was given as such (build_adapter).                  *)
Closed(data) ==
    /\ data.default_model # NoModel => data.models[data.default_model] # NoEntry
    /\ \A m \in Models : data.models[m].secret_ref => vault[Blob[m]] # NoSecret
SettingsClosed ==
    /\ Closed(config) /\ \A p \in Procs : Closed(cmd[p]._data)
    /\ service # <<>> => Closed(service[1])
    /\ adapter.result = "requires a stored secret" => ~service[1].models[adapter.model].secret_ref
    /\ /\ adapter.result = "secret must be access:secret:region"
       /\ service[1].models[adapter.model].secret_ref
       => Blob[adapter.model] \in misfits
=============================================================================
