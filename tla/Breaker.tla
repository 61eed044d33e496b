------------------------------- MODULE Breaker -------------------------------
(***************************************************************************)
(* Circuit breakers and the fallback chain (scr/resilience.py).            *)
(*                                                                         *)
(* Callers run FallbackChain.complete over the adapters 1 .. N, in order;  *)
(* the adapter's answer arrives in a step of its own, so callers and the   *)
(* clock move on while a call is out.  Adapters go down and come up.       *)
(* _opened_at is kept as what allow() makes of it: the cooldown left.     *)
(***************************************************************************)
EXTENDS Naturals

CONSTANTS
    N,              \* adapters
    Callers,
    Threshold, Cooldown,
    MaxFailures     \* bound: _failures saturates here, at or above Threshold

Adapters == 1 .. N

VARIABLES
    state, _failures, left,     \* per adapter: its breaker; left is Cooldown - (clock - _opened_at)
    up,             \* per adapter: does it answer
    at,             \* per caller: the adapter its loop is at, 0 when idle
    out,            \* per caller: is its call to that adapter out
    outcome         \* per caller: "none" "answered" "AllAdaptersFailed"

breaker == <<state, _failures, left>>
caller == <<at, out, outcome>>
vars == <<breaker, up, caller>>

Init ==
    /\ state = [a \in Adapters |-> "closed"] /\ _failures = [a \in Adapters |-> 0]
    /\ left = [a \in Adapters |-> 0] /\ up \in [Adapters -> BOOLEAN]
    /\ at = [c \in Callers |-> 0] /\ out = [c \in Callers |-> FALSE]
    /\ outcome = [c \in Callers |-> "none"]

Cooled(a) == left[a] = 0
MutAllow(a) == state[a] # "open"
allow(a) == state[a] = "open" => Cooled(a)

(* complete begins; the loop skips or asks the adapter it is at. *)
Call(c) ==
    /\ at[c] = 0 /\ at' = [at EXCEPT ![c] = 1]
    /\ outcome' = [outcome EXCEPT ![c] = "none"]
    /\ UNCHANGED <<breaker, up, out>>

Ask(c) ==
    LET a == at[c] IN
    /\ a \in Adapters /\ ~out[c] /\ allow(a)
    /\ state' = [state EXCEPT ![a] = IF @ = "open" THEN "half_open" ELSE @]
    /\ out' = [out EXCEPT ![c] = TRUE]
    /\ UNCHANGED <<_failures, left, up, at, outcome>>

Skip(c) ==
    /\ at[c] \in Adapters /\ ~out[c] /\ ~allow(at[c])
    /\ at' = [at EXCEPT ![c] = @ + 1]
    /\ UNCHANGED <<breaker, up, out, outcome>>

record_success(a) ==
    /\ state' = [state EXCEPT ![a] = "closed"] /\ _failures' = [_failures EXCEPT ![a] = 0]
    /\ UNCHANGED left

Bounded(n) == IF n > MaxFailures THEN MaxFailures ELSE n

record_failure(a) ==
    LET trips == state[a] = "half_open" \/ _failures[a] + 1 >= Threshold IN
    /\ _failures' = [_failures EXCEPT ![a] = Bounded(@ + 1)]
    /\ state' = [state EXCEPT ![a] = IF trips THEN "open" ELSE @]
    /\ left' = [left EXCEPT ![a] = IF trips THEN Cooldown ELSE @]

Returned(c, how) ==
    /\ at' = [at EXCEPT ![c] = 0] /\ outcome' = [outcome EXCEPT ![c] = how]

Answer(c) ==
    /\ out[c] /\ up[at[c]] /\ record_success(at[c]) /\ Returned(c, "answered")
    /\ out' = [out EXCEPT ![c] = FALSE]
    /\ UNCHANGED up

Fail(c) ==
    /\ out[c] /\ ~up[at[c]] /\ record_failure(at[c])
    /\ at' = [at EXCEPT ![c] = @ + 1] /\ out' = [out EXCEPT ![c] = FALSE]
    /\ UNCHANGED <<up, outcome>>

Exhausted(c) ==
    /\ at[c] = N + 1 /\ Returned(c, "AllAdaptersFailed")
    /\ UNCHANGED <<breaker, up, out>>

Tick ==
    /\ \E a \in Adapters : left[a] > 0
    /\ left' = [a \in Adapters |-> IF left[a] > 0 THEN left[a] - 1 ELSE 0]
    /\ UNCHANGED <<state, _failures, up, caller>>
Flip(a) == up' = [up EXCEPT ![a] = ~@] /\ UNCHANGED <<breaker, caller>>

Step(c) == Call(c) \/ Ask(c) \/ Skip(c) \/ Answer(c) \/ Fail(c) \/ Exhausted(c)
Next == Tick \/ (\E a \in Adapters : Flip(a)) \/ \E c \in Callers : Step(c)
Spec == Init /\ [][Next]_vars
(* Time passes, and callers go on calling and getting answers.             *)
FairSpec == Spec /\ WF_vars(Tick) /\ \A c \in Callers : WF_vars(Step(c))

-----------------------------------------------------------------------------
(* The primary is found again: when the first adapter is up for good, its   *)
(* breaker closes and stays closed, however often it had tripped.           *)
PrimaryRecovers == <>[]up[1] => <>[](state[1] = "closed")
=============================================================================
