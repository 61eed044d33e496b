------------------------------ MODULE ExecLog ------------------------------
(***************************************************************************)
(* What the kernel promises of tool calls, without saying how: a log of    *)
(* declared intents.  An intent is open when it is declared; while it is   *)
(* open its tool may run, once, and the result may be kept; then the       *)
(* intent gets a fate, for good.                                           *)
(*                                                                         *)
(* Kernel implements this specification: its journal, its stored results   *)
(* and the outside world together are the log (Kernel!IntentLog).          *)
(***************************************************************************)
EXTENDS Naturals

CONSTANTS Calls, Idempotent

VARIABLE log

Fates == {"open", "done", "reissue", "review", "buried"}

Open(n) == n \in DOMAIN log /\ log[n].fate = "open"

Init == log = << >>

(* An intent is declared only when none is open.                           *)
Declare(n, c) ==
  /\ \A m \in DOMAIN log : m < n /\ ~Open(m)
  /\ log' = [m \in DOMAIN log \cup {n} |->
               IF m = n THEN [call |-> c, fate |-> "open", ran |-> FALSE, kept |-> FALSE]
               ELSE log[m]]

(* Its tool runs: never a second time under the same intent.               *)
Perform(n) ==
  /\ Open(n) /\ ~log[n].ran
  /\ log' = [log EXCEPT ![n].ran = TRUE]

(* The result is kept.  It is that of the intent's own run, or, for a call *)
(* that may be repeated, of a run made ahead of the intent.                *)
Keep(n) ==
  /\ Open(n) /\ ~log[n].kept
  /\ log[n].ran \/ log[n].call \in Idempotent
  /\ log' = [log EXCEPT ![n].ran = TRUE, ![n].kept = TRUE]

(* Done means the result is kept.  Without a kept result, only a call that *)
(* may be repeated may be issued again; any other is for review.  An       *)
(* intent is buried when a run is started over it.                         *)
Settle(n, fate) ==
  /\ Open(n)
  /\ \/ fate = "done" /\ log[n].kept
     \/ fate = "reissue" /\ ~log[n].kept /\ log[n].call \in Idempotent
     \/ fate = "review" /\ ~log[n].kept /\ log[n].call \notin Idempotent
     \/ fate = "buried"
  /\ log' = [log EXCEPT ![n].fate = fate]

Next ==
  \/ \E n \in DOMAIN log', c \in Calls : Declare(n, c)
  \/ \E n \in DOMAIN log : Perform(n) \/ Keep(n) \/ \E fate \in Fates : Settle(n, fate)

Spec == Init /\ [][Next]_log
=============================================================================
