---------------------------- MODULE TeamRecords -----------------------------
(***************************************************************************)
(* What the records of a team run (module Team) say when it is over: the   *)
(* mailbox check and the summary that scr/orchestration.py prints, and the *)
(* sessions that team_recover sets aside for review.                       *)
(***************************************************************************)
EXTENDS Team, SequencesExt

(* verify_team_mailbox: every message has its ledgered delivery and the     *)
(* other way round.                                                         *)
verify_team_mailbox == \A m \in ToSet(mailbox) \cup ToSet(logged) :
    Len(SelectSeq(mailbox, LAMBDA x : x = m)) = Len(SelectSeq(logged, LAMBDA x : x = m))

(* The facts printed after a run: sessions per agent, delegations to it.    *)
team_execution_summary(a) ==
    [sessions |-> Cardinality({s \in DOMAIN members : members[s].agent = a}),
     delegations |-> MapThenSumSet(LAMBDA s : members[s].delegates[a], DOMAIN members)]

(* The records account for every end of a team.  When it ends by itself,    *)
(* the mailbox verifies and the printed summary is consistent: an agent ran *)
(* once for every delegation to it, unless it was severed in between.  When *)
(* it was killed, team_recover has set aside for review only sessions that  *)
(* were cut off, and above a session that was cut off every dangling        *)
(* delegate up to the lead's.                                               *)
EndIsAccounted ==
    /\ stack = <<>> /\ ~crashed =>
        /\ verify_team_mailbox
        /\ \A a \in Agents \ {Root} : LET sum == team_execution_summary(a) IN
            sum.sessions <= sum.delegations /\ (revoked = {} => sum.sessions = sum.delegations)
    /\ crashed /\ (\A s \in DOMAIN members : members[s].tail \in {"settled", "review"}) =>
        \A s \in DOMAIN members : LET m == members[s] IN
            /\ m.tail = "review" => m.end = "running"
            /\ m.end = "running" /\ s # 1 => members[m.parent].tail = "review"
=============================================================================
