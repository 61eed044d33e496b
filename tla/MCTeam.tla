------------------------------- MODULE MCTeam -------------------------------
(* Team for TLC: a lead that must hear from a writer and an auditor, and a  *)
(* lead over a writer over an auditor.                                      *)
EXTENDS TeamRecords, TLC

CONSTANTS lead, writer, auditor

MCFlat == lead :> {writer, auditor} @@ writer :> {} @@ auditor :> {}
MCDeep == lead :> {writer} @@ writer :> {auditor} @@ auditor :> {}
MCNone == lead :> {} @@ writer :> {} @@ auditor :> {}

MCTeams ==
    {[edges |-> MCFlat, required |-> MCFlat, max_per |-> 2, no_redelegate |-> TRUE,
      nonempty |-> TRUE, max_depth |-> 1, steps |-> lead :> 3 @@ writer :> 2 @@ auditor :> 2],
     [edges |-> MCDeep, required |-> MCNone, max_per |-> 1, no_redelegate |-> FALSE,
      nonempty |-> FALSE, max_depth |-> 2, steps |-> lead :> 2 @@ writer :> 2 @@ auditor :> 1]}
=============================================================================
