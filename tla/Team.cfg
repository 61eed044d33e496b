\* Two teams, cancelled, revoked or killed at any time.
SPECIFICATION Spec
CONSTANTS
    lead = lead
    writer = writer
    auditor = auditor
    Agents = {lead, writer, auditor}
    Root = lead
    Teams <- MCTeams
    Tasks = {"t1"}
    MaxRevokes = 1
INVARIANTS TreeWellFormed PolicyBinds EndIsAccounted
PROPERTY StopsBind
