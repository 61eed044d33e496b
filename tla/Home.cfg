\* Delegation paths and all delegation graphs of three agents; a package of three files
\* signed while it is edited; two processes on the registry and on the settings; two
\* overlapping updates; a home backed up and restored beside commands, and killed.  Each of them may end.
SPECIFICATION MCSpec
CONSTANTS
    Tools = {"fs"}
    Hosts = {"h"}
    Paths <- MCPaths
    Under <- MCUnder
    Rules = {"git"}
    Commands = {"git status"}
    Matches <- MCMatches
    Manifests <- MCManifests
    Policies <- MCPolicies
    None = None
    MaxDepth = 3
    Agents = {a, b, c}
    Unknown = Unknown
    MaxDelegates = 2
    MaxRoots = 2
    Requirements <- MCRequirements
    Widenings <- MCWidenings
    Members <- MCMembers
    Contents = {c1, c2}
    Absent = Absent
    MaxChanges = 1
    MaxDamage = 1
    Names = {"p"}
    Versions = {"1", "2"}
    Trusted = {"vendor"}
    Offered <- MCOffered
    Stocked <- MCStocked
    Procs = {r1, r2}
    NoFile = NoFile
    NoVersion = NoVersion
    Builds = {v1, v2, v3, v4}
    Healthy = {v1, v2, v3}
    Initial = v1
    Updaters = {1, 2}
    Models = {"m1", "m2"}
    Blob <- MCBlob
    NoModel = NoModel
    MaxAdds = 2
    Admins = {r1}
    MaxCommits = 1
    MaxEdits = 2
INVARIANTS NeverBeyondPath LoadedIsEffective LoaderExact PackageIsWhatWasSigned
    ShadowUpdateSafe PointsAtHealthy SettingsClosed HomeStaysWhole
CHECK_DEADLOCK FALSE
