\* Three threads and two seats; two workers and a cancel; one caller of three adapters;
\* five migrations, target four.  Workers and migrations end.
SPECIFICATION MCSpec
CONSTANTS
    Subjects = {a, b, c, d, e}
    Threads = {1, 2, 3}
    seats = 2
    Calls = {1, 2}
    N = 3
    Callers = {1}
    Threshold = 2
    Cooldown = 2
    MaxFailures = 3
    Versions = {1, 2, 3, 4, 5}
    Autos <- MCAutos
    Target = 4
    MaxFails = 2
    MaxCrashes = 2
INVARIANTS OvershootBounded WorkersAreAccounted NeverHalfMigrated
PROPERTIES PrimaryRecovers
CHECK_DEADLOCK FALSE
