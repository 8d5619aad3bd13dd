\* The mirror is managed, no root is.
SPECIFICATION ExportSpec
CONSTANTS
    Call = {c1}
    Version = {v1, v2}
    Manual = {m1}
    None = None
    Files = 2
    MaxWrites = 0
INVARIANT IdentityIsVerified
\* The export has returned, was refused or has stopped.
CHECK_DEADLOCK FALSE
