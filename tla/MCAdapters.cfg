SPECIFICATION Spec
CONSTANTS
    Kinds = {"managed_file", "json_merge"}
    Artifacts <- MCArtifacts
    Contents <- MCContents
    Edits <- MCEdits
    Acceptable <- FileAcceptable
    Readable <- FileReadable
    Outcome <- FileOutcome
    Satisfies <- FileSatisfies
    Digest <- DocumentOf
    Promised <- FilePromised
    Sealed <- FileSealed
    NoFile = NoFile
    Link = Link
    NoDigest = NoDigest
    MaxEdits = 2
    Keys = {k1, k2, k3}
    Settings = {v1, v2}
    Plans <- MCPlans
    Absent = Absent
    Unread = Unread
    MaxTouches = 1
    Protected <- MCProtected
    Sensitive <- MCSensitive
    k1 = k1
    k2 = k2
    k3 = k3
    v1 = v1
    v2 = v2
INVARIANTS
    TypeOK
    PreviewedIsReplaced
    WrittenVerifies
    RolledBack
    AppliedHolds
PROPERTY
    ProtectedKept
