SPECIFICATION BenchSpec
CONSTANTS
    Profiles <- MCProfiles
    Payloads <- MCPayloads
    Values <- MCValues
    Vin <- MCVin
    LateRoutes <- MCLateRoutes
    Questions <- MCQuestions
    Demo <- MCDemo
    Drive <- MCDrive
    Checks <- MCChecks
    Channels <- MCChannels
    Instants <- MCInstants
    MaxLate = 2
    MaxBody = 3
INVARIANTS
    DiagnosticsInv
    StartsIffUnambiguous
    AnsweredByItsEndpoint
    ShownAsServed
    SuppressionRule
    ParametersAgree
    ScriptsHold
PROPERTY
    ClearedIffAcknowledged
CHECK_DEADLOCK FALSE
