\* One small part of the service at a time.
SPECIFICATION PartsSpec
CHECK_DEADLOCK FALSE
CONSTANTS
    Addresses = {a1}
    Max = 2
    Length = 3
    NoWindow = NoWindow
    MaxNow = 8
    MaxCount = 5
    MaxBack = 2
    MaxRestarts = 1
    Unset = Unset
    NaN = NaN
    None = None
    Lines <- MCLines
    MaxLines = 3
    Rates <- MCRates
    MaxCents = 16
    Rows <- MCRows
    CreatedAt <- MCCreatedAt
    PageSize = 2
    MaxChanges = 3
    Requests = {"request"}
    Tokens = {"token"}
    Environments <- MCEnvironments
    Numbers <- MCNumbers
    ParseInt <- MCParseInt
    AsNumber <- MCAsNumber
    Decimals <- MCDecimals
    Parsable <- MCParsable
    Origins <- MCOrigins
    Editors = {"one", "another"}
    Times = {0, 1, 2}
    MaxStock = 2
    Keep = Keep
INVARIANT PartsTypeOK
INVARIANT BurstBounded
INVARIANT RefusedForCause
INVARIANT StoredExactly
INVARIANT RefusedOnlyTooLarge
INVARIANT WalkAccounted
INVARIANT HandledForCause
INVARIANT StartsForCause
INVARIANT LedgerUnlessAgain
PROPERTY Refines
