SPECIFICATION Spec
CONSTANTS
    Errors = {throttled, notFound, secretNotFound, invalidParameter}
    TerminalErrors = {secretNotFound}
    TerminalCodes = {invalidParameter}
    NotFound = notFound
    NoError = NoError
INVARIANTS
    StatusTellsTheTruth
    ReturnedMatchesStatus
    NotFoundLeavesNoTrace
