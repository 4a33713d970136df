CONSTANTS
    MaxOccurrences = 2
    People = {}
    Organizers = {m}
    Horizon = 2
    Edits = 6
    Responses = 0
    Plans <- OneDate
    Forms <- OneForm
    Participants = {}
    BatchSize = 1
    Reviewers = {}
    Moves = 1
    Photos = {}
SPECIFICATION MCSpec
INVARIANT NotRevived
CHECK_DEADLOCK FALSE
