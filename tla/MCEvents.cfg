CONSTANTS
    MaxOccurrences = 3
    People = {p}
    Organizers = {m, n}
    Horizon = 3
    Edits = 2
    Responses = 3
    Plans <- MCPlans
    Forms <- MCForms
    Participants = {1, 2}
    BatchSize = 1
    Reviewers = {1}
    Moves = 1
    Photos = {1, 2, 3}
SPECIFICATION MCSpec
INVARIANTS ToldTheTruth DatesRestored InviteeHasLink PublishedHasPhotos
PROPERTIES HiddenStays FrontIsAsked
CHECK_DEADLOCK FALSE
