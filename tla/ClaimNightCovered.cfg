SPECIFICATION Spec
CONSTANTS
    Guardians = {1, 2, 3}
    Admins = {1, 2}
    Requester = 1
    Provider = 2
    Tags <- AllTags
    TagSets <- Declared
    Cells = {"h1", "h2", "h3"}
    Distance <- Far
    MaxDay = 3
    MaxRows <- Bounds
    Months = {1, 60}
    Infos <- Known
    Answers <- Styles
    Weights <- Balances
    Ratings = {1, 5}
    Workers = {w1, w2}
    Mixes <- SmallMixes
CHECK_DEADLOCK FALSE
INVARIANTS
    NightCovered
