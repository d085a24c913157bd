\* A registry that sends wrong bytes of the right number.
SPECIFICATION ServerSpec
CONSTANTS
    Conns = {c1}
    Fetchers = {f1}
    MaxSize = 2
INVARIANTS
    AnswersAreVerified
CHECK_DEADLOCK FALSE
