\* Two concurrent reads of two repositories with room for one token.  As with the
\* defaults of the program, the waits together may take longer than the skew.
SPECIFICATION Spec
CONSTANTS
    Requests = {q1, q2}
    Repos = {1, 2}
    Lifetimes = {0, 1, 5}
    DefaultLife = 4
    MaxLife = 4
    Skew = 2
    Capacity = 1
    Timeout = 1
    Origin <- MCOrigin
    Words <- MCWords
    MaxChallenge = 60
    MaxService = 3
    Challenges <- MCChallenges
    MaxReads = 3
    MaxTokens = 2
    MaxTime = 3
INVARIANTS
    TypeOK
    CacheHoldsProvenTokens
    CredentialsStayApart
    CacheBounded
    StaleTokenIsReplaced
    OverdueIsBounded
    ChallengesAreUnderstood
\* The system rests when every read has ended and the clock's bound is reached.
CHECK_DEADLOCK FALSE
SYMMETRY RequestSymmetry
