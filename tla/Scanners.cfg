SPECIFICATION Spec
CONSTANTS
    MaxTries = 2
INVARIANTS
    ResultsAreHonest
    ConnectionsOwned
    SecrecyKept
