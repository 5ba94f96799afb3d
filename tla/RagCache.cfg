SPECIFICATION FairSpec
CONSTANTS
    Servers = {s1}
    Reverts = FALSE
    MaxVersion = 3
INVARIANT FreshAnswers
PROPERTY Settles
