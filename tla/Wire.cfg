SPECIFICATION Spec
INVARIANTS
    Faithful
    NeverBreaks
PROPERTIES
    DecodeEnds
