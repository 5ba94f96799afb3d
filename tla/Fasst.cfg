SPECIFICATION Spec
CONSTANTS
    MaxReasoning = 3
    MaxTool = 2
    MaxToolCalls = 2
    MaxRuns = 2
INVARIANTS
    TranscriptIsValid
    CallsBounded
    PromptsTogether
