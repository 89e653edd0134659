SPECIFICATION FairSpec
CONSTANTS
    MaxQuestions = 2
    MaxChunks = 2
    Capacity = 1
INVARIANTS
    AnswersItsQuestion
    FinishedIsWhole
PROPERTIES
    LoadingEnds
    StreamsEnd
