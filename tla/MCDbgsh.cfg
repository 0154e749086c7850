SPECIFICATION FairSpec
CONSTANTS
    MAXOUT = 2
    MAXIN = 2
PROPERTY AnswerArrives
