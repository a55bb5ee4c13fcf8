\* One session, two requests at a time and three in all, two rounds (the code: five).
SPECIFICATION Spec
CONSTANTS
    core = core
    users = users
    scale = scale
    p1 = p1
    p2 = p2
    r1 = r1
    r2 = r2
    None = None
    Fields <- MCFields
    Required = {core}
    Enough <- MCEnough
    Answers <- MCAnswers
    Prompts = {p1, p2}
    MaxRounds = 2
    Requests = {r1, r2}
    MaxRequests = 3
SYMMETRY Symmetric
INVARIANTS ReadsLastWrite ProjectIntentValid
PROPERTY AnswersKept
CHECK_DEADLOCK FALSE
