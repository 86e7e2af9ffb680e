SPECIFICATION WidgetSpec
CONSTANTS
    Requests = {r1, r2}
    AssistantIds = {redmoor, other}
    Welcomes = {hello, welcome}
    NoExchange = NoExchange
    NoFailure = NoFailure
    HistoryLimit = 2
    MaxDeltas = 2
    MaxMessages = 5
    MaxChanges = 2
CHECK_DEADLOCK FALSE
INVARIANT ConversationConsistent
PROPERTIES AnswersAreWhole EveryQuestionSettles
