CONSTANTS
  r1 = r1
  w1 = w1
  w2 = w2
  a = a
  b = b
  Instances = {r1, w1, w2}
  Calls = {a, b}
  MaxRuns = 2
  Setups <- MCSetups
SPECIFICATION LiveSpec
INVARIANT AnswersOwn
INVARIANT SettledWasHandled
PROPERTY ImplementsRequestReply
PROPERTY RequestsAnswered
CHECK_DEADLOCK FALSE
