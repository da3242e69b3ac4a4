\* What the test expects of the order of messages.
SPECIFICATION Spec
CONSTANTS
  Conversation = {c1, c2}
  Turn = {t1, t2, t3}
  Limits = {1, 3}
  None = None
SYMMETRY MCSymmetry
INVARIANT AnswerComesFirst
CHECK_DEADLOCK FALSE
