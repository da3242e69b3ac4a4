\* Three turns in two conversations; the client varies its limit from page
\* to page and reads one list.
SPECIFICATION Spec
CONSTANTS
  Conversation = {c1, c2}
  Turn = {t1, t2, t3}
  Limits = {1, 3}
  None = None
SYMMETRY MCSymmetry
INVARIANTS TypeOK MessagesComeOnce UntouchedAreListed
CHECK_DEADLOCK FALSE
