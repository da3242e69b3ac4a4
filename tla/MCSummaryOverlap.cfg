\* Overlapping requests and handlers, any reply.
SPECIFICATION Spec
CONSTANTS
  Chat = {r1, r2}
  Handler = {h1, h2}
  Window = 3
  Trigger = 4
  TurnSize = {2, 4}
  Reply = {"text", "no_text"}
  MaxTurns = 3
SYMMETRY MCSymmetry
INVARIANTS TypeOK CountKeepsWindow SummaryIsPrefix
