CONSTANTS
  p1 = p1
  p2 = p2
  r1 = r1
  e1 = e1
  Readers <- OneReader
  EventTypes <- OneType
  ActorForms = {"text"}
  Appenders <- TwoAppenders
  Dialects = {"postgresql"}
  MaxSequence = 3
SPECIFICATION Spec
INVARIANT ProvisionalIndexIsPosition
