\* One numeric for whose limit is a call minus a constant.
SPECIFICATION Spec
CONSTANTS
  Chunks <- TheOverwrittenLoop
  Outcomes = {}
INVARIANTS
  RegistersApart
