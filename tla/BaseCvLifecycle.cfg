SPECIFICATION Spec

CONSTANTS
  r1 = r1
  r2 = r2
  Requests = {r1, r2}
  MaxCvs = 3
  MaxChanges = 3
  Charges = {TRUE, FALSE}
  NoRequest = NoRequest

INVARIANTS
  SerialKeepsMaxTwo
  ActiveBaseSurvives
  PdfIsKept

SYMMETRY
  Symmetry

PROPERTY
  GenerationHeals
