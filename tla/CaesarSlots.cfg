SPECIFICATION Spec
CONSTANTS
  c1 = c1  c2 = c2  c3 = c3  None = None
  Clients <- ThreeClients
  Texts <- TwoTexts
  MAXCLIBUF = 1
  CAESAR_SHIFT = 3
CHECK_DEADLOCK FALSE
SYMMETRY Symmetry
INVARIANTS NservAccount ServedBound AnswerFits
