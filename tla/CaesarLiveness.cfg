SPECIFICATION FairSpec
CONSTANTS
  c1 = c1  c2 = c2  c3 = c3  None = None
  Clients <- TwoClients
  Texts <- OneText
  MAXCLIBUF = 1
  CAESAR_SHIFT = 3
CHECK_DEADLOCK FALSE
PROPERTIES LineAnswered SlotReleased
