SPECIFICATION FairNicSpec
CONSTANTS
  Flows = {1, 2}
  NoFlow = 0
  Size <- MCSize
  Pg <- MCPg
  AckPg = 3
  m_win <- MCWin
  m_var_win = TRUE
  SendTimes = {1, 2}
  MaxEvents = 1
PROPERTIES
  SendsWhenPossible
  AllComplete
CHECK_DEADLOCK FALSE
