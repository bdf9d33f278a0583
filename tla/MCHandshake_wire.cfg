CONSTANTS
  Base = 3
  MaxFrame = 27
  Service <- MCService
  Asked <- MCAsked
  Exposed <- MCExposed
  Names <- MCNames
  Datas <- MCDatas
  MaxMsgs = 2
SPECIFICATION Spec
INVARIANTS TypeOK Agreement GivesUpForAReason EndToEnd
CHECK_DEADLOCK FALSE
