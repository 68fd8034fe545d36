SPECIFICATION Spec
CONSTANTS
  help = help
  sockname = sockname
  false = false
  true = true
  name = name
  dash = dash
  Args <- MCArgs
  Required <- MCRequired
  Default <- MCDefault
  Values <- MCValues
  Dashed <- MCDashed
  TrueValues <- MCTrueValues
  Help <- MCHelp
  Separator = separator
  Empty = empty
  MaxTokens = 5
INVARIANTS TypeOK AcceptsWellFormed MeansWhatItSays
CHECK_DEADLOCK FALSE
