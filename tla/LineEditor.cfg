\* A line of two characters fills the screen's row; the history wraps often.
CONSTANTS
  COLS = 3
  ROWS = 2
  MAX_INPUT = 4
  HISTORY_SIZE = 2
  Chars <- MCChars
  commands <- MCcommands
  Outputs <- MCOutputs
  Prompts <- MCPrompts
SPECIFICATION Spec
INVARIANTS TypeOK EndsAtPosition RecallsCommands ShowsTheLine
PROPERTY HistoryIsLog
