SPECIFICATION Spec
CONSTANTS
  Chars = {"w", "_"}
  Space = "_"
  Tab = "w"
  BufLen = 3
  PromptLen = 1
  Settings <- MCSettings
  Completions <- MCCompletions
INVARIANTS TypeOK ScreenShowsLine
PROPERTY EditsAsMeant
