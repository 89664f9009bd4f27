\* Sessions in each output mode: keys pressed, and turns whose pump may lag.
SPECIFICATION FairSpec
CONSTANTS
  Characters <- SampleCharacters
  Typed <- SampleTyped
  Pasted <- SamplePasted
  Commands <- SampleCommands
  Efforts <- SampleEfforts
  Skills <- SampleSkills
  MaxKeys = 5
  Sessions <- SampleSessions
  MaxHistory = 2
  MaxRefusals = 1
INVARIANTS
  CursorsFit
  TextShownOnce
  OneInterrupt
PROPERTIES
  DraftSurvives
  AnswersShown
  TurnReturns
CHECK_DEADLOCK FALSE
