CONSTANTS
  CommandLines <- AllCommandLines
  Files <- AllFiles
  Unreadable = Unreadable
  DefaultPath = "config.json"
  NullText = NullText
  MaxInt = 3
SPECIFICATION Spec
INVARIANT TypeOK
INVARIANT RunsWhatWasAsked
INVARIANT ReadsWithinText
INVARIANT HelpIsInitialised
INVARIANT ExitTellsOutcome
