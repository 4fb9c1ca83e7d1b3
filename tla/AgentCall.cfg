\* Two tool calls in flight, two retries, the timeout at any point; agents that edit
\* and test, that search and edit, and that leave the searching to specialists.
CONSTANTS
  Slots = {c1, c2}
  Queries = {q1, q2}
  Files = {f1}
  Budget = 1
  CollectionFails = TRUE
  Profiles = {{"run_test_target", "replace_in_file", "write_file", "apply_unified_diff"},
              {"search_files", "replace_in_file"},
              {"read_file", "specialist"}}
  MaxInner = 1
  MaxAttempts = 3
  MaxTurns = 2
  TimesOut = TRUE
  MaxCalls = 3
  None = None
SPECIFICATION FairSpec
INVARIANTS TypeOK SearchesWithinBudget EveryStartIsRecordedOnce OnlyACutCallLosesRows
  RecoveryIsOfTheLastAttempt EventsTellTheAttempts
PROPERTIES TestsSeeAnEdit LostOnlyToASibling ImplementsCallContract CallEnds
