CONSTANTS
  Filters = {all, few, none}
  all = all
  few = few
  none = none
  AllProblems = all
  PagesOf <- SomePages
  Languages = {py, go}
  py = py
  go = go
  DefaultLanguage = py
  Codes = {starter, edited}
  starter = starter
  edited = edited
  Starter = starter
  NoCode = NoCode
  Slots = {1, 2}
  Polls = 1
  Clicks = 4
  Faults = 1
SPECIFICATION Spec
INVARIANTS EmptyMeansNone DraftsKept PanelIsHonest
PROPERTIES WaitingEnds
CHECK_DEADLOCK FALSE
