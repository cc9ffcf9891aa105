CONSTANTS
  k = k
  l = l
  v = v
  ok = ok
  failed = failed
  NoLabels = NoLabels
  EmptyValue = EmptyValue
  Unknown = dead
  Undefined = undefined
  NoForm = NoForm
  Ids = {1, 2, 3}
  Names = {1, 2, 3}
  Spaces = {1, 2}
  Public = 1
  LabelKeys = {k, l, undefined}
  LabelValues = {v, EmptyValue}
  States = {ok, failed}
  Tables <- MCTables
  Filters <- MCFilters
  Forms <- MCForms
  PageTables <- MCPageTables
  MaxLimit = 2
  MaxChanges = 1
SPECIFICATION PageSpec
CHECK_DEADLOCK FALSE
INVARIANTS
  AnswersExact
  PagesFirst
PROPERTIES
  PageAsAsked
  PageCatchesUp
