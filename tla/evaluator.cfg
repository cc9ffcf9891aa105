CONSTANTS
  w1 = w1
  w2 = w2
  e1 = e1
  e2 = e2
  e3 = e3
  t1 = t1
  t2 = t2
  t3 = t3
  NoText = NoText
  NoWorker = NoWorker
  Workers = {w1, w2}
  Exprs = {e1, e2, e3}
  BadExprs = {e3}
  Templates = {t1, t2, t3}
  BadTemplates = {t3}
  MaxCacheSize = 1
SPECIFICATION EvaluatorFairSpec
INVARIANTS
  CompiledOnce
  TemplatesBounded
PROPERTIES
  EvaluationsEnd
