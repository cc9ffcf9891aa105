------------------------- MODULE ConditionEvaluator -------------------------
(***************************************************************************)
(* The evaluator of condition rules (condition_evaluator.go), which all    *)
(* calls of the service share: compiled expressions and parsed message     *)
(* templates are kept in two maps under one read-write mutex.  A goroutine *)
(* looks a text up under the read lock, gives that up, takes the write     *)
(* lock and looks again before it compiles or parses.  It evaluates one    *)
(* rule at a time: the expression and then, if that is true, the template. *)
(***************************************************************************)
EXTENDS Integers, FiniteSets

CONSTANTS
  Workers,      \* goroutines that evaluate rules
  Exprs,        \* expressions of rules...
  BadExprs,     \* ... and those of them that do not compile
  Templates,    \* message templates...
  BadTemplates, \* ... and those of them that do not parse
  MaxCacheSize, \* maxCacheSize of the evaluator
  NoText, NoWorker

ASSUME TextsAssumption ==
  /\ BadExprs \subseteq Exprs /\ BadTemplates \subseteq Templates
  /\ NoText \notin Exprs \cup Templates /\ NoWorker \notin Workers
ASSUME MaxCacheSizeAssumption == MaxCacheSize \in Nat \ {0}

VARIABLES
  cached,       \* expressions whose program is kept
  templates,    \* templates that are kept parsed
  compiled,     \* expressions that were ever compiled...
  recompiled,   \* ... and those that were compiled again
  readers,      \* who holds the mutex for reading...
  writer,       \* ... and who for writing
  pc, expr, tmpl

programs == <<cached, compiled, recompiled>>
mutex == <<readers, writer>>
task == <<expr, tmpl>>
evaluatorVars == <<programs, templates, mutex, pc, task>>

PCs == {"idle", "expr_rlock", "expr_look", "expr_lock", "expr_again", "expr_compile",
        "tmpl_rlock", "tmpl_look", "tmpl_lock", "tmpl_again", "tmpl_parse"}
Reading == {"expr_look", "tmpl_look"}
Writing == {"expr_again", "expr_compile", "tmpl_again", "tmpl_parse"}
ForTemplate == {"tmpl_rlock", "tmpl_look", "tmpl_lock", "tmpl_again", "tmpl_parse"}

EvaluatorTypeOK ==
  /\ cached \subseteq Exprs \ BadExprs
  /\ templates \subseteq Templates \ BadTemplates
  /\ recompiled \subseteq compiled /\ compiled \subseteq Exprs
  /\ readers \subseteq Workers /\ writer \in Workers \cup {NoWorker}
  /\ pc \in [Workers -> PCs]
  /\ expr \in [Workers -> Exprs \cup {NoText}]
  /\ tmpl \in [Workers -> Templates \cup {NoText}]

EvaluatorInit ==
  /\ cached = {} /\ templates = {} /\ compiled = {} /\ recompiled = {}
  /\ readers = {} /\ writer = NoWorker
  /\ pc = [w \in Workers |-> "idle"]
  /\ expr = [w \in Workers |-> NoText] /\ tmpl = [w \in Workers |-> NoText]

-----------------------------------------------------------------------------

Goto(w, label) == pc' = [pc EXCEPT ![w] = label]

\* A reply is built, and the next rule of it comes to evaluateSingleRule.
Evaluate(w) ==
  /\ pc[w] = "idle"
  /\ \E e \in Exprs, t \in Templates \cup {NoText} :
       /\ expr' = [expr EXCEPT ![w] = e]
       /\ tmpl' = [tmpl EXCEPT ![w] = t]
  /\ Goto(w, "expr_rlock")
  /\ UNCHANGED <<programs, templates, mutex>>

Finish(w) ==
  /\ Goto(w, "idle")
  /\ expr' = [expr EXCEPT ![w] = NoText]
  /\ tmpl' = [tmpl EXCEPT ![w] = NoText]

\* The program runs.  Unless it is true and there is a template, that is all.
RunProgram(w) ==
  \/ Finish(w)
  \/ tmpl[w] # NoText /\ Goto(w, "tmpl_rlock") /\ UNCHANGED task

RLock(w) ==
  /\ pc[w] \in {"expr_rlock", "tmpl_rlock"}
  /\ writer = NoWorker
  /\ readers' = readers \cup {w}
  /\ Goto(w, IF pc[w] = "expr_rlock" THEN "expr_look" ELSE "tmpl_look")
  /\ UNCHANGED <<programs, templates, writer, task>>

LookExpr(w) ==
  /\ pc[w] = "expr_look"
  /\ readers' = readers \ {w}
  /\ IF expr[w] \in cached
       THEN RunProgram(w)
       ELSE Goto(w, "expr_lock") /\ UNCHANGED task
  /\ UNCHANGED <<programs, templates, writer>>

LookTemplate(w) ==
  /\ pc[w] = "tmpl_look"
  /\ readers' = readers \ {w}
  /\ IF tmpl[w] \in templates
       THEN Finish(w)
       ELSE Goto(w, "tmpl_lock") /\ UNCHANGED task
  /\ UNCHANGED <<programs, templates, writer>>

Lock(w) ==
  /\ pc[w] \in {"expr_lock", "tmpl_lock"}
  /\ writer = NoWorker /\ readers = {}
  /\ writer' = w
  /\ Goto(w, IF pc[w] = "expr_lock" THEN "expr_again" ELSE "tmpl_again")
  /\ UNCHANGED <<programs, templates, readers, task>>

\* Faulty variant: no second look under the write lock.
LookExprAgainNot(w) ==
  /\ pc[w] = "expr_again"
  /\ Goto(w, "expr_compile")
  /\ UNCHANGED <<programs, templates, mutex, task>>

\* The second look, under the write lock.
LookExprAgain(w) ==
  /\ pc[w] = "expr_again"
  /\ IF expr[w] \in cached
       THEN writer' = NoWorker /\ RunProgram(w)
       ELSE Goto(w, "expr_compile") /\ UNCHANGED <<writer, task>>
  /\ UNCHANGED <<programs, templates, readers>>

Compiled(e) ==
  /\ compiled' = compiled \cup {e}
  /\ recompiled' = recompiled \cup ({e} \cap compiled)

\* Faulty variant: an expression that does not compile is tried again.
CompileRetries(w) ==
  /\ pc[w] = "expr_compile"
  /\ writer' = NoWorker
  /\ Compiled(expr[w])
  /\ cached' = cached \cup ({expr[w]} \ BadExprs)
  /\ IF expr[w] \in BadExprs THEN Goto(w, "expr_rlock") /\ UNCHANGED task ELSE RunProgram(w)
  /\ UNCHANGED <<templates, readers>>

\* An expression that does not compile is not kept, and ends the rule.
Compile(w) ==
  /\ pc[w] = "expr_compile"
  /\ writer' = NoWorker
  /\ Compiled(expr[w])
  /\ cached' = cached \cup ({expr[w]} \ BadExprs)
  /\ IF expr[w] \in BadExprs THEN Finish(w) ELSE RunProgram(w)
  /\ UNCHANGED <<templates, readers>>

\* Faulty variant: the limit is reached one template later.
LookTemplateAgainLate(w) ==
  /\ pc[w] = "tmpl_again"
  /\ IF tmpl[w] \in templates
       THEN writer' = NoWorker /\ Finish(w) /\ UNCHANGED templates
       ELSE /\ \E dropped \in IF Cardinality(templates) > MaxCacheSize
                                THEN {{t} : t \in templates} ELSE {{}} :
                 templates' = templates \ dropped
            /\ Goto(w, "tmpl_parse") /\ UNCHANGED <<writer, task>>
  /\ UNCHANGED <<programs, readers>>

\* The second look.  A full map drops any one template before the new one is
\* parsed, whether or not that succeeds.
LookTemplateAgain(w) ==
  /\ pc[w] = "tmpl_again"
  /\ IF tmpl[w] \in templates
       THEN writer' = NoWorker /\ Finish(w) /\ UNCHANGED templates
       ELSE /\ \E dropped \in IF Cardinality(templates) >= MaxCacheSize
                                THEN {{t} : t \in templates} ELSE {{}} :
                 templates' = templates \ dropped
            /\ Goto(w, "tmpl_parse") /\ UNCHANGED <<writer, task>>
  /\ UNCHANGED <<programs, readers>>

Parse(w) ==
  /\ pc[w] = "tmpl_parse"
  /\ writer' = NoWorker
  /\ templates' = templates \cup ({tmpl[w]} \ BadTemplates)
  /\ Finish(w)
  /\ UNCHANGED <<programs, readers>>

Step(w) ==
  \/ RLock(w) \/ LookExpr(w) \/ LookTemplate(w)
  \/ Lock(w) \/ LookExprAgain(w) \/ Compile(w)
  \/ LookTemplateAgain(w) \/ Parse(w)

EvaluatorNext == \E w \in Workers : Evaluate(w) \/ Step(w)

EvaluatorSpec == EvaluatorInit /\ [][EvaluatorNext]_evaluatorVars

\* Goroutines are scheduled, and sync.RWMutex starves neither readers nor
\* writers; nobody has to begin an evaluation.
EvaluatorFairSpec == EvaluatorSpec /\ \A w \in Workers : SF_evaluatorVars(Step(w))

-----------------------------------------------------------------------------
(* Properties.                                                              *)

(* Goroutines that miss the same expression at the same time compile it     *)
(* once (the second look of compileExpression, condition_evaluator.go:210). *)
CompiledOnce == recompiled \subseteq BadExprs

(* However many goroutines fill the map of templates at once, it never      *)
(* exceeds its limit: the room made by one is not taken by another.         *)
TemplatesBounded == Cardinality(templates) <= MaxCacheSize

(* What the two properties above rest on.  The mutex is held exactly by     *)
(* those between a lock and its unlock, and by a writer alone; so what a    *)
(* writer saw is still so when it writes, and the programs that are kept    *)
(* are those of all expressions that were compiled and could be.            *)
Exclusive ==
  /\ \A w \in Workers : pc[w] \in Writing <=> writer = w
  /\ \A w \in Workers : pc[w] \in Reading <=> w \in readers
  /\ writer # NoWorker => readers = {}

Stored ==
  /\ cached = compiled \ BadExprs
  /\ \A w \in Workers :
       /\ pc[w] # "idle" => expr[w] \in Exprs
       /\ pc[w] \in ForTemplate => tmpl[w] \in Templates
       /\ pc[w] = "expr_compile" => expr[w] \notin cached
       /\ pc[w] = "tmpl_parse" => Cardinality(templates) < MaxCacheSize

IInv ==
  /\ EvaluatorTypeOK /\ Exclusive /\ Stored
  /\ IsFiniteSet(templates) /\ TemplatesBounded
  /\ CompiledOnce

(* Every evaluation ends: no path keeps the mutex or waits for itself.      *)
EvaluationsEnd == \A w \in Workers : pc[w] # "idle" ~> pc[w] = "idle"

-----------------------------------------------------------------------------
(* Statements of the documentation that this code does not meet (README).   *)

(* The limit is there to "prevent unbounded memory growth"                  *)
(* (condition_evaluator.go:56), and holds of what the evaluator keeps.      *)
ProgramsBounded == Cardinality(cached) <= MaxCacheSize
=============================================================================
