----------------------------- MODULE Dashboard -----------------------------
(***************************************************************************)
(* The dashboard (web/handlers/dashboard.go and its templates) and the     *)
(* other clients that query.  A page is asked for with a form in its URL;  *)
(* the handler makes a query of it, sorts the answer into the cards of a   *)
(* grid, and the page has its grid fetched again every ten seconds, with   *)
(* the URL it was loaded from.  Between two requests sensors change, and   *)
(* the cookie may be given up by the browser.                              *)
(*                                                                         *)
(* The cards are one sequence: a group is the run of the cards of one      *)
(* namespace.  Of htmx (external) it is used that an answer that is an     *)
(* error is not put into the page.                                         *)
(***************************************************************************)
EXTENDS SensorQuery

CONSTANTS
  Forms,       \* what pages are loaded with
  Unknown,     \* a status of the form that sensors do not have: DEAD
  Undefined,   \* the key of a label without one, in a script
  PageTables,  \* what the store may contain while pages are looked at
  MaxChanges,  \* bound on its changes
  NoForm       \* a client without a page

Form == [space: Spaces \cup {AnySpace}, search: Search, labels: Labels, has: SUBSET LabelKeys,
         statuses: SUBSET (States \cup {Unknown}), order: Offered, desc: BOOLEAN]

ASSUME FormsAssumption ==
  /\ Forms \subseteq Form /\ NoForm \notin Form
  /\ EmptyValue \in LabelValues /\ Undefined \in LabelKeys
  /\ \A f \in Forms : Undefined \notin DOMAIN f.labels
ASSUME PageTablesAssumption == PageTables \subseteq Tables /\ Unknown \notin States

VARIABLES
  form,    \* the form of the page
  htmx,    \* whether only the grid is asked for
  header,  \* what the page says of who looks at it
  cards,   \* the grid
  changes  \* number of changes so far

page == <<form, htmx, header, cards>>
pageVars == <<vars, page, changes>>

Card == [id: Ids, space: Spaces, name: Names, state: States]

PageTypeOK ==
  /\ memory \in BOOLEAN /\ table \in Tables /\ anonymous \in BOOLEAN
  /\ request \in Filter /\ filter \in Filter
  /\ found \in Seq(Ids) /\ answer \in Seq(Ids)
  /\ pc \in {"admit", "query", "build", "done", "failed", "shown", "closed"}
  /\ form \in Form \cup {NoForm} /\ htmx \in BOOLEAN
  /\ header \in {"none", "login", "user", "error"}
  /\ cards \in Seq(Card) /\ changes \in 0..MaxChanges

-----------------------------------------------------------------------------
(* From the form to the query.                                              *)

\* One status that is not known, and none is asked for.
ParseStates(statuses) == IF Unknown \in statuses THEN {} ELSE statuses

\* Faulty variant: the keys a sensor has to have are only shown again.
RequestWithoutKeys(f) ==
  [id |-> NoId, space |-> f.space, search |-> f.search, labels |-> f.labels, has |-> {},
   states |-> ParseStates(f.statuses), order |-> f.order, desc |-> f.desc, limit |-> 0]

RequestOf(f) ==
  [id |-> NoId, space |-> f.space, search |-> f.search, labels |-> f.labels, has |-> f.has,
   states |-> ParseStates(f.statuses), order |-> f.order, desc |-> f.desc, limit |-> 0]

PageInit ==
  /\ htmx = FALSE /\ header = "none" /\ cards = <<>> /\ changes = 0
  /\ \/ form = NoForm /\ Init
     \/ /\ form \in Forms
        /\ memory \in BOOLEAN /\ table \in PageTables /\ anonymous \in BOOLEAN
        /\ request = RequestOf(form) /\ filter = request
        /\ found = <<>> /\ answer = <<>> /\ pc = "admit"

\* The query of a page or of another client.
Serve == Next /\ UNCHANGED <<page, changes>>

-----------------------------------------------------------------------------
(* From the answer to the page.                                             *)

CardOf(i) ==
  [id |-> i, space |-> table[i].space, name |-> table[i].name, state |-> table[i].state]

\* Groups come by namespace, the cards of a group by name.
Arranged(seq) ==
  \A m, n \in DOMAIN seq : m < n =>
    \/ table[seq[m]].space < table[seq[n]].space
    \/ table[seq[m]].space = table[seq[n]].space /\ table[seq[m]].name <= table[seq[n]].name

\* A whole page says who is signed in; a refreshed grid leaves that alone.
Render ==
  /\ pc = "done" /\ form # NoForm
  /\ \E seq \in SetToSeqs(ToSet(answer)) :
       Arranged(seq) /\ cards' = [n \in DOMAIN seq |-> CardOf(seq[n])]
  /\ header' = IF htmx THEN header ELSE IF anonymous THEN "login" ELSE "user"
  /\ pc' = "shown"
  /\ UNCHANGED <<asked, filter, found, answer, form, htmx, changes>>

\* "Failed to load sensors" is a page of its own, or leaves the grid as it is.
RenderError ==
  /\ pc = "failed" /\ form # NoForm
  /\ IF htmx THEN pc' = "shown" /\ UNCHANGED <<header, cards>>
             ELSE pc' = "closed" /\ header' = "error" /\ cards' = <<>>
  /\ UNCHANGED <<asked, filter, found, answer, form, htmx, changes>>

-----------------------------------------------------------------------------
(* The page in the browser.                                                 *)

Ask(f, partly) ==
  /\ form' = f /\ htmx' = partly
  /\ request' = RequestOf(f) /\ filter' = RequestOf(f)
  /\ found' = <<>> /\ answer' = <<>> /\ pc' = "admit"
  /\ UNCHANGED <<memory, table, anonymous, header, cards, changes>>

\* Faulty variant: the fetched grid takes the place of what fetches it.
RefreshOnce == pc = "shown" /\ ~htmx /\ Ask(form, TRUE)

Refresh == pc = "shown" /\ Ask(form, TRUE)

\* The form is sent again as the page shows it.  Its script gets the labels
\* twice: as Key and Value from the handler, in which it finds no key and no
\* value, and from the URL.
Resubmitted(f) ==
  IF f.labels = <<>> THEN f
  ELSE [f EXCEPT !.labels = [x \in DOMAIN @ \cup {Undefined} |->
                               IF x \in DOMAIN @ THEN @[x] ELSE EmptyValue]]

Submit == pc = "shown" /\ ~htmx /\ Undefined \notin DOMAIN form.labels /\ Ask(Resubmitted(form), FALSE)

\* The browser gives the cookie up; the page stays as it is.
CookieGone ==
  /\ pc = "shown" /\ ~anonymous
  /\ anonymous' = TRUE
  /\ UNCHANGED <<memory, table, request, filter, found, answer, pc, page, changes>>

\* Sensors report, appear and disappear.
Change ==
  /\ pc = "shown" /\ changes < MaxChanges
  /\ table' \in PageTables \ {table}
  /\ changes' = changes + 1
  /\ UNCHANGED <<memory, anonymous, request, filter, found, answer, pc, page>>

PageNext == Serve \/ Render \/ RenderError \/ Refresh \/ Submit \/ CookieGone \/ Change

\* The server answers, and the page fetches its grid as long as it is open.
Fairness == WF_pageVars(Serve) /\ WF_pageVars(Render) /\ WF_pageVars(RenderError) /\ WF_pageVars(Refresh)

PageSpec == PageInit /\ [][PageNext]_pageVars /\ Fairness

-----------------------------------------------------------------------------
(* Properties.                                                              *)

\* What the form says, read by a person.
FormAsks(i) ==
  LET row == table[i]
      labels == IF row.labels = NoLabels THEN <<>> ELSE row.labels IN
    /\ form.space \in {AnySpace, row.space} /\ row.name \in form.search.text
    /\ \A x \in DOMAIN form.labels \ {Undefined} : x \in DOMAIN labels /\ labels[x] = form.labels[x]
    /\ form.has \subseteq DOMAIN labels
    /\ form.statuses = {} \/ row.state \in form.statuses
    /\ anonymous => row.space = Public

Wanted == {CardOf(i) : i \in {j \in DOMAIN table : FormAsks(j)}}

\* Forms with a status that is not known, forms that were sent twice, empty
\* labels in the in-memory store and wildcards in Postgres are answered in their
\* own way (StatusesObeyed, SentTwice, LabelsExact, SearchesExact).
Ordinary ==
  /\ form # NoForm /\ Unknown \notin form.statuses /\ Undefined \notin DOMAIN form.labels
  /\ memory => EmptyValue \notin {form.labels[x] : x \in DOMAIN form.labels}
  /\ Plain(form.search)

(* Whoever looks, whatever the store and whatever order was chosen, a page  *)
(* of an Ordinary form that has been rendered shows what its form says,     *)
(* each sensor once, under its namespace and by name.                       *)
PageAsAsked ==
  [][pc = "done" /\ Ordinary =>
       /\ ToSet(cards') = Wanted /\ IsInjective(cards')
       /\ \A m, n \in DOMAIN cards' : m < n =>
            \/ cards'[m].space < cards'[n].space
            \/ cards'[m].space = cards'[n].space /\ cards'[m].name <= cards'[n].name]_pageVars

(* A page with an Ordinary form that stays open catches up: once sensors no *)
(* longer change, its grid is and stays what its form says, unless its      *)
(* requests fail again and again: those leave it as it is, without a word.  *)
PageCatchesUp ==
  form # NoForm =>
    \/ <>[](Ordinary => ToSet(cards) = Wanted)
    \/ []<>(pc = "failed")
    \/ <>[](pc = "closed")

-----------------------------------------------------------------------------
(* The inductive invariant: a page's query is the one its form stands for.  *)

FormAsked ==
  IF form = NoForm THEN pc # "shown" ELSE form \in Form /\ request = RequestOf(form)

PageInv == QueryInv /\ FormAsked

-----------------------------------------------------------------------------
(* Statements that this code does not meet (README).                        *)

(* A page shows sensors in the statuses that its form offers and shows as   *)
(* chosen (filter-form.html:60-75).                                         *)
StatusesObeyed ==
  pc = "shown" /\ changes = 0 /\ form.statuses # {} => \A n \in DOMAIN cards : cards[n].state \in form.statuses

(* A form that is sent again unchanged shows the same sensors: the labels   *)
(* are there "for form rendering" (viewmodel.go:75).                        *)
SentTwice ==
  pc = "shown" /\ changes = 0 /\ Unknown \notin form.statuses => ToSet(cards) = Wanted

(* A page that says who is signed in was answered as that user.             *)
HeaderTells ==
  [][pc = "done" /\ header' = "user" => ~anonymous]_pageVars
=============================================================================
