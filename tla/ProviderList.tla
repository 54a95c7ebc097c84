------------------------------ MODULE ProviderList ------------------------------
(***************************************************************************)
(* The two panels that list providers (settings/provider-panel for the     *)
(* built-in ones, preferences/personal-providers-panel for the user's own) *)
(* with the form that adds and edits one (settings/use-provider-form,      *)
(* model-checklist), beside the rows (services/providers/store).  Secrets  *)
(* and their tests are in Providers; here a provider is its visibility and *)
(* its models, which matter because a model must be the default.           *)
(***************************************************************************)
EXTENDS Naturals, Sequences, FiniteSets

CONSTANTS
  Provs, Models, None,
  MaxCalls,    \* bound: requests under way
  MaxSaves,    \* bound: forms opened, toggles and removals
  MaxLosses,   \* bound: requests that fail
  Overlaps     \* requests about one provider may overlap

VARIABLES
  builtin,     \* is it the administrator's panel
  rows,        \* [Provs -> its row, or NoRow]
  list,        \* [Provs -> what the panel shows of it]
  loading,     \* the skeleton is shown instead
  editing,     \* the provider in the form, "new", or None
  form,
  saving,      \* Save is disabled
  requests,    \* requests not handled yet
  answers,     \* answers under way, in the order they were given
  unsure,      \* history: providers of which a lost answer left open what is stored
  saves, losses

listVars == <<builtin, rows, list, loading, editing, form, saving, requests, answers,
              unsure, saves, losses>>

NoRow == [public |-> FALSE, models |-> <<>>, is |-> FALSE]
EmptyForm == [NoRow EXCEPT !.is = TRUE]
Entry(m, d) == [id |-> m, def |-> d]

Init ==
  /\ builtin \in BOOLEAN
  /\ rows \in [Provs -> {NoRow, [EmptyForm EXCEPT !.models = <<Entry(CHOOSE m \in Models : TRUE, TRUE)>>]}]
  /\ list = [p \in Provs |-> NoRow] /\ loading = TRUE
  /\ editing = None /\ form = EmptyForm /\ saving = FALSE
  /\ requests = {[kind |-> "list"]} /\ answers = <<>>
  /\ unsure = {} /\ saves = 0 /\ losses = 0

-----------------------------------------------------------------------------
(* The form *)

Has(ms, m) == \E i \in DOMAIN ms : ms[i].id = m
\* A model is in the form once.
Without(ms, m) ==
  LET i == CHOOSE k \in DOMAIN ms : ms[k].id = m
  IN  [k \in 1..(Len(ms) - 1) |-> ms[IF k < i THEN k ELSE k + 1]]

\* Unselecting without a look at what was the default.
JustToggled(ms, m) ==
  IF Has(ms, m) THEN Without(ms, m) ELSE Append(ms, Entry(m, ms = <<>>))

\* toggleModelSelected: the first model is the default, and inherits it.
Toggled(ms, m) ==
  IF ~Has(ms, m) THEN Append(ms, Entry(m, ms = <<>>))
  ELSE LET rest == Without(ms, m) IN
       IF rest = <<>> \/ \E i \in DOMAIN rest : rest[i].def THEN rest
       ELSE [rest EXCEPT ![1].def = TRUE]

WithDefault(ms, m) == [i \in DOMAIN ms |-> Entry(ms[i].id, ms[i].id = m)]

FormOnly == UNCHANGED <<builtin, rows, list, loading, editing, saving, requests, answers,
                        unsure, saves, losses>>

\* The form of a provider is in the place of its row.
FormIsOpen == ~loading /\ (editing = "new" \/ (editing \in Provs /\ list[editing].is))

ToggleSelected(m) ==
  FormIsOpen /\ form' = [form EXCEPT !.models = Toggled(@, m)] /\ FormOnly

\* The button is there for the selected models only.
ToggleDefault(m) ==
  FormIsOpen /\ Has(form.models, m) /\ form' = [form EXCEPT !.models = WithDefault(@, m)] /\ FormOnly

SetVisibility ==
  FormIsOpen /\ builtin /\ form' = [form EXCEPT !.public = ~@] /\ FormOnly

\* startAdd, startEdit.
Open(e) ==
  /\ ~loading /\ saves < MaxSaves /\ e # editing
  /\ e \in Provs => list[e].is
  /\ editing' = e
  /\ form' = IF e = "new" THEN EmptyForm ELSE list[e]
  /\ saves' = saves + 1
  /\ UNCHANGED <<builtin, rows, list, loading, saving, requests, answers, unsure, losses>>

Cancel ==
  /\ FormIsOpen
  /\ editing' = None /\ form' = EmptyForm
  /\ UNCHANGED <<builtin, rows, list, loading, saving, requests, answers, unsure, saves, losses>>

-----------------------------------------------------------------------------
(* Requests of the panel *)

UnderWay == requests \cup {answers[i].of : i \in DOMAIN answers}

Request(r) ==
  /\ Cardinality(requests) + Len(answers) < MaxCalls
  /\ r \notin requests
  /\ Overlaps \/ \A q \in UnderWay : q.kind = "list" \/ q.p # r.p
  /\ requests' = requests \cup {r}

\* handleSave; the form stays open, and the rows stay in reach.
Save ==
  /\ FormIsOpen /\ ~saving
  /\ saving' = TRUE
  /\ Request([kind |-> "save", p |-> editing, body |-> form])
  /\ UNCHANGED <<builtin, rows, list, loading, editing, form, answers, unsure, saves, losses>>

RowIsShown(p) == ~loading /\ list[p].is /\ editing # p

\* handleDelete; the button of a provider being deleted is disabled.
Remove(p) ==
  /\ RowIsShown(p) /\ saves < MaxSaves
  /\ Request([kind |-> "remove", p |-> p])
  /\ saves' = saves + 1
  /\ UNCHANGED <<builtin, rows, list, loading, editing, form, saving, answers, unsure, losses>>

\* handleVisibilityToggle: shown first, stored then.
ToggleVisibility(p) ==
  /\ RowIsShown(p) /\ builtin /\ saves < MaxSaves
  /\ list' = [list EXCEPT ![p].public = ~@]
  /\ Request([kind |-> "toggle", p |-> p, prev |-> list[p].public])
  /\ saves' = saves + 1
  /\ UNCHANGED <<builtin, rows, loading, editing, form, saving, answers, unsure, losses>>

-----------------------------------------------------------------------------
(* The server *)

Free == {p \in Provs : ~rows[p].is}
Newest == CHOOSE p \in Free : TRUE

\* Can the request be done: a provider that is gone is not found.
Valid(r) ==
  CASE r.kind = "list" -> TRUE
    [] r.kind = "save" /\ r.p = "new" -> Free # {}
    [] OTHER -> rows[r.p].is

Target(r) == IF r.p = "new" THEN Newest ELSE r.p

\* createProvider, updateProvider with the fields of the form, or with one.
Stored(r) ==
  CASE r.kind = "save" -> [rows EXCEPT ![Target(r)] = r.body]
    [] r.kind = "toggle" -> [rows EXCEPT ![r.p].public = ~r.prev]
    [] r.kind = "remove" -> [rows EXCEPT ![r.p] = NoRow]
    [] OTHER -> rows

\* Of the rows an answer has what its reader takes: all, one or none.
Answer(r, ok, p) ==
  answers' = Append(answers, [of |-> r, ok |-> ok, p |-> p,
    rows |-> [q \in Provs |-> IF ok /\ p \in {q, None} THEN rows'[q] ELSE NoRow]])

Handle(r) ==
  /\ r \in requests /\ Valid(r)
  /\ requests' = requests \ {r}
  /\ rows' = Stored(r)
  /\ Answer(r, TRUE, IF r.kind = "list" THEN None ELSE Target(r))
  /\ unsure' = IF r.kind = "list" THEN {} ELSE unsure
  /\ UNCHANGED <<builtin, list, loading, editing, form, saving, saves, losses>>

\* It is refused, or fails before or after it was done.
HandleFails(r, done) ==
  /\ r \in requests
  /\ IF Valid(r) THEN losses < MaxLosses ELSE ~done
  /\ losses' = IF Valid(r) THEN losses + 1 ELSE losses
  /\ requests' = requests \ {r}
  /\ rows' = IF done THEN Stored(r) ELSE rows
  /\ Answer(r, FALSE, None)
  /\ unsure' = IF r.kind = "list" THEN Provs ELSE IF done THEN unsure \cup {Target(r)} ELSE unsure
  /\ UNCHANGED <<builtin, list, loading, editing, form, saving, saves>>

-----------------------------------------------------------------------------
(* The answers *)

Shown(p, row) == list' = [list EXCEPT ![p] = row]

\* A personal save closes the form and loads the list; a built-in one puts the answer in.
Saved(a) ==
  /\ editing' = None /\ form' = EmptyForm
  /\ IF builtin
     THEN /\ saving' = FALSE
          /\ IF a.of.p = "new" \/ list[a.p].is THEN Shown(a.p, a.rows[a.p]) ELSE UNCHANGED list
          /\ UNCHANGED <<requests, loading>>
     ELSE /\ loading' = TRUE
          /\ requests' = requests \cup {[kind |-> "list"]}
          /\ UNCHANGED <<list, saving>>

\* A toggle that did not succeed shows what was shown before it.
Toggles(a) ==
  /\ IF ~list[a.of.p].is THEN UNCHANGED list
     ELSE Shown(a.of.p, IF a.ok THEN a.rows[a.of.p] ELSE [list[a.of.p] EXCEPT !.public = a.of.prev])
  /\ UNCHANGED <<editing, form, saving, requests, loading>>

AnswerArrives ==
  /\ answers # <<>>
  /\ answers' = Tail(answers)
  /\ LET a == Head(answers) IN
     CASE a.of.kind = "list" ->
            /\ list' = IF a.ok THEN a.rows ELSE list
            /\ loading' = FALSE /\ saving' = FALSE
            /\ UNCHANGED <<editing, form, requests>>
       [] a.of.kind = "toggle" -> Toggles(a)
       [] a.of.kind = "save" /\ a.ok -> Saved(a)
       [] a.of.kind = "save" /\ ~a.ok -> saving' = FALSE /\ UNCHANGED <<list, loading, editing, form, requests>>
       [] a.of.kind = "remove" ->
            /\ list' = IF a.ok THEN [list EXCEPT ![a.of.p] = NoRow] ELSE list
            /\ UNCHANGED <<loading, editing, form, saving, requests>>
  /\ UNCHANGED <<builtin, rows, unsure, saves, losses>>

Next ==
  \/ \E m \in Models : ToggleSelected(m)
  \/ \E m \in Models : ToggleDefault(m)
  \/ SetVisibility
  \/ \E e \in Provs \cup {"new"} : Open(e)
  \/ Cancel
  \/ Save
  \/ \E p \in Provs : Remove(p)
  \/ \E p \in Provs : ToggleVisibility(p)
  \/ \E r \in requests : Handle(r)
  \/ \E r \in requests, b \in BOOLEAN : HandleFails(r, b)
  \/ AnswerArrives

Spec == Init /\ [][Next]_listVars

-----------------------------------------------------------------------------
OneDefault(ms) == ms = <<>> \/ Cardinality({i \in DOMAIN ms : ms[i].def}) = 1

\* use-provider-form.ts "Ensure at least one default": whatever is clicked and saved, a
\* stored provider with models has one default.
EachHasADefault == \A p \in Provs : OneDefault(rows[p].models)

\* Once nothing is under way, the panel shows what is stored, optimistic toggles and
\* their roll-back included, but for what a lost answer left open.
ProvidersAreTrue ==
  requests = {} /\ answers = <<>> => \A p \in Provs \ unsure : list[p] = rows[p]

ProviderListIsTrue == EachHasADefault /\ ProvidersAreTrue

-----------------------------------------------------------------------------
\* What keeps one default: no model is in a form, a request, an answer or a row twice,
\* and one of them is the default.
Entries == [id : Models, def : BOOLEAN]
Distinct(ms) == \A i, j \in DOMAIN ms : ms[i].id = ms[j].id => i = j
SoleDefault(ms) == ms = <<>> \/ \E d \in DOMAIN ms : \A i \in DOMAIN ms : ms[i].def <=> i = d
Drafts == {ms \in Seq(Entries) : Distinct(ms) /\ SoleDefault(ms)}
AnyRow == [public : BOOLEAN, models : Drafts, is : BOOLEAN]

AnyRequest ==
  [kind : {"list"}] \cup [kind : {"save"}, p : Provs \cup {"new"}, body : AnyRow]
    \cup [kind : {"toggle"}, p : Provs, prev : BOOLEAN] \cup [kind : {"remove"}, p : Provs]
AnyAnswer ==
  [of : AnyRequest, ok : BOOLEAN, p : Provs \cup {None}, rows : [Provs -> AnyRow]]

Shapes ==
  /\ builtin \in BOOLEAN /\ loading \in BOOLEAN /\ saving \in BOOLEAN
  /\ rows \in [Provs -> AnyRow] /\ list \in [Provs -> AnyRow]
  /\ editing \in Provs \cup {"new", None} /\ form \in AnyRow /\ form.is
  /\ requests \subseteq AnyRequest /\ answers \in Seq(AnyAnswer) /\ unsure \subseteq Provs

\* What an answer says of the provider it is about; a built-in panel asks for the list
\* once, a personal one toggles nothing.
RequestFits(r) ==
  /\ r.kind = "toggle" => builtin
  /\ r.kind = "save" => r.body.is
AnswerFits(a) ==
  /\ RequestFits(a.of)
  /\ a.ok /\ a.of.kind = "remove" => a.rows[a.of.p] = NoRow
  /\ a.ok /\ a.of.kind = "toggle" => a.rows[a.of.p].is
  /\ a.ok /\ a.of.kind = "save" => a.p \in Provs /\ a.of.p \in {"new", a.p} /\ a.rows[a.p].is
Fits == (\A r \in requests : RequestFits(r)) /\ (\A i \in DOMAIN answers : AnswerFits(answers[i]))

LoadsOnce ==
  builtin =>
    IF loading
    THEN \/ requests = {[kind |-> "list"]} /\ answers = <<>>
         \/ requests = {} /\ Len(answers) = 1 /\ answers[1].of.kind = "list"
    ELSE \A q \in UnderWay : q.kind # "list"

\* One request about a provider at a time, from its making to its answer's arrival.
About(r, p) == r.kind # "list" /\ r.p = p
Apart ==
  \A p \in Provs \cup {"new"} :
    /\ \A r, q \in requests : About(r, p) /\ About(q, p) => r = q
    /\ \A r \in requests, i \in DOMAIN answers : ~(About(r, p) /\ About(answers[i].of, p))
    /\ \A i, j \in DOMAIN answers : About(answers[i].of, p) /\ About(answers[j].of, p) => i = j

\* A built-in provider is listed while a request about it is under way, unless it removes it.
StaysListed ==
  builtin =>
    /\ \A r \in requests : r.kind # "list" /\ r.p # "new" => list[r.p].is
    /\ \A i \in DOMAIN answers : LET a == answers[i] IN
         a.of.kind # "list" /\ a.of.p # "new" /\ ~(a.of.kind = "remove" /\ a.ok) => list[a.of.p].is

\* A provider made anew is not listed yet, or the answer that removes its predecessor comes.
MadeIsNew ==
  builtin => \A p \in Provs \ unsure, i \in DOMAIN answers :
    LET a == answers[i] IN a.ok /\ About(a.of, "new") /\ a.p = p =>
      /\ \A r \in requests : ~About(r, p)
      /\ \A j \in DOMAIN answers : About(answers[j].of, p) =>
           answers[j].of.kind = "remove" /\ answers[j].ok
      /\ list[p].is => \E j \in DOMAIN answers : About(answers[j].of, p)

\* The list is on its way to be asked for.
Refreshes ==
  \/ [kind |-> "list"] \in requests
  \/ ~builtin /\ \E i \in DOMAIN answers : answers[i].ok /\ answers[i].of.kind = "save"

\* The answers that change what is shown of a provider, and those that leave it true.
Touches(p) ==
  {a \in AnyAnswer :
     \/ a.ok /\ a.of.kind = "list"
     \/ a.ok /\ a.of.kind = "save" /\ builtin /\ a.p = p
     \/ a.ok /\ a.of.kind = "remove" /\ a.of.p = p
     \/ a.of.kind = "toggle" /\ a.of.p = p}
RolledBack(p, prev) == rows[p] = [list[p] EXCEPT !.public = prev]
Shows(p) ==
  {a \in AnyAnswer : \/ a.ok /\ a.rows[p] = rows[p]
                     \/ ~a.ok /\ a.of.kind = "toggle" /\ RolledBack(p, a.of.prev)}

\* After the last of those answers, or now if there is none, what is shown is true.
AnswersCome(p) ==
  IF \E i \in DOMAIN answers : answers[i] \in Touches(p)
  THEN \E i \in DOMAIN answers :
         /\ answers[i] \in Touches(p) \cap Shows(p)
         /\ \A j \in DOMAIN answers : j > i => answers[j] \notin Touches(p)
  ELSE list[p] = rows[p]

Toggling(r, p) == r.kind = "toggle" /\ r.p = p

ComesTrue(p) ==
  \/ Refreshes
  \/ \E r \in requests : Toggling(r, p) /\ RolledBack(p, r.prev)
  \/ (\A r \in requests : ~Toggling(r, p)) /\ AnswersCome(p)

InductiveInv ==
  /\ Shapes /\ Fits /\ LoadsOnce /\ Apart /\ StaysListed /\ MadeIsNew
  /\ \A p \in Provs \ unsure : ComesTrue(p)

=============================================================================
