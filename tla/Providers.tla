-------------------------------- MODULE Providers --------------------------------
(***************************************************************************)
(* The providers of models: their rows                                     *)
(* (server/src/services/providers/store.ts), the routes that change them   *)
(* (routes/provider-route-helpers.ts), the form that gates a save by a     *)
(* passing test (client/src/components/settings/use-provider-form.ts) and  *)
(* the choice a new session makes among them (providers/resolve.ts behind  *)
(* start_session of ws/handlers.ts).  Between any two queries of one       *)
(* request another may change a row, and an admin the user's role.  An     *)
(* oauth provider is one whose form never changes the URL.                 *)
(***************************************************************************)
EXTENDS Naturals

CONSTANTS
  Provs, None,
  Forms,     \* tabs that edit providers
  Toks,      \* secrets; 0 is the empty one
  Urls,
  MaxChanges \* bound: rows created, deleted or toggled, fields edited, roles changed

VARIABLES
  row,    \* [Provs -> its row, or NoRow]
  form,   \* [Forms -> the provider form of a tab and its save]
  start,  \* a start_session
  recent, \* the provider of the user's last session, None without a model beside it
  admin,  \* is the user an admin
  tested, \* history: the pairs of a secret and a URL that passed a test
  mixed,  \* history: the rows whose last save was overtaken by another
  steady, seen, roles, \* history of the start: what was open to it throughout, and ever
  changes

providerVars == <<row, form, start, recent, admin, tested, mixed, steady, seen, roles, changes>>

\* own: "builtin", "me" or "other", another user's; has: has it a model.
NoRow == [own |-> "none", public |-> FALSE, tok |-> 0, url |-> 0, has |-> FALSE]
Rows == {p \in Provs : row[p] # NoRow}

\* draft.tok 0: null, keep the saved secret.  base: the saved URL as the tab knows
\* it; asks: the pair of the test under way; old: the row a save started from.
Blank == [tok |-> 0, url |-> 0, has |-> FALSE, public |-> FALSE]
NoForm == [st |-> "closed", p |-> None, draft |-> Blank, base |-> 0, tested |-> FALSE,
           asks |-> <<0, 0>>, old |-> NoRow, stale |-> FALSE]

NoStart == [pc |-> "no", for |-> "no", prov |-> None, model |-> FALSE, list |-> {}, role |-> FALSE]

Init ==
  /\ row \in [Provs -> {NoRow} \cup [own : {"builtin", "me", "other"}, public : BOOLEAN,
                                     tok : {1}, url : {1}, has : BOOLEAN]]
  /\ \A p \in Provs : row[p].public => row[p].own = "builtin"
  /\ form = [f \in Forms |-> NoForm]
  /\ start = NoStart
  /\ recent \in Rows \cup {None}
  /\ admin \in BOOLEAN
  /\ tested = {<<1, 1>>} /\ mixed = {}
  /\ steady = {} /\ seen = {} /\ roles = {}
  /\ changes = 0

-----------------------------------------------------------------------------
\* Who may use a row, and what every step adds to the history of the start.
MayUse(r, isAdmin) == r.own = "me" \/ (r.own = "builtin" /\ (r.public \/ isAdmin))

Watched ==
  LET fresh == start.pc = "no" IN
  /\ roles' = (IF fresh THEN {} ELSE roles) \cup {admin'}
  /\ steady' = {p \in IF fresh THEN Provs ELSE steady :
                 row'[p].has /\ \A a \in roles' : MayUse(row'[p], a)}
  /\ seen' = (IF fresh THEN {} ELSE seen) \cup {q \in Provs \X BOOLEAN : MayUse(row'[q[1]], q[2])}

Change == changes < MaxChanges /\ changes' = changes + 1

-----------------------------------------------------------------------------
(* The rows and the forms that edit them.                                  *)

Referred == {form[f].p : f \in Forms} \cup start.list \cup {start.prov}

\* handleCreate: a pair that fails the test makes no row.
Create(p) ==
  /\ p \notin Rows \cup Referred /\ Change
  /\ \E own \in {"builtin", "me"}, public, has \in BOOLEAN, tok \in Toks \ {0}, url \in Urls :
       /\ public => own = "builtin"
       /\ row' = [row EXCEPT ![p] = [own |-> own, public |-> public, tok |-> tok, url |-> url,
                                     has |-> has]]
       /\ tested' = tested \cup {<<tok, url>>} /\ mixed' = mixed \ {p}
  /\ UNCHANGED <<form, start, recent, admin>> /\ Watched

\* handleDelete, also of a session's pin.  A session that pins the provider between
\* the two statements keeps a model without a provider, which is no pin.
Delete(p) ==
  /\ p \in Rows /\ Change
  /\ row' = [row EXCEPT ![p] = NoRow]
  /\ recent' = IF recent = p THEN None ELSE recent
  /\ UNCHANGED <<form, start, admin, tested, mixed>> /\ Watched

\* handleVisibilityToggle: a PATCH of nothing else needs no test.
ToggleVisibility(p) ==
  /\ row[p].own = "builtin" /\ Change
  /\ row' = [row EXCEPT ![p].public = ~@]
  /\ UNCHANGED <<form, start, recent, admin, tested, mixed>> /\ Watched

Edits(f, g) ==
  /\ form' = [form EXCEPT ![f] = g]
  /\ UNCHANGED <<row, start, recent, admin, mixed>> /\ Watched

OpenForm(f) ==
  /\ form[f].st = "closed"
  /\ \E p \in Rows :
       /\ row[p].own # "other"
       /\ Edits(f, [NoForm EXCEPT !.st = "open", !.p = p, !.base = row[p].url,
            !.draft = [tok |-> 0, url |-> row[p].url, has |-> row[p].has, public |-> row[p].public]])
  /\ UNCHANGED <<tested, changes>>

CancelEdit(f) ==
  /\ form[f].st = "open" /\ Edits(f, NoForm) /\ UNCHANGED <<tested, changes>>

\* patchForm of a credential forgets the test that passed, not the one under way.
PatchForm(f) ==
  /\ form[f].st = "open" /\ Change
  /\ \E tok \in Toks, url \in Urls, has, public \in BOOLEAN :
       LET d == [tok |-> tok, url |-> url, has |-> has, public |-> public]
           same == tok = form[f].draft.tok /\ url = form[f].draft.url IN
       /\ d # form[f].draft /\ (public => row[form[f].p].own = "builtin")
       /\ Edits(f, [form[f] EXCEPT !.draft = d, !.tested = @ /\ same])
  /\ UNCHANGED tested

\* handleTest: without a secret in the form, the saved one at the saved URL.
TestForm(f) ==
  /\ form[f].st = "open" /\ form[f].asks = <<0, 0>> /\ form[f].draft.has
  /\ form[f].draft.tok # 0 \/ form[f].p \in Rows
  /\ Edits(f, [form[f] EXCEPT !.asks =
       IF form[f].draft.tok # 0 THEN <<form[f].draft.tok, form[f].draft.url>>
       ELSE <<row[form[f].p].tok, row[form[f].p].url>>])
  /\ UNCHANGED <<tested, changes>>

TestAnswers(f) ==
  /\ form[f].st = "open" /\ form[f].asks # <<0, 0>>
  /\ \E ok \in BOOLEAN :
       /\ Edits(f, [form[f] EXCEPT !.asks = <<0, 0>>, !.tested = ok])
       /\ tested' = IF ok THEN tested \cup {form[f].asks} ELSE tested
  /\ UNCHANGED changes

\* The Save button, then fetchExisting of handleUpdate.
CredentialDirty(g) == g.draft.tok # 0 \/ g.draft.url # g.base

Save(f) ==
  /\ form[f].st = "open" /\ (CredentialDirty(form[f]) => form[f].tested)
  /\ Edits(f, IF form[f].p \in Rows
                THEN [form[f] EXCEPT !.st = "saving", !.old = row[form[f].p], !.asks = <<0, 0>>]
                ELSE NoForm)
  /\ UNCHANGED <<tested, changes>>

\* A re-test only when there is a new secret.
SecretGiven(g) == g.draft.tok # 0

\* Or when the body names the secret, even as null, or the URL: the panels' do.
NeedsTest(g) == g.st = "saving"

PatchTests(f) ==
  LET g == form[f]
      pair == <<IF g.draft.tok # 0 THEN g.draft.tok ELSE g.old.tok, g.draft.url>> IN
  /\ g.st = "saving"
  /\ \/ /\ Edits(f, [g EXCEPT !.st = "passed"])
        /\ tested' = IF NeedsTest(g) THEN tested \cup {pair} ELSE tested
     \/ NeedsTest(g) /\ Edits(f, NoForm) /\ UNCHANGED tested
  /\ UNCHANGED changes

\* updateProvider: one transaction; a secret that is not given stays.
PatchWrites(f) ==
  LET p == form[f].p  d == form[f].draft
      new == [row[p] EXCEPT !.tok = IF d.tok # 0 THEN d.tok ELSE @, !.url = d.url,
                            !.has = d.has, !.public = d.public] IN
  /\ form[f].st = "passed"
  /\ IF p \notin Rows THEN UNCHANGED <<row, mixed>>
     ELSE /\ row' = [row EXCEPT ![p] = new]
          /\ mixed' = IF form[f].stale THEN mixed \cup {p} ELSE mixed \ {p}
  /\ form' = [h \in Forms |->
       IF h = f THEN NoForm
       ELSE [form[h] EXCEPT !.stale = @ \/ (form[h].p = p /\ form[h].st \in {"saving", "passed"})]]
  /\ UNCHANGED <<start, recent, admin, tested, changes>> /\ Watched

-----------------------------------------------------------------------------
(* start_session and what it resolves; every query is a step.              *)

Starts(s) ==
  /\ start' = s
  /\ UNCHANGED <<row, form, admin, tested, mixed, changes>> /\ Watched

Settles(p, m) == [start EXCEPT !.pc = "insert", !.prov = p, !.model = m, !.list = {}]

StartSession ==
  /\ start.pc = "no"
  /\ \/ Starts([NoStart EXCEPT !.pc = "recent"])
     \/ \E p \in Provs, m \in BOOLEAN :
          Starts([NoStart EXCEPT !.pc = "row", !.for = "supplied", !.prov = p, !.model = m])
  /\ UNCHANGED recent

\* resolveProviderForUser, of the provider supplied and of the last session's.
Refused == [start EXCEPT !.pc = IF start.for = "supplied" THEN "recent" ELSE "personal",
                         !.prov = None]

ResolveRow ==
  LET r == row[start.prov] IN
  /\ start.pc = "row"
  /\ Starts(IF MayUse(r, FALSE) THEN Settles(start.prov, start.model)
            ELSE IF r.own = "builtin" THEN [start EXCEPT !.pc = "role"]
            ELSE Refused)
  /\ UNCHANGED recent

ResolveRole ==
  /\ start.pc = "role"
  /\ Starts(IF admin THEN Settles(start.prov, start.model) ELSE Refused)
  /\ UNCHANGED recent

\* defaultSelectionForUser (1): the last session's pin, if it resolves.
Recent ==
  /\ start.pc = "recent"
  /\ Starts(IF recent = None THEN [start EXCEPT !.pc = "personal"]
            ELSE [start EXCEPT !.pc = "row", !.for = "recent", !.prov = recent, !.model = TRUE])
  /\ UNCHANGED recent

\* (2) and (3): rows, newest first, and with another query their models.
Lists(ps, pc) == Starts([start EXCEPT !.list = ps, !.pc = pc])

Personal ==
  /\ start.pc = "personal" /\ Lists({p \in Provs : row[p].own = "me"}, "personalModels")
  /\ UNCHANGED recent

WithModel == {p \in start.list : row[p].has}

PersonalModels ==
  /\ start.pc = "personalModels"
  /\ \/ \E p \in WithModel : Starts(Settles(p, TRUE))
     \/ WithModel = {} /\ Starts([start EXCEPT !.pc = "userRole"])
  /\ UNCHANGED recent

UserRole ==
  /\ start.pc = "userRole" /\ Starts([start EXCEPT !.pc = "builtin", !.role = admin])
  /\ UNCHANGED recent

\* Built-in rows without regard to the role.
PublicBuiltins(isAdmin) == {p \in Provs : row[p].own = "builtin" /\ row[p].public}

BuiltinRowsForUser(isAdmin) == {p \in Provs : row[p].own = "builtin" /\ (row[p].public \/ isAdmin)}

Builtin ==
  /\ start.pc = "builtin" /\ Lists(BuiltinRowsForUser(start.role), "builtinModels")
  /\ UNCHANGED recent

BuiltinModels ==
  /\ start.pc = "builtinModels"
  /\ \/ \E p \in WithModel : Starts(Settles(p, TRUE))
     \/ WithModel = {} /\ Starts(Settles(None, FALSE))
  /\ UNCHANGED recent

\* The row refers to the provider: when that is gone there is no session.
Insert ==
  /\ start.pc = "insert" /\ Starts(NoStart)
  /\ recent' = IF start.prov # None /\ start.prov \notin Rows THEN recent
               ELSE IF start.model THEN start.prov ELSE None

ChangeRole ==
  /\ Change /\ admin' = ~admin
  /\ UNCHANGED <<row, form, start, recent, tested, mixed>> /\ Watched

Next ==
  \/ \E p \in Provs : Create(p) \/ Delete(p) \/ ToggleVisibility(p)
  \/ \E f \in Forms : \/ OpenForm(f) \/ CancelEdit(f) \/ PatchForm(f) \/ TestForm(f)
                      \/ TestAnswers(f) \/ Save(f) \/ PatchTests(f) \/ PatchWrites(f)
  \/ StartSession \/ ResolveRow \/ ResolveRole \/ Recent \/ Personal \/ PersonalModels
  \/ UserRole \/ Builtin \/ BuiltinModels \/ Insert \/ ChangeRole

Spec == Init /\ [][Next]_providerVars

-----------------------------------------------------------------------------
\* A new session has no provider only if there was none with a model that was open
\* throughout the start to every role the user had in it; one it has, the row was open at some moment of it
\* to a role the user had at some moment of it, whatever changed between the queries.
StartPicksUsable ==
  start.pc = "insert" =>
    IF start.prov = None THEN steady = {} ELSE \E a \in roles : <<start.prov, a>> \in seen

\* The secret and the URL of a row passed a test together, although the form tests
\* another pair than it saves; unless two saves of the row overlapped.
TestedTogether == \A p \in Rows \ mixed : <<row[p].tok, row[p].url>> \in tested

\* What the form promises: a test that counts was one of the form as it is.
TestedIsOfForm ==
  \A f \in Forms : form[f].st = "open" /\ form[f].tested =>
    <<IF form[f].draft.tok # 0 THEN form[f].draft.tok ELSE form[f].base, form[f].draft.url>> \in tested

-----------------------------------------------------------------------------
\* What keeps them so.
AnyRow == [own : {"none", "builtin", "me", "other"}, public : BOOLEAN,
           tok : Toks \cup {0, 1}, url : Urls \cup {0, 1}, has : BOOLEAN]
AnyForm == [st : {"closed", "open", "saving", "passed"}, p : Provs \cup {None},
            draft : [tok : Toks \cup {0}, url : Urls \cup {0, 1}, has : BOOLEAN,
                     public : BOOLEAN],
            base : Urls \cup {0, 1}, tested : BOOLEAN,
            asks : (Toks \cup {0, 1}) \X (Urls \cup {0, 1}), old : AnyRow,
            stale : BOOLEAN]
AnyStart == [pc : {"no", "recent", "row", "role", "personal", "personalModels",
                   "userRole", "builtin", "builtinModels", "insert"},
             for : {"no", "supplied", "recent"}, prov : Provs \cup {None},
             model : BOOLEAN, list : SUBSET Provs, role : BOOLEAN]

Shapes ==
  /\ row \in [Provs -> AnyRow] /\ form \in [Forms -> AnyForm]
  /\ start \in AnyStart /\ (start.pc \in {"row", "role"} => start.prov \in Provs)
  /\ recent \in Provs \cup {None} /\ admin \in BOOLEAN
  /\ roles \subseteq BOOLEAN /\ steady \subseteq Provs

\* A save that no other overtook started from the row as it is, and what it is about to
\* write passed a test.
SavesAreTested ==
  \A f \in Forms :
    /\ form[f].st \in {"saving", "passed"} /\ ~form[f].stale /\ form[f].p \in Rows =>
         row[form[f].p].tok = form[f].old.tok
    /\ form[f].st = "passed" =>
         <<IF form[f].draft.tok # 0 THEN form[f].draft.tok ELSE form[f].old.tok,
           form[f].draft.url>> \in tested

\* What a start has watched covers what is open now, and what it has listed covers what
\* was open throughout.
StartIsWatched ==
  start.pc # "no" =>
    /\ admin \in roles
    /\ \A p \in steady : row[p].has /\ \A a \in roles : MayUse(row[p], a)
    /\ \A p \in Provs, a \in BOOLEAN : MayUse(row[p], a) => <<p, a>> \in seen

ListsCover ==
  /\ start.pc = "role" => <<start.prov, TRUE>> \in seen
  /\ start.pc = "personalModels" =>
       /\ \A p \in start.list, a \in BOOLEAN : <<p, a>> \in seen
       /\ \A p \in steady : row[p].own = "me" => p \in start.list
  /\ start.pc \in {"userRole", "builtin", "builtinModels"} =>
       \A p \in steady : row[p].own = "builtin"
  /\ start.pc \in {"builtin", "builtinModels"} => start.role \in roles
  /\ start.pc = "builtinModels" =>
       /\ steady \subseteq start.list
       /\ \A p \in start.list : <<p, start.role>> \in seen

InductiveInv ==
  Shapes /\ SavesAreTested /\ TestedTogether /\ StartIsWatched /\ ListsCover
  /\ StartPicksUsable

=============================================================================
