------------------------------ MODULE GitCredentials ------------------------------
(***************************************************************************)
(* A user's git credentials: the rows (services/git-credentials/repo,      *)
(* routes/git-credentials), the store that caches them in a tab            *)
(* (lib/git-credentials-store), the preferences panel, the dialog that     *)
(* adds and edits one, and the modal of a new project, which has a dialog  *)
(* of its own to add one.  A label stands for itself and for the provider. *)
(***************************************************************************)
EXTENDS Naturals, Sequences, FiniteSets

CONSTANTS
  MaxRows,     \* bound: credentials made
  MaxCalls,    \* bound: requests under way
  MaxOpens,    \* bound: dialogs opened and credentials removed
  MaxLosses,   \* bound: requests that fail
  Overlaps     \* a load may overlap another request, and two may be about one credential

VARIABLES
  page,        \* "away", the preferences' "panel" or the new project's "modal"
  status, list,          \* the store
  dialog,      \* of the page: is it open, on what, its fields, Save pressed
  picked,      \* the modal's credentialId, or 0
  rows,        \* [1..MaxRows -> its row, or NoRow]
  made,        \* credentials made
  calls,       \* requests and their answers
  unsure,      \* history: a lost answer left open what is stored
  opens, losses

credentialVars == <<page, status, list, dialog, picked, rows, made, calls, unsure, opens, losses>>

Ids == 1..MaxRows
\* What is typed is told apart by the dialog it is typed in, of which by has the number.
NoRow == [label |-> 0, token |-> 0, by |-> 0]
Is(i) == rows[i] # NoRow
Entry(i, r) == [id |-> i, label |-> r.label, mask |-> r.token]
Entries == {Entry(i, rows[i]) : i \in {x \in Ids : Is(x)}}

Waiting == [ok |-> FALSE, due |-> TRUE, list |-> <<>>]
Failed == [ok |-> FALSE, due |-> FALSE, list |-> <<>>]
Gives(es) == [ok |-> TRUE, due |-> FALSE, list |-> es]

Call(kind, i, from) ==
  [kind |-> kind, id |-> i, from |-> from, label |-> 0, token |-> 0, n |-> opens,
   read |-> NoRow, answer |-> Waiting]

\* The effect on [open, credential]: the fields are those of the credential, or of none.
ResetKeepsToken(open, i, label) ==
  [open |-> open, id |-> i, label |-> label, token |-> dialog.token, saving |-> FALSE, n |-> opens']
Reset(open, i, label) ==
  [open |-> open, id |-> i, label |-> label, token |-> 0, saving |-> FALSE, n |-> opens']

Closed == [open |-> FALSE, id |-> 0, label |-> 1, token |-> 0, saving |-> FALSE, n |-> 0]

Init ==
  /\ page = "away" /\ status = "idle" /\ list = <<>>
  /\ dialog = Closed /\ picked = 0
  /\ made \in {0, 1}
  /\ rows = [i \in Ids |-> IF i <= made THEN [label |-> 2, token |-> 1, by |-> 1] ELSE NoRow]
  /\ calls = {} /\ unsure = FALSE /\ opens = 2 /\ losses = 0

-----------------------------------------------------------------------------
(* The tab *)

HasRoom(kind, i) ==
  /\ Cardinality(calls) < MaxCalls
  /\ Overlaps \/ \A c \in calls :
       c.kind # "load" /\ kind # "load" /\ (c.id # i \/ kind = "create")

Load ==
  /\ HasRoom("load", 0)
  /\ status' = "loading"
  /\ calls' = calls \cup {Call("load", 0, "store")}

\* Preferences, or leaving them: the panel reloads when it is mounted, and its dialog is
\* unmounted with it, so that a late answer reaches the store only.
OpenPanel ==
  /\ page = "away"
  /\ page' = "panel" /\ dialog' = Closed
  /\ Load
  /\ UNCHANGED <<list, picked, rows, made, unsure, opens, losses>>

Leave ==
  /\ page # "away" /\ ~dialog.open
  /\ page' = "away" /\ picked' = 0
  /\ calls' = {IF c.from = "panel" THEN [c EXCEPT !.from = "store"] ELSE c : c \in calls}
  /\ UNCHANGED <<status, list, dialog, rows, made, unsure, opens, losses>>

\* The modal, with a clone to configure: ensureLoaded.
OpenModal ==
  /\ page = "away"
  /\ page' = "modal" /\ dialog' = Closed /\ picked' = 0
  /\ IF status = "idle" THEN Load ELSE UNCHANGED <<status, calls>>
  /\ UNCHANGED <<list, rows, made, unsure, opens, losses>>

\* The modal stays mounted behind the page; the select lists what the store has.
Pick(i) ==
  /\ page = "modal" /\ ~dialog.open
  /\ \E k \in DOMAIN list : list[k].id = i
  /\ picked' = i
  /\ UNCHANGED <<page, status, list, dialog, rows, made, calls, unsure, opens, losses>>

\* Add, or Edit of a row that is shown.
Open(k) ==
  /\ ~dialog.open /\ opens < MaxOpens
  /\ page = "modal" => k = 0
  /\ page = "panel" => status \in {"ready", "error"}
  /\ page # "away" /\ k \in {0} \cup DOMAIN list
  /\ opens' = opens + 1
  /\ dialog' = IF k = 0 THEN Reset(TRUE, 0, 1) ELSE Reset(TRUE, list[k].id, list[k].label)
  /\ UNCHANGED <<page, status, list, picked, rows, made, calls, unsure, losses>>

Type(field) ==
  /\ dialog.open /\ dialog[field] # dialog.n
  /\ dialog' = [dialog EXCEPT ![field] = dialog.n]
  /\ UNCHANGED <<page, status, list, picked, rows, made, calls, unsure, opens, losses>>

Cancel ==
  /\ dialog.open
  /\ opens' = opens
  /\ dialog' = Reset(FALSE, dialog.id, dialog.label)
  /\ UNCHANGED <<page, status, list, picked, rows, made, calls, unsure, losses>>

\* handleSubmit: a new credential needs a token; an edited one keeps its own without.
Submit ==
  LET kind == IF dialog.id = 0 THEN "create" ELSE "update" IN
  /\ dialog.open /\ ~dialog.saving
  /\ dialog.id = 0 => dialog.token # 0
  /\ HasRoom(kind, dialog.id)
  /\ dialog' = [dialog EXCEPT !.saving = TRUE]
  /\ calls' = calls \cup {[Call(kind, dialog.id, page) EXCEPT
       !.label = dialog.label, !.token = dialog.token, !.n = dialog.n]}
  /\ UNCHANGED <<page, status, list, picked, rows, made, unsure, opens, losses>>

Remove(k) ==
  /\ page = "panel" /\ status \in {"ready", "error"} /\ ~dialog.open
  /\ k \in DOMAIN list /\ opens < MaxOpens
  /\ HasRoom("remove", list[k].id)
  /\ opens' = opens + 1
  /\ calls' = calls \cup {Call("remove", list[k].id, page)}
  /\ UNCHANGED <<page, status, list, dialog, picked, rows, made, unsure, losses>>

-----------------------------------------------------------------------------
(* The server *)

Answers(c, a) == calls' = (calls \ {c}) \cup {[c EXCEPT !.answer = a]}

SomeOrder(S) == CHOOSE s \in [1..Cardinality(S) -> S] : \A i, j \in DOMAIN s : s[i] = s[j] => i = j

\* listForUser, create, and remove, which finds the row first.
Handle(c) ==
  /\ c \in calls /\ c.answer = Waiting
  /\ \/ /\ c.kind = "load"
        /\ Answers(c, Gives(SomeOrder(Entries)))
        /\ UNCHANGED <<rows, made>>
     \/ /\ c.kind = "create" /\ made < MaxRows
        /\ made' = made + 1
        /\ rows' = [rows EXCEPT ![made'] = [label |-> c.label, token |-> c.token, by |-> c.n]]
        /\ Answers(c, Gives(<<Entry(made', rows'[made'])>>))
     \/ /\ c.kind = "remove"
        /\ Answers(c, IF Is(c.id) THEN Gives(<<>>) ELSE Failed)
        /\ rows' = [rows EXCEPT ![c.id] = NoRow]
        /\ UNCHANGED made
  /\ UNCHANGED <<page, status, list, dialog, picked, unsure, opens, losses>>

\* update: the row is read, ...
UpdateReads(c) ==
  /\ c \in calls /\ c.kind = "update" /\ c.answer = Waiting /\ c.read = NoRow
  /\ IF Is(c.id) THEN calls' = (calls \ {c}) \cup {[c EXCEPT !.read = rows[c.id]]}
     ELSE Answers(c, Failed)
  /\ UNCHANGED <<page, status, list, dialog, picked, rows, made, unsure, opens, losses>>

\* ... what was given is set in the row, if it is there still, and in what was read.
Set(r, c) ==
  IF c.token = 0 THEN [r EXCEPT !.label = c.label]
  ELSE [label |-> c.label, token |-> c.token, by |-> c.n]

UpdateWrites(c) ==
  /\ c \in calls /\ c.answer = Waiting /\ c.read # NoRow
  /\ rows' = IF Is(c.id) THEN [rows EXCEPT ![c.id] = Set(@, c)] ELSE rows
  /\ Answers(c, Gives(<<Entry(c.id, Set(c.read, c))>>))
  /\ UNCHANGED <<page, status, list, dialog, picked, made, unsure, opens, losses>>

\* The request, or the answer to it, is lost.
CallFails(c) ==
  /\ c \in calls /\ c.answer # Failed /\ losses < MaxLosses
  /\ losses' = losses + 1
  /\ unsure' = (unsure \/ (c.answer # Waiting /\ c.kind # "load"))
  /\ Answers(c, Failed)
  /\ UNCHANGED <<page, status, list, dialog, picked, rows, made, opens>>

-----------------------------------------------------------------------------
(* Answers *)

\* The list but for what has the id, in order.
Without(i) ==
  LET kept == {k \in DOMAIN list : list[k].id # i}
      inOrder == CHOOSE f \in [1..Cardinality(kept) -> kept] :
        \A a, b \in DOMAIN f : a < b => f[a] < f[b]
  IN [k \in DOMAIN inOrder |-> list[inOrder[k]]]

\* What the store makes of an answer.
Listed(c) ==
  CASE c.kind = "load" -> c.answer.list
    [] c.kind = "create" -> list \o c.answer.list
    [] c.kind = "update" -> [k \in DOMAIN list |-> IF list[k].id = c.id THEN c.answer.list[1] ELSE list[k]]
    [] c.kind = "remove" -> Without(c.id)

\* handleSubmit, after its await: the dialog of its page is closed, on whatever it is by
\* then, or Save is enabled again under the error; the modal picks what was added.
Arrives(c) ==
  LET mine == c.kind \in {"create", "update"} /\ c.from = page IN
  /\ c \in calls /\ ~c.answer.due
  /\ calls' = calls \ {c}
  /\ list' = IF c.answer.ok THEN Listed(c) ELSE list
  /\ status' = IF c.kind # "load" THEN status ELSE IF c.answer.ok THEN "ready" ELSE "error"
  /\ unsure' = (unsure /\ ~(c.kind = "load" /\ c.answer.ok))
  /\ opens' = opens
  /\ dialog' = IF ~mine THEN dialog
               ELSE IF ~c.answer.ok THEN [dialog EXCEPT !.saving = FALSE]
               ELSE IF dialog.open THEN Reset(FALSE, dialog.id, dialog.label) ELSE dialog
  /\ picked' = IF mine /\ page = "modal" /\ c.answer.ok THEN c.answer.list[1].id ELSE picked
  /\ UNCHANGED <<page, rows, made, losses>>

Next ==
  \/ OpenPanel \/ Leave \/ OpenModal
  \/ \E i \in Ids : Pick(i)
  \/ \E k \in {0} \cup Ids : Open(k)
  \/ \E f \in {"label", "token"} : Type(f)
  \/ Cancel
  \/ Submit
  \/ \E k \in Ids : Remove(k)
  \/ \E c \in calls : Handle(c)
  \/ \E c \in calls : UpdateReads(c)
  \/ \E c \in calls : UpdateWrites(c)
  \/ \E c \in calls : CallFails(c)
  \/ \E c \in calls : Arrives(c)

Spec == Init /\ [][Next]_credentialVars

-----------------------------------------------------------------------------
\* git-credential-dialog.tsx "Reset the form whenever the dialog opens or the target
\* credential changes", repo.ts: the token of a credential was typed in the dialog that
\* saved it, never in one opened for another or cancelled before.
TokensAreOwn == \A i \in Ids : rows[i].token = rows[i].by

\* git-credentials-store.ts: once nothing is under way the cache has each credential of
\* the user once, as it is stored, unless an answer was lost.
CredentialsAreTrue ==
  calls = {} /\ status = "ready" /\ ~unsure =>
    /\ {list[k] : k \in DOMAIN list} = Entries
    /\ Len(list) = Cardinality(Entries)

\* new-project-modal.tsx: the credential of a clone is one that the select offers, unless
\* it was removed since.
PickedIsListed ==
  picked # 0 => ~Is(picked) \/ \E k \in DOMAIN list : list[k].id = picked

-----------------------------------------------------------------------------
\* What keeps the tokens own: an open dialog and the requests made from it hold no token
\* but one typed since it was opened; what creates a credential holds one.
CallIsTyped(c) ==
  /\ DOMAIN c = {"kind", "id", "from", "label", "token", "n", "read", "answer"}
  /\ c.kind = "create" => c.token = c.n
  /\ c.kind = "update" => c.token \in {0, c.n}
  /\ c.read # NoRow => c.kind = "update"

TokensAreTyped ==
  /\ DOMAIN rows = Ids /\ \A i \in Ids : DOMAIN rows[i] = DOMAIN NoRow
  /\ DOMAIN dialog = DOMAIN Closed /\ dialog.token \in {0, dialog.n}
  /\ \A c \in calls : CallIsTyped(c)

InductiveInv == TokensAreTyped /\ TokensAreOwn

-----------------------------------------------------------------------------
\* What keeps the cache true: a load is alone, a credential is edited or removed by one
\* request at a time, and the requests under way account for each difference between the
\* list and the rows.
AnyRow == [label : Nat, token : Nat, by : Nat]
AnyEntry == [id : Ids, label : Nat \ {0}, mask : Nat]
AnyAnswer == [ok : BOOLEAN, due : BOOLEAN, list : Seq(AnyEntry)]
AnyCall ==
  [kind : {"load", "create", "update", "remove"}, id : Ids \cup {0},
   from : {"store", "away", "panel", "modal"}, label : Nat, token : Nat, n : Nat,
   read : AnyRow, answer : AnyAnswer]
AnyDialog ==
  [open : BOOLEAN, id : Ids \cup {0}, label : Nat \ {0}, token : Nat, saving : BOOLEAN, n : Nat]

Once(es) == \A j, k \in DOMAIN es : es[j].id = es[k].id => j = k
Lists(i) == \E k \in DOMAIN list : list[k].id = i
\* i is a credential that was made, and is in the list if it is there still.
Known(i) == i <= made /\ (Is(i) => Lists(i))

RowsFit ==
  /\ made \in Nat /\ rows \in [Ids -> AnyRow]
  /\ \A i \in Ids : Is(i) => i <= made /\ rows[i].label # 0

ListFits == list \in Seq(AnyEntry) /\ Once(list) /\ \A k \in DOMAIN list : list[k].id <= made

PageFits ==
  /\ page \in {"away", "panel", "modal"} /\ opens \in Nat \ {0}
  /\ dialog \in AnyDialog /\ (dialog.open => dialog.n # 0)
  /\ dialog.id # 0 => Known(dialog.id)
  /\ page = "modal" => dialog.id = 0
  /\ picked # 0 => picked \in Ids /\ Known(picked)

Changes(c) == c.kind \in {"update", "remove"}
\* The create request c made the credential i.
MadeBy(i, c) == c.kind = "create" /\ c.answer.ok /\ c.answer.list = <<Entry(i, rows[i])>>

AnswerFits(c) ==
  /\ c.answer.ok => ~c.answer.due
  /\ c.read # NoRow => c.kind = "update"
  /\ c.kind = "load" /\ c.answer.ok =>
       {c.answer.list[k] : k \in DOMAIN c.answer.list} = Entries /\ Once(c.answer.list)
  /\ c.kind = "create" /\ c.answer.ok =>
       \E i \in Ids : Is(i) /\ ~Lists(i) /\ MadeBy(i, c) /\ \A d \in calls : MadeBy(i, d) => d = c
  /\ c.kind = "update" /\ c.answer.ok => Is(c.id) /\ c.answer.list = <<Entry(c.id, rows[c.id])>>
  /\ c.kind = "update" /\ c.answer = Waiting /\ c.read # NoRow => rows[c.id] = c.read
  /\ c.kind = "remove" /\ c.answer.ok => ~Is(c.id)

CallFits(c) ==
  /\ c \in AnyCall /\ AnswerFits(c)
  /\ c.kind = "load" => calls = {c}
  /\ Changes(c) <=> c.id # 0
  /\ Changes(c) => Known(c.id) /\ \A d \in calls : d.id = c.id => d = c
  /\ c.kind \in {"create", "update"} => c.label # 0
  /\ c.from = "modal" => c.kind = "create"

\* An entry is of the row, or what changed the row answers; a row is listed, or what made
\* it answers.
Fixed(k) ==
  \/ Is(list[k].id) /\ list[k] = Entry(list[k].id, rows[list[k].id])
  \/ \E c \in calls : c.id = list[k].id /\ c.answer.ok
Owed(i) == \E c \in calls : MadeBy(i, c)
Cached ==
  status = "ready" /\ ~unsure =>
    /\ \A k \in DOMAIN list : Fixed(k)
    /\ \A i \in Ids : Is(i) => Lists(i) \/ Owed(i)

CacheInv == RowsFit /\ ListFits /\ PageFits /\ Cached /\ \A c \in calls : CallFits(c)

=============================================================================
