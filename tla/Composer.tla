-------------------------------- MODULE Composer --------------------------------
(***************************************************************************)
(* Which provider and model a message goes to: the composer's choice       *)
(* (client components/chat-input.tsx), the session defaults behind it with *)
(* their debounced saves (lib/session-defaults-store.ts, lib/save-toast.ts,*)
(* settings/defaults-panel.tsx), the catalog (lib/providers-store.ts), and *)
(* the user's settings on the server (routes/config-settings.ts,           *)
(* services/user-settings.ts).  A provider and a model are stored under    *)
(* two keys, and only mean something together.                             *)
(***************************************************************************)
EXTENDS Naturals, FiniteSets

CONSTANTS
  Catalog,     \* the (provider, model) pairs of the server, records [p, m]
  Unset,
  Chats,       \* sessions
  NewChat,     \* the composer of a new session
  MaxEdits, MaxPuts   \* bounds: choices made, saves under way

VARIABLES
  settings,    \* user_settings: the value under each key, Unset without a row
  defaults,    \* the tab's session defaults
  loading,     \* its one load of them, and what that has read
  pending,     \* changes the flush timer will send
  puts,        \* PUTs of changes: what is still to be written
  offered, ready,   \* the tab's catalog, and whether it is not being loaded
  key,         \* the composer on the screen: a session or NewChat
  selected, draft,  \* its override, and what it was seeded with
  pinned,      \* [Chats -> the pair its session is known to have]
  sent,        \* the pair of the last message, and whether its seed was whole
  edits,
  torn         \* history: the two statements of a save were interrupted

composerVars == <<settings, defaults, loading, pending, puts, offered, ready, key,
                  selected, draft, pinned, sent, edits, torn>>

catalogVars == <<offered, ready>>
composed == <<key, selected, draft, pinned>>

Keys == {"p", "m"}
Nothing == [p |-> Unset, m |-> Unset]
Whole(x) == x = Nothing \/ x \in Catalog

\* a ?? b, each key on its own.
Else(a, b) == [k \in Keys |-> IF a[k] # Unset THEN a[k] ELSE b[k]]
With(x, changes) == [k \in Keys |-> IF k \in DOMAIN changes THEN changes[k] ELSE x[k]]

Init ==
  /\ settings \in Catalog \cup {Nothing}
  /\ defaults = Nothing /\ loading = [st |-> "idle", got |-> Nothing]
  /\ pending = <<>> /\ puts = {}
  /\ offered = {} /\ ready = FALSE
  /\ key \in Chats \cup {NewChat}
  /\ selected = Nothing /\ draft = Nothing
  /\ pinned \in [Chats -> Catalog \cup {Nothing}]
  /\ sent = [pair |-> Nothing, seeded |-> TRUE]
  /\ edits = 0 /\ torn = FALSE

-----------------------------------------------------------------------------
(* session-defaults-store.ts *)

\* A save half way: one of its statements is still to come.
HalfWritten(c) == c.todo \notin {{}, DOMAIN c.changes}

Load ==
  /\ loading.st = "idle" /\ loading' = [loading EXCEPT !.st = "sent"]
  /\ UNCHANGED <<settings, defaults, pending, puts, sent, edits, torn, catalogVars, composed>>

\* GET /defaults: one query reads the user's rows.
DefaultsAreRead ==
  /\ loading.st = "sent" /\ loading' = [st |-> "read", got |-> settings]
  /\ torn' = (torn \/ \E c \in puts : HalfWritten(c))
  /\ UNCHANGED <<settings, defaults, pending, puts, sent, edits, catalogVars, composed>>

DefaultsArrive ==
  /\ loading.st = "read"
  /\ defaults' = loading.got /\ loading' = [st |-> "done", got |-> Nothing]
  /\ UNCHANGED <<settings, pending, puts, sent, edits, torn, catalogVars, composed>>

\* setField and resetField, of the fields one handler sets: shown at once, queued.
Queues(changes) ==
  /\ edits < MaxEdits /\ edits' = edits + 1
  /\ defaults' = With(defaults, changes)
  /\ pending' = [k \in DOMAIN pending \cup DOMAIN changes |->
                   IF k \in DOMAIN changes THEN changes[k] ELSE pending[k]]

\* A save per field, the first of those that wait.
FlushesOne ==
  /\ pending # <<>> /\ Cardinality(puts) < MaxPuts
  /\ \E k \in DOMAIN pending :
       /\ puts' = puts \cup {[changes |-> [x \in {k} |-> pending[x]], todo |-> {k}]}
       /\ pending' = [x \in DOMAIN pending \ {k} |-> pending[x]]
  /\ UNCHANGED <<settings, defaults, loading, sent, edits, torn, catalogVars, composed>>

\* The debounce ends: one PUT of all that waits.
Flush ==
  /\ pending # <<>> /\ Cardinality(puts) < MaxPuts
  /\ puts' = puts \cup {[changes |-> pending, todo |-> DOMAIN pending]}
  /\ pending' = <<>>
  /\ UNCHANGED <<settings, defaults, loading, sent, edits, torn, catalogVars, composed>>

\* batchUpsert: a statement deletes the keys set to null, another writes the rest.
PutWrites(c) ==
  /\ \E done \in {{k \in c.todo : c.changes[k] = Unset},
                   {k \in c.todo : c.changes[k] # Unset}} \ {{}} :
       /\ settings' = [k \in Keys |-> IF k \in done THEN c.changes[k] ELSE settings[k]]
       /\ puts' = (puts \ {c}) \cup {[c EXCEPT !.todo = @ \ done]}
  /\ torn' = (torn \/ \E d \in puts \ {c} : HalfWritten(d))
  /\ UNCHANGED <<defaults, loading, pending, sent, edits, catalogVars, composed>>

\* It is answered, or lost before it wrote anything.
PutEnds(c) ==
  /\ ~HalfWritten(c)
  /\ puts' = puts \ {c}
  /\ UNCHANGED <<settings, defaults, loading, pending, sent, edits, torn, catalogVars, composed>>

\* The answer is lost instead, and the toast sends the same changes again.
Retry(c) ==
  /\ c.todo = {}
  /\ edits < MaxEdits /\ edits' = edits + 1
  /\ puts' = (puts \ {c}) \cup {[c EXCEPT !.todo = DOMAIN c.changes]}
  /\ UNCHANGED <<settings, defaults, loading, pending, sent, torn, catalogVars, composed>>

-----------------------------------------------------------------------------
(* providers-store.ts and the composer *)

\* Any provider saved, shown or hidden in this tab loads the catalog again, which
\* keeps the old one until it has the new, or fails.
CatalogLoads ==
  /\ edits < MaxEdits /\ edits' = edits + 1
  /\ ready' = FALSE
  /\ UNCHANGED <<settings, defaults, loading, pending, puts, sent, torn, offered, composed>>

\* Others may have removed pairs, or hidden them.
CatalogArrives ==
  /\ ~ready /\ ready' = TRUE
  /\ \E some \in SUBSET Catalog : offered' = some
  /\ UNCHANGED <<settings, defaults, loading, pending, puts, sent, edits, torn, composed>>

Effective ==
  Else(selected, Else(draft, IF key \in Chats THEN pinned[key] ELSE Nothing))

\* The composer of another session, or of a new one.
SwitchTo(k) ==
  /\ k # key /\ key' = k
  /\ selected' = Nothing /\ draft' = defaults
  /\ UNCHANGED <<settings, defaults, loading, pending, puts, sent, edits, torn, catalogVars,
                 pinned>>

\* selectModel, from the menu of the catalog.
SelectModel(x) ==
  /\ x \in offered
  /\ selected' = x
  /\ Queues(x)
  /\ UNCHANGED <<settings, loading, puts, sent, torn, catalogVars, key, draft, pinned>>

\* The menu of the settings panel, whose entries are models: a model of two providers
\* is set with either.
SetDefault(x) ==
  /\ x \in offered
  /\ \E y \in offered : y.m = x.m /\ Queues(y)
  /\ UNCHANGED <<settings, loading, puts, sent, torn, catalogVars, composed>>

\* Its "Reset to default" is of the model alone.
ResetModel ==
  /\ defaults.m # Unset
  /\ Queues([k \in {"m"} |-> Unset])
  /\ UNCHANGED <<settings, loading, puts, sent, torn, catalogVars, composed>>

\* sendMessage: a catalog that is not being loaded blocks what it does not have.
SendMessage ==
  /\ ready => Effective \in offered
  /\ sent' = [pair |-> Effective, seeded |-> Whole(draft)]
  /\ pinned' = IF key \in Chats /\ Effective \in Catalog
               THEN [pinned EXCEPT ![key] = Effective] ELSE pinned
  /\ UNCHANGED <<settings, defaults, loading, pending, puts, edits, torn, catalogVars, key,
                 selected, draft>>

Next ==
  \/ Load
  \/ DefaultsAreRead
  \/ DefaultsArrive
  \/ Flush
  \/ \E c \in puts : PutWrites(c)
  \/ \E c \in puts : PutEnds(c)
  \/ \E c \in puts : Retry(c)
  \/ CatalogLoads
  \/ CatalogArrives
  \/ \E k \in Chats \cup {NewChat} : SwitchTo(k)
  \/ \E x \in Catalog : SelectModel(x)
  \/ \E x \in Catalog : SetDefault(x)
  \/ ResetModel
  \/ SendMessage

Spec == Init /\ [][Next]_composerVars

-----------------------------------------------------------------------------
\* A model without a pair of the catalog behind it.
Picked(x) == x.m = Unset \/ x \in Catalog

StoredTogether == (\A c \in puts : ~HalfWritten(c)) => Picked(settings)

ShownTogether ==
  /\ Picked(defaults) /\ Picked(draft)
  /\ Whole(selected)
  /\ sent.seeded => Whole(sent.pair)
  /\ \A s \in Chats : Whole(pinned[s])

\* session-defaults-store.ts, user-settings.ts: wherever it is kept on the way, a
\* model stays with the provider it was picked with, and a message goes to such a
\* pair unless it was seeded with a provider alone.
PairsStayTogether == ~torn => StoredTogether /\ ShownTogether

\* Fails: chat-input.tsx:301 "so each shows its own model": a switch seeds the
\* composer of a session with the defaults, which outrank its own pair.
ShowsOwnModel ==
  key \in Chats /\ pinned[key] # Nothing /\ selected = Nothing => Effective = pinned[key]

\* Fails: a provider without a model is completed with the session's.
SentIsPicked == Whole(sent.pair)

\* Fails: a load overwrites choices that wait for their flush.
ShownIsStored == loading.st = "done" /\ pending = <<>> /\ puts = {} => defaults = settings

-----------------------------------------------------------------------------
\* What keeps them together.
AnyPair ==
  [p : {x.p : x \in Catalog} \cup {Unset}, m : {x.m : x \in Catalog} \cup {Unset}]

\* What is saved sets the model, to nothing or with its provider.
AnyChange ==
  {[k \in {"m"} |-> Unset]} \cup Catalog \cup {[p |-> x.p, m |-> Unset] : x \in Catalog}

Shapes ==
  /\ settings \in AnyPair /\ defaults \in AnyPair /\ draft \in AnyPair
  /\ loading \in [st : {"idle", "sent", "read", "done"}, got : AnyPair]
  /\ pending \in AnyChange \cup {<<>>}
  /\ \A c \in puts : c \in [changes : AnyChange, todo : SUBSET Keys]
                     /\ c.todo \subseteq DOMAIN c.changes
  /\ offered \subseteq Catalog
  /\ selected \in Catalog \cup {Nothing} /\ pinned \in [Chats -> Catalog \cup {Nothing}]
  /\ torn \in BOOLEAN

\* One save is half way at most, and what it wrote is still there.
HalfIsStored ==
  ~torn => \A c \in puts : HalfWritten(c) =>
    /\ \A d \in puts : HalfWritten(d) => c = d
    /\ \A k \in DOMAIN c.changes \ c.todo : settings[k] = c.changes[k]

InductiveInv ==
  Shapes /\ HalfIsStored /\ (~torn => Picked(loading.got)) /\ PairsStayTogether

=============================================================================
