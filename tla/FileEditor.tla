------------------------------- MODULE FileEditor -------------------------------
(***************************************************************************)
(* The file editor beside the chat: which file is open and the question    *)
(* that guards unsaved edits (client/src/lib/open-file-store.ts), the      *)
(* buffer (components/file-editor-panel.tsx), the page that mounts it      *)
(* (pages/chat-view.tsx) and the reads and writes behind it                *)
(* (server/src/routes/files.ts), while the agent writes the same files.    *)
(***************************************************************************)
EXTENDS Naturals

CONSTANTS
  Files, None,
  Saves,      \* bound: saves under way at once, also of a buffer that is gone
  MaxVersion, \* bound: contents typed or written by the agent
  MaxFaults,  \* bound: requests that fail
  MaxMoves    \* bound: pages visited

VARIABLES
  disk,               \* [Files -> a content]
  openFile, pending,  \* the store; pending: None, "close", or the file to switch to
  dirty,              \* the store's copy of what the buffer knows
  ed,                 \* the mounted EditorBody
  write,              \* [Saves -> a PUT /api/files/write]
  page,               \* where the user is
  kept,               \* history: contents of this buffer that were on disk
  version, faults, moves

storeFields == <<openFile, pending>>
bounds == <<version, faults, moves>>
editorVars == <<disk, storeFields, dirty, ed, write, page, kept, bounds>>

\* Three branches of the router: home (and a draft), sessions with and without a
\* project, and the settings.  The view stays mounted only within one.
Pages == {"home", "session", "bare", "settings"}
Branch(p) == IF p = "bare" THEN "session" ELSE p

Unmounted == [st |-> "none", value |-> 0, original |-> 0, got |-> 0, saving |-> FALSE]
Mounted == [Unmounted EXCEPT !.st = "loading"]
NoWrite == [st |-> "no", f |-> None, v |-> 0, mine |-> FALSE]

Dirty(e) == e.st = "ready" /\ e.value # e.original

Init ==
  /\ disk = [f \in Files |-> 0]
  /\ openFile = None /\ pending = None /\ dirty = FALSE
  /\ ed = Unmounted
  /\ write = [s \in Saves |-> NoWrite]
  /\ page = "session"
  /\ kept = {} /\ version = 0 /\ faults = 0 /\ moves = 0

\* A body that unmounts clears the flag; it does not hear of its saves any more.
Remounts(f, body) ==
  /\ openFile' = f
  /\ ed' = IF f = None THEN Unmounted ELSE body
  /\ dirty' = FALSE /\ kept' = {}
  /\ write' = [s \in Saves |-> [write[s] EXCEPT !.mine = FALSE]]

Stays == UNCHANGED <<openFile, ed, dirty, kept, write>>

\* A key per path: another file gets a fresh EditorBody.
Shows(f) == IF f = openFile THEN Stays ELSE Remounts(f, Mounted)

-----------------------------------------------------------------------------
(* open-file-store.ts *)

Open(f) ==
  /\ pending = None /\ openFile # f /\ page # "settings"
  /\ IF openFile # None /\ dirty
       THEN pending' = f /\ Stays
       ELSE Shows(f) /\ pending' = None
  /\ UNCHANGED <<disk, page, bounds>>

CloseFile ==
  IF dirty THEN pending' = "close" /\ Stays ELSE Shows(None) /\ pending' = None

Close ==
  /\ pending = None /\ openFile # None /\ page # "settings"
  /\ CloseFile
  /\ UNCHANGED <<disk, page, bounds>>

ConfirmPending ==
  /\ pending # None /\ page # "settings"
  /\ Shows(IF pending = "close" THEN None ELSE pending) /\ pending' = None
  /\ UNCHANGED <<disk, page, bounds>>

CancelPending ==
  /\ pending # None /\ page # "settings" /\ pending' = None
  /\ UNCHANGED <<disk, openFile, dirty, ed, write, page, kept, bounds>>

-----------------------------------------------------------------------------
(* EditorBody: every change of the buffer tells the store whether it is dirty. *)

Becomes(e) == ed' = e /\ dirty' = Dirty(e)

ReadFile ==
  /\ ed.st = "loading"
  /\ ed' = [ed EXCEPT !.st = "read", !.got = disk[openFile]]
  /\ UNCHANGED <<disk, storeFields, dirty, write, page, kept, bounds>>

ReadArrives ==
  /\ \/ /\ ed.st = "read" /\ UNCHANGED faults
        /\ kept' = kept \cup {ed.got}
        /\ Becomes([ed EXCEPT !.st = "ready", !.value = ed.got, !.original = ed.got])
     \/ /\ ed.st \in {"loading", "read"} /\ faults < MaxFaults /\ faults' = faults + 1
        /\ Becomes([ed EXCEPT !.st = "error"]) /\ UNCHANGED kept
  /\ UNCHANGED <<disk, storeFields, write, page, version, moves>>

\* The dialog is modal, the editor is not locked by a save.
Type ==
  /\ ed.st = "ready" /\ pending = None
  /\ \/ /\ version < MaxVersion /\ version' = version + 1
        /\ Becomes([ed EXCEPT !.value = version + 1])
     \/ /\ ed.value # ed.original /\ UNCHANGED version
        /\ Becomes([ed EXCEPT !.value = ed.original])
  /\ UNCHANGED <<disk, storeFields, write, page, kept, faults, moves>>

Save(s) ==
  /\ dirty /\ ~ed.saving /\ pending = None /\ write[s].st = "no"
  /\ write' = [write EXCEPT ![s] = [st |-> "sent", f |-> openFile, v |-> ed.value,
                                    mine |-> TRUE]]
  /\ Becomes([ed EXCEPT !.saving = TRUE])
  /\ UNCHANGED <<disk, storeFields, page, kept, bounds>>

\* PUT /write
Write(s) ==
  /\ write[s].st = "sent"
  /\ \/ /\ disk' = [disk EXCEPT ![write[s].f] = write[s].v]
        /\ write' = [write EXCEPT ![s].st = "written"]
        /\ kept' = IF write[s].mine THEN kept \cup {write[s].v} ELSE kept
        /\ UNCHANGED faults
     \/ /\ faults < MaxFaults /\ faults' = faults + 1
        /\ write' = [write EXCEPT ![s].st = "failed"] /\ UNCHANGED <<disk, kept>>
  /\ UNCHANGED <<storeFields, dirty, ed, page, version, moves>>

\* An answer after which the buffer as it is now counts as saved.
SavedAsIs(s) ==
  /\ write[s].st \in {"written", "failed"}
  /\ write' = [write EXCEPT ![s] = NoWrite]
  /\ IF ~write[s].mine THEN UNCHANGED <<ed, dirty>>
     ELSE Becomes([ed EXCEPT !.saving = FALSE,
                             !.original = IF write[s].st = "written" THEN ed.value ELSE @])
  /\ UNCHANGED <<disk, storeFields, page, kept, bounds>>

\* setOriginal(value), the value that was sent; an unmounted body hears nothing.
Saved(s) ==
  /\ write[s].st \in {"written", "failed"}
  /\ write' = [write EXCEPT ![s] = NoWrite]
  /\ IF ~write[s].mine THEN UNCHANGED <<ed, dirty>>
     ELSE Becomes([ed EXCEPT !.saving = FALSE,
                             !.original = IF write[s].st = "written" THEN write[s].v ELSE @])
  /\ UNCHANGED <<disk, storeFields, page, kept, bounds>>

-----------------------------------------------------------------------------
(* The rest of the page. *)

AgentWrites ==
  /\ version < MaxVersion /\ version' = version + 1
  /\ \E f \in Files : disk' = [disk EXCEPT ![f] = version + 1]
  /\ UNCHANGED <<storeFields, dirty, ed, write, page, kept, faults, moves>>

\* Within a branch the view stays, and closes the file when the new session has no
\* project.  Another branch unmounts it, and the editor with it: the flag is clear
\* by the time a view without a project closes the file.
Navigate(p) ==
  /\ p # page /\ moves < MaxMoves /\ moves' = moves + 1
  /\ page' = p
  /\ IF Branch(p) = Branch(page)
       THEN IF p = "bare" THEN CloseFile ELSE Stays /\ UNCHANGED pending
       ELSE IF p \in {"home", "bare"}
         THEN Remounts(None, Unmounted) /\ pending' = None
         ELSE /\ Remounts(openFile, IF p = "settings" THEN Unmounted ELSE Mounted)
              /\ UNCHANGED pending
  /\ UNCHANGED <<disk, version, faults>>

Next ==
  \/ \E f \in Files : Open(f)
  \/ Close \/ ConfirmPending \/ CancelPending
  \/ ReadFile \/ ReadArrives \/ Type
  \/ \E s \in Saves : Save(s) \/ Write(s) \/ Saved(s)
  \/ AgentWrites
  \/ \E p \in Pages : Navigate(p)

Spec == Init /\ [][Next]_editorVars

-----------------------------------------------------------------------------
\* The buffer as it is goes: another takes its place, or none.
Dropped == ed.st = "ready" /\ ed'.st # "ready"
Unsaved == ed.value \notin kept

\* What was typed and never reached the disk, whatever saves came between, is
\* dropped only when the user confirmed it or left the pages the editor is on.
KeepsEdits == Unsaved /\ Dropped => pending # None \/ Branch(page') # Branch(page)

EditsNotLost == [][KeepsEdits]_editorVars

\* As the panel promises it: closing or switching always asks first.
DiscardIsAsked == [][Unsaved /\ Dropped => pending # None]_editorVars

-----------------------------------------------------------------------------
\* What keeps them so: the store knows whether the buffer is dirty, and what the buffer
\* takes for saved was read from the disk or reached it.
Shapes ==
  /\ disk \in [Files -> Nat] /\ version \in Nat
  /\ openFile \in Files \cup {None} /\ pending \in Files \cup {None, "close"}
  /\ ed \in [st : {"none", "loading", "read", "ready", "error"}, value : Nat,
             original : Nat, got : Nat, saving : BOOLEAN]
  /\ ed.st # "none" => openFile \in Files
  /\ write \in [Saves -> [st : {"no", "sent", "written", "failed"}, f : Files \cup {None},
                          v : Nat, mine : BOOLEAN]]
  /\ \A s \in Saves : write[s].st = "sent" => write[s].f \in Files

SavedWasOnDisk ==
  /\ dirty = Dirty(ed)
  /\ ed.st = "ready" => ed.original \in kept
  /\ \A s \in Saves : write[s].mine /\ write[s].st = "written" => write[s].v \in kept

InductiveInv == Shapes /\ SavedWasOnDisk

=============================================================================
