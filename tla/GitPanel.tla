-------------------------------- MODULE GitPanel --------------------------------
(***************************************************************************)
(* The git panel of the sidebar (client lib/git-panel-store and            *)
(* right-sidebar/git-panel, commit-dialog) over the git routes: a panel    *)
(* that follows the project on the screen while its requests are under     *)
(* way, and the credential a project is linked to, which the server        *)
(* injects into remote commands.  What git prints is a project name here:  *)
(* the one whose repository was asked.                                     *)
(***************************************************************************)
EXTENDS Naturals, FiniteSets

CONSTANTS
  Projects, NoProject,
  Repos,          \* the projects that are git repositories
  Creds, NoCred,
  MaxCalls,       \* bound: requests under way
  MaxSwitches     \* bound: changes of the project on the screen

VARIABLES
  panel,     \* the store: the shown project, whose data it shows, the linked credential
  calls,     \* requests under way; equal ones are one
  meta,      \* project_git_metadata: [Projects -> credentials of its rows, {} without a row]
  creds,     \* git_credentials
  astray     \* history: fields that took an answer for another project, or crossed ones

panelVars == <<panel, calls, meta, creds, astray>>

Initial(p, n) ==
  [project |-> p, epoch |-> n, status |-> NoProject, log |-> NoProject,
   linked |-> NoCred, busy |-> FALSE, auth |-> NoProject, dialog |-> FALSE]

Call(kind, p) ==
  [kind |-> kind, project |-> p, epoch |-> 0, remote |-> FALSE,
   cred |-> NoCred, prev |-> NoCred, st |-> "sent"]

Reads(kinds, p) == IF p = NoProject THEN {} ELSE {Call(k, p) : k \in kinds}

Loaded == {"status", "log", "meta"}

Init ==
  /\ \E p \in Projects : panel = Initial(p, 0) /\ calls = Reads(Loaded, p)
  /\ astray = {}
  /\ meta \in [Projects -> {{}} \cup {{c} : c \in Creds}]
  /\ creds = Creds

Room == Cardinality(calls) < MaxCalls
Of(kinds) == {c \in calls : c.kind \in kinds}

\* The panel hides when the status said that this is no repository.
Visible == panel.project # NoProject /\ panel.status \in Repos

-----------------------------------------------------------------------------
\* setProject.
SetProject(p) ==
  /\ p # panel.project /\ panel.epoch < MaxSwitches /\ Room
  /\ panel' = Initial(p, panel.epoch + 1)
  /\ calls' = calls \cup Reads(Loaded, p)
  /\ astray' = IF \E c \in Of({"link", "meta"}) : c.project = p THEN {"linked"} ELSE {}
  /\ UNCHANGED <<meta, creds>>

\* The refresh button.
Refresh ==
  /\ Visible /\ Room
  /\ calls' = calls \cup Reads({"status"}, panel.project)
  /\ UNCHANGED <<panel, meta, creds, astray>>

Stray(field, c) == IF c.project = panel.project THEN astray \ {field} ELSE astray \cup {field}

\* refreshStatus, and refreshBranches with it: shown whatever project is on the screen
\* by now.  With the commit dialog open new entries fetch the status again.
StatusArrives(c) ==
  /\ c \in Of({"status"})
  /\ panel' = [panel EXCEPT !.status = c.project]
  /\ calls' = (calls \ {c}) \cup (IF panel.dialog THEN Reads({"status"}, panel.project) ELSE {})
  /\ astray' = Stray("status", c)
  /\ UNCHANGED <<meta, creds>>

\* The log without the guard against a switch.
UnguardedLog(c) ==
  /\ c \in Of({"log"})
  /\ calls' = calls \ {c}
  /\ panel' = [panel EXCEPT !.log = c.project]
  /\ UNCHANGED <<meta, creds, astray>>

LogArrives(c) ==
  /\ c \in Of({"log"})
  /\ calls' = calls \ {c}
  /\ panel' = IF c.project = panel.project /\ c.project \in Repos
              THEN [panel EXCEPT !.log = c.project] ELSE panel
  /\ UNCHANGED <<meta, creds, astray>>

\* A read that fails leaves what was shown.
ReadFails(c) ==
  /\ c \in Of(Loaded)
  /\ calls' = calls \ {c}
  /\ astray' = IF c.kind = "meta" /\ c.project = panel.project
               THEN astray \cup {"linked"} ELSE astray
  /\ UNCHANGED <<panel, meta, creds>>

-----------------------------------------------------------------------------
(* The linked credential *)

\* One row of the project, whichever the query returns first.
RowOf(p) == IF meta[p] = {} THEN {NoCred} ELSE meta[p]

MetadataIsRead(c) ==
  /\ c \in Of({"meta"}) /\ c.st = "sent"
  /\ \E x \in RowOf(c.project) : calls' = (calls \ {c}) \cup {[c EXCEPT !.st = "read", !.cred = x]}
  /\ UNCHANGED <<panel, meta, creds, astray>>

\* loadMetadata.
MetadataArrives(c) ==
  /\ c \in Of({"meta"}) /\ c.st = "read"
  /\ calls' = calls \ {c}
  /\ panel' = IF c.project = panel.project THEN [panel EXCEPT !.linked = c.cred] ELSE panel
  /\ UNCHANGED <<meta, creds, astray>>

\* linkCredential of the project on the screen: shown first, sent then.
Linking(cred) ==
  IF panel.project = NoProject THEN {}
  ELSE {[Call("link", panel.project) EXCEPT
           !.epoch = panel.epoch, !.cred = cred, !.prev = panel.linked]}

\* Another request about the same link is under way.
Crossed(p) == \E c \in Of({"link", "meta"}) : c.project = p

\* Save of the credential dialog.
LinkCredential(cred) ==
  /\ Visible /\ Room
  /\ calls' = calls \cup Linking(cred)
  /\ panel' = [panel EXCEPT !.linked = cred]
  /\ astray' = IF Crossed(panel.project) THEN astray \cup {"linked"} ELSE astray
  /\ UNCHANGED <<meta, creds>>

Moves(c, st) == calls' = (calls \ {c}) \cup {[c EXCEPT !.st = st]}

\* PUT /link-credential: the credential must exist, a row is updated, and inserted
\* when there is none.
LinkIsChecked(c) ==
  /\ c \in Of({"link"}) /\ c.st = "sent"
  /\ Moves(c, IF c.cred \in creds \cup {NoCred} THEN "checked" ELSE "refused")
  /\ UNCHANGED <<panel, meta, creds, astray>>

LinkUpdates(c) ==
  /\ c \in Of({"link"}) /\ c.st = "checked"
  /\ IF meta[c.project] = {} THEN Moves(c, "insert") /\ UNCHANGED meta
     ELSE IF c.cred \in creds \cup {NoCred}
     THEN Moves(c, "ok") /\ meta' = [meta EXCEPT ![c.project] = {c.cred}]
     ELSE Moves(c, "refused") /\ UNCHANGED meta
  /\ UNCHANGED <<panel, creds, astray>>

LinkInserts(c) ==
  /\ c \in Of({"link"}) /\ c.st = "insert"
  /\ IF c.cred \in creds \cup {NoCred}
     THEN Moves(c, "ok") /\ meta' = [meta EXCEPT ![c.project] = @ \cup {c.cred}]
     ELSE Moves(c, "refused") /\ UNCHANGED meta
  /\ UNCHANGED <<panel, creds, astray>>

LinkSucceeds(c) ==
  /\ c \in Of({"link"}) /\ c.st = "ok"
  /\ calls' = calls \ {c}
  /\ UNCHANGED <<panel, meta, creds, astray>>

\* A refusal, or an answer that is lost, reverts to what was linked before, whatever
\* project is on the screen.
LinkFails(c) ==
  /\ c \in Of({"link"}) /\ c.st \in {"ok", "refused"}
  /\ calls' = calls \ {c}
  /\ panel' = [panel EXCEPT !.linked = c.prev]
  /\ astray' = IF c.st = "ok" \/ c.epoch # panel.epoch THEN astray \cup {"linked"} ELSE astray
  /\ UNCHANGED <<meta, creds>>

\* DELETE of a credential, in another tab: the rows that link it keep none.
DeleteCredential(cred) ==
  /\ cred \in creds
  /\ creds' = creds \ {cred}
  /\ meta' = [p \in Projects |-> {IF x = cred THEN NoCred ELSE x : x \in meta[p]}]
  /\ astray' = astray \cup {"linked"}
  /\ UNCHANGED <<panel, calls>>

-----------------------------------------------------------------------------
(* Commands *)

\* executeCommand: pull, push and fetch are remote, a checkout is not.
Execute(remote, cred) ==
  /\ Room
  /\ calls' = calls \cup {[Call("command", panel.project) EXCEPT
                             !.epoch = panel.epoch, !.remote = remote, !.cred = cred]}
  /\ panel' = [panel EXCEPT !.busy = TRUE]
  /\ UNCHANGED <<meta, creds, astray>>

Pull == Visible /\ ~panel.busy /\ Execute(TRUE, NoCred)
Checkout == Visible /\ ~panel.busy /\ Execute(FALSE, NoCred)

\* Retry of the banner, with the linked credential.
Retry ==
  /\ Visible /\ ~panel.busy /\ panel.auth # NoProject /\ panel.linked # NoCred
  /\ Execute(TRUE, panel.linked)

DismissAuth ==
  /\ panel.auth # NoProject
  /\ panel' = [panel EXCEPT !.auth = NoProject]
  /\ UNCHANGED <<calls, meta, creds, astray>>

\* POST /command and executeGitCommand: a remote command without a credential takes
\* the linked one; a refusal is forbidden only when a credential was applied.
Outcomes(c, used) ==
  {"ok", "failed"} \cup (IF c.remote THEN {"auth"} ELSE {})
                   \cup (IF c.remote /\ used \in creds THEN {"forbidden"} ELSE {})

CommandRuns(c) ==
  /\ c \in Of({"command"}) /\ c.st = "sent"
  /\ \E x \in RowOf(c.project) :
       \E o \in Outcomes(c, IF c.cred # NoCred THEN c.cred ELSE x) : Moves(c, o)
  /\ UNCHANGED <<panel, meta, creds, astray>>

\* Answers of an earlier project's commands fall on the one on the screen.
LateBusy(c) == IF c.epoch # panel.epoch THEN {"busy", "auth"} ELSE {}

AuthIsRequired(c) ==
  /\ c \in Of({"command"}) /\ c.st \in {"auth", "forbidden"}
  /\ calls' = calls \ {c}
  /\ panel' = [panel EXCEPT !.busy = FALSE, !.auth = c.project]
  /\ astray' = astray \cup LateBusy(c)
  /\ UNCHANGED <<meta, creds>>

CommandAnswers(c) ==
  /\ c \in Of({"command"}) /\ c.st \in {"ok", "failed"}
  /\ LET links == c.st = "ok" /\ c.remote /\ c.cred # NoCred /\ panel.project # NoProject
     IN  /\ panel' = [panel EXCEPT
              !.busy = FALSE,
              !.auth = IF c.st = "ok" THEN NoProject ELSE @,
              !.linked = IF links THEN c.cred ELSE @]
         /\ calls' = (calls \ {c}) \cup (IF links THEN Linking(c.cred) ELSE {})
                       \cup Reads({"status", "log"}, panel.project)
         /\ astray' = astray \cup LateBusy(c) \cup
              (IF links /\ Crossed(panel.project) THEN {"linked"} ELSE {})
  /\ UNCHANGED <<meta, creds>>

\* The commit dialog.
OpenDialog ==
  /\ Visible /\ ~panel.dialog /\ Room
  /\ panel' = [panel EXCEPT !.dialog = TRUE]
  /\ calls' = calls \cup Reads({"status"}, panel.project)
  /\ UNCHANGED <<meta, creds, astray>>

CommitFiles ==
  /\ panel.dialog /\ ~panel.busy /\ Room
  /\ panel' = [panel EXCEPT !.busy = TRUE, !.dialog = FALSE]
  /\ calls' = calls \cup {[Call("commit", panel.project) EXCEPT !.epoch = panel.epoch]}
  /\ UNCHANGED <<meta, creds, astray>>

Committed(c) ==
  /\ c \in Of({"commit"})
  /\ panel' = [panel EXCEPT !.busy = FALSE]
  /\ \E ok \in BOOLEAN : calls' = (calls \ {c}) \cup
       (IF ok THEN Reads({"status", "log"}, panel.project) ELSE {})
  /\ astray' = astray \cup LateBusy(c)
  /\ UNCHANGED <<meta, creds>>

Switch == \E p \in Projects \cup {NoProject} : SetProject(p)

Answer ==
  \E c \in calls :
    \/ StatusArrives(c) \/ LogArrives(c) \/ ReadFails(c)
    \/ MetadataIsRead(c) \/ MetadataArrives(c)
    \/ LinkIsChecked(c) \/ LinkUpdates(c) \/ LinkInserts(c) \/ LinkSucceeds(c) \/ LinkFails(c)
    \/ CommandRuns(c) \/ AuthIsRequired(c) \/ CommandAnswers(c) \/ Committed(c)

Next ==
  \/ Switch
  \/ Refresh
  \/ Answer
  \/ \E cred \in Creds \cup {NoCred} : LinkCredential(cred)
  \/ \E cred \in Creds : DeleteCredential(cred)
  \/ Pull
  \/ Checkout
  \/ Retry
  \/ DismissAuth
  \/ OpenDialog
  \/ CommitFiles

Spec == Init /\ [][Next]_panelVars

-----------------------------------------------------------------------------
\* The parts of the property below.
ShowsProject ==
  /\ panel.log \in {NoProject, panel.project}
  /\ "status" \notin astray => panel.status \in {NoProject, panel.project}
  /\ "auth" \notin astray => panel.auth \in {NoProject, panel.project}

BusyIsTrue ==
  "busy" \notin astray =>
    panel.busy = (\E c \in Of({"command", "commit"}) : c.epoch = panel.epoch)

LinkedIsTrue ==
  "linked" \notin astray /\ panel.project # NoProject /\ ~Crossed(panel.project) =>
    panel.linked \in RowOf(panel.project)

\* git-panel-store.ts: but for the answers that cross a switch of project, the panel
\* shows the project on the screen, is busy exactly while a command of it runs, and
\* shows, once nothing about it is under way, the credential the server will inject
\* (one of two, when two inserts left the project two rows).
PanelIsOfProject == ShowsProject /\ BusyIsTrue /\ LinkedIsTrue

\* Fails: answers do cross a switch.
NothingAstray == astray = {}

\* Fails: two inserts race (the table has no key).
OneRow == \A p \in Projects : Cardinality(meta[p]) <= 1

-----------------------------------------------------------------------------
\* What keeps it so.
AnyProject == Projects \cup {NoProject}
AnyCred == Creds \cup {NoCred}
AnyCall ==
  [kind : Loaded \cup {"link", "command", "commit"}, project : Projects, epoch : Nat,
   remote : BOOLEAN, cred : AnyCred, prev : AnyCred,
   st : {"sent", "read", "checked", "insert", "refused", "ok", "failed", "auth", "forbidden"}]

AnyPanel ==
  [project : AnyProject, epoch : Nat, status : AnyProject, log : AnyProject,
   linked : AnyCred, busy : BOOLEAN, auth : AnyProject, dialog : BOOLEAN]

Shapes ==
  /\ panel \in AnyPanel
  /\ calls \subseteq AnyCall
  /\ meta \in [Projects -> SUBSET AnyCred] /\ creds \subseteq Creds
  /\ panel.dialog => panel.project # NoProject

\* An epoch is of one project, and the panel's is the latest.
EpochsAreOfProjects ==
  \A c \in Of({"command", "commit", "link"}) :
    c.epoch <= panel.epoch /\ (c.epoch = panel.epoch => c.project = panel.project)

OneCommand ==
  "busy" \notin astray =>
    \A c, d \in Of({"command", "commit"}) :
      c.epoch = panel.epoch /\ d.epoch = panel.epoch => c = d

\* The one request about the link of the project on the screen: a read holds its row; a
\* change shows what it asks for, and until it is made the row is still the previous one.
LinkIsUnderWay ==
  "linked" \notin astray /\ panel.project # NoProject =>
    \A c \in Of({"link", "meta"}) : c.project = panel.project =>
      /\ \A d \in Of({"link", "meta"}) : d.project = panel.project => c = d
      /\ c.kind = "meta" /\ c.st = "read" => c.cred \in RowOf(c.project)
      /\ c.kind = "link" =>
           panel.linked = c.cred /\ (IF c.st = "ok" THEN c.cred ELSE c.prev) \in RowOf(c.project)

InductiveInv ==
  Shapes /\ EpochsAreOfProjects /\ OneCommand /\ LinkIsUnderWay /\ PanelIsOfProject

=============================================================================
