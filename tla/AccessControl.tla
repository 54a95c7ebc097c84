------------------------------ MODULE AccessControl ------------------------------
(***************************************************************************)
(* Who may use the workspace: the switch in site_settings, the allowlist   *)
(* (routes/config-system, services/site-settings), the gate every request  *)
(* passes (auth/access canUserAccess, two queries one after the other),    *)
(* and the administrator's panel (settings/access-control-panel), whose    *)
(* saves offer a Retry when they fail (lib/save-toast).                    *)
(***************************************************************************)
EXTENDS Naturals, Sequences, FiniteSets

CONSTANTS
  Emails,      \* of the users
  Admins,      \* those whose role is admin
  EnvDefault,  \* ACCESS_CONTROL_ENABLED
  MaxCalls,    \* bound: requests of the panel under way
  MaxLosses,   \* bound: answers that are lost
  Overtakes    \* answers may arrive in another order than they were given

VARIABLES
  override,    \* the row access.enabled, "default" when there is none
  listed,      \* the emails of the allowlist
  panel,       \* what the panel shows, [control, emails]; control "loading" at first
  saving,      \* its switch is disabled
  requests,    \* requests of the panel not handled yet
  answers,     \* answers under way to it, in the order they were given
  retries,     \* choices whose failed save still offers a Retry
  unsure,      \* history: what a lost answer left open
  check,       \* [Emails -> the stage of the user's request at the gate]
  just,        \* history: the gate could have let the user in since it was reached
  losses

accessVars == <<override, listed, panel, saving, requests, answers, retries,
                unsure, check, just, losses>>

Choices == {"default", "on", "off"}

Init ==
  /\ override \in Choices /\ listed \in SUBSET Emails
  /\ panel = [control |-> "loading", emails |-> {}]
  /\ saving = FALSE
  /\ requests = {[kind |-> "load"]} /\ answers = <<>>
  /\ retries = {} /\ unsure = {}
  /\ check = [u \in Emails |-> "idle"] /\ just = [u \in Emails |-> FALSE]
  /\ losses = 0

-----------------------------------------------------------------------------
(* The gate *)

\* resolveAccessControlFromSettings: override ?? envDefault.
Effective == IF override = "default" THEN EnvDefault ELSE override = "on"

\* isUserAllowed: an administrator always, others when they are listed.
IsUserAllowed(u) == u \in Admins \/ u \in listed

\* What the panel promises: "When enforcing, only listed emails (and admins) may use the
\* app."
Permits(o, emails, u) ==
  \/ u \in Admins \cup emails
  \/ o = "off"
  \/ o = "default" /\ ~EnvDefault

GateUnchanged == UNCHANGED <<override, listed, panel, saving, requests, answers,
                             retries, unsure, losses>>

Reach(u) ==
  /\ check[u] \notin {"reached", "enforced"}
  /\ check' = [check EXCEPT ![u] = "reached"]
  /\ just' = [just EXCEPT ![u] = Permits(override, listed, u)]
  /\ GateUnchanged

\* A gate that asks for the row and not for what it says.
ReadsRowOnly(u) ==
  /\ check[u] = "reached"
  /\ check' = [check EXCEPT ![u] = IF override = "on" THEN "enforced" ELSE "granted"]
  /\ GateUnchanged /\ UNCHANGED just

\* canUserAccess, the first query.
ReadControl(u) ==
  /\ check[u] = "reached"
  /\ check' = [check EXCEPT ![u] = IF Effective THEN "enforced" ELSE "granted"]
  /\ GateUnchanged /\ UNCHANGED just

\* The second.
ReadAllowlist(u) ==
  /\ check[u] = "enforced"
  /\ check' = [check EXCEPT ![u] = IF IsUserAllowed(u) THEN "granted" ELSE "denied"]
  /\ GateUnchanged /\ UNCHANGED just

-----------------------------------------------------------------------------
(* The panel *)

IsShown == panel.control # "loading"

Request(r) == r \notin requests /\ requests' = requests \cup {r}
HasRoom == Cardinality(requests) + Len(answers) < MaxCalls

\* changeOverride; the buttons are disabled while a save runs.
ChangeOverride(c) ==
  /\ IsShown /\ HasRoom /\ ~saving
  /\ saving' = TRUE
  /\ Request([kind |-> "control", value |-> c])
  /\ UNCHANGED <<override, listed, panel, answers, retries, unsure, check, just, losses>>

\* The Retry of a toast, however old, runs the same save again.
Retry(c) ==
  /\ c \in retries /\ HasRoom
  /\ retries' = retries \ {c}
  /\ saving' = TRUE
  /\ Request([kind |-> "control", value |-> c])
  /\ UNCHANGED <<override, listed, panel, answers, unsure, check, just, losses>>

\* handleAdd, also by the Enter key while another add runs; handleRemove.
Change(kind, e) ==
  /\ IsShown /\ HasRoom
  /\ kind = "remove" => e \in panel.emails
  /\ Request([kind |-> kind, value |-> e])
  /\ UNCHANGED <<override, listed, panel, saving, answers, retries, unsure, check, just, losses>>

\* What a request does to the tables.
Sets(r) ==
  /\ override' = IF r.kind = "control" THEN r.value ELSE override
  /\ listed' = CASE r.kind = "add" -> listed \cup {r.value}
                 [] r.kind = "remove" -> listed \ {r.value}
                 [] OTHER -> listed

Parts(r) ==
  CASE r.kind = "control" -> {"control"} [] r.kind = "load" -> {"control", "emails"} [] OTHER -> {"emails"}

\* A request is handled.  The answer tells what it is of; a listing and the first load
\* are what the tables hold.
Handle(r) ==
  /\ r \in requests
  /\ requests' = requests \ {r}
  /\ Sets(r)
  /\ answers' = Append(answers, [of |-> r, ok |-> TRUE, control |-> override', emails |-> listed'])
  /\ unsure' = IF r.kind \in {"list", "load", "control"} THEN unsure \ Parts(r) ELSE unsure
  /\ just' = [u \in Emails |-> just[u] \/ Permits(override', listed', u)]
  /\ UNCHANGED <<panel, saving, retries, check, losses>>

\* It fails, before or after it was done.
HandleFails(r, done) ==
  /\ r \in requests /\ losses < MaxLosses
  /\ requests' = requests \ {r}
  /\ IF done THEN Sets(r) ELSE UNCHANGED <<override, listed>>
  /\ answers' = Append(answers, [of |-> r, ok |-> FALSE])
  /\ unsure' = unsure \cup Parts(r)
  /\ just' = [u \in Emails |-> just[u] \/ Permits(override', listed', u)]
  /\ losses' = losses + 1
  /\ UNCHANGED <<panel, saving, retries, check>>

\* What an answer does to the panel: an add asks for the listing, a removal filters.
Shows(a) ==
  CASE a.of.kind = "load" -> [control |-> a.control, emails |-> a.emails]
    [] a.of.kind = "control" -> [panel EXCEPT !.control = a.control]
    [] a.of.kind = "list" -> [panel EXCEPT !.emails = a.emails]
    [] a.of.kind = "remove" -> [panel EXCEPT !.emails = @ \ {a.of.value}]
    [] OTHER -> panel

AnswerArrives(i) ==
  /\ i \in DOMAIN answers
  /\ i = 1 \/ Overtakes
  /\ answers' = [j \in 1..(Len(answers) - 1) |-> answers[IF j < i THEN j ELSE j + 1]]
  /\ LET a == answers[i] IN
     /\ panel' = IF a.ok THEN Shows(a)
                 ELSE IF IsShown THEN panel ELSE [panel EXCEPT !.control = "default"]
     /\ requests' = IF a.ok /\ a.of.kind = "add" THEN requests \cup {[kind |-> "list"]} ELSE requests
     /\ saving' = IF a.of.kind = "control" THEN FALSE ELSE saving
     /\ retries' = IF ~a.ok /\ a.of.kind = "control" THEN retries \cup {a.of.value} ELSE retries
  /\ UNCHANGED <<override, listed, unsure, check, just, losses>>

Next ==
  \/ \E u \in Emails : Reach(u)
  \/ \E u \in Emails : ReadControl(u)
  \/ \E u \in Emails : ReadAllowlist(u)
  \/ \E c \in Choices : ChangeOverride(c)
  \/ \E c \in Choices : Retry(c)
  \/ \E k \in {"add", "remove"}, e \in Emails : Change(k, e)
  \/ \E r \in requests : Handle(r)
  \/ \E r \in requests, b \in BOOLEAN : HandleFails(r, b)
  \/ \E i \in 1..MaxCalls : AnswerArrives(i)

Spec == Init /\ [][Next]_accessVars

-----------------------------------------------------------------------------
\* auth/access.ts "Final gate": a user gets in only if the tables permitted it at some
\* moment of the check, although switch and allowlist are read one after the other.
GrantsAreJust == \A u \in Emails : check[u] = "granted" => just[u]

\* Once nothing is under way, the panel shows what the gate goes by, but for what a lost
\* answer left open.
PanelIsTrue ==
  requests = {} /\ answers = <<>> =>
    /\ "control" \notin unsure => panel.control = override
    /\ "emails" \notin unsure => panel.emails = listed

AccessIsJust == GrantsAreJust /\ PanelIsTrue

-----------------------------------------------------------------------------
\* What keeps them so.  For the gate: who is at it is known to be permitted as soon as
\* the tables permit it.
JustIsKept ==
  \A u \in Emails :
    /\ check[u] # "idle" /\ Permits(override, listed, u) => just[u]
    /\ check[u] = "granted" => just[u]

\* For the panel: the last answer under way that carries the switch, or the panel when
\* there is none, has what the table holds; the last listing has it but for the removals
\* that follow, unless a listing is still to be read.
Handled ==
  [kind : {"load", "list"}] \cup [kind : {"control"}, value : Choices]
    \cup [kind : {"add", "remove"}, value : Emails]

Shapes ==
  /\ override \in Choices /\ listed \subseteq Emails
  /\ panel \in [control : Choices \cup {"loading"}, emails : SUBSET Emails]
  /\ requests \subseteq Handled /\ retries \subseteq Choices
  /\ answers \in Seq([of : Handled, ok : {TRUE}, control : Choices, emails : SUBSET Emails]
                     \cup [of : Handled, ok : {FALSE}])
  /\ check \in [Emails -> {"idle", "reached", "enforced", "granted", "denied"}]
  /\ just \in [Emails -> BOOLEAN]

HasControl(a) == a.ok /\ a.of.kind \in {"load", "control"}
HasListing(a) == a.ok /\ a.of.kind \in {"load", "list"}
Removes(a) == a.ok /\ a.of.kind = "remove"
RemovedAfter(i) == {answers[j].of.value : j \in {n \in (i + 1)..Len(answers) : Removes(answers[n])}}

ControlIsCarried ==
  "control" \in unsure \/ [kind |-> "load"] \in requests \/
  \E i \in 0..Len(answers) :
    /\ \A j \in (i + 1)..Len(answers) : ~HasControl(answers[j])
    /\ IF i = 0 THEN override = panel.control
       ELSE HasControl(answers[i]) /\ override = answers[i].control

ListingIsCarried ==
  \/ "emails" \in unsure
  \/ [kind |-> "load"] \in requests \/ [kind |-> "list"] \in requests
  \/ \E i \in DOMAIN answers : answers[i].ok /\ answers[i].of.kind = "add"
  \/ \E i \in 0..Len(answers) :
       /\ \A j \in (i + 1)..Len(answers) : ~HasListing(answers[j])
       /\ IF i = 0 THEN listed = panel.emails \ RemovedAfter(0)
          ELSE HasListing(answers[i]) /\ listed = answers[i].emails \ RemovedAfter(i)

InductiveInv == JustIsKept /\ Shapes /\ ControlIsCarried /\ ListingIsCarried

=============================================================================
