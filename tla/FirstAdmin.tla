------------------------------- MODULE FirstAdmin -------------------------------
(***************************************************************************)
(* The election of the first administrator: the hooks around the insertion *)
(* of a user in server/src/auth/index.ts.  Sign-ups run side by side; each *)
(* decides its role by a count it makes before it inserts, and repairs the *)
(* outcome of a race afterwards.                                           *)
(***************************************************************************)
EXTENDS Naturals, FiniteSets

CONSTANTS SignUps,  \* the accounts that sign up
          MaxTime   \* bound: creation times, which may be equal

VARIABLES
  sign,    \* [SignUps -> where the sign-up stands]
  elected, \* [SignUps -> did its count find no user]
  role,    \* [SignUps -> the role in its row, "none" without a row]
  born,    \* [SignUps -> createdAt]
  demote,  \* [SignUps -> the admins its repair found to be too many]
  lock     \* who holds the advisory lock

adminVars == <<sign, elected, role, born, demote, lock>>

Nobody == "nobody"
Users  == {u \in SignUps : role[u] # "none"}
Administrators == {u \in SignUps : role[u] = "admin"}

Init ==
  /\ sign = [u \in SignUps |-> "no"]
  /\ elected = [u \in SignUps |-> FALSE]
  /\ role = [u \in SignUps |-> "none"]
  /\ born \in [SignUps -> 1..MaxTime]
  /\ demote = [u \in SignUps |-> {}]
  /\ lock = Nobody

GoesTo(u, pc) == sign' = [sign EXCEPT ![u] = pc]

\* create.before: the role is decided by the count.
Count(u) ==
  /\ sign[u] = "no" /\ GoesTo(u, "counted")
  /\ elected' = [elected EXCEPT ![u] = Users = {}]
  /\ UNCHANGED <<role, born, demote, lock>>

Insert(u) ==
  /\ sign[u] = "counted" /\ GoesTo(u, "inserted")
  /\ role' = [role EXCEPT ![u] = IF elected[u] THEN "admin" ELSE "user"]
  /\ UNCHANGED <<elected, born, demote, lock>>

\* create.after: the directory first; when that fails the row stays.
MakeDirectory(u) ==
  /\ sign[u] = "inserted"
  /\ \/ GoesTo(u, IF elected[u] THEN "repair" ELSE "done")
     \/ GoesTo(u, "cut")
  /\ UNCHANGED <<elected, role, born, demote, lock>>

\* The oldest stays; of several with its time the database puts any first.
Others(first) == Administrators \ {first}
Oldest == {u \in Administrators : \A v \in Administrators : born[u] <= born[v]}

\* A repair that does not wait for another's.
RepairReadsAtOnce(u) ==
  /\ sign[u] = "repair" /\ GoesTo(u, "demote")
  /\ \E first \in Oldest : demote' = [demote EXCEPT ![u] = Others(first)]
  /\ UNCHANGED <<elected, role, born, lock>>

\* pg_advisory_xact_lock, then the select: it sees what the last holder committed.
RepairReads(u) ==
  /\ sign[u] = "repair" /\ lock = Nobody /\ GoesTo(u, "demote")
  /\ lock' = u
  /\ IF Administrators = {} THEN demote' = [demote EXCEPT ![u] = {}]
     ELSE \E first \in Oldest : demote' = [demote EXCEPT ![u] = Others(first)]
  /\ UNCHANGED <<elected, role, born>>

RepairDemotes(u) ==
  /\ sign[u] = "demote" /\ GoesTo(u, "done")
  /\ role' = [v \in SignUps |-> IF v \in demote[u] THEN "user" ELSE role[v]]
  /\ lock' = Nobody
  /\ UNCHANGED <<elected, born, demote>>

\* The server or its database connection dies: transactions roll back.
Crash ==
  /\ \E u \in SignUps : sign[u] \notin {"no", "done", "cut"}
  /\ sign' = [u \in SignUps |-> IF sign[u] \in {"no", "done"} THEN sign[u] ELSE "cut"]
  /\ lock' = Nobody
  /\ UNCHANGED <<elected, role, born, demote>>

Next ==
  \/ \E u \in SignUps : Count(u) \/ Insert(u) \/ MakeDirectory(u)
                        \/ RepairReads(u) \/ RepairDemotes(u)
  \/ Crash

Spec == Init /\ [][Next]_adminVars

-----------------------------------------------------------------------------
\* As soon as there are users there is an administrator, and once every sign-up has
\* ended there is exactly one, however they raced; an extra one stays only if its
\* sign-up was cut short between the insertion and the repair.
OneAdmin ==
  Users # {} =>
    /\ Administrators # {}
    /\ (\A u \in Users : sign[u] \in {"done", "cut"}) =>
         \A u, v \in Administrators : u = v \/ sign[u] = "cut" \/ sign[v] = "cut"

-----------------------------------------------------------------------------
\* What keeps it so.
Kinds == /\ sign \in [SignUps -> {"no", "counted", "inserted", "repair", "demote", "done", "cut"}]
         /\ role \in [SignUps -> {"none", "user", "admin"}]
         /\ elected \in [SignUps -> BOOLEAN]
         /\ demote \in [SignUps -> SUBSET SignUps]

\* A row is inserted once, with the role that was decided before.
RowShape ==
  \A u \in SignUps :
    /\ sign[u] \in {"no", "counted"} => role[u] = "none"
    /\ sign[u] \in {"inserted", "repair", "demote", "done"} => role[u] # "none"
    /\ role[u] = "admin" => elected[u]
    /\ sign[u] = "counted" /\ ~elected[u] => Users # {}

SomeAdmin == Users # {} => Administrators # {}

\* Who is about to demote holds the lock; of the users its transaction saw
\* it spares one, and it saw all whose own repair is over.
RepairShape ==
  \A u \in SignUps : sign[u] = "demote" =>
    /\ lock = u
    /\ demote[u] \subseteq Users
    /\ \E first \in Administrators :
         /\ first \notin demote[u]
         /\ \A v \in Administrators : /\ sign[v] = "done" \/ v = u
                                      /\ v # first
                                      => v \in demote[u]

\* Of the administrators whose sign-up is over there is one.
OneDone == \A u, v \in Administrators : sign[u] = "done" /\ sign[v] = "done" => u = v

InductiveInv == Kinds /\ RowShape /\ SomeAdmin /\ RepairShape /\ OneDone

=============================================================================
