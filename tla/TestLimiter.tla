------------------------------ MODULE TestLimiter ------------------------------
(***************************************************************************)
(* The limiter in front of provider tests                                  *)
(* (server/src/services/providers/test-limiter.ts): per user one test at a *)
(* time and a gap between starts, kept in a map that is swept when it has  *)
(* grown.  A test keeps the entry it was admitted by, in the map or not.   *)
(***************************************************************************)
EXTENDS Naturals, FiniteSets

CONSTANTS
  Testers, NoEntry,
  Slots,          \* bound: tests under way at once
  MinInterval, SweepThreshold,
  MaxClock        \* bound: now()

VARIABLES
  entries,   \* [Testers -> an entry of the map, or NoEntry]
  tests,     \* [Slots -> who runs a test, and whether its entry is still in the map]
  clock,
  lastTest   \* history: [Testers -> start of the last test, 0 before the first]

limiterVars == <<entries, tests, clock, lastTest>>

NoTest == [who |-> NoEntry, kept |-> FALSE]
Fresh == [inFlight |-> FALSE, lastStart |-> 0, started |-> FALSE]

Init ==
  /\ entries = [u \in Testers |-> NoEntry]
  /\ tests = [k \in Slots |-> NoTest]
  /\ clock = 1
  /\ lastTest = [u \in Testers |-> 0]

Size == Cardinality({u \in Testers : entries[u] # NoEntry})

\* A sweep by the cooldown alone.
SweepsRunning ==
  {u \in Testers : /\ entries[u] # NoEntry
                   /\ clock - entries[u].lastStart >= MinInterval}

Swept ==
  {u \in Testers : /\ entries[u] # NoEntry
                   /\ ~entries[u].inFlight
                   /\ clock - entries[u].lastStart >= MinInterval}

\* The map after get(u).
Got(u) ==
  IF entries[u] # NoEntry THEN entries
  ELSE LET gone == IF Size >= SweepThreshold THEN Swept ELSE {} IN
       [v \in Testers |-> IF v = u THEN Fresh
                          ELSE IF v \in gone THEN NoEntry ELSE entries[v]]

Admits(e) ==
  /\ ~e.inFlight
  /\ e.started => clock - e.lastStart >= MinInterval

WithTestLimit(u, k) ==
  /\ tests[k] = NoTest
  /\ Admits(Got(u)[u])
  /\ entries' = [Got(u) EXCEPT ![u] = [inFlight |-> TRUE, lastStart |-> clock,
                                       started |-> TRUE]]
  /\ tests' = [j \in Slots |->
       IF j = k THEN [who |-> u, kept |-> TRUE]
       ELSE [tests[j] EXCEPT !.kept = @ /\ Got(u)[tests[j].who] # NoEntry]]
  /\ lastTest' = [lastTest EXCEPT ![u] = clock]
  /\ UNCHANGED clock

\* rate_limited: the entry that was looked up stays.
Limited(u) ==
  /\ ~Admits(Got(u)[u])
  /\ entries' = Got(u)
  /\ UNCHANGED <<tests, clock, lastTest>>

\* The test answers or throws: the finally frees its own entry.
Released(k) ==
  /\ tests[k] # NoTest
  /\ tests' = [tests EXCEPT ![k] = NoTest]
  /\ entries' = IF tests[k].kept THEN [entries EXCEPT ![tests[k].who].inFlight = FALSE]
                ELSE entries
  /\ UNCHANGED <<clock, lastTest>>

Tick ==
  /\ clock < MaxClock /\ clock' = clock + 1
  /\ UNCHANGED <<entries, tests, lastTest>>

Next ==
  \/ \E u \in Testers, k \in Slots : WithTestLimit(u, k)
  \/ \E u \in Testers : Limited(u)
  \/ \E k \in Slots : Released(k)
  \/ Tick

Spec == Init /\ [][Next]_limiterVars

-----------------------------------------------------------------------------
\* Whatever is swept in between, a test starts only when the user's last one is
\* over and began long enough ago.
SpacesTests ==
  \A u \in Testers : lastTest'[u] # lastTest[u] =>
    /\ \A k \in Slots : tests[k].who # u
    /\ lastTest[u] # 0 => clock - lastTest[u] >= MinInterval

TestsAreSpaced == [][SpacesTests]_limiterVars

-----------------------------------------------------------------------------
\* What keeps them so: who runs a test has an entry in the map that says it is in flight,
\* and whose last start is not in the map began long enough ago.
Entries == [inFlight : BOOLEAN, lastStart : Nat, started : BOOLEAN]

Shapes ==
  /\ entries \in [Testers -> Entries \cup {NoEntry}]
  /\ tests \in [Slots -> [who : Testers, kept : BOOLEAN] \cup {NoTest}]
  /\ clock \in Nat /\ lastTest \in [Testers -> Nat]

RunningIsKept ==
  \A k \in Slots : tests[k] # NoTest =>
    /\ tests[k].kept
    /\ entries[tests[k].who] # NoEntry /\ entries[tests[k].who].inFlight
    /\ \A j \in Slots : tests[j].who = tests[k].who => j = k

StartIsRemembered ==
  \A u \in Testers :
    /\ lastTest[u] <= clock
    /\ IF entries[u] = NoEntry THEN lastTest[u] = 0 \/ clock - lastTest[u] >= MinInterval
       ELSE entries[u].started /\ entries[u].lastStart = lastTest[u]

InductiveInv == Shapes /\ RunningIsKept /\ StartIsRemembered

=============================================================================
