------------------------------ MODULE ClientSocket ------------------------------
(***************************************************************************)
(* One tab's sign-in state and its WebSocket, and the server's end of it:  *)
(* client/src/lib/auth-store.ts, auth-subscriber.ts, auth-fetch.ts,        *)
(* ws-client.ts, ws-send.ts, the effect of components/transcript.tsx that  *)
(* resumes the session shown, and server/src/ws/upgrade.ts, registry.ts,   *)
(* heartbeat.ts.  A bootstrap awaits two answers while the tab may sign    *)
(* out; the browser tells of a socket's end long after close() returned.   *)
(***************************************************************************)
EXTENDS Naturals, FiniteSets

CONSTANTS
  Sockets,     \* the sockets of the tab; one that is gone is used again
  Boots,       \* the bootstraps of a page load (StrictMode runs two)
  NoSocket,
  MaxFaults,   \* bound: lost answers, failed dials, drops and failed heartbeats
  QuickRedial  \* may a socket open within GUARD_MS of the last resume_session?

ASSUME SocketAssumption == NoSocket \notin Sockets

VARIABLES
  login,    \* server: is the auth session's row there and not expired
  admitted, \* server: does canUserAccess hold of the user
  beat,     \* server: [on, snap], a heartbeat's validation under way
  srv,      \* server: [Sockets -> the upgrade or the registered socket]
  attached, \* server: sockets in the wsSet of the session shown
  status, allowed, prev,   \* auth-store, auth-subscriber
  boot,     \* [Boots -> where it stands]
  state, cur, intentional, \* ws-client: state, socket, intentionalClose
  timers, tracked,         \* reconnect timers pending; is reconnectTimer set
  sock,     \* [Sockets -> what the browser has of it]
  code,     \* [Sockets -> the code of its close event]
  listener, \* the transcript: "unmounted", "waits" (registered) or "none"
  hydrated, \* does chat-store have the session
  recent,   \* was resume_session sent within GUARD_MS
  asks, snaps, \* resume_session and snapshot frames on their way
  faults

authVars == <<status, allowed, prev>>
wsVars   == <<state, cur, intentional, timers, tracked, sock>>
chatVars == <<listener, hydrated, recent, asks, snaps, attached>>
srvVars  == <<login, admitted, beat, srv>>
socketVars == <<authVars, wsVars, chatVars, srvVars, boot, code, faults>>

Ready == {"connecting", "open"}
CanConnect(st, al) == st = "authenticated" /\ al = "yes"
Fault == faults < MaxFaults /\ faults' = faults + 1

SocketInit ==
  /\ login \in {"valid", "revoked"} /\ admitted \in BOOLEAN
  /\ beat = [on |-> FALSE, snap |-> {}]
  /\ srv = [s \in Sockets |-> "none"] /\ attached = {}
  /\ status = "unknown" /\ allowed = "null" /\ prev = FALSE
  /\ boot = [b \in Boots |-> "getSession"]
  /\ state = "idle" /\ cur = NoSocket /\ intentional = FALSE
  /\ timers = 0 /\ tracked = FALSE
  /\ sock = [s \in Sockets |-> "free"] /\ code = [s \in Sockets |-> 0]
  /\ listener = "unmounted" /\ hydrated = FALSE /\ recent = FALSE
  /\ asks = {} /\ snaps = {}
  /\ faults = 0

-----------------------------------------------------------------------------
(* ws-client.ts *)

CancelReconnect == timers' = (IF tracked THEN timers - 1 ELSE timers) /\ tracked' = FALSE

\* openSocket: the browser begins the handshake of a new socket.
OpenSocket ==
  \E s \in Sockets :
    /\ sock[s] = "free" /\ srv[s] = "none"
    /\ state' = "connecting" /\ cur' = s /\ sock' = [sock EXCEPT ![s] = "connecting"]

ScheduleReconnect == state' = "reconnecting" /\ timers' = timers + 1 /\ tracked' = TRUE

Connect ==
  IF state \in Ready THEN UNCHANGED wsVars
  ELSE CancelReconnect /\ intentional' = FALSE /\ OpenSocket

CloseOf(c) ==
  /\ intentional' = TRUE /\ CancelReconnect
  /\ sock' = [s \in Sockets |-> IF s = c /\ sock[s] \in Ready THEN "closing" ELSE sock[s]]
  /\ cur' = NoSocket /\ state' = "closed"
Close == CloseOf(cur)

-----------------------------------------------------------------------------
(* auth-store.ts and auth-subscriber.ts: a change of the store runs the    *)
(* subscriber before set() returns.                                        *)

SetAuth(st, al) ==
  LET next == CanConnect(st, al) IN
    /\ status' = st /\ allowed' = al /\ prev' = next
    /\ \/ next = prev /\ UNCHANGED wsVars
       \/ next /\ ~prev /\ Connect
       \/ ~next /\ prev /\ Close

\* clearSession closes the socket first; the subscriber's close finds it closed.
ClearSession ==
  Close /\ status' = "unauthenticated" /\ allowed' = "null" /\ prev' = FALSE

\* GET /api/auth/get-session answers 200 with or without a user, or is lost.
AnswerSession(b) ==
  /\ boot[b] = "getSession"
  /\ \/ /\ boot' = [boot EXCEPT ![b] = IF login = "valid" THEN "user" ELSE "nobody"]
        /\ UNCHANGED faults
     \/ Fault /\ boot' = [boot EXCEPT ![b] = "done"]
  /\ UNCHANGED <<authVars, wsVars, chatVars, srvVars, code>>

BootstrapNoUser(b) ==
  /\ boot[b] = "nobody" /\ boot' = [boot EXCEPT ![b] = "done"]
  /\ SetAuth("unauthenticated", "null")
  /\ UNCHANGED <<chatVars, srvVars, code, faults>>

BootstrapUser(b) ==
  /\ boot[b] = "user" /\ boot' = [boot EXCEPT ![b] = "getMe"]
  /\ UNCHANGED <<authVars, wsVars, chatVars, srvVars, code, faults>>

\* GET /api/me: requireAuth answers 401, else the gate's verdict; or it is lost.
AnswerMe(b) ==
  /\ boot[b] = "getMe"
  /\ \/ /\ boot' = [boot EXCEPT ![b] = IF login = "revoked" THEN "401"
                                       ELSE IF admitted THEN "yes" ELSE "no"]
        /\ UNCHANGED faults
     \/ Fault /\ boot' = [boot EXCEPT ![b] = "done"]
  /\ UNCHANGED <<authVars, wsVars, chatVars, srvVars, code>>

BootstrapUnguarded(b) ==
  /\ boot[b] \in {"401", "yes", "no"} /\ boot' = [boot EXCEPT ![b] = "done"]
  /\ IF boot[b] = "401" THEN ClearSession ELSE SetAuth("authenticated", boot[b])
  /\ UNCHANGED <<chatVars, srvVars, code, faults>>

\* A 401 clears the session (authFetch); a session cleared meanwhile is honoured.
BootstrapMe(b) ==
  /\ boot[b] \in {"401", "yes", "no"} /\ boot' = [boot EXCEPT ![b] = "done"]
  /\ IF boot[b] = "401" THEN ClearSession
     ELSE IF status = "unauthenticated" THEN UNCHANGED <<authVars, wsVars>>
     ELSE SetAuth("authenticated", boot[b])
  /\ UNCHANGED <<chatVars, srvVars, code, faults>>

\* The account menu's sign-out leaves the server's session; Coming Soon's awaits
\* its end first, which is Revoke or fails.
SignOut ==
  /\ status = "authenticated" /\ ClearSession
  /\ UNCHANGED <<chatVars, srvVars, boot, code, faults>>

\* handleUnauthorized, for the 401 of any request of the signed-in tab.
Unauthorized ==
  /\ status # "unknown" /\ login = "revoked" /\ ClearSession
  /\ UNCHANGED <<chatVars, srvVars, boot, code, faults>>

-----------------------------------------------------------------------------
(* The transcript's resume of the session shown, through ws-send's guard.  *)

\* sendWS marks the frame as sent even when the socket is not open.
Request(c, open) ==
  IF recent THEN UNCHANGED <<recent, asks>>
  ELSE recent' = TRUE /\ asks' = (IF open THEN asks \cup {c} ELSE asks)

Mount ==
  /\ listener = "unmounted" /\ status = "authenticated"
  /\ IF hydrated THEN listener' = "none" /\ UNCHANGED <<recent, asks>>
     ELSE /\ listener' = "waits"
          /\ IF cur # NoSocket /\ sock[cur] = "open" THEN Request(cur, TRUE)
             ELSE UNCHANGED <<recent, asks>>
  /\ UNCHANGED <<authVars, wsVars, srvVars, boot, code, faults, hydrated, snaps, attached>>

\* start_session: the server attaches the socket and answers with a snapshot.
StartSession ==
  /\ listener = "unmounted" /\ ~hydrated
  /\ cur # NoSocket /\ sock[cur] = "open" /\ srv[cur] = "up"
  /\ attached' = attached \cup {cur} /\ snaps' = snaps \cup {cur}
  /\ UNCHANGED <<authVars, wsVars, srvVars, boot, code, faults, listener, hydrated, recent, asks>>

GuardExpires ==
  /\ recent /\ recent' = FALSE
  /\ UNCHANGED <<authVars, wsVars, srvVars, boot, code, faults,
                 listener, hydrated, asks, snaps, attached>>

SnapshotArrives(s) ==
  /\ s \in snaps /\ sock[s] = "open"
  /\ snaps' = snaps \ {s} /\ hydrated' = TRUE
  /\ UNCHANGED <<authVars, wsVars, srvVars, boot, code, faults, listener, recent, asks, attached>>

-----------------------------------------------------------------------------
(* The life of a socket at both ends.                                      *)

\* handleWsUpgrade, up to canUserAccess: 401 and 403 reach the tab as 1006.
Upgrade(s) ==
  /\ sock[s] = "connecting" /\ srv[s] = "none"
  /\ \/ /\ login = "valid" /\ admitted /\ srv' = [srv EXCEPT ![s] = "admitted"]
        /\ UNCHANGED <<sock, code, faults>>
     \/ /\ \/ ~(login = "valid" /\ admitted) /\ UNCHANGED faults
           \/ Fault
        /\ sock' = [sock EXCEPT ![s] = "closed"] /\ code' = [code EXCEPT ![s] = 1006]
        /\ UNCHANGED srv
  /\ UNCHANGED <<authVars, chatVars, login, admitted, beat, boot,
                 state, cur, intentional, timers, tracked>>

\* websocket.open: registerSocket.
Register(s) ==
  /\ srv[s] = "admitted" /\ srv' = [srv EXCEPT ![s] = "up"]
  /\ UNCHANGED <<authVars, wsVars, chatVars, login, admitted, beat, boot, code, faults>>

\* An open that no listener hears of.
OpenEventSilent(s) ==
  /\ sock[s] = "connecting" /\ srv[s] = "up" /\ (recent => QuickRedial)
  /\ sock' = [sock EXCEPT ![s] = "open"] /\ state' = "open"
  /\ UNCHANGED <<authVars, srvVars, boot, code, faults, cur, intentional, timers, tracked, chatVars>>

OpenEvent(s) ==
  /\ sock[s] = "connecting" /\ srv[s] = "up" /\ (recent => QuickRedial)
  /\ sock' = [sock EXCEPT ![s] = "open"] /\ state' = "open"
  /\ IF listener = "waits" THEN Request(cur, s = cur) ELSE UNCHANGED <<recent, asks>>
  /\ UNCHANGED <<authVars, srvVars, boot, code, faults, cur, intentional, timers, tracked,
                 listener, hydrated, snaps, attached>>

\* websocket.close: the server forgets the socket and detaches it everywhere.
Gone(S) ==
  /\ srv' = [s \in Sockets |-> IF s \in S THEN "none" ELSE srv[s]]
  /\ attached' = attached \ S /\ asks' = asks \ S /\ snaps' = snaps \ S
  /\ UNCHANGED <<listener, hydrated, recent>>

EndedBy(S, c) ==
  /\ sock' = [s \in Sockets |-> IF s \in S /\ sock[s] \in Ready THEN "closed" ELSE sock[s]]
  /\ code' = [s \in Sockets |-> IF s \in S /\ sock[s] \in Ready THEN c ELSE code[s]]

\* The frame arrives: handleMessage revalidates a socket not validated for long,
\* and attachAndSnapshot attaches it.
Resume(s) ==
  /\ s \in asks /\ srv[s] = "up"
  /\ asks' = asks \ {s} /\ attached' = attached \cup {s} /\ snaps' = snaps \cup {s}
  /\ UNCHANGED <<authVars, wsVars, srvVars, boot, code, faults, listener, hydrated, recent>>

ResumeRefused(s) ==
  /\ s \in asks /\ srv[s] = "up" /\ login = "revoked"
  /\ Gone({s}) /\ EndedBy({s}, 4401)
  /\ UNCHANGED <<authVars, login, admitted, beat, boot, faults,
                 state, cur, intentional, timers, tracked>>

\* The network or the server's process drops a connection.
Drop(s) ==
  /\ Fault /\ srv[s] # "none" /\ sock[s] \in Ready
  /\ Gone({s}) /\ EndedBy({s}, 1006)
  /\ UNCHANGED <<authVars, login, admitted, beat, boot, state, cur, intentional, timers, tracked>>

\* The close the client asked for completes, with its code or abnormally.
CloseCompletes(s) ==
  /\ sock[s] = "closing"
  /\ sock' = [sock EXCEPT ![s] = "closed"]
  /\ \E c \in {1000, 1006} : code' = [code EXCEPT ![s] = c]
  /\ Gone({s})
  /\ UNCHANGED <<authVars, login, admitted, beat, boot, faults,
                 state, cur, intentional, timers, tracked>>

\* A close that redials only when the socket had been open.
HandleCloseOnce(c) ==
  IF c = 4401
    THEN /\ intentional' = TRUE /\ CancelReconnect /\ cur' = NoSocket /\ state' = "closed"
         /\ status' = "unauthenticated" /\ allowed' = "null" /\ prev' = FALSE
    ELSE /\ cur' = NoSocket /\ UNCHANGED <<authVars, intentional>>
         /\ IF intentional \/ c = 1000 \/ state # "open"
              THEN state' = "closed" /\ UNCHANGED <<timers, tracked>>
            ELSE ScheduleReconnect

\* handleClose, whichever socket the event is of.
HandleClose(c) ==
  IF c = 4401
    THEN /\ intentional' = TRUE /\ CancelReconnect /\ cur' = NoSocket /\ state' = "closed"
         /\ status' = "unauthenticated" /\ allowed' = "null" /\ prev' = FALSE
    ELSE /\ cur' = NoSocket /\ UNCHANGED <<authVars, intentional>>
         /\ IF intentional \/ c = 1000 THEN state' = "closed" /\ UNCHANGED <<timers, tracked>>
            ELSE ScheduleReconnect

CloseEvent(s) ==
  /\ sock[s] = "closed" /\ sock' = [sock EXCEPT ![s] = "free"]
  /\ code' = [code EXCEPT ![s] = 0] /\ HandleClose(code[s])
  /\ UNCHANGED <<chatVars, srvVars, boot, faults>>

\* The callback of a reconnect timer.
Redial ==
  /\ timers > 0 /\ tracked' = FALSE /\ UNCHANGED intentional
  /\ \/ intentional /\ timers' = timers - 1 /\ UNCHANGED <<state, cur, sock, faults>>
     \/ ~intentional /\ timers' = timers - 1 /\ OpenSocket /\ UNCHANGED faults
  /\ UNCHANGED <<authVars, chatVars, srvVars, boot, code>>

-----------------------------------------------------------------------------
(* heartbeat.ts, and what else happens on the server *)

Up == {s \in Sockets : srv[s] = "up"}

BeatStart ==
  /\ ~beat.on /\ Up # {} /\ beat' = [on |-> TRUE, snap |-> Up]
  /\ UNCHANGED <<authVars, wsVars, chatVars, login, admitted, srv, boot, code, faults>>

BeatBlind ==
  /\ beat.on /\ beat' = [on |-> FALSE, snap |-> {}]
  /\ UNCHANGED <<authVars, wsVars, chatVars, login, admitted, srv, boot, code, faults>>

\* Every socket of the snapshot whose session is gone is closed with 4401.
BeatEnd ==
  /\ beat.on /\ beat' = [on |-> FALSE, snap |-> {}]
  /\ \/ /\ login = "revoked" /\ UNCHANGED faults
        /\ Gone(beat.snap \cap Up) /\ EndedBy(beat.snap \cap Up, 4401)
     \/ /\ \/ login = "valid" /\ UNCHANGED faults
           \/ Fault
        /\ UNCHANGED <<chatVars, srv, sock, code>>
  /\ UNCHANGED <<authVars, login, admitted, boot, state, cur, intentional, timers, tracked>>

Revoke ==
  /\ login = "valid" /\ login' = "revoked"
  /\ UNCHANGED <<authVars, wsVars, chatVars, admitted, beat, srv, boot, code, faults>>

\* An admin takes the user's email off the allowlist.
Delist ==
  /\ admitted /\ admitted' = FALSE
  /\ UNCHANGED <<authVars, wsVars, chatVars, login, beat, srv, boot, code, faults>>

BootStep(b) == AnswerSession(b) \/ BootstrapNoUser(b) \/ BootstrapUser(b)
               \/ AnswerMe(b) \/ BootstrapMe(b)
SocketStep(s) == Upgrade(s) \/ Register(s) \/ OpenEvent(s) \/ CloseCompletes(s)
                 \/ CloseEvent(s) \/ Resume(s) \/ ResumeRefused(s)
                 \/ SnapshotArrives(s)
SocketNext ==
  \/ \E b \in Boots : BootStep(b)
  \/ \E s \in Sockets : SocketStep(s) \/ Drop(s)
  \/ SignOut \/ Unauthorized \/ Mount \/ StartSession \/ GuardExpires
  \/ Redial \/ BeatStart \/ BeatEnd \/ Revoke \/ Delist

\* Timers fire, the browser delivers its events, requests are answered or fail,
\* and the interval of the heartbeat goes on.  People, revocations and faults
\* owe nothing.
Fairness ==
  /\ \A b \in Boots : WF_socketVars(BootStep(b))
  /\ \A s \in Sockets : WF_socketVars(SocketStep(s))
  /\ WF_socketVars(Redial) /\ WF_socketVars(GuardExpires) /\ WF_socketVars(BeatStart) /\ WF_socketVars(BeatEnd)

SocketSpec == SocketInit /\ [][SocketNext]_socketVars /\ Fairness

-----------------------------------------------------------------------------
\* A late event of an earlier socket, a bootstrap that ends after the sign-out or
\* a second timer never leaves the tab with a socket it does not know: what is
\* connecting or open is the client's socket, and it awaits at most one redial.
OneSocket ==
  /\ \A s \in Sockets : sock[s] \in Ready => s = cur
  /\ state \in Ready => cur # NoSocket
  /\ timers <= 1 /\ (timers = 1 => tracked /\ state = "reconnecting")

\* A tab that may use the app comes to have an open socket, however often it is
\* dropped, unless it signs out or loses the session or the allowance.
AllowedConnects ==
  CanConnect(status, allowed) ~>
    state = "open" \/ status = "unauthenticated" \/ login = "revoked" \/ ~admitted

\* Once the auth session is revoked the server comes to hold no socket of it,
\* also when an upgrade had passed the check before and registers after.
RevokedDisconnects == (login = "revoked") ~> [](Up = {})

\* A transcript that waits for the session has the open socket attached to it on
\* the server, or will: also on each socket the client dials after a drop.
ListenerFollows ==
  (listener = "waits" /\ state = "open") ~>
    (state # "open" \/ cur \in attached)

-----------------------------------------------------------------------------
\* What keeps it so: a tab that may not connect has no socket, and once it is told to
\* close one, no bootstrap is left that could make it connect again.
Shapes ==
  /\ cur \in Sockets \cup {NoSocket} /\ timers \in Nat
  /\ sock \in [Sockets -> {"free", "connecting", "open", "closing", "closed"}]
  /\ boot \in [Boots -> {"getSession", "user", "nobody", "getMe", "401", "yes", "no", "done"}]
  /\ prev = CanConnect(status, allowed)

DialsOnce ==
  /\ tracked => timers = 1
  /\ timers = 1 \/ state = "reconnecting" => cur = NoSocket

Resting == cur = NoSocket /\ state \notin Ready \cup {"reconnecting"} /\ timers = 0
ConnectsAllowed ==
  IF prev THEN \E b \in Boots : boot[b] = "done" ELSE Resting

Retired == status = "unauthenticated" \/ (~prev /\ \A b \in Boots : boot[b] = "done")
LeavesForGood ==
  (\E s \in Sockets \ {cur} : sock[s] # "free") => Retired /\ intentional

InductiveInv == Shapes /\ OneSocket /\ DialsOnce /\ ConnectsAllowed /\ LeavesForGood

=============================================================================
