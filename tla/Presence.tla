------------------------------ MODULE Presence ------------------------------
(***************************************************************************)
(* WebsocketGateway's presence of one user: the sessions each instance of  *)
(* the server keeps for the user's sockets, and in Redis, shared by the    *)
(* instances, the set of the sockets (with a TTL) and the user's place in  *)
(* presence:online.                                                        *)
(*                                                                         *)
(* Time passes in periods of WS_RECONNECTION_TIMEOUT; a timer that is due  *)
(* runs before the next period.  Socket.IO gives every connection a new    *)
(* id, so handleConnection never finds a session of the same socket and    *)
(* its branch for that case is left out.  The commands of a pipeline are   *)
(* one step, and those of one instance reach Redis in order.               *)
(***************************************************************************)
EXTENDS Naturals, FiniteSets

CONSTANTS
  Socket,     \* the sockets the user ever opens
  Instance,
  None,
  TTL,        \* PRESENCE_USER_TTL_SEC, in periods
  MaxCrashes  \* bound on process exits

VARIABLES
  session,    \* connectedClients: the socket's state, and the instance that has it
  sockets,    \* presence:user:{userId}:sockets
  age,        \* periods since that key's TTL was set
  online,     \* the user is in presence:online
  announced,  \* the last user:status told of the user
  op,         \* the presence call of a socket under way
  crashes,
  \* history
  lapsed,     \* the key expired under sessions that are still there
  raced,      \* a socket was added while a removal that had found none was about to leave presence:online
  met         \* presence calls overlapped since the user was last away

vars == <<session, sockets, age, online, announced, op, crashes, lapsed, raced, met>>

State == {"unopened", "connected", "due", "waiting", "gone"}
Op    == {"none", "add", "isFirst", "remove", "isLast", "leave", "refresh"}

Init ==
  /\ session = [s \in Socket |-> [state |-> "unopened", on |-> None]]
  /\ sockets = {} /\ age = 0 /\ online = FALSE /\ announced = FALSE
  /\ op = [s \in Socket |-> "none"] /\ crashes = 0
  /\ lapsed = FALSE /\ raced = FALSE /\ met = FALSE

In(states)  == {s \in Socket : session[s].state \in states}
Sessions    == In({"connected", "waiting", "due"})
Busy        == {s \in Socket : op[s] # "none"}
Begin(s, o) == /\ op' = [op EXCEPT ![s] = o]
               /\ met' = (Busy # {} \/ (met /\ (Sessions # {} \/ announced # online)))
Then(s, o)  == op' = [op EXCEPT ![s] = o] /\ met' = met

\* handleConnection; presenceAdd is not awaited.
HandleConnection(s, i) ==
  /\ session[s].state = "unopened"
  /\ session' = [session EXCEPT ![s] = [state |-> "connected", on |-> i]]
  /\ Begin(s, "add")
  /\ UNCHANGED <<sockets, age, online, announced, crashes, lapsed, raced>>

\* sadd, expire, sadd in one pipeline.
PresenceAdd(s) ==
  /\ op[s] = "add"
  /\ sockets' = sockets \cup {s} /\ age' = 0 /\ online' = TRUE
  /\ raced' = (\E t \in Socket : op[t] = "leave")
  /\ Then(s, "isFirst")
  /\ UNCHANGED <<session, announced, crashes, lapsed>>

\* scard, and the status if the user went online.
IsFirst(s) ==
  /\ op[s] = "isFirst"
  /\ announced' = (announced \/ Cardinality(sockets) = 1)
  /\ Then(s, "none")
  /\ UNCHANGED <<session, sockets, age, online, crashes, lapsed, raced>>

\* handleDisconnect starts the timer.
HandleDisconnect(s) ==
  /\ session[s].state = "connected"
  /\ session' = [session EXCEPT ![s].state = "waiting"]
  /\ UNCHANGED <<sockets, age, online, announced, op, crashes, lapsed, raced, met>>

\* Mutant: the session goes and the presence stays.
CleanSessionOnly(s) ==
  /\ session[s].state = "due" /\ op[s] \notin {"add", "isFirst"}
  /\ session' = [session EXCEPT ![s] = [state |-> "gone", on |-> None]]
  /\ lapsed' = (lapsed /\ Sessions # {s})
  /\ UNCHANGED <<sockets, age, online, announced, op, crashes, raced, met>>
\* The timer's callback.
CleanUp(s) ==
  /\ session[s].state = "due" /\ op[s] \notin {"add", "isFirst"}
  /\ session' = [session EXCEPT ![s] = [state |-> "gone", on |-> @.on]]
  /\ lapsed' = (lapsed /\ Sessions # {s})
  /\ Begin(s, "remove")
  /\ UNCHANGED <<sockets, age, online, announced, crashes, raced>>

PresenceRemove(s) ==
  /\ op[s] = "remove"
  /\ sockets' = sockets \ {s} /\ Then(s, "isLast")
  /\ UNCHANGED <<session, age, online, announced, crashes, lapsed, raced>>

\* Mutant: any closed tab takes the user offline.
IsLastAlways(s) ==
  /\ op[s] = "isLast" /\ Then(s, "leave")
  /\ UNCHANGED <<session, sockets, age, online, announced, crashes, lapsed, raced>>
\* scard
IsLast(s) ==
  /\ op[s] = "isLast" /\ Then(s, IF sockets = {} THEN "leave" ELSE "refresh")
  /\ UNCHANGED <<session, sockets, age, online, announced, crashes, lapsed, raced>>

\* srem from presence:online, and the status.
LeaveOnline(s) ==
  /\ op[s] = "leave"
  /\ online' = FALSE /\ announced' = FALSE
  /\ Then(s, "none")
  /\ UNCHANGED <<session, sockets, age, crashes, lapsed, raced>>

Refresh(s) ==
  /\ op[s] = "refresh"
  /\ age' = 0 /\ Then(s, "none")
  /\ UNCHANGED <<session, sockets, online, announced, crashes, lapsed, raced>>

\* A period passes: timers become due, Redis deletes a key whose TTL is over.
\* The pings that come meanwhile set lastSeen and nothing else.
Tick ==
  /\ In({"due"}) = {}
  /\ session' = [s \in Socket |-> IF session[s].state = "waiting"
                                  THEN [session[s] EXCEPT !.state = "due"] ELSE session[s]]
  /\ IF sockets # {} /\ age + 1 = TTL
     THEN /\ sockets' = {} /\ age' = 0 /\ lapsed' = (lapsed \/ Sessions # {})
     ELSE /\ sockets' = sockets /\ lapsed' = lapsed
          /\ age' = IF sockets = {} THEN 0 ELSE age + 1
  /\ UNCHANGED <<online, announced, op, crashes, raced, met>>

\* An instance exits: its sessions, timers and calls are gone, Redis keeps the rest.
Crash(i) ==
  /\ crashes < MaxCrashes /\ crashes' = crashes + 1
  /\ session' = [s \in Socket |-> IF session[s].on = i THEN [state |-> "gone", on |-> None] ELSE session[s]]
  /\ op' = [s \in Socket |-> IF session[s].on = i THEN "none" ELSE op[s]]
  /\ UNCHANGED <<sockets, age, online, announced, lapsed, raced, met>>

Calls(s) == PresenceAdd(s) \/ IsFirst(s) \/ CleanUp(s) \/ PresenceRemove(s) \/ IsLast(s) \/ LeaveOnline(s) \/ Refresh(s)
Next ==
  \/ \E s \in Socket : Calls(s) \/ HandleDisconnect(s) \/ \E i \in Instance : HandleConnection(s, i)
  \/ Tick \/ \E i \in Instance : Crash(i)

Spec == Init /\ [][Next]_vars
\* Timers run, Redis answers and time passes; nobody has to connect or leave.
Fairness == WF_vars(Tick) /\ \A s \in Socket : WF_vars(Calls(s))
FairSpec == Spec /\ Fairness

-----------------------------------------------------------------------------
\* Once no call is under way the user is online exactly when a session is left,
\* and the last status told says so.  What can make it untrue: an exit; the TTL
\* of the sockets' key, which no ping renews; a socket added between scard and
\* srem of the last one's removal; for the status, calls that met.
PresenceTruthful ==
  Busy = {} /\ crashes = 0 =>
    /\ online = (Sessions # {}) \/ lapsed \/ raced
    /\ announced = online \/ lapsed \/ met

\* Who has closed every socket leaves presence:online, unless an instance exits.
OfflineInTheEnd == (In({"connected", "unopened"}) = {}) ~> (~online \/ crashes > 0)

\* "2 minutes - refresh on each ping/pong" (gateway, line 28), and "an active user
\* never expires" (line 121): a connected socket keeps the user's key.
ActiveKeyKept ==
  [][sockets # {} /\ sockets' = {} => In({"connected"}) = {} \/ \E s \in Socket : op[s] = "remove"]_vars
=============================================================================
