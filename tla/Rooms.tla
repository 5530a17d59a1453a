------------------------------- MODULE Rooms -------------------------------
(***************************************************************************)
(* A room of WebsocketGateway over several instances of the server: the    *)
(* room of each session, the sockets Socket.IO has in the room, and the    *)
(* list of members a client builds from the reply to joinRoom and from the *)
(* userJoinedRoom and userLeftRoom events.                                 *)
(*                                                                         *)
(* An event reaches the sockets of its own instance at once; the Redis     *)
(* adapter publishes it to the other instances, in order, and an instance  *)
(* that exits loses what was on the way to it.  The rooms of conversations *)
(* are joined without an event and have no list.                           *)
(***************************************************************************)
EXTENDS Naturals, Sequences

CONSTANTS
  Socket, Instance, None,
  MaxWire,     \* bound on the events on the way to an instance
  MaxCrashes   \* bound on process exits

VARIABLES
  session,   \* unopened, open, closed (the timer of handleDisconnect runs) or gone
  on,        \* the instance of a socket
  rooms,     \* the sockets whose session has the room
  roster,    \* the members a socket's client knows of
  wire,      \* the events published and not yet at an instance
  crashes,
  \* history
  missed,    \* who was in the room on another instance when the socket joined
  exited     \* who left the room with the process

vars == <<session, on, rooms, roster, wire, crashes, missed, exited>>

Init ==
  /\ session = [s \in Socket |-> "unopened"] /\ on = [s \in Socket |-> None]
  /\ rooms = {} /\ roster = [s \in Socket |-> {}]
  /\ wire = [i \in Instance |-> <<>>] /\ crashes = 0
  /\ missed = [s \in Socket |-> {}] /\ exited = {}

\* A socket leaves the rooms of Socket.IO when it closes, those of its session later.
Joined == {s \in rooms : session[s] = "open"}

\* What the clients of an instance make of an event.
Told(known, members, e) ==
  [s \in Socket |-> IF s \notin members THEN known[s]
                    ELSE IF e.event = "userJoinedRoom" THEN known[s] \cup {e.user} ELSE known[s] \ {e.user}]

\* server.to(room).emit: members are the sockets of the room on instance i.
Emit(i, event, s, known, members) ==
  /\ \A j \in Instance \ {i} : Len(wire[j]) < MaxWire
  /\ roster' = Told(known, members, [event |-> event, user |-> s])
  /\ wire' = [j \in Instance |-> IF j = i THEN wire[j] ELSE Append(wire[j], [event |-> event, user |-> s])]
Of(i, sockets) == {s \in sockets : on[s] = i}

HandleConnection(s, i) ==
  /\ session[s] = "unopened"
  /\ session' = [session EXCEPT ![s] = "open"] /\ on' = [on EXCEPT ![s] = i]
  /\ UNCHANGED <<rooms, roster, wire, crashes, missed, exited>>

\* The instance knows its own sessions only; the client takes the reply for the list.
GetRoomMembers(i) == Of(i, rooms)
HandleJoinRoom(s) ==
  /\ session[s] = "open"
  /\ rooms' = rooms \cup {s}
  /\ Emit(on[s], "userJoinedRoom", s, [roster EXCEPT ![s] = GetRoomMembers(on[s])], Of(on[s], Joined \cup {s}))
  /\ missed' = [missed EXCEPT ![s] = rooms \ Of(on[s], rooms)]
  /\ UNCHANGED <<session, on, crashes, exited>>

HandleLeaveRoom(s) ==
  /\ session[s] = "open"
  /\ rooms' = rooms \ {s}
  /\ Emit(on[s], "userLeftRoom", s, [roster EXCEPT ![s] = {}], Of(on[s], Joined \ {s}))
  /\ missed' = [missed EXCEPT ![s] = {}]
  /\ UNCHANGED <<session, on, crashes, exited>>

HandleDisconnect(s) ==
  /\ session[s] = "open"
  /\ session' = [session EXCEPT ![s] = "closed"]
  /\ roster' = [roster EXCEPT ![s] = {}] /\ missed' = [missed EXCEPT ![s] = {}]
  /\ UNCHANGED <<on, rooms, wire, crashes, exited>>

\* Mutant: the session goes and nobody is told.
CleanUpSilently(s) ==
  /\ session[s] = "closed"
  /\ session' = [session EXCEPT ![s] = "gone"] /\ rooms' = rooms \ {s}
  /\ UNCHANGED <<on, roster, wire, crashes, missed, exited>>
\* The timer's callback: the rooms of the session are told.
CleanUp(s) ==
  /\ session[s] = "closed"
  /\ session' = [session EXCEPT ![s] = "gone"] /\ rooms' = rooms \ {s}
  /\ IF s \in rooms THEN Emit(on[s], "userLeftRoom", s, roster, Of(on[s], Joined))
     ELSE UNCHANGED <<roster, wire>>
  /\ UNCHANGED <<on, crashes, missed, exited>>

\* The adapter hands the next event to the sockets of the room on instance i.
Deliver(i) ==
  /\ wire[i] # <<>>
  /\ wire' = [wire EXCEPT ![i] = Tail(@)]
  /\ roster' = Told(roster, Of(i, Joined), Head(wire[i]))
  /\ missed' = [s \in Socket |-> IF s \in Of(i, Joined) THEN missed[s] \ {Head(wire[i]).user} ELSE missed[s]]
  /\ UNCHANGED <<session, on, rooms, crashes, exited>>

Crash(i) ==
  /\ crashes < MaxCrashes /\ crashes' = crashes + 1
  /\ session' = [s \in Socket |-> IF on[s] = i THEN "gone" ELSE session[s]]
  /\ exited' = exited \cup Of(i, rooms) /\ rooms' = rooms \ Of(i, rooms)
  /\ roster' = [s \in Socket |-> IF on[s] = i THEN {} ELSE roster[s]]
  /\ wire' = [wire EXCEPT ![i] = <<>>]
  /\ UNCHANGED <<on, missed>>

Next ==
  \/ \E s \in Socket : \/ HandleJoinRoom(s) \/ HandleLeaveRoom(s) \/ HandleDisconnect(s) \/ CleanUp(s)
                       \/ \E i \in Instance : HandleConnection(s, i)
  \/ \E i \in Instance : Deliver(i) \/ Crash(i)
Spec == Init /\ [][Next]_vars

-----------------------------------------------------------------------------
OnTheWay(event, t, i) == \E k \in DOMAIN wire[i] : wire[i][k] = [event |-> event, user |-> t]

\* A client in the room lists whoever is in it, and no one else, but for events
\* on their way, sessions that went with their process, and those who were there
\* before it on another instance: the reply to joinRoom leaves them out.
RostersAreTold ==
  \A s \in Joined, t \in Socket :
    /\ t \in rooms \ roster[s] =>
         on[t] # on[s] /\ (t \in missed[s] \/ OnTheWay("userJoinedRoom", t, on[s]))
    /\ t \in roster[s] \ rooms =>
         t \in exited \/ (on[t] # on[s] /\ OnTheWay("userLeftRoom", t, on[s]))
=============================================================================
