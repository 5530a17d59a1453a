----------------------------- MODULE PrivateChat -----------------------------
(***************************************************************************)
(* The private conversation of two users: ChatService.createConversation   *)
(* looks for one that both are members of and otherwise makes one, in      *)
(* three inserts: the conversation, its members, their user_conversations  *)
(* rows, from which their lists are built.                                 *)
(***************************************************************************)
EXTENDS Naturals, FiniteSets

CONSTANTS
  Req,
  None,
  MaxConversations, \* bound on the conversations made for the pair
  MaxFaults         \* bound on requests cut off

VARIABLES
  made,      \* the conversations made for the pair, 1..made
  members,   \* those with both conversation_members
  listed,    \* those with the user_conversations rows of both
  req, faults,
  overlapped \* history: conversations whose request had looked before another's members were there

vars == <<made, members, listed, req, faults, overlapped>>

\* outdated (history): members of another conversation were inserted since the look.
Idle == [at |-> "idle", c |-> None, outdated |-> FALSE]

Init ==
  /\ made = 0 /\ members = {} /\ listed = {}
  /\ req = [r \in Req |-> Idle] /\ faults = 0 /\ overlapped = {}

Move(r, at, c) == req' = [req EXCEPT ![r] = [@ EXCEPT !.at = at, !.c = c]]

\* Mutant: the look is for conversations on the caller's list.
LookListed(r) ==
  /\ req[r] = Idle /\ listed = {} /\ Move(r, "create", None)
  /\ UNCHANGED <<made, members, listed, faults, overlapped>>
\* Both users' memberships are read; a conversation they share is returned as it is.
Look(r) ==
  /\ req[r] = Idle /\ members = {} /\ Move(r, "create", None)
  /\ UNCHANGED <<made, members, listed, faults, overlapped>>

Create(r) ==
  /\ req[r].at = "create" /\ made < MaxConversations
  /\ made' = made + 1 /\ Move(r, "members", made + 1)
  /\ UNCHANGED <<members, listed, faults, overlapped>>

InsertMembers(r) ==
  /\ req[r].at = "members"
  /\ members' = members \cup {req[r].c}
  /\ overlapped' = IF req[r].outdated THEN overlapped \cup {req[r].c} ELSE overlapped
  /\ req' = [q \in Req |-> IF q = r THEN [req[r] EXCEPT !.at = "rows"]
                           ELSE [req[q] EXCEPT !.outdated = req[q] # Idle]]
  /\ UNCHANGED <<made, listed, faults>>

InsertRows(r) ==
  /\ req[r].at = "rows"
  /\ listed' = listed \cup {req[r].c}
  /\ req' = [req EXCEPT ![r] = Idle]
  /\ UNCHANGED <<made, members, faults, overlapped>>

Fail(r) ==
  /\ req[r] # Idle /\ faults < MaxFaults /\ faults' = faults + 1
  /\ req' = [req EXCEPT ![r] = Idle]
  /\ UNCHANGED <<made, members, listed, overlapped>>

Next == \E r \in Req : Look(r) \/ Create(r) \/ InsertMembers(r) \/ InsertRows(r) \/ Fail(r)

Spec == Init /\ [][Next]_vars

\* Two users share one private conversation, unless a request looked for it
\* before another had inserted the members of its own.  One that is shared but
\* on no list, so that every later creation returns it and nobody sees it,
\* comes only of a request that is under way or was cut off.
OnePrivateChat ==
  /\ Cardinality(members \ overlapped) <= 1
  /\ Cardinality(members \ listed) <= Cardinality({r \in Req : req[r].at = "rows"}) + faults
=============================================================================
