------------------------------ MODULE ChatGroup ------------------------------
(***************************************************************************)
(* One group conversation or announcement channel of ChatService: its      *)
(* conversation_members, the user_conversations rows that put it on each   *)
(* user's list with an unread count, its invite link, and the messages     *)
(* that are counted.  Requests interleave at every awaited call that the   *)
(* rows can tell apart.  A request the service refuses changes nothing and *)
(* is left out, unless it is refused after a first step.  Names, texts,    *)
(* receipts, pushes and notifications are left out.                        *)
(***************************************************************************)
EXTENDS Integers, FiniteSets

CONSTANTS
  Users,
  Requests,    \* bound on the requests under way at once
  MaxMessages, \* bound on the messages stored
  MaxFaults    \* bound on the requests that end in a failed call

ASSUME ChatGroupAssumption == IsFiniteSet(Requests) /\ MaxMessages \in Nat /\ MaxFaults \in Nat

VARIABLES
  type,     \* ConversationType; "none" before it is made
  link,     \* inviteToken is set
  role,     \* conversation_members.role; "none" without a row
  blocked,  \* conversation_members.isBlocked
  listed,   \* the users with a user_conversations row
  unread,   \* user_conversations.unreadCount
  req,      \* the requests under way
  \* history
  unseen,   \* messages of others stored since the row was made or last read
  appointed,\* users an admin has put on the list of admins
  stored,   \* messages stored
  lost,     \* messages whose count was never written because the call failed
  faults

members == <<role, blocked>>
rows == <<listed, unread, unseen>>
counters == <<stored, lost, faults>>
vars == <<type, link, members, rows, req, appointed, counters>>

Idle == [op |-> "idle", at |-> "idle"]
Request == [op : {"create", "add", "remove", "block", "unblock", "update", "join",
                  "send", "read"},
            by : SUBSET Users, whom : SUBSET Users, at : {"write", "rows", "check", "store", "count"}]

Members == {u \in Users : role[u] # "none"}
\* getConversation passes; nobody knows the conversation before it is on a list.
Access(u) == u \in Members /\ listed # {}

\* by is the caller, where a later step needs it.
Begin(r, op, by, S, at) ==
  req[r] = Idle /\ req' = [req EXCEPT ![r] = [op |-> op, by |-> by, whom |-> S, at |-> at]]
Step(r, at) == req' = [req EXCEPT ![r].at = at]
Done(r) == req' = [req EXCEPT ![r] = Idle]

Init ==
  /\ type = "none" /\ link = FALSE
  /\ role = [u \in Users |-> "none"] /\ blocked = {}
  /\ listed = {} /\ unread = [u \in Users |-> 0]
  /\ req = [r \in Requests |-> Idle]
  /\ unseen = [u \in Users |-> 0] /\ appointed = {}
  /\ stored = 0 /\ lost = 0 /\ faults = 0

-----------------------------------------------------------------------------
(* Rows.                                                                   *)

\* bulkWrite with $setOnInsert, create, or an upsert: an existing row is kept.
List(S) ==
  /\ listed' = listed \cup S
  /\ unread' = [u \in Users |-> IF u \in S \ listed THEN 0 ELSE unread[u]]
  /\ unseen' = [u \in Users |-> IF u \in S \ listed THEN 0 ELSE unseen[u]]

-----------------------------------------------------------------------------
(* createConversation.                                                     *)

Create(r, u, S, t) ==
  /\ type = "none" /\ type' = t
  /\ Begin(r, "create", {u}, S \cup {u}, "write")
  /\ UNCHANGED <<link, members, rows, appointed, counters>>

SeedMembers(r) ==
  /\ req[r].op = "create" /\ req[r].at = "write"
  /\ role' = [u \in Users |-> IF u \in req[r].by THEN "admin"
                              ELSE IF u \in req[r].whom THEN "member" ELSE role[u]]
  /\ appointed' = appointed \cup req[r].by
  /\ Step(r, "rows")
  /\ UNCHANGED <<type, link, blocked, rows, counters>>

\* SeedRows, the rows of addParticipants and the row of joinViaInviteToken, which throws
\* when the user already has one.
MakeRows(r) ==
  /\ req[r].op \in {"create", "add", "join"} /\ req[r].at = "rows"
  /\ List(req[r].whom) /\ Done(r)
  /\ UNCHANGED <<type, link, members, appointed, counters>>

-----------------------------------------------------------------------------
(* The requests of admins, and of members who leave.  getConversation and the  *)
(* read of the caller's role come first; what follows does not look again.     *)

\* Mutant: membership is enough.
AskMember(r, op, u, S) ==
  /\ type = "group" /\ Access(u)
  /\ op = "block" => u \notin S
  /\ Begin(r, op, {}, S, "write")
  /\ appointed' = IF op = "update" /\ role[u] = "admin" THEN appointed \cup S ELSE appointed
  /\ UNCHANGED <<type, link, members, rows, counters>>

Ask(r, op, u, S) ==
  /\ type = "group" /\ Access(u)
  /\ role[u] = "admin" \/ (op = "remove" /\ S = {u})
  /\ op = "block" => u \notin S
  /\ Begin(r, op, {}, S, "write")
  /\ appointed' = IF op = "update" /\ role[u] = "admin" THEN appointed \cup S ELSE appointed
  /\ UNCHANGED <<type, link, members, rows, counters>>

\* addParticipants: who is a member already keeps role and block.
AddMembers(r) ==
  /\ req[r].op = "add" /\ req[r].at = "write"
  /\ role' = [u \in Users |-> IF u \in req[r].whom \ Members THEN "member" ELSE role[u]]
  /\ Step(r, "rows")
  /\ UNCHANGED <<type, link, blocked, rows, appointed, counters>>

\* removeParticipant: the member's row goes, the list keeps the conversation.
Remove(r) ==
  /\ req[r].op = "remove" /\ req[r].at = "write"
  /\ role' = [u \in Users |-> IF u \in req[r].whom THEN "none" ELSE role[u]]
  /\ blocked' = blocked \ req[r].whom
  /\ Done(r)
  /\ UNCHANGED <<type, link, rows, appointed, counters>>

\* blockMember, unblockMember: an updateOne that finds nobody who has left meanwhile.
Block(r) ==
  /\ req[r].op \in {"block", "unblock"} /\ req[r].at = "write"
  /\ blocked' = IF req[r].op = "block" THEN blocked \cup (req[r].whom \cap Members)
                ELSE blocked \ req[r].whom
  /\ Done(r)
  /\ UNCHANGED <<type, link, role, rows, appointed, counters>>

\* updateGroup: all are set to member, then the listed ones to admin.
ResetRoles(r) ==
  /\ req[r].op = "update" /\ req[r].at = "write"
  /\ role' = [u \in Users |-> IF u \in Members THEN "member" ELSE "none"]
  /\ Step(r, "rows")
  /\ UNCHANGED <<type, link, blocked, rows, appointed, counters>>

SelectAdmins(r) ==
  /\ req[r].op = "update" /\ req[r].at = "rows"
  /\ role' = [u \in Users |-> IF u \in req[r].whom \cap Members THEN "admin" ELSE role[u]]
  /\ Done(r)
  /\ UNCHANGED <<type, link, blocked, rows, appointed, counters>>

-----------------------------------------------------------------------------
(* The invite link.                                                        *)

\* getInviteLink and resetInviteLink, by any member of a group; which token it is does
\* not matter here: a join starts with the current one.
SetLink(u) ==
  /\ type = "group" /\ Access(u) /\ ~link /\ link' = TRUE
  /\ UNCHANGED <<type, members, rows, req, appointed, counters>>

Join(r, u) ==
  /\ link /\ u \notin Members
  /\ Begin(r, "join", {}, {u}, "write")
  /\ UNCHANGED <<type, link, members, rows, appointed, counters>>

\* Mutant: the join ends with the member's row.
JoinMemberOnly(r) ==
  /\ req[r].op = "join" /\ req[r].at = "write"
  /\ role' = [u \in Users |-> IF u \in req[r].whom \ Members THEN "member" ELSE role[u]]
  /\ Done(r)
  /\ UNCHANGED <<type, link, blocked, rows, appointed, counters>>

\* The unique index makes the insert throw when an admin has added the user meanwhile.
JoinMember(r) ==
  /\ req[r].op = "join" /\ req[r].at = "write"
  /\ IF req[r].whom \subseteq Members THEN Done(r) /\ UNCHANGED role
     ELSE Step(r, "rows") /\ role' = [u \in Users |-> IF u \in req[r].whom THEN "member"
                                                      ELSE role[u]]
  /\ UNCHANGED <<type, link, blocked, rows, appointed, counters>>

-----------------------------------------------------------------------------
(* Messages.                                                               *)

\* sendMessage reads the membership twice: a sender who leaves between the two reads
\* passes the second one in a group.
Send(r, u) ==
  /\ Access(u)
  /\ Begin(r, "send", {u}, {}, "check")
  /\ UNCHANGED <<type, link, members, rows, appointed, counters>>

SendCheck(r) ==
  /\ req[r].at = "check"
  /\ IF \E u \in req[r].by : u \in blocked \/ (type = "broadcast" /\ role[u] # "admin")
     THEN Done(r) ELSE Step(r, "store")
  /\ UNCHANGED <<type, link, members, rows, appointed, counters>>

\* createPoll and forwardMessage ask for membership only.
Post(r, u) ==
  /\ Access(u)
  /\ Begin(r, "send", {u}, {}, "store")
  /\ UNCHANGED <<type, link, members, rows, appointed, counters>>

Store(r) ==
  /\ req[r].at = "store" /\ stored < MaxMessages
  /\ stored' = stored + 1
  /\ unseen' = [u \in Users |-> IF u \in listed \ req[r].by THEN unseen[u] + 1 ELSE unseen[u]]
  /\ Step(r, "count")
  /\ UNCHANGED <<type, link, members, listed, unread, appointed, lost, faults>>

\* $inc for every row but the sender's, of members and of those who have left.
Count(r) ==
  /\ req[r].at = "count"
  /\ unread' = [u \in Users |->
                 IF u \in listed \ req[r].by THEN unread[u] + 1 ELSE unread[u]]
  /\ Done(r)
  /\ UNCHANGED <<type, link, members, listed, unseen, appointed, counters>>

\* markAsRead: the receipt, then an upsert that resets the count.
Read(r, u) ==
  /\ Access(u) /\ stored > 0
  /\ Begin(r, "read", {}, {u}, "rows")
  /\ UNCHANGED <<type, link, members, rows, appointed, counters>>

\* Mutant: the update's filter has lost the userId.
MarkReadAll(r) ==
  /\ req[r].op = "read" /\ req[r].at = "rows"
  /\ listed' = listed \cup req[r].whom
  /\ unread' = [u \in Users |-> 0]
  /\ unseen' = [u \in Users |-> IF u \in req[r].whom THEN 0 ELSE unseen[u]]
  /\ Done(r)
  /\ UNCHANGED <<type, link, members, appointed, counters>>

MarkRead(r) ==
  /\ req[r].op = "read" /\ req[r].at = "rows"
  /\ listed' = listed \cup req[r].whom
  /\ unread' = [u \in Users |-> IF u \in req[r].whom THEN 0 ELSE unread[u]]
  /\ unseen' = [u \in Users |-> IF u \in req[r].whom THEN 0 ELSE unseen[u]]
  /\ Done(r)
  /\ UNCHANGED <<type, link, members, appointed, counters>>

\* muteConversation and archiveConversation upsert the row.
Touch(u) ==
  /\ listed # {} /\ u \notin listed /\ List({u})
  /\ UNCHANGED <<type, link, members, req, appointed, counters>>

\* A call fails and the request ends where it is.
Fail(r) ==
  /\ req[r] # Idle /\ faults < MaxFaults
  /\ faults' = faults + 1
  /\ lost' = IF req[r].at = "count" THEN lost + 1 ELSE lost
  /\ Done(r)
  /\ UNCHANGED <<type, link, members, rows, appointed, stored>>

-----------------------------------------------------------------------------
Targets(op) == IF op \in {"add", "update"} THEN SUBSET Users ELSE {{u} : u \in Users}

Next ==
  \/ \E r \in Requests :
       \/ SeedMembers(r) \/ MakeRows(r) \/ AddMembers(r) \/ Remove(r) \/ Block(r)
       \/ ResetRoles(r) \/ SelectAdmins(r) \/ JoinMember(r)
       \/ SendCheck(r) \/ Store(r) \/ Count(r) \/ MarkRead(r) \/ Fail(r)
       \/ \E u \in Users : \/ Join(r, u) \/ Send(r, u) \/ Post(r, u) \/ Read(r, u)
                           \/ \E S \in SUBSET Users, t \in {"group", "broadcast"} :
                                Create(r, u, S, t)
                           \/ \E op \in {"add", "remove", "block", "unblock", "update"} :
                                \E S \in Targets(op) : Ask(r, op, u, S)
  \/ \E u \in Users : SetLink(u) \/ Touch(u)

Spec == Init /\ [][Next]_vars

-----------------------------------------------------------------------------
(* Properties.                                                             *)

\* Rows, counters and requests; only a member's row carries a block.
TypeOK ==
  /\ type \in {"none", "group", "broadcast"} /\ link \in BOOLEAN
  /\ role \in [Users -> {"none", "member", "admin"}] /\ blocked \subseteq Members
  /\ listed \subseteq Users /\ unread \in [Users -> Nat] /\ unseen \in [Users -> Nat]
  /\ req \in [Requests -> Request \cup {Idle}]
  /\ appointed \subseteq Users /\ stored \in 0..MaxMessages
  /\ lost \in 0..faults /\ faults \in 0..MaxFaults

\* The unread count hides nothing: what others stored since the row was made or last
\* marked read is counted, or is about to be, whatever sends, reads, joins and removals
\* cross; only a send that failed half way is missing.
CountsUnseen ==
  \A u \in Users : unseen[u] <= unread[u] + lost
                     + Cardinality({r \in Requests : req[r].at = "count" /\ u \notin req[r].by})

\* Every member has the conversation on the list, or a request is about to put it
\* there, also where a join, an addition, a removal and a second join cross.
MembersListed ==
  faults = 0 => \A u \in Members \ listed :
                  \E r \in Requests : /\ req[r].at = "rows" /\ u \in req[r].whom
                                     /\ req[r].op \in {"create", "add", "join"}

\* Nobody is an admin but the creator and those an admin has put on the list: not by
\* joining, by being added again or by another update that runs at the same time.
AdminsAppointed == \A u \in Users : role[u] = "admin" => u \in appointed
=============================================================================
