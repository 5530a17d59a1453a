---------------------------- MODULE ChatMessages ----------------------------
(***************************************************************************)
(* What happens to the messages of one conversation once they are stored:  *)
(* edits, deletions, reactions, pins, stars, polls, forwards, expiry, and  *)
(* the preview of the newest one in the conversation document (ChatService *)
(* and ChatController).                                                    *)
(*                                                                         *)
(* A request does one awaited call per step; one that reads only what      *)
(* never changes (sender, type, membership) before its single write is one *)
(* step.  Of a content only its presence is kept, of the reactions one     *)
(* emoji.  Receipts and counts are in ChatGroup; pushes are left out.      *)
(***************************************************************************)
EXTENDS Naturals, FiniteSets

CONSTANTS
  Req,        \* request slots
  User,
  Option,     \* the options of a poll
  None,
  MaxMessages,\* bound on the messages stored
  MaxCalls,   \* bound on the requests that pass their first checks
  MaxFaults   \* bound on requests cut off by a failed call or an exit

Message == 1..MaxMessages    \* in the order of their insertion

VARIABLES
  message,      \* the messages collection
  conversation, \* the document's lastMessage (0: none), pinnedMessages (how often each) and disappearingMessages
  reactions,    \* message_reactions, unique per message, user and emoji
  starred,      \* user_conversations.starredMessageIds
  req, calls, faults,
  \* history
  voted,        \* the votes the service accepted
  crossed,      \* pins and votes written over others that came in between; pairs of
                \* messages the second of which was stored before the first was previewed
  unpreviewed   \* messages whose request was cut off before it wrote their preview

vars == <<message, conversation, reactions, starred, req, calls, faults, voted, crossed, unpreviewed>>

MessageType == {"text", "single", "multiple"}   \* a text, a poll for one answer, for several
State       == {"none", "stored", "isDeleted", "expired"}
Vote        == Option \X User
NoMessage   == [state |-> "none", type |-> "text", content |-> FALSE, expires |-> FALSE, votes |-> {}]

\* votes, already: what the request read; outdated (history): the message was
\* removed, or what was read of its votes or pins was written, since.
Idle == [op |-> "idle", at |-> "idle", m |-> None, u |-> None, type |-> "text", expires |-> FALSE,
         votes |-> {}, already |-> FALSE, outdated |-> FALSE]

\* A conversation, new or with its first message.
Init ==
  /\ \E first \in 0..1 : \E type \in MessageType : \E expires \in BOOLEAN :
       /\ message = [m \in Message |-> IF m > first THEN NoMessage ELSE
            [NoMessage EXCEPT !.state = "stored", !.content = TRUE, !.type = type, !.expires = expires]]
       /\ conversation = [lastMessage |-> first, pinned |-> [m \in Message |-> 0], disappearing |-> expires]
  /\ reactions = {} /\ starred = {}
  /\ req = [r \in Req |-> Idle] /\ calls = 0 /\ faults = 0
  /\ voted = {} /\ crossed = {} /\ unpreviewed = {}

Live(m)      == message[m].state = "stored"                     \* found and not isDeleted
Found(m)     == message[m].state \in {"stored", "isDeleted"}    \* findById is not null
Stored       == {m \in Message : message[m].state # "none"}
NextId        == Cardinality(Stored) + 1
Newer(m)     == {n \in Stored : n > m}
At(r, op, l) == req[r].op = op /\ req[r].at = l

Counted == calls < MaxCalls /\ calls' = calls + 1

\* A request begins: its first awaited read passes its checks.
Ask(r, new) ==
  /\ req[r] = Idle /\ Counted
  /\ req' = [req EXCEPT ![r] = new]
  /\ UNCHANGED <<message, conversation, reactions, starred, faults, voted, crossed, unpreviewed>>
Goto(r, new) ==
  /\ req' = [req EXCEPT ![r] = new]
  /\ UNCHANGED <<message, conversation, reactions, starred, calls, faults, voted, crossed, unpreviewed>>
Throw(r) == Goto(r, Idle)

\* The requests after a write to message m by r (None: of no request under way).
Outdated(r, m, ops) ==
  [q \in Req |-> IF q = r THEN Idle
     ELSE [req[q] EXCEPT !.outdated = @ \/ (req[q].m = m /\ req[q].op \in ops)]]
AnyOp  == {"edit", "react", "pin", "star", "vote", "forward"}

-----------------------------------------------------------------------------
(* sendMessage, createPoll, forwardMessage.                                *)

\* getConversation, which also tells whether messages disappear.
AskSend(r, type) ==
  Ask(r, [Idle EXCEPT !.op = "send", !.at = "store", !.type = type, !.expires = conversation.disappearing])

\* Mutant: the original may be a deleted one.
ForwardFound(r, m) == Found(m) /\ Ask(r, [Idle EXCEPT !.op = "forward", !.at = "conversation", !.m = m])
AskForward(r, m) == Live(m) /\ Ask(r, [Idle EXCEPT !.op = "forward", !.at = "conversation", !.m = m])
ForwardTarget(r) ==
  /\ At(r, "forward", "conversation")
  /\ Goto(r, [req[r] EXCEPT !.at = "store", !.expires = conversation.disappearing])

\* messageModel.create
Store(r) ==
  /\ req[r].at = "store" /\ NextId \in Message
  /\ message' = [message EXCEPT ![NextId] =
       [NoMessage EXCEPT !.state = "stored", !.content = TRUE, !.type = req[r].type, !.expires = req[r].expires]]
  /\ req' = [req EXCEPT ![r] = [Idle EXCEPT !.op = "send", !.at = "preview", !.m = NextId]]
  /\ crossed' = crossed \cup {<<"send", req[q].m, NextId>> : q \in {q \in Req : At(q, "send", "preview")}}
  /\ UNCHANGED <<conversation, reactions, starred, calls, faults, voted, unpreviewed>>

\* Mutant: a poll has no preview.
PreviewTexts(r) ==
  /\ At(r, "send", "preview")
  /\ conversation' = [conversation EXCEPT !.lastMessage = IF message[req[r].m].type = "text" THEN req[r].m ELSE @]
  /\ req' = [req EXCEPT ![r] = Idle]
  /\ UNCHANGED <<message, reactions, starred, calls, faults, voted, crossed, unpreviewed>>
\* The preview is written without a look at the one that is there.
Preview(r) ==
  /\ At(r, "send", "preview")
  /\ conversation' = [conversation EXCEPT !.lastMessage = req[r].m]
  /\ req' = [req EXCEPT ![r] = Idle]
  /\ UNCHANGED <<message, reactions, starred, calls, faults, voted, crossed, unpreviewed>>

-----------------------------------------------------------------------------
(* editMessage, deleteMessage, and MongoDB's removal of what has expired.  *)

AskEdit(r, m) == Live(m) /\ Ask(r, [Idle EXCEPT !.op = "edit", !.at = "write", !.m = m])

\* $set content, by id: also into a message deleted meanwhile.
Edit(r) ==
  /\ At(r, "edit", "write") /\ Found(req[r].m)
  /\ message' = [message EXCEPT ![req[r].m].content = TRUE]
  /\ req' = [req EXCEPT ![r] = Idle]
  /\ UNCHANGED <<conversation, reactions, starred, calls, faults, voted, crossed, unpreviewed>>

\* findByIdAndUpdate returned null: the message has expired.
Missing(r) ==
  /\ req[r].op \in {"edit", "vote"} /\ req[r].at = "write" /\ ~Found(req[r].m)
  /\ Throw(r)

Remove(m, state, content) ==
  /\ message' = [message EXCEPT ![m].state = state, ![m].content = content]
  /\ req' = Outdated(None, m, AnyOp)
  /\ UNCHANGED <<conversation, reactions, starred, faults, voted, crossed, unpreviewed>>
\* Deleting again is accepted.
DeleteMessage(m) == Found(m) /\ Counted /\ Remove(m, "isDeleted", FALSE)
Expire(m)        == Found(m) /\ message[m].expires /\ calls' = calls /\ Remove(m, "expired", FALSE)

SetDisappearing(enabled) ==
  /\ conversation.disappearing # enabled /\ Counted
  /\ conversation' = [conversation EXCEPT !.disappearing = enabled]
  /\ UNCHANGED <<message, reactions, starred, req, faults, voted, crossed, unpreviewed>>

-----------------------------------------------------------------------------
(* toggleReaction, starMessage, unstarMessage.                             *)

AskReact(r, m, u) ==
  Live(m) /\ Ask(r, [Idle EXCEPT !.op = "react", !.at = "look", !.m = m, !.u = u])
LookReaction(r) ==
  /\ At(r, "react", "look")
  /\ Goto(r, [req[r] EXCEPT !.at = "write", !.already = <<req[r].m, req[r].u>> \in reactions])

\* deleteOne of what was found, or a create that the unique index may refuse.
React(r) ==
  LET row == <<req[r].m, req[r].u>> IN
  /\ At(r, "react", "write")
  /\ reactions' = IF req[r].already THEN reactions \ {row} ELSE reactions \cup {row}
  /\ req' = [req EXCEPT ![r] = Idle]
  /\ UNCHANGED <<message, conversation, starred, calls, faults, voted, crossed, unpreviewed>>

AskStar(r, m, u) ==
  Live(m) /\ Ask(r, [Idle EXCEPT !.op = "star", !.at = "write", !.m = m, !.u = u])
Star(r) ==
  /\ At(r, "star", "write")
  /\ starred' = starred \cup {<<req[r].m, req[r].u>>}
  /\ req' = [req EXCEPT ![r] = Idle]
  /\ UNCHANGED <<message, conversation, reactions, calls, faults, voted, crossed, unpreviewed>>
\* A deleted message can be unstarred; one that has expired keeps its stars.
Unstar(m, u) ==
  /\ Found(m) /\ <<m, u>> \in starred /\ Counted
  /\ starred' = starred \ {<<m, u>>}
  /\ UNCHANGED <<message, conversation, reactions, req, faults, voted, crossed, unpreviewed>>

-----------------------------------------------------------------------------
(* pinMessage, unpinMessage.                                               *)

AskPin(r, m) ==
  /\ m \in Stored
  /\ Ask(r, [Idle EXCEPT !.op = "pin", !.at = "message", !.m = m, !.already = conversation.pinned[m] > 0])

LoadPinned(r) ==
  /\ At(r, "pin", "message")
  /\ IF Live(req[r].m) /\ ~req[r].already THEN Goto(r, [req[r] EXCEPT !.at = "write"]) ELSE Throw(r)

\* $push: nothing keeps the entries single.
Pin(r) ==
  /\ At(r, "pin", "write")
  /\ conversation' = [conversation EXCEPT !.pinned[req[r].m] = @ + 1]
  /\ crossed' = IF req[r].outdated THEN crossed \cup {<<"pin", req[r].m>>} ELSE crossed
  /\ req' = Outdated(r, req[r].m, {"pin"})
  /\ UNCHANGED <<message, reactions, starred, calls, faults, voted, unpreviewed>>
\* $pull removes every entry of the message.
UnpinMessage(m) ==
  /\ conversation.pinned[m] > 0 /\ Counted
  /\ conversation' = [conversation EXCEPT !.pinned[m] = 0]
  /\ crossed' = crossed \ {<<"pin", m>>}
  /\ req' = Outdated(None, m, {"pin"})
  /\ UNCHANGED <<message, reactions, starred, faults, voted, unpreviewed>>

-----------------------------------------------------------------------------
(* votePoll.                                                               *)

Voted(m, u) == \E o \in Option : <<o, u>> \in message[m].votes

AskVote(r, m, u, options) ==
  /\ Live(m) /\ message[m].type # "text"
  /\ options # {} /\ (message[m].type = "single" => Cardinality(options) = 1)
  /\ ~Voted(m, u)
  /\ Ask(r, [Idle EXCEPT !.op = "vote", !.at = "write", !.m = m, !.u = u,
                         !.votes = message[m].votes \cup (options \X {u})])

\* Mutant: the votes are written beside those that came in between ($push).
VotePushes(r) ==
  /\ At(r, "vote", "write") /\ Found(req[r].m)
  /\ message' = [message EXCEPT ![req[r].m].votes = @ \cup req[r].votes]
  /\ voted' = voted \cup {<<req[r].m, req[r].u>>}
  /\ crossed' = IF req[r].outdated THEN crossed \cup {<<"vote", req[r].m>>} ELSE crossed
  /\ req' = Outdated(r, req[r].m, {"vote"})
  /\ UNCHANGED <<conversation, reactions, starred, calls, faults, unpreviewed>>
\* $set of the whole list: the one that was read, with this vote.
VotePoll(r) ==
  /\ At(r, "vote", "write") /\ Found(req[r].m)
  /\ message' = [message EXCEPT ![req[r].m].votes = req[r].votes]
  /\ voted' = voted \cup {<<req[r].m, req[r].u>>}
  /\ crossed' = IF req[r].outdated THEN crossed \cup {<<"vote", req[r].m>>} ELSE crossed
  /\ req' = Outdated(r, req[r].m, {"vote"})
  /\ UNCHANGED <<conversation, reactions, starred, calls, faults, unpreviewed>>

-----------------------------------------------------------------------------
\* The request's next call fails, or the process exits: what it wrote stays.
Fail(r) ==
  /\ req[r] # Idle /\ faults < MaxFaults /\ faults' = faults + 1
  /\ unpreviewed' = IF req[r].at = "preview" THEN unpreviewed \cup {req[r].m} ELSE unpreviewed
  /\ req' = [req EXCEPT ![r] = Idle]
  /\ UNCHANGED <<message, conversation, reactions, starred, calls, voted, crossed>>

\* The routes of ChatController.
Asks ==
  \E r \in Req : \E m \in Message : \E u \in User :
    \/ \E type \in MessageType : AskSend(r, type)
    \/ AskForward(r, m) \/ AskEdit(r, m) \/ AskReact(r, m, u)
    \/ AskStar(r, m, u) \/ AskPin(r, m)
    \/ \E options \in SUBSET Option : AskVote(r, m, u, options)
Steps ==
  \E r \in Req :
    \/ ForwardTarget(r) \/ Store(r) \/ Preview(r) \/ Edit(r) \/ Missing(r)
    \/ LookReaction(r) \/ React(r) \/ Star(r) \/ LoadPinned(r) \/ Pin(r) \/ VotePoll(r) \/ Fail(r)
Writes ==
  \E m \in Message : \/ DeleteMessage(m) \/ Expire(m) \/ UnpinMessage(m)
                     \/ \E u \in User : Unstar(m, u)

Next == Asks \/ Steps \/ Writes \/ \E enabled \in BOOLEAN : SetDisappearing(enabled)

Spec == Init /\ [][Next]_vars

-----------------------------------------------------------------------------
\* A message that was deleted or has expired gets no content, reaction, star,
\* pin, vote or forward any more, except from a request that had loaded it before.
Adds(m) ==
  \/ message[m]'.content /\ ~message[m].content
  \/ ~(message[m]'.votes \subseteq message[m].votes)
  \/ conversation'.pinned[m] > conversation.pinned[m]
  \/ \E u \in User : <<m, u>> \in (reactions' \cup starred') \ (reactions \cup starred)
RemovedIsLeftAlone ==
  [][\A m \in Message : message[m].state \in {"isDeleted", "expired"} =>
       /\ Adds(m) => \E r \in Req : req[r].m = m /\ req[r].outdated /\ req'[r] = Idle
       /\ \A r \in Req : req[r].op = "forward" /\ req[r].m = m /\ req'[r].at = "preview" => req[r].outdated]_vars

\* An accepted vote counts, and a poll for one answer has one answer of each
\* user, unless another vote was written between the vote's read and its write
\* ("cannot change vote once voted"); a message is pinned once, likewise.
PollsAndPinsHold ==
  \A m \in Message :
    /\ \A u \in User : <<m, u>> \in voted => Voted(m, u) \/ <<"vote", m>> \in crossed
    /\ message[m].type = "single" =>
         \A v, w \in message[m].votes : v[2] = w[2] => v = w
    /\ conversation.pinned[m] <= 1 \/ <<"pin", m>> \in crossed

\* No message is newer than the preview, unless its request is still to write it, was
\* cut off, or stored it while the request of the previewed one was under way: the
\* preview never goes back to a message whose request was over, and what a slow request
\* overtook is put right by the next message whose request nobody overlaps.
NewestIsPreviewed ==
  \A m \in Newer(conversation.lastMessage) :
    \/ m \in unpreviewed \/ <<"send", conversation.lastMessage, m>> \in crossed
    \/ \E r \in Req : At(r, "send", "preview") /\ req[r].m = m
=============================================================================
