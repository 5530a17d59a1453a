------------------------------- MODULE MCChat -------------------------------
(***************************************************************************)
(* The chat as TLC explores it: who is in a group and what it has not      *)
(* read, what becomes of the messages, how a private conversation is made. *)
(* The first never looks at a message's text or preview and the others     *)
(* never at a role or a count, so what one can do does not depend on the   *)
(* others: a behaviour exercises one of them, chosen at the start, and the *)
(* others stand still.                                                     *)
(***************************************************************************)
EXTENDS ChatGroup, TLC

CONSTANTS Option, None, MaxStored, MaxCalls, MaxConversations

VARIABLES focus,
          message, conversation, reactions, starred, mreq, calls, mfaults, voted, crossed, unpreviewed,
          made, paired, shown, preq, pfaults, overlapped

\* There may be a message, None is not a request, and a poll has finitely many options.
ASSUME ChatAssumption == MaxStored \in Nat \ {0} /\ None \notin Requests /\ IsFiniteSet(Option)

M == INSTANCE ChatMessages WITH Req <- Requests, User <- Users, MaxMessages <- MaxStored,
                                req <- mreq, faults <- mfaults
P == INSTANCE PrivateChat  WITH Req <- Requests, members <- paired, listed <- shown,
                                req <- preq, faults <- pfaults

messages == <<message, conversation, reactions, starred, mreq, calls, mfaults, voted, crossed, unpreviewed>>
private  == <<made, paired, shown, preq, pfaults, overlapped>>

AllInit ==
  /\ Init /\ M!Init /\ P!Init /\ focus \in {"group", "messages", "private"}
  /\ focus # "messages" => conversation.lastMessage = 0 /\ message[1].type = "text" /\ ~conversation.disappearing
AllNext ==
  \/ focus = "group" /\ Next /\ UNCHANGED <<focus, messages, private>>
  \/ focus = "messages" /\ M!Next /\ UNCHANGED <<focus, vars, private>>
  \/ focus = "private" /\ P!Next /\ UNCHANGED <<focus, vars, messages>>
AllSpec == AllInit /\ [][AllNext]_<<focus, vars, messages, private>>

\* What ChatMessages and PrivateChat state, of the conversations here.
RemovedIsLeftAlone == M!RemovedIsLeftAlone
PollsAndPinsHold   == M!PollsAndPinsHold
NewestIsPreviewed  == M!NewestIsPreviewed
OnePrivateChat     == P!OnePrivateChat

Symm == Permutations(Users) \cup Permutations(Requests) \cup Permutations(Option)
=============================================================================
