------------------------------ MODULE ChatProofs ------------------------------
(***************************************************************************)
(* What the chat keeps, for any users and messages and any finite number   *)
(* of requests under way, although every check is a read of its own and    *)
(* the write that relies on it another.                                    *)
(*                                                                         *)
(* The group comes first: admins have been appointed, members have the     *)
(* conversation on their list, and the unread counts hide nothing.  The    *)
(* definitions and lemmas about the messages and about the private         *)
(* conversation bear the letters of their instances in MCChat.             *)
(*                                                                         *)
(* M  A message a request has loaded was there; if it is gone, or its      *)
(*    votes or pins were written since, the request is outdated, and what  *)
(*    it writes is excused.  Messages are numbered as they come.           *)
(* P  Each request under way holds a conversation of its own; one that     *)
(*    nobody has overtaken has still found none.                           *)
(***************************************************************************)
EXTENDS MCChat, FiniteSetTheorems, TLAPS

-----------------------------------------------------------------------------
(* The group: admins, lists and counts                                     *)

\* What a request under way may assume: an update names users an admin has appointed,
\* and a creation makes its creator a member.
InFlight ==
  /\ \A r \in Requests : req[r].op = "update" => req[r].whom \subseteq appointed
  /\ \A r \in Requests : req[r].op = "create" => req[r].by \subseteq req[r].whom

\* The requests that have stored a message user u is still to be counted for.
ToCount(u) == {r \in Requests : req[r].at = "count" /\ u \notin req[r].by}

\* Nothing is unseen on a list the conversation is not on.
NothingUnseen == \A u \in Users \ listed : unseen[u] = 0

-----------------------------------------------------------------------------
LEMMA InitTyped == Init => TypeOK
  <1> SUFFICES ASSUME Init PROVE TypeOK
    OBVIOUS
  <1>1. stored \in 0..MaxMessages /\ lost \in 0..faults /\ faults \in 0..MaxFaults
    BY ChatGroupAssumption DEF Init
  <1>2. /\ type \in {"none", "group", "broadcast"} /\ link \in BOOLEAN
        /\ role \in [Users -> {"none", "member", "admin"}] /\ blocked \subseteq Members
    BY DEF Init, Members
  <1>3. listed \subseteq Users /\ unread \in [Users -> Nat] /\ unseen \in [Users -> Nat]
    BY DEF Init
  <1> QED BY <1>1, <1>2, <1>3 DEF Init, TypeOK

\* Begin, Step and Done keep the requests typed.
LEMMA RequestsTyped ==
  ASSUME req \in [Requests -> Request \cup {Idle}], NEW r \in Requests
  PROVE  /\ Done(r) => req' \in [Requests -> Request \cup {Idle}]
         /\ \A at \in {"rows", "store", "count"} :
              req[r] # Idle /\ Step(r, at) => req' \in [Requests -> Request \cup {Idle}]
         /\ \A op \in {"create", "add", "remove", "block", "unblock", "update", "join", "send",
                       "read"}, by \in SUBSET Users, S \in SUBSET Users,
               at \in {"write", "rows", "check", "store"} :
              Begin(r, op, by, S, at) => req' \in [Requests -> Request \cup {Idle}]
  <1>1. Done(r) => req' \in [Requests -> Request \cup {Idle}]
    BY DEF Done
  <1>2. ASSUME NEW at \in {"rows", "store", "count"}, req[r] # Idle, Step(r, at)
        PROVE  req' \in [Requests -> Request \cup {Idle}]
    <2>1. [req[r] EXCEPT !.at = at] \in Request
      BY <1>2 DEF Request
    <2> QED BY <1>2, <2>1 DEF Step
  <1>3. ASSUME NEW op \in {"create", "add", "remove", "block", "unblock", "update", "join",
                           "send", "read"},
               NEW by \in SUBSET Users, NEW S \in SUBSET Users,
               NEW at \in {"write", "rows", "check", "store"}, Begin(r, op, by, S, at)
        PROVE  req' \in [Requests -> Request \cup {Idle}]
    BY <1>3 DEF Begin, Request
  <1> QED BY <1>1, <1>2, <1>3

LEMMA TypedStep == TypeOK /\ [Next]_vars => TypeOK'
  <1> SUFFICES ASSUME TypeOK, [Next]_vars PROVE TypeOK'
    OBVIOUS
  <1> USE ChatGroupAssumption DEF TypeOK, Members
  <1>1. ASSUME NEW r \in Requests, SeedMembers(r) PROVE TypeOK'
    <2>1. req' \in [Requests -> Request \cup {Idle}]
      BY <1>1, RequestsTyped DEF SeedMembers, Idle
    <2>2. req[r].by \subseteq Users
      BY <1>1 DEF SeedMembers, Request, Idle
    <2> QED BY <1>1, <2>1, <2>2 DEF SeedMembers, rows, counters
  <1>2. ASSUME NEW r \in Requests, MakeRows(r) PROVE TypeOK'
    <2>1. req' \in [Requests -> Request \cup {Idle}]
      BY <1>2, RequestsTyped DEF MakeRows
    <2>2. req[r].whom \subseteq Users
      BY <1>2 DEF MakeRows, Request, Idle
    <2> QED BY <1>2, <2>1, <2>2 DEF MakeRows, List, members, counters
  <1>3. ASSUME NEW r \in Requests, AddMembers(r) \/ ResetRoles(r) \/ JoinMember(r) PROVE TypeOK'
    <2>1. req' \in [Requests -> Request \cup {Idle}]
      BY <1>3, RequestsTyped DEF AddMembers, ResetRoles, JoinMember, Idle
    <2> QED BY <1>3, <2>1 DEF AddMembers, ResetRoles, JoinMember, rows, counters
  <1>4. ASSUME NEW r \in Requests, Remove(r) \/ Block(r) \/ SelectAdmins(r) PROVE TypeOK'
    <2>1. req' \in [Requests -> Request \cup {Idle}]
      BY <1>4, RequestsTyped DEF Remove, Block, SelectAdmins
    <2> QED BY <1>4, <2>1 DEF Remove, Block, SelectAdmins, rows, counters
  <1>5. ASSUME NEW r \in Requests, SendCheck(r) \/ Store(r) PROVE TypeOK'
    <2>1. req' \in [Requests -> Request \cup {Idle}]
      BY <1>5, RequestsTyped DEF SendCheck, Store, Idle
    <2> QED BY <1>5, <2>1 DEF SendCheck, Store, members, rows, counters
  <1>6. ASSUME NEW r \in Requests, Count(r) \/ MarkRead(r) PROVE TypeOK'
    <2>1. req' \in [Requests -> Request \cup {Idle}]
      BY <1>6, RequestsTyped DEF Count, MarkRead
    <2>2. CASE Count(r)
      BY <2>1, <2>2 DEF Count, members, counters
    <2>3. CASE MarkRead(r)
      <3>1. req[r].whom \subseteq Users
        BY <2>3 DEF MarkRead, Request, Idle
      <3> QED BY <2>1, <2>3, <3>1 DEF MarkRead, members, counters
    <2> QED BY <1>6, <2>2, <2>3
  <1>7. ASSUME NEW r \in Requests, Fail(r) PROVE TypeOK'
    <2>1. req' \in [Requests -> Request \cup {Idle}]
      BY <1>7, RequestsTyped DEF Fail
    <2>2. lost' \in 0..faults' /\ faults' \in 0..MaxFaults
      BY <1>7 DEF Fail
    <2> QED BY <1>7, <2>1, <2>2 DEF Fail, members, rows
  <1>8. ASSUME NEW r \in Requests, NEW u \in Users,
               \/ Join(r, u) \/ Send(r, u) \/ Post(r, u) \/ Read(r, u)
        PROVE  TypeOK'
    <2>1. req' \in [Requests -> Request \cup {Idle}]
      BY <1>8, RequestsTyped DEF Join, Send, Post, Read
    <2> QED BY <1>8, <2>1 DEF Join, Send, Post, Read, members, rows, counters
  <1>9. ASSUME NEW r \in Requests, NEW u \in Users, NEW S \in SUBSET Users,
               NEW t \in {"group", "broadcast"}, Create(r, u, S, t)
        PROVE  TypeOK'
    <2>1. req' \in [Requests -> Request \cup {Idle}]
      BY <1>9, RequestsTyped DEF Create
    <2> QED BY <1>9, <2>1 DEF Create, members, rows, counters
  <1>10. ASSUME NEW r \in Requests, NEW u \in Users,
                NEW op \in {"add", "remove", "block", "unblock", "update"},
                NEW S \in Targets(op), Ask(r, op, u, S)
         PROVE  TypeOK'
    <2>1. S \subseteq Users
      BY DEF Targets
    <2>2. Begin(r, op, {}, S, "write")
      BY <1>10 DEF Ask
    <2>3. {} \in SUBSET Users /\ S \in SUBSET Users
      BY <2>1
    <2>4. req' \in [Requests -> Request \cup {Idle}]
      BY <2>2, <2>3 DEF Begin, Request
    <2> QED BY <1>10, <2>1, <2>4 DEF Ask, members, rows, counters
  <1>11. ASSUME NEW u \in Users, SetLink(u) \/ Touch(u) PROVE TypeOK'
    <2>1. CASE SetLink(u)
      BY <2>1 DEF SetLink, members, rows, counters
    <2>2. CASE Touch(u)
      BY <2>2 DEF Touch, List, members, counters
    <2> QED BY <1>11, <2>1, <2>2
  <1>12. CASE UNCHANGED vars
    BY <1>12 DEF vars, members, rows, counters
  <1> QED BY <1>1, <1>2, <1>3, <1>4, <1>5, <1>6, <1>7, <1>8, <1>9, <1>10, <1>11, <1>12 DEF Next

\* Rows, counters and requests keep their types; only a member's row carries a block.
THEOREM Typed == Spec => []TypeOK
  BY InitTyped, TypedStep, PTL DEF Spec

-----------------------------------------------------------------------------
\* The steps of a request under way: another request stays as it is, and this one ends
\* or keeps what it was asked.
Moves(r) ==
  \/ SeedMembers(r) \/ MakeRows(r) \/ AddMembers(r) \/ Remove(r) \/ Block(r)
  \/ ResetRoles(r) \/ SelectAdmins(r) \/ JoinMember(r)
  \/ SendCheck(r) \/ Store(r) \/ Count(r) \/ MarkRead(r) \/ Fail(r)
Kept(q) == req'[q].op = req[q].op /\ req'[q].by = req[q].by /\ req'[q].whom = req[q].whom

LEMMA MovesKeep ==
  ASSUME TypeOK, NEW r \in Requests, Moves(r)
  PROVE  \A q \in Requests : /\ q # r => req'[q] = req[q]
                             /\ req'[q] = Idle \/ Kept(q)
  <1>1. req[r] \in Request /\ (Done(r) \/ Step(r, "rows") \/ Step(r, "store") \/ Step(r, "count"))
    <2>1. req[r] # Idle
      BY DEF Moves, SeedMembers, MakeRows, AddMembers, Remove, Block, ResetRoles, SelectAdmins,
             JoinMember, SendCheck, Store, Count, MarkRead, Fail, Idle
    <2>2. Done(r) \/ Step(r, "rows") \/ Step(r, "store") \/ Step(r, "count")
      BY DEF Moves, SeedMembers, MakeRows, AddMembers, Remove, Block, ResetRoles, SelectAdmins,
             JoinMember, SendCheck, Store, Count, MarkRead, Fail
    <2> QED BY <2>1, <2>2 DEF TypeOK
  <1>2. CASE Done(r)
    BY <1>2 DEF Done, Kept, TypeOK
  <1>3. ASSUME NEW at, Step(r, at)
        PROVE  \A q \in Requests : (q # r => req'[q] = req[q]) /\ Kept(q)
    BY <1>1, <1>3 DEF Step, Kept, Request, TypeOK
  <1> QED BY <1>1, <1>2, <1>3

\* A request begins with an update's list just appointed, and with the creator among
\* those who are made members; nobody is taken off the appointed.
LEMMA InFlightStep == TypeOK /\ InFlight /\ [Next]_vars => InFlight'
  <1> SUFFICES ASSUME TypeOK, InFlight, [Next]_vars PROVE InFlight'
    OBVIOUS
  <1>1. ASSUME NEW r \in Requests, Moves(r) PROVE InFlight'
    <2>1. appointed \subseteq appointed'
      BY <1>1 DEF Moves, SeedMembers, MakeRows, AddMembers, Remove, Block, ResetRoles,
                  SelectAdmins, JoinMember, SendCheck, Store, Count, MarkRead, Fail
    <2> QED BY <1>1, <2>1, MovesKeep DEF InFlight, Kept, Idle
  <1>2. ASSUME NEW r \in Requests, NEW u \in Users,
               \/ Join(r, u) \/ Send(r, u) \/ Post(r, u) \/ Read(r, u)
               \/ \E S \in SUBSET Users, t \in {"group", "broadcast"} : Create(r, u, S, t)
        PROVE  InFlight'
    BY <1>2 DEF Join, Send, Post, Read, Create, Begin, InFlight, TypeOK
  <1>3. ASSUME NEW r \in Requests, NEW u \in Users,
               NEW op \in {"add", "remove", "block", "unblock", "update"},
               NEW S \in Targets(op), Ask(r, op, u, S)
        PROVE  InFlight'
    <2>1. appointed \subseteq appointed' /\ (op = "update" => S \subseteq appointed')
      BY <1>3 DEF Ask
    <2> QED BY <1>3, <2>1 DEF Ask, Begin, InFlight, TypeOK
  <1>4. ASSUME NEW u \in Users, SetLink(u) \/ Touch(u) PROVE InFlight'
    BY <1>4 DEF SetLink, Touch, InFlight
  <1>5. CASE UNCHANGED vars
    BY <1>5 DEF vars, InFlight
  <1> QED BY <1>1, <1>2, <1>3, <1>4, <1>5 DEF Next, Moves

LEMMA InitInFlight == Init => InFlight
  BY DEF Init, InFlight, Idle

-----------------------------------------------------------------------------
\* Only the creation and the second step of an update make an admin.
LEMMA AppointedStep == TypeOK /\ InFlight /\ AdminsAppointed /\ [Next]_vars => AdminsAppointed'
  <1> SUFFICES ASSUME TypeOK, InFlight, AdminsAppointed, [Next]_vars PROVE AdminsAppointed'
    OBVIOUS
  <1> USE DEF TypeOK, AdminsAppointed
  <1>1. ASSUME NEW r \in Requests,
               SeedMembers(r) \/ AddMembers(r) \/ Remove(r) \/ ResetRoles(r) \/ JoinMember(r)
        PROVE  AdminsAppointed'
    BY <1>1 DEF SeedMembers, AddMembers, Remove, ResetRoles, JoinMember
  <1>2. ASSUME NEW r \in Requests, SelectAdmins(r) PROVE AdminsAppointed'
    BY <1>2 DEF SelectAdmins, InFlight
  <1>3. CASE UNCHANGED role /\ appointed \subseteq appointed'
    BY <1>3
  <1>4. ASSUME NEW r \in Requests,
               \/ MakeRows(r) \/ Block(r) \/ SendCheck(r) \/ Store(r) \/ Count(r) \/ MarkRead(r)
               \/ Fail(r)
               \/ \E u \in Users :
                    \/ Join(r, u) \/ Send(r, u) \/ Post(r, u) \/ Read(r, u)
                    \/ \E S \in SUBSET Users, t \in {"group", "broadcast"} : Create(r, u, S, t)
                    \/ \E op \in {"add", "remove", "block", "unblock", "update"} :
                         \E S \in Targets(op) : Ask(r, op, u, S)
        PROVE  AdminsAppointed'
    BY <1>3, <1>4 DEF MakeRows, Block, SendCheck, Store, Count, MarkRead, Fail, Join, Send, Post,
                      Read, Create, Ask, members
  <1>5. ASSUME NEW u \in Users, SetLink(u) \/ Touch(u) PROVE AdminsAppointed'
    BY <1>5 DEF SetLink, Touch, members
  <1>6. CASE UNCHANGED vars
    BY <1>6 DEF vars, members
  <1> QED BY <1>1, <1>2, <1>4, <1>5, <1>6 DEF Next

\* Every admin has been appointed, however updates, joins and removals cross.
THEOREM Appointed == Spec => []AdminsAppointed
  <1>1. Init => AdminsAppointed
    BY DEF Init, AdminsAppointed
  <1> QED BY InitTyped, TypedStep, InitInFlight, InFlightStep, AppointedStep, <1>1, PTL DEF Spec

-----------------------------------------------------------------------------
\* A member whose row is not there yet is in the hands of a request about to make it:
\* those who become members do so by such a request, which ends with the rows.
LEMMA ListedStep == TypeOK /\ InFlight /\ MembersListed /\ [Next]_vars => MembersListed'
  <1> DEFINE Comes(u) == \E r \in Requests : /\ req'[r].at = "rows" /\ u \in req'[r].whom
                                            /\ req'[r].op \in {"create", "add", "join"}
             Goal == faults' = 0 => \A u \in Members' \ listed' : Comes(u)
  <1> SUFFICES ASSUME TypeOK, InFlight, MembersListed, [Next]_vars PROVE Goal
    BY DEF MembersListed
  <1>1. ASSUME NEW q \in Requests, Moves(q), faults' = 0, NEW u \in Members' \ listed'
        PROVE  Comes(u)
    <2>1. listed \subseteq listed' /\ faults = 0
      <3>1. listed \subseteq listed'
        BY <1>1 DEF Moves, rows, SeedMembers, MakeRows, List, AddMembers, JoinMember, Remove, Block,
                    ResetRoles, SelectAdmins, SendCheck, Store, Count, MarkRead, Fail
      <3>2. faults' = faults \/ faults' = faults + 1
        BY <1>1 DEF Moves, counters, SeedMembers, MakeRows, AddMembers, JoinMember, Remove, Block,
                    ResetRoles, SelectAdmins, SendCheck, Store, Count, MarkRead, Fail
      <3> QED BY <1>1, <3>1, <3>2 DEF TypeOK
    <2>2. CASE u \in Members
      <3>1. PICK r \in Requests : /\ req[r].at = "rows" /\ u \in req[r].whom
                                 /\ req[r].op \in {"create", "add", "join"}
        BY <1>1, <2>1, <2>2 DEF MembersListed
      <3>2. CASE q # r
        BY <1>1, <3>1, <3>2, MovesKeep
      <3>3. CASE q = r
        <4>1. MakeRows(q) \/ Fail(q)
          BY <1>1, <3>1, <3>3 DEF Moves, SeedMembers, AddMembers, JoinMember, Remove, Block,
             ResetRoles, SelectAdmins, SendCheck, Store, Count, MarkRead
        <4>2. ~Fail(q)
          BY <1>1, <2>1 DEF Fail
        <4>3. u \in listed'
          BY <3>1, <3>3, <4>1, <4>2 DEF MakeRows, List
        <4> QED BY <1>1, <4>3
      <3> QED BY <3>2, <3>3
    <2>3. CASE u \notin Members
      <3>1. SeedMembers(q) \/ AddMembers(q) \/ JoinMember(q)
        <4>1. u \in Users /\ role[u] = "none" /\ role'[u] # "none"
          BY <1>1, <2>3 DEF Members
        <4> QED BY <1>1, <4>1 DEF Moves, members, MakeRows, Remove, Block, ResetRoles, SelectAdmins,
                  SendCheck, Store, Count, MarkRead, Fail, Members
      <3>2. /\ Step(q, "rows") /\ req[q].op \in {"create", "add", "join"} /\ req[q] \in Request
            /\ u \in req[q].whom
        <4>1. CASE SeedMembers(q)
          BY <1>1, <2>3, <4>1 DEF SeedMembers, Members, InFlight, TypeOK, Idle
        <4>2. CASE AddMembers(q)
          BY <1>1, <2>3, <4>2 DEF AddMembers, Members, TypeOK, Idle
        <4>3. CASE JoinMember(q)
          BY <1>1, <2>3, <4>3 DEF JoinMember, Members, TypeOK, Idle
        <4> QED BY <3>1, <4>1, <4>2, <4>3
      <3>3. req'[q] = [req[q] EXCEPT !.at = "rows"]
        BY <3>2 DEF Step, TypeOK
      <3> QED BY <3>2, <3>3 DEF Request
    <2> QED BY <2>2, <2>3
  <1>2. ASSUME NEW q \in Requests, req[q] = Idle, NEW x, req' = [req EXCEPT ![q] = x],
               UNCHANGED <<role, listed, faults>>
        PROVE  Goal
    <2> SUFFICES ASSUME faults = 0, NEW u \in Members \ listed PROVE Comes(u)
      BY <1>2 DEF Members
    <2>1. PICK r \in Requests : /\ req[r].at = "rows" /\ u \in req[r].whom
                               /\ req[r].op \in {"create", "add", "join"}
      BY DEF MembersListed
    <2>2. r # q
      BY <1>2, <2>1 DEF Idle
    <2> QED BY <1>2, <2>1, <2>2 DEF TypeOK
  <1>3. ASSUME NEW q \in Requests, NEW u \in Users,
               \/ Join(q, u) \/ Send(q, u) \/ Post(q, u) \/ Read(q, u)
               \/ \E S \in SUBSET Users, t \in {"group", "broadcast"} : Create(q, u, S, t)
               \/ \E op \in {"add", "remove", "block", "unblock", "update"} :
                    \E S \in Targets(op) : Ask(q, op, u, S)
        PROVE  Goal
    <2>1. req[q] = Idle /\ \E x : req' = [req EXCEPT ![q] = x]
      BY <1>3 DEF Join, Send, Post, Read, Create, Ask, Begin
    <2>2. UNCHANGED <<role, listed, faults>>
      BY <1>3 DEF Join, Send, Post, Read, Create, Ask, members, rows, counters
    <2> QED BY <1>2, <2>1, <2>2
  <1>4. ASSUME NEW v \in Users, SetLink(v) \/ Touch(v) PROVE Goal
    BY <1>4 DEF SetLink, Touch, List, members, rows, counters, Members, MembersListed
  <1>5. CASE UNCHANGED vars
    BY <1>5 DEF vars, members, rows, counters, Members, MembersListed
  <1> QED BY <1>1, <1>3, <1>4, <1>5 DEF Next, Moves

\* No member is left without the conversation on the list.
THEOREM Listed == Spec => []MembersListed
  <1>1. Init => MembersListed
    BY DEF Init, MembersListed, Members
  <1> QED BY InitTyped, TypedStep, InitInFlight, InFlightStep, ListedStep, <1>1, PTL DEF Spec

-----------------------------------------------------------------------------
LEMMA NothingUnseenStep == TypeOK /\ NothingUnseen /\ [Next]_vars => NothingUnseen'
  <1> SUFFICES ASSUME TypeOK, NothingUnseen, [Next]_vars PROVE NothingUnseen'
    OBVIOUS
  <1> USE DEF TypeOK, NothingUnseen
  <1>1. ASSUME NEW r \in Requests, Moves(r) PROVE NothingUnseen'
    <2>1. CASE MakeRows(r) \/ MarkRead(r)
      BY <2>1 DEF MakeRows, List, MarkRead
    <2>2. CASE Store(r)
      BY <2>2 DEF Store
    <2>3. CASE UNCHANGED <<listed, unseen>>
      BY <2>3
    <2> QED BY <1>1, <2>1, <2>2, <2>3 DEF Moves, rows, SeedMembers, AddMembers, JoinMember, Remove,
               Block, ResetRoles, SelectAdmins, SendCheck, Count, Fail
  <1>2. ASSUME NEW q \in Requests, NEW u \in Users,
               \/ Join(q, u) \/ Send(q, u) \/ Post(q, u) \/ Read(q, u)
               \/ \E S \in SUBSET Users, t \in {"group", "broadcast"} : Create(q, u, S, t)
               \/ \E op \in {"add", "remove", "block", "unblock", "update"} :
                    \E S \in Targets(op) : Ask(q, op, u, S)
        PROVE  NothingUnseen'
    BY <1>2 DEF Join, Send, Post, Read, Create, Ask, rows
  <1>3. ASSUME NEW u \in Users, SetLink(u) \/ Touch(u) PROVE NothingUnseen'
    BY <1>3 DEF SetLink, Touch, List, rows
  <1>4. CASE UNCHANGED vars
    BY <1>4 DEF vars, rows
  <1> QED BY <1>1, <1>2, <1>3, <1>4 DEF Next, Moves

LEMMA ToCountFinite ==
  ASSUME NEW u
  PROVE  IsFiniteSet(ToCount(u)) /\ Cardinality(ToCount(u)) \in Nat
  BY ChatGroupAssumption, FS_Subset, FS_CardinalityType DEF ToCount

\* What a stored message adds to the unseen is taken over by the request that stored it,
\* then by the counter, or by the lost ones.
LEMMA CountsStep ==
  ASSUME TypeOK, NothingUnseen, CountsUnseen, [Next]_vars
  PROVE  CountsUnseen'
  <1> SUFFICES ASSUME NEW u \in Users
               PROVE  unseen'[u] <= unread'[u] + lost' + Cardinality(ToCount(u)')
    BY DEF CountsUnseen, ToCount
  <1> DEFINE n == Cardinality(ToCount(u))
             n2 == Cardinality(ToCount(u)')
  <1>1. /\ unseen[u] <= unread[u] + lost + n
        /\ unseen[u] \in Nat /\ unread[u] \in Nat /\ lost \in Nat /\ n \in Nat /\ n2 \in Nat
    <2>1. unseen[u] <= unread[u] + lost + n
      BY DEF CountsUnseen, ToCount
    <2>2. n \in Nat
      BY ToCountFinite
    <2>3. IsFiniteSet(ToCount(u)') /\ n2 \in Nat
      BY ChatGroupAssumption, FS_Subset, FS_CardinalityType DEF ToCount
    <2> QED BY <2>1, <2>2, <2>3 DEF TypeOK
  <1>2. ASSUME ToCount(u)' = ToCount(u), lost' = lost,
               \/ unread'[u] = unread[u] /\ unseen'[u] = unseen[u]
               \/ unread'[u] \in Nat /\ unseen'[u] = 0
        PROVE  unseen'[u] <= unread'[u] + lost' + n2
    <2>1. n2 = n
      BY <1>2
    <2> HIDE DEF n, n2
    <2> QED BY <1>1, <1>2, <2>1
  <1>3. ASSUME NEW q \in Requests, NEW x, req[q].at # "count", x.at # "count",
               req' = [req EXCEPT ![q] = x]
        PROVE  ToCount(u)' = ToCount(u)
    BY <1>3 DEF ToCount, TypeOK
  <1>4. ASSUME NEW r \in Requests, Store(r) PROVE unseen'[u] <= unread'[u] + lost' + n2
    <2>1. req[r] \in Request /\ req' = [req EXCEPT ![r].at = "count"] /\ req[r].at = "store"
      BY <1>4 DEF Store, Step, TypeOK, Idle
    <2>2. CASE u \in req[r].by
      <3>1. ToCount(u)' = ToCount(u)
        BY <2>1, <2>2 DEF ToCount, TypeOK, Request
      <3> QED BY <1>2, <1>4, <2>2, <3>1 DEF Store, TypeOK
    <2>3. CASE u \notin req[r].by
      <3>1. ToCount(u)' = ToCount(u) \cup {r} /\ r \notin ToCount(u)
        BY <2>1, <2>3 DEF ToCount, TypeOK, Request
      <3>2. n2 = n + 1
        BY <3>1, ToCountFinite, FS_AddElement
      <3>3. unseen'[u] <= unseen[u] + 1 /\ unread'[u] = unread[u] /\ lost' = lost
        BY <1>1, <1>4 DEF Store, TypeOK
      <3>4. unseen'[u] \in Nat
        BY TypedStep DEF TypeOK
      <3> HIDE DEF n, n2
      <3> QED BY <1>1, <3>2, <3>3, <3>4
    <2> QED BY <2>2, <2>3
  <1>5. ASSUME NEW r \in Requests, Count(r) PROVE unseen'[u] <= unread'[u] + lost' + n2
    <2>1. req[r] \in Request /\ req' = [req EXCEPT ![r] = Idle] /\ req[r].at = "count"
      BY <1>5 DEF Count, Done, TypeOK, Idle
    <2>2. unseen'[u] = unseen[u] /\ lost' = lost
      BY <1>5 DEF Count, counters
    <2>3. CASE u \in req[r].by
      <3>1. ToCount(u)' = ToCount(u)
        BY <2>1, <2>3 DEF ToCount, TypeOK, Idle
      <3> QED BY <1>2, <1>5, <2>2, <2>3, <3>1 DEF Count, TypeOK
    <2>4. CASE u \notin req[r].by /\ u \in listed
      <3>1. ToCount(u)' = ToCount(u) \ {r} /\ r \in ToCount(u)
        BY <2>1, <2>4 DEF ToCount, TypeOK, Idle
      <3>2. n2 = n - 1
        BY <3>1, ToCountFinite, FS_RemoveElement
      <3>3. unread'[u] = unread[u] + 1
        BY <1>5, <2>4 DEF Count, TypeOK
      <3> HIDE DEF n, n2
      <3> QED BY <1>1, <2>2, <3>2, <3>3
    <2>5. CASE u \notin listed
      <3>1. unseen'[u] = 0 /\ unread'[u] \in Nat
        BY <1>1, <1>5, <2>2, <2>5 DEF NothingUnseen, Count, TypeOK
      <3> HIDE DEF n, n2
      <3> QED BY <1>1, <2>2, <3>1
    <2> QED BY <2>3, <2>4, <2>5
  <1>6. ASSUME NEW r \in Requests, Fail(r) PROVE unseen'[u] <= unread'[u] + lost' + n2
    <2>1. req[r] \in Request /\ req' = [req EXCEPT ![r] = Idle]
      BY <1>6 DEF Fail, Done, TypeOK
    <2>2. unseen'[u] = unseen[u] /\ unread'[u] = unread[u]
      BY <1>6 DEF Fail, rows
    <2>3. CASE r \in ToCount(u)
      <3>1. ToCount(u)' = ToCount(u) \ {r} /\ req[r].at = "count"
        BY <2>1, <2>3 DEF ToCount, TypeOK, Idle
      <3>2. n2 = n - 1
        BY <2>3, <3>1, ToCountFinite, FS_RemoveElement
      <3>3. lost' = lost + 1
        BY <1>6, <3>1 DEF Fail
      <3> HIDE DEF n, n2
      <3> QED BY <1>1, <2>2, <3>2, <3>3
    <2>4. CASE r \notin ToCount(u)
      <3>1. ToCount(u)' = ToCount(u)
        BY <2>1, <2>4 DEF ToCount, TypeOK, Idle
      <3>2. lost' \in {lost, lost + 1}
        BY <1>6 DEF Fail
      <3>3. n2 = n
        BY <3>1
      <3> HIDE DEF n, n2
      <3> QED BY <1>1, <2>2, <3>2, <3>3
    <2> QED BY <2>3, <2>4
  <1>7. ASSUME NEW r \in Requests, Moves(r), ~Store(r), ~Count(r), ~Fail(r)
        PROVE  unseen'[u] <= unread'[u] + lost' + n2
    <2>1. req[r].at # "count" /\ \E x : x.at # "count" /\ req' = [req EXCEPT ![r] = x]
      <3>1. req[r].at # "count" /\ (Done(r) \/ Step(r, "rows") \/ Step(r, "store"))
        BY <1>7 DEF Moves, SeedMembers, MakeRows, AddMembers, JoinMember, Remove, Block, ResetRoles,
                    SelectAdmins, SendCheck, MarkRead
      <3>2. CASE Done(r)
        BY <3>1, <3>2 DEF Done, Idle
      <3>3. ASSUME NEW at \in {"rows", "store"}, Step(r, at)
            PROVE  \E x : x.at # "count" /\ req' = [req EXCEPT ![r] = x]
        <4> WITNESS [req[r] EXCEPT !.at = at]
        <4>1. req[r] \in Request
          BY <1>7, <3>3 DEF Moves, SeedMembers, MakeRows, AddMembers, JoinMember, Remove, Block,
                            ResetRoles, SelectAdmins, SendCheck, MarkRead, TypeOK, Idle
        <4> QED BY <3>3, <4>1 DEF Step, Request
      <3> QED BY <3>1, <3>2, <3>3
    <2>2. ToCount(u)' = ToCount(u)
      BY <1>3, <2>1
    <2>3. /\ lost' = lost
          /\ \/ unread'[u] = unread[u] /\ unseen'[u] = unseen[u]
             \/ unread'[u] \in Nat /\ unseen'[u] = 0
      BY <1>7 DEF Moves, SeedMembers, MakeRows, List, AddMembers, JoinMember, Remove, Block,
                  ResetRoles, SelectAdmins, SendCheck, MarkRead, rows, counters, TypeOK
    <2> QED BY <1>2, <2>2, <2>3
  <1>8. ASSUME NEW q \in Requests, NEW v \in Users,
               \/ Join(q, v) \/ Send(q, v) \/ Post(q, v) \/ Read(q, v)
               \/ \E S \in SUBSET Users, t \in {"group", "broadcast"} : Create(q, v, S, t)
               \/ \E op \in {"add", "remove", "block", "unblock", "update"} :
                    \E S \in Targets(op) : Ask(q, op, v, S)
        PROVE  unseen'[u] <= unread'[u] + lost' + n2
    <2>1. req[q].at # "count" /\ \E x : x.at # "count" /\ req' = [req EXCEPT ![q] = x]
      BY <1>8 DEF Join, Send, Post, Read, Create, Ask, Begin, Idle
    <2>2. ToCount(u)' = ToCount(u)
      BY <1>3, <2>1
    <2>3. UNCHANGED <<lost, unread, unseen>>
      BY <1>8 DEF Join, Send, Post, Read, Create, Ask, rows, counters
    <2> QED BY <1>2, <2>2, <2>3
  <1>9. ASSUME NEW v \in Users, SetLink(v) \/ Touch(v)
        PROVE  unseen'[u] <= unread'[u] + lost' + n2
    <2>1. ToCount(u)' = ToCount(u) /\ lost' = lost
      BY <1>9 DEF SetLink, Touch, ToCount, counters
    <2>2. \/ unread'[u] = unread[u] /\ unseen'[u] = unseen[u]
          \/ unread'[u] \in Nat /\ unseen'[u] = 0
      BY <1>9 DEF SetLink, Touch, List, rows, TypeOK
    <2> QED BY <1>2, <2>1, <2>2
  <1>10. CASE UNCHANGED vars
    <2>1. ToCount(u)' = ToCount(u) /\ UNCHANGED <<lost, unread, unseen>>
      BY <1>10 DEF vars, ToCount, rows, counters
    <2> QED BY <1>2, <2>1
  <1>11. ASSUME NEW r \in Requests, Moves(r) PROVE unseen'[u] <= unread'[u] + lost' + n2
    BY <1>4, <1>5, <1>6, <1>7, <1>11
  <1>12. CASE Next
    <2>1. CASE \E r \in Requests : Moves(r)
      BY <1>11, <2>1
    <2>2. CASE \E q \in Requests, v \in Users :
                 \/ Join(q, v) \/ Send(q, v) \/ Post(q, v) \/ Read(q, v)
                 \/ \E S \in SUBSET Users, t \in {"group", "broadcast"} : Create(q, v, S, t)
                 \/ \E op \in {"add", "remove", "block", "unblock", "update"} :
                      \E S \in Targets(op) : Ask(q, op, v, S)
      BY <1>8, <2>2
    <2>3. CASE \E v \in Users : SetLink(v) \/ Touch(v)
      BY <1>9, <2>3
    <2> QED BY <1>12, <2>1, <2>2, <2>3 DEF Next, Moves
  <1> QED BY <1>10, <1>12

\* The unread counts hide no message, with any number of requests under way.
THEOREM Counted == Spec => []CountsUnseen
  <1>1. Init => NothingUnseen /\ CountsUnseen
    <2> SUFFICES ASSUME Init PROVE NothingUnseen /\ CountsUnseen
      OBVIOUS
    <2>1. NothingUnseen
      BY DEF Init, NothingUnseen
    <2>2. ASSUME NEW u \in Users
          PROVE  unseen[u] <= unread[u] + lost + Cardinality(ToCount(u))
      <3>1. unseen[u] = 0 /\ unread[u] = 0 /\ lost = 0
        BY DEF Init
      <3>2. Cardinality(ToCount(u)) \in Nat
        BY ToCountFinite
      <3> QED BY <3>1, <3>2
    <2> QED BY <2>1, <2>2 DEF CountsUnseen, ToCount
  <1>2. TypeOK /\ NothingUnseen /\ CountsUnseen /\ [Next]_vars => CountsUnseen'
    BY CountsStep
  <1> QED BY InitTyped, TypedStep, NothingUnseenStep, <1>1, <1>2, PTL DEF Spec

-----------------------------------------------------------------------------
(* The messages: MInv                                                      *)

\* What the assumption says of messages, requests and options.
LEMMA MBounds == MaxStored \in Nat \ {0} /\ None \notin Requests /\ IsFiniteSet(Option)
  BY ChatAssumption

\* The instance counts as the module of finite sets does.
LEMMA MCounts == \A S : M!Cardinality(S) = Cardinality(S)
  BY DEF M!Cardinality, Cardinality

MVotes == SUBSET M!Vote
MRow   == [state : M!State, type : M!MessageType, content : BOOLEAN, expires : BOOLEAN, votes : MVotes]
MPins  == [M!Message -> Nat]
MLast  == M!Message \cup {0}
MDoc   == [lastMessage : MLast, pinned : MPins, disappearing : BOOLEAN]
MOp    == M!AnyOp \cup {"idle", "send"}
MAt    == {"idle", "store", "preview", "conversation", "write", "look", "message"}
MWho   == Users \cup {None}
MWhat  == M!Message \cup {None}
MReq   == [op : MOp, at : MAt, m : MWhat, u : MWho, type : M!MessageType, expires : BOOLEAN,
           votes : MVotes, already : BOOLEAN, outdated : BOOLEAN]
MTyped ==
  /\ message \in [M!Message -> MRow] /\ conversation \in MDoc /\ mreq \in [Requests -> MReq]
  /\ \A m \in M!Message : message[m].state = "none" => \A u \in Users : <<m, u>> \notin voted
\* Messages are numbered as they come.
MOrder == \E k \in Nat : M!Stored = 1..k

\* One answer of each user.
MSingle(votes) == \A v, w \in votes : v[2] = w[2] => v = w
MGone(row)     == row.state \in {"isDeleted", "expired"}
\* What a request relies on: its message was there; if it was removed since, or its
\* votes or pins were written, the request is outdated.
MHolds(docs, doc, q) ==
  /\ q.op \in M!AnyOp \/ q.at = "preview" => q.m \in M!Message /\ docs[q.m].state # "none"
  /\ q.at = "preview" => q.op = "send"
  /\ q.op \in M!AnyOp /\ ~(q.op = "pin" /\ q.at = "message") /\ MGone(docs[q.m]) => q.outdated
  /\ q.op = "pin" /\ ~q.already /\ ~q.outdated => doc.pinned[q.m] = 0
  /\ q.op = "pin" /\ q.at = "write" => ~q.already
  /\ q.op = "vote" => /\ docs[q.m].type = "single" => MSingle(q.votes)
                      /\ \E o \in Option : <<o, q.u>> \in q.votes
                      /\ ~q.outdated => docs[q.m].votes \subseteq q.votes
MRelied == \A r \in Requests : MHolds(message, conversation, mreq[r])
\* A message stored while another's preview was to come is known to have crossed it.
MWaiting == \A r \in Requests : mreq[r].at = "preview" =>
              \A n \in M!Newer(mreq[r].m) : <<"send", mreq[r].m, n>> \in crossed
MPreviews == M!NewestIsPreviewed /\ MWaiting
MInv == MTyped /\ MOrder /\ MRelied /\ M!PollsAndPinsHold /\ MPreviews

\* A slot at rest is a request that relies on nothing.
LEMMA MIdle ==
  /\ M!Idle \in MReq /\ M!Idle.at = "idle" /\ M!Idle.op = "idle"
  /\ \A docs, doc : MHolds(docs, doc, M!Idle)
<1>1. M!Idle.at = "idle" /\ M!Idle.op = "idle" /\ "idle" \notin M!AnyOp
  BY DEF M!Idle, M!AnyOp
<1>2. M!Idle \in MReq
  BY DEF M!Idle, MReq, MOp, MAt, MWho, MWhat, MVotes, M!MessageType
<1> QED
  BY <1>1, <1>2 DEF MHolds, M!AnyOp

\* The rows and the requests, field by field.
LEMMA MFields ==
  ASSUME MTyped
  PROVE  /\ \A m \in M!Message : /\ message[m] \in MRow /\ message[m].votes \in SUBSET M!Vote
                                 /\ message[m].type \in M!MessageType /\ message[m].state \in M!State
         /\ \A r \in Requests : /\ mreq[r] \in MReq /\ mreq[r].op \in MOp /\ mreq[r].at \in MAt /\ mreq[r].m \in MWhat
                                /\ mreq[r].u \in MWho /\ mreq[r].votes \in MVotes /\ mreq[r].type \in M!MessageType
                                /\ mreq[r].outdated \in BOOLEAN /\ mreq[r].expires \in BOOLEAN
         /\ conversation.pinned \in [M!Message -> Nat] /\ conversation.lastMessage \in MLast
         /\ conversation.disappearing \in BOOLEAN
  BY DEF MTyped, MRow, MReq, MDoc, MPins, MVotes

\* A conversation with one message or none.
LEMMA MInitInv == M!Init => MInv
<1> SUFFICES ASSUME M!Init PROVE MInv
  OBVIOUS
<1>0. 1 \in M!Message
  BY MBounds DEF M!Message
<1>1. PICK first \in 0..1, kind \in M!MessageType, expires \in BOOLEAN :
        /\ message = [m \in M!Message |-> IF m > first THEN M!NoMessage ELSE
             [M!NoMessage EXCEPT !.state = "stored", !.content = TRUE, !.type = kind, !.expires = expires]]
        /\ conversation = [lastMessage |-> first, pinned |-> [m \in M!Message |-> 0], disappearing |-> expires]
  BY DEF M!Init
<1> DEFINE row == [M!NoMessage EXCEPT !.state = "stored", !.content = TRUE, !.type = kind, !.expires = expires]
<1>2. row \in MRow /\ row.state = "stored" /\ row.votes = {}
  BY DEF M!NoMessage, MRow, M!State, MVotes
<1>3. M!NoMessage \in MRow /\ M!NoMessage.state = "none" /\ M!NoMessage.votes = {}
  BY DEF M!NoMessage, MRow, M!State, MVotes, M!MessageType
<1>4. message = [m \in M!Message |-> IF m > first THEN M!NoMessage ELSE row]
  BY <1>1
<1> HIDE DEF row
<1>5. message \in [M!Message -> MRow] /\ \A m \in M!Message : message[m].votes = {}
  BY <1>2, <1>3, <1>4
<1>6. conversation \in MDoc /\ conversation.lastMessage = first /\ \A m \in M!Message : conversation.pinned[m] = 0
  BY <1>0, <1>1 DEF MDoc, MPins, MLast
<1>7. M!Stored = 1..first
  <2>1. \A m \in M!Message : message[m].state # "none" <=> m <= first
    BY <1>2, <1>3, <1>4 DEF M!Message
  <2>2. 1..first \subseteq M!Message
    BY MBounds DEF M!Message
  <2> QED
    BY <2>1, <2>2 DEF M!Stored, M!Message
<1>8. MTyped
  BY <1>5, <1>6, MIdle DEF M!Init, MTyped
<1>9. MRelied
  BY MIdle DEF M!Init, MRelied
<1>10. M!PollsAndPinsHold
  BY <1>5, <1>6 DEF M!Init, M!PollsAndPinsHold
<1>11. MPreviews
  <2>1. M!Newer(first) = {}
    BY <1>7 DEF M!Newer
  <2> QED
    BY <1>6, <2>1, MIdle DEF M!Init, MPreviews, MWaiting, M!NewestIsPreviewed
<1> QED
  BY <1>7, <1>8, <1>9, <1>10, <1>11 DEF MInv, MOrder

\* The previews stay as they should while messages, the preview and the requests that are
\* to write one stay, and what has crossed stays known.
LEMMA MPreviewsKept ==
  ASSUME MInv, M!Stored' = M!Stored, conversation'.lastMessage = conversation.lastMessage, unpreviewed' = unpreviewed,
         \A a, b : <<"send", a, b>> \in crossed => <<"send", a, b>> \in crossed',
         \A q \in Requests : mreq[q].at = "preview" \/ mreq'[q].at = "preview" =>
           mreq'[q].at = mreq[q].at /\ mreq'[q].op = mreq[q].op /\ mreq'[q].m = mreq[q].m
  PROVE  MPreviews'
<1>1. \A x : M!Newer(x)' = M!Newer(x)
  BY DEF M!Newer
<1>2. ASSUME NEW n \in M!Newer(conversation.lastMessage)
      PROVE  \/ n \in unpreviewed' \/ <<"send", conversation'.lastMessage, n>> \in crossed'
             \/ \E q \in Requests : M!At(q, "send", "preview")' /\ mreq'[q].m = n
  <2>1. \/ n \in unpreviewed \/ <<"send", conversation.lastMessage, n>> \in crossed
        \/ \E q \in Requests : M!At(q, "send", "preview") /\ mreq[q].m = n
    BY DEF MInv, MPreviews, M!NewestIsPreviewed
  <2> QED
    BY <2>1 DEF M!At
<1>3. M!Newer(conversation.lastMessage)' = M!Newer(conversation.lastMessage)
  BY DEF M!Newer
<1>4. M!NewestIsPreviewed'
  BY <1>2, <1>3 DEF M!NewestIsPreviewed
<1>5. MWaiting'
  <2> SUFFICES ASSUME NEW q \in Requests, mreq'[q].at = "preview", NEW n \in M!Newer(mreq[q].m)
               PROVE  <<"send", mreq[q].m, n>> \in crossed'
    BY DEF MWaiting, M!Newer
  <2> QED
    BY DEF MInv, MPreviews, MWaiting
<1> QED
  BY <1>4, <1>5 DEF MPreviews

\* A request moves on; rows, votes, pins and previews are as they were.
LEMMA MMoves ==
  ASSUME MInv, NEW r \in Requests, NEW new \in MReq, mreq[r].at # "preview", new.at # "preview",
         MHolds(message, conversation, new),
         mreq' = [mreq EXCEPT ![r] = new], UNCHANGED <<message, voted, crossed, unpreviewed, conversation>>
  PROVE  MInv'
<1>1. mreq' \in [Requests -> MReq] /\ mreq'[r] = new /\ \A q \in Requests \ {r} : mreq'[q] = mreq[q]
  BY DEF MInv, MTyped
<1>2. MTyped'
  BY <1>1 DEF MInv, MTyped
<1>3. MOrder'
  BY DEF MInv, MOrder, M!Stored
<1>4. MRelied'
  BY <1>1 DEF MInv, MRelied
<1>5. M!PollsAndPinsHold'
  BY DEF MInv, M!PollsAndPinsHold, M!Voted
<1>6. MPreviews'
  <2>1. M!Stored' = M!Stored
    BY DEF M!Stored
  <2>2. new.at # "preview"
    OBVIOUS
  <2> QED
    BY <1>1, <2>1, <2>2, MPreviewsKept
<1> QED
  BY <1>2, <1>3, <1>4, <1>5, <1>6 DEF MInv

\* A request has found its message, and its poll or pin as it should be.
LEMMA MAsksInv ==
  ASSUME MInv, NEW r \in Requests, NEW m \in M!Message, NEW u \in Users,
         \/ \E kind \in M!MessageType : M!AskSend(r, kind)
         \/ M!AskForward(r, m) \/ M!AskEdit(r, m) \/ M!AskReact(r, m, u)
         \/ M!AskStar(r, m, u) \/ M!AskPin(r, m)
         \/ \E options \in SUBSET Option : M!AskVote(r, m, u, options)
  PROVE  MInv'
<1>0. MTyped /\ m \in MWhat /\ u \in MWho
  BY DEF MInv, MWhat, MWho
<1>1. ASSUME NEW kind \in M!MessageType, M!AskSend(r, kind) PROVE MInv'
  <2> DEFINE new == [M!Idle EXCEPT !.op = "send", !.at = "store", !.type = kind, !.expires = conversation.disappearing]
  <2>1. new \in MReq
    BY MFields, <1>0 DEF M!Idle, MReq, MOp, MAt, MWhat, MWho, MVotes
  <2>2. new.op = "send" /\ new.at = "store" /\ "send" \notin M!AnyOp
    BY DEF M!Idle, M!AnyOp
  <2>3. mreq' = [mreq EXCEPT ![r] = new] /\ mreq[r] = M!Idle
    BY <1>1 DEF M!AskSend, M!Ask
  <2> HIDE DEF new
  <2>4. MHolds(message, conversation, new)
    BY <2>2 DEF MHolds, M!AnyOp
  <2> QED
    BY <1>1, <2>1, <2>2, <2>3, <2>4, MMoves, MIdle DEF M!AskSend, M!Ask
<1>2. ASSUME NEW new \in MReq, M!Live(m), M!Ask(r, new), new.m = m, new.at # "preview",
             new.op \in {"forward", "edit", "react", "star"}
      PROVE  MInv'
  <2>1. mreq' = [mreq EXCEPT ![r] = new] /\ mreq[r] = M!Idle /\ message[m].state = "stored"
    BY <1>2 DEF M!Ask, M!Live
  <2>2. MHolds(message, conversation, new)
    BY <1>2, <2>1 DEF MHolds, MGone
  <2> QED
    BY <1>2, <2>1, <2>2, MMoves, MIdle DEF M!Ask
<1>3. CASE M!AskForward(r, m)
  <2> DEFINE new == [M!Idle EXCEPT !.op = "forward", !.at = "conversation", !.m = m]
  <2>1. new \in MReq /\ new.op = "forward" /\ new.at = "conversation" /\ new.m = m
    BY <1>0 DEF M!Idle, MReq, MOp, MAt, MVotes, MWho, M!MessageType, M!AnyOp
  <2>2. M!Live(m) /\ M!Ask(r, new)
    BY <1>3 DEF M!AskForward
  <2> HIDE DEF new
  <2> QED
    BY <1>2, <2>1, <2>2
<1>8. CASE M!AskEdit(r, m)
  <2> DEFINE new == [M!Idle EXCEPT !.op = "edit", !.at = "write", !.m = m]
  <2>1. new \in MReq /\ new.op = "edit" /\ new.at = "write" /\ new.m = m
    BY <1>0 DEF M!Idle, MReq, MOp, MAt, MVotes, MWho, M!MessageType, M!AnyOp
  <2>2. M!Live(m) /\ M!Ask(r, new)
    BY <1>8 DEF M!AskEdit
  <2> HIDE DEF new
  <2> QED
    BY <1>2, <2>1, <2>2
<1>4. CASE M!AskReact(r, m, u)
  <2> DEFINE new == [M!Idle EXCEPT !.op = "react", !.at = "look", !.m = m, !.u = u]
  <2>1. new \in MReq /\ new.op = "react" /\ new.at = "look" /\ new.m = m
    BY <1>0 DEF M!Idle, MReq, MOp, MAt, MVotes, MWho, M!MessageType, M!AnyOp
  <2>2. M!Live(m) /\ M!Ask(r, new)
    BY <1>4 DEF M!AskReact
  <2> HIDE DEF new
  <2> QED
    BY <1>2, <2>1, <2>2
<1>5. CASE M!AskStar(r, m, u)
  <2> DEFINE new == [M!Idle EXCEPT !.op = "star", !.at = "write", !.m = m, !.u = u]
  <2>1. new \in MReq /\ new.op = "star" /\ new.at = "write" /\ new.m = m
    BY <1>0 DEF M!Idle, MReq, MOp, MAt, MVotes, MWho, M!MessageType, M!AnyOp
  <2>2. M!Live(m) /\ M!Ask(r, new)
    BY <1>5 DEF M!AskStar
  <2> HIDE DEF new
  <2> QED
    BY <1>2, <2>1, <2>2
<1>6. CASE M!AskPin(r, m)
  <2> DEFINE b == conversation.pinned[m] > 0
  <2>0. b \in BOOLEAN
    OBVIOUS
  <2>4. ~b => conversation.pinned[m] = 0
    BY MFields, <1>0
  <2> DEFINE new == [M!Idle EXCEPT !.op = "pin", !.at = "message", !.m = m, !.already = b]
  <2>1. new \in MReq
    BY MFields, <1>0, <2>0 DEF M!Idle, MReq, MOp, MAt, MVotes, MWho, M!MessageType, M!AnyOp
  <2>2. new.op = "pin" /\ new.at = "message" /\ new.m = m /\ new.already = b
    BY DEF M!Idle
  <2>3. mreq' = [mreq EXCEPT ![r] = new] /\ mreq[r] = M!Idle /\ message[m].state # "none"
    BY <1>6 DEF M!AskPin, M!Ask, M!Stored
  <2> HIDE DEF new, b
  <2>5. MHolds(message, conversation, new)
    BY <2>2, <2>3, <2>4 DEF MHolds
  <2> QED
    BY <1>6, <2>1, <2>2, <2>3, <2>5, MMoves, MIdle DEF M!AskPin, M!Ask
<1>7. ASSUME NEW options \in SUBSET Option, M!AskVote(r, m, u, options) PROVE MInv'
  <2> DEFINE votes == message[m].votes \cup (options \X {u})
             new   == [M!Idle EXCEPT !.op = "vote", !.at = "write", !.m = m, !.u = u, !.votes = votes]
  <2>0. votes \in MVotes
    BY MFields, <1>0 DEF MVotes, M!Vote
  <2>6. \E o \in Option : <<o, u>> \in votes
    BY <1>7 DEF M!AskVote
  <2>7. message[m].type = "single" => MSingle(votes)
    <3> SUFFICES ASSUME message[m].type = "single", NEW v \in votes, NEW w \in votes, v[2] = w[2]
                 PROVE  v = w
      BY DEF MSingle
    <3>1. Cardinality(options) = 1 /\ options # {} /\ ~M!Voted(m, u)
      BY <1>7, MCounts DEF M!AskVote
    <3>2. IsFiniteSet(options) => \E o : options = {o}
      BY <3>1, FS_Singleton
    <3>3. PICK o : options = {o}
      BY <3>1, <3>2, MBounds, FS_Subset
    <3>4. v \in M!Vote /\ w \in M!Vote
      BY <2>0 DEF MVotes
    <3>5. v \in message[m].votes /\ w \in message[m].votes => v = w
      BY DEF MInv, M!PollsAndPinsHold
    <3>6. \A x \in message[m].votes : x[2] # u
      <4> SUFFICES ASSUME NEW x \in message[m].votes, x[2] = u PROVE FALSE
        OBVIOUS
      <4>1. x \in M!Vote
        BY MFields, <1>0
      <4>2. x = <<x[1], u>> /\ x[1] \in Option
        BY <4>1 DEF M!Vote
      <4> QED
        BY <3>1, <4>2 DEF M!Voted
    <3>7. \A x \in options \X {u} : x = <<o, u>>
      BY <3>3
    <3> QED
      BY <3>5, <3>6, <3>7
  <2>8. message[m].votes \subseteq votes
    OBVIOUS
  <2> HIDE DEF votes
  <2>1. new \in MReq
    BY MFields, <1>0, <2>0 DEF M!Idle, MReq, MOp, MAt, M!MessageType, M!AnyOp
  <2>2. new.op = "vote" /\ new.at = "write" /\ new.m = m /\ new.u = u /\ new.votes = votes
    BY DEF M!Idle
  <2>3. mreq' = [mreq EXCEPT ![r] = new] /\ mreq[r] = M!Idle /\ message[m].state = "stored"
    BY <1>7 DEF M!AskVote, M!Ask, M!Live, votes
  <2> HIDE DEF new
  <2>5. MHolds(message, conversation, new)
    BY <2>2, <2>3, <2>6, <2>7, <2>8 DEF MHolds, MGone
  <2> QED
    BY <1>7, <2>1, <2>2, <2>3, <2>5, MMoves, MIdle DEF M!AskVote, M!Ask
<1> QED
  BY <1>1, <1>3, <1>4, <1>5, <1>6, <1>7, <1>8

\* A request reads on, or ends without a write.
LEMMA MReadsInv ==
  ASSUME MInv, NEW r \in Requests, M!ForwardTarget(r) \/ M!Missing(r) \/ M!LookReaction(r) \/ M!LoadPinned(r)
  PROVE  MInv'
<1>0. MTyped /\ MHolds(message, conversation, mreq[r])
  BY DEF MInv, MRelied
<1>1. CASE M!ForwardTarget(r)
  <2> DEFINE new == [mreq[r] EXCEPT !.at = "store", !.expires = conversation.disappearing]
  <2>1. new \in MReq /\ new.op = mreq[r].op /\ new.at = "store" /\ new.m = mreq[r].m /\ new.outdated = mreq[r].outdated
    BY MFields, <1>0 DEF MReq, MAt
  <2>2. mreq' = [mreq EXCEPT ![r] = new] /\ mreq[r].op = "forward" /\ mreq[r].at = "conversation"
    BY <1>1 DEF M!ForwardTarget, M!Goto, M!At
  <2> HIDE DEF new
  <2>3. MHolds(message, conversation, new)
    BY MFields, <1>0, <2>1, <2>2 DEF MHolds
  <2> QED
    BY <1>1, <2>1, <2>2, <2>3, MMoves DEF M!ForwardTarget, M!Goto
<1>2. CASE M!LookReaction(r)
  <2> DEFINE b == <<mreq[r].m, mreq[r].u>> \in reactions
  <2>0. b \in BOOLEAN
    OBVIOUS
  <2> DEFINE new == [mreq[r] EXCEPT !.at = "write", !.already = b]
  <2>1. new \in MReq /\ new.op = mreq[r].op /\ new.at = "write" /\ new.m = mreq[r].m /\ new.outdated = mreq[r].outdated
    BY MFields, <1>0, <2>0 DEF MReq, MAt
  <2>2. mreq' = [mreq EXCEPT ![r] = new] /\ mreq[r].op = "react" /\ mreq[r].at = "look"
    BY <1>2 DEF M!LookReaction, M!Goto, M!At
  <2> HIDE DEF new, b
  <2>3. MHolds(message, conversation, new)
    BY MFields, <1>0, <2>1, <2>2 DEF MHolds
  <2> QED
    BY <1>2, <2>1, <2>2, <2>3, MMoves DEF M!LookReaction, M!Goto
<1>3. CASE M!LoadPinned(r) /\ M!Live(mreq[r].m) /\ ~mreq[r].already
  <2> DEFINE new == [mreq[r] EXCEPT !.at = "write"]
  <2>1. /\ new \in MReq /\ new.op = mreq[r].op /\ new.at = "write" /\ new.m = mreq[r].m
        /\ new.outdated = mreq[r].outdated /\ new.already = mreq[r].already
    BY MFields, <1>0 DEF MReq, MAt
  <2>2. mreq' = [mreq EXCEPT ![r] = new] /\ mreq[r].op = "pin" /\ mreq[r].at = "message" /\ message[mreq[r].m].state = "stored"
    BY <1>3 DEF M!LoadPinned, M!Goto, M!At, M!Live
  <2> HIDE DEF new
  <2>3. MHolds(message, conversation, new)
    BY MFields, <1>0, <1>3, <2>1, <2>2 DEF MHolds, MGone
  <2> QED
    BY <1>3, <2>1, <2>2, <2>3, MMoves DEF M!LoadPinned, M!Goto
<1>4. CASE M!Missing(r) \/ (M!LoadPinned(r) /\ ~(M!Live(mreq[r].m) /\ ~mreq[r].already))
  <2>1. mreq' = [mreq EXCEPT ![r] = M!Idle] /\ UNCHANGED <<message, voted, crossed, unpreviewed, conversation>> /\ mreq[r].at # "preview"
    BY <1>4 DEF M!Missing, M!LoadPinned, M!Throw, M!Goto, M!At
  <2> QED
    BY <2>1, MIdle, MMoves
<1> QED
  BY <1>1, <1>2, <1>3, <1>4

\* Reactions, stars and the switch for what disappears touch nothing of this.
LEMMA MSidesInv ==
  ASSUME MInv,
         \/ \E r \in Requests : M!React(r) \/ M!Star(r)
         \/ \E m \in M!Message, u \in Users : M!Unstar(m, u)
         \/ \E enabled \in BOOLEAN : M!SetDisappearing(enabled)
  PROVE  MInv'
<1>0. MTyped
  BY DEF MInv
<1>1. ASSUME NEW r \in Requests, M!React(r) \/ M!Star(r) PROVE MInv'
  <2>1. /\ mreq' = [mreq EXCEPT ![r] = M!Idle] /\ mreq[r].at = "write"
        /\ UNCHANGED <<message, voted, crossed, unpreviewed, conversation>>
    BY <1>1 DEF M!React, M!Star, M!At
  <2> QED
    BY <2>1, MIdle, MMoves
<1>2. ASSUME UNCHANGED <<message, voted, crossed, unpreviewed, mreq>>, conversation' \in MDoc,
             conversation'.pinned = conversation.pinned, conversation'.lastMessage = conversation.lastMessage
      PROVE  MInv'
  <2>1. M!Stored' = M!Stored
    BY <1>2 DEF M!Stored
  <2>2. MPreviews'
    BY <1>2, <2>1, MPreviewsKept
  <2> QED
    BY <1>2, <2>1, <2>2 DEF MInv, MTyped, MOrder, MRelied, MHolds, M!PollsAndPinsHold, M!Voted
<1>3. ASSUME NEW m \in M!Message, NEW u \in Users, M!Unstar(m, u) PROVE MInv'
  BY <1>0, <1>2, <1>3 DEF M!Unstar, MTyped
<1>4. ASSUME NEW enabled \in BOOLEAN, M!SetDisappearing(enabled) PROVE MInv'
  <2>1. conversation' = [conversation EXCEPT !.disappearing = enabled] /\ conversation \in MDoc
    BY <1>0, <1>4 DEF M!SetDisappearing, MTyped
  <2>2. /\ conversation' \in MDoc
        /\ conversation'.pinned = conversation.pinned /\ conversation'.lastMessage = conversation.lastMessage
    BY <2>1 DEF MDoc
  <2> QED
    BY <1>2, <1>4, <2>2 DEF M!SetDisappearing
<1> QED
  BY <1>1, <1>3, <1>4

\* r is over, and the requests of ops on message m are outdated.
MOutdates(r, m, ops) ==
  /\ mreq' \in [Requests -> MReq]
  /\ \A q \in Requests : q = r => mreq'[q] = M!Idle
  /\ \A q \in Requests : q # r =>
       /\ mreq'[q].op = mreq[q].op /\ mreq'[q].at = mreq[q].at /\ mreq'[q].m = mreq[q].m /\ mreq'[q].u = mreq[q].u
       /\ mreq'[q].votes = mreq[q].votes /\ mreq'[q].already = mreq[q].already
       /\ mreq[q].outdated \/ (mreq[q].m = m /\ mreq[q].op \in ops) => mreq'[q].outdated

LEMMA MOutdated ==
  ASSUME MTyped, NEW r, NEW m, NEW ops, mreq' = M!Outdated(r, m, ops)
  PROVE  MOutdates(r, m, ops)
<1>1. \A q \in Requests : q = r => mreq'[q] = M!Idle
  BY DEF M!Outdated
<1>2. ASSUME NEW q \in Requests, q # r
      PROVE  /\ mreq'[q] \in MReq
             /\ mreq'[q].op = mreq[q].op /\ mreq'[q].at = mreq[q].at /\ mreq'[q].m = mreq[q].m /\ mreq'[q].u = mreq[q].u
             /\ mreq'[q].votes = mreq[q].votes /\ mreq'[q].already = mreq[q].already
             /\ mreq[q].outdated \/ (mreq[q].m = m /\ mreq[q].op \in ops) => mreq'[q].outdated
  <2>1. PICK b \in BOOLEAN : b = (mreq[q].outdated \/ (mreq[q].m = m /\ mreq[q].op \in ops))
    OBVIOUS
  <2>2. mreq'[q] = [mreq[q] EXCEPT !.outdated = b]
    BY <1>2, <2>1 DEF M!Outdated
  <2>3. mreq[q] \in MReq
    BY DEF MTyped
  <2>4. /\ mreq'[q] \in MReq /\ mreq'[q].outdated = b
        /\ mreq'[q].op = mreq[q].op /\ mreq'[q].at = mreq[q].at /\ mreq'[q].m = mreq[q].m /\ mreq'[q].u = mreq[q].u
        /\ mreq'[q].votes = mreq[q].votes /\ mreq'[q].already = mreq[q].already
    BY <2>2, <2>3 DEF MReq
  <2> QED
    BY <2>1, <2>4
<1>3. mreq' \in [Requests -> MReq]
  <2>1. DOMAIN mreq' = Requests /\ mreq' = [q \in Requests |-> mreq'[q]]
    BY DEF M!Outdated
  <2>2. \A q \in Requests : mreq'[q] \in MReq
    BY <1>1, <1>2, MIdle
  <2> QED
    BY <2>1, <2>2
<1> QED
  BY <1>1, <1>2, <1>3 DEF MOutdates

\* A write to message m or to its pins outdates the requests that rely on what it changes.
LEMMA MWrites ==
  ASSUME MInv, NEW r, NEW m \in M!Message, NEW ops, MOutdates(r, m, ops), r \in Requests => mreq[r].at # "preview",
         message' \in [M!Message -> MRow], conversation' \in MDoc,
         conversation'.lastMessage = conversation.lastMessage, unpreviewed' = unpreviewed,
         \A a, b : <<"send", a, b>> \in crossed => <<"send", a, b>> \in crossed',
         \A n \in M!Message \ {m} : message'[n] = message[n] /\ conversation'.pinned[n] = conversation.pinned[n],
         message'[m].type = message[m].type,
         message'[m].state = "none" <=> message[m].state = "none",
         message'[m].votes # message[m].votes => "vote" \in ops,
         conversation'.pinned[m] # conversation.pinned[m] => "pin" \in ops,
         MGone(message'[m]) => MGone(message[m]) \/ ops = M!AnyOp
  PROVE  MOrder' /\ MRelied' /\ MPreviews' /\ mreq' \in [Requests -> MReq]
<1>1. M!Stored' = M!Stored
  BY DEF M!Stored
<1>2. MOrder'
  BY <1>1 DEF MInv, MOrder
<1>3. ASSUME NEW q \in Requests PROVE MHolds(message', conversation', mreq'[q])
  <2>1. CASE q = r
    BY <2>1, MIdle DEF MOutdates
  <2>2. CASE q # r
    <3>1. /\ mreq'[q].op = mreq[q].op /\ mreq'[q].at = mreq[q].at /\ mreq'[q].m = mreq[q].m /\ mreq'[q].u = mreq[q].u
          /\ mreq'[q].votes = mreq[q].votes /\ mreq'[q].already = mreq[q].already
          /\ mreq[q].outdated \/ (mreq[q].m = m /\ mreq[q].op \in ops) => mreq'[q].outdated
      BY <2>2 DEF MOutdates
    <3>2. MHolds(message, conversation, mreq[q])
      BY DEF MInv, MRelied
    <3> DEFINE n == mreq[q].m
    <3>3. /\ mreq[q].op \in M!AnyOp \/ mreq[q].at = "preview" => n \in M!Message /\ message'[n].state # "none"
          /\ mreq[q].at = "preview" => mreq[q].op = "send"
          /\ mreq[q].op = "pin" /\ mreq[q].at = "write" => ~mreq[q].already
      BY <3>2 DEF MHolds
    <3>4. mreq[q].op \in M!AnyOp /\ ~(mreq[q].op = "pin" /\ mreq[q].at = "message") /\ MGone(message'[n]) => mreq'[q].outdated
      BY <3>1, <3>2, <3>3 DEF MHolds
    <3>5. mreq[q].op = "pin" /\ ~mreq[q].already /\ ~mreq'[q].outdated => conversation'.pinned[n] = 0
      BY <3>1, <3>2, <3>3 DEF MHolds, M!AnyOp
    <3>6. mreq[q].op = "vote" => /\ message'[n].type = "single" => MSingle(mreq[q].votes)
                                 /\ \E o \in Option : <<o, mreq[q].u>> \in mreq[q].votes
                                 /\ ~mreq'[q].outdated => message'[n].votes \subseteq mreq[q].votes
      <4> SUFFICES ASSUME mreq[q].op = "vote"
                   PROVE  /\ message'[n].type = "single" => MSingle(mreq[q].votes)
                          /\ \E o \in Option : <<o, mreq[q].u>> \in mreq[q].votes
                          /\ ~mreq'[q].outdated => message'[n].votes \subseteq mreq[q].votes
        OBVIOUS
      <4>1. n \in M!Message /\ message'[n].type = message[n].type
        BY <3>3 DEF M!AnyOp
      <4>2. ~mreq'[q].outdated => message'[n].votes = message[n].votes /\ ~mreq[q].outdated
        BY <3>1, <4>1
      <4> QED
        BY <3>2, <4>1, <4>2 DEF MHolds
    <3> QED
      BY <3>1, <3>3, <3>4, <3>5, <3>6 DEF MHolds
  <2> QED
    BY <2>1, <2>2
<1>4. MRelied'
  BY <1>3 DEF MRelied
<1>5. MPreviews'
  BY <1>1, MIdle, MPreviewsKept DEF MOutdates
<1> QED
  BY <1>2, <1>4, <1>5 DEF MOutdates

\* Where no vote, pin or mark changes, votes and pins stay as they should.
LEMMA MPollsKept ==
  ASSUME MInv, UNCHANGED <<voted, crossed, conversation>>,
         \A n \in M!Message : message'[n].votes = message[n].votes /\ message'[n].type = message[n].type
  PROVE  M!PollsAndPinsHold'
<1>1. \A n \in M!Message, u \in Users : M!Voted(n, u)' <=> M!Voted(n, u)
  BY DEF M!Voted
<1>2. \A n \in M!Message, u \in Users : <<n, u>> \in voted => M!Voted(n, u) \/ <<"vote", n>> \in crossed
  BY DEF MInv, M!PollsAndPinsHold
<1>3. \A n \in M!Message : message[n].type = "single" => MSingle(message[n].votes)
  BY DEF MInv, M!PollsAndPinsHold, MSingle
<1>4. \A n \in M!Message : conversation.pinned[n] <= 1 \/ <<"pin", n>> \in crossed
  BY DEF MInv, M!PollsAndPinsHold
<1>5. \A n \in M!Message, u \in Users : <<n, u>> \in voted' => M!Voted(n, u)' \/ <<"vote", n>> \in crossed'
  BY <1>1, <1>2
<1>6. \A n \in M!Message : message'[n].type = "single" => MSingle(message'[n].votes)
  BY <1>3
<1> QED
  BY <1>4, <1>5, <1>6 DEF M!PollsAndPinsHold, MSingle

\* Content for a message, perhaps for one that is gone.
LEMMA MEditInv ==
  ASSUME MInv, NEW r \in Requests, M!Edit(r)
  PROVE  MInv'
<1> DEFINE m == mreq[r].m
<1>0. MTyped /\ MHolds(message, conversation, mreq[r])
  BY DEF MInv, MRelied
<1>1. /\ message' = [message EXCEPT ![m].content = TRUE] /\ mreq' = [mreq EXCEPT ![r] = M!Idle]
      /\ UNCHANGED <<conversation, voted, crossed, unpreviewed>> /\ mreq[r].op = "edit" /\ mreq[r].at = "write"
  BY DEF M!Edit, M!At
<1>2. m \in M!Message
  BY <1>0, <1>1 DEF MHolds, M!AnyOp
<1> HIDE DEF m
<1>3. /\ message'[m] \in MRow /\ message'[m].state = message[m].state /\ message'[m].type = message[m].type
      /\ message'[m].votes = message[m].votes
  BY <1>0, <1>1, <1>2 DEF MTyped, MRow
<1>4. message' \in [M!Message -> MRow] /\ \A n \in M!Message \ {m} : message'[n] = message[n]
  BY <1>0, <1>1, <1>2, <1>3 DEF MTyped
<1>5. MOutdates(r, m, {})
  BY <1>0, <1>1, MIdle DEF MTyped, MOutdates
<1>6. MGone(message'[m]) => MGone(message[m])
  BY <1>3 DEF MGone
<1>7. MOrder' /\ MRelied' /\ MPreviews' /\ mreq' \in [Requests -> MReq]
  BY <1>0, <1>1, <1>2, <1>3, <1>4, <1>5, <1>6, MWrites DEF MTyped
<1>8. MTyped'
  BY <1>0, <1>1, <1>3, <1>4, <1>7 DEF MTyped
<1>9. M!PollsAndPinsHold'
  BY <1>1, <1>3, <1>4, MPollsKept
<1> QED
  BY <1>7, <1>8, <1>9 DEF MInv

\* A deletion, or MongoDB's removal of what has expired.
LEMMA MRemoveInv ==
  ASSUME MInv, NEW m \in M!Message, M!DeleteMessage(m) \/ M!Expire(m)
  PROVE  MInv'
<1>0. MTyped
  BY DEF MInv
<1>1. PICK state \in {"isDeleted", "expired"} : M!Remove(m, state, FALSE)
  BY DEF M!DeleteMessage, M!Expire
<1>2. M!Found(m)
  BY DEF M!DeleteMessage, M!Expire
<1>3. /\ message' = [message EXCEPT ![m].state = state, ![m].content = FALSE] /\ mreq' = M!Outdated(None, m, M!AnyOp)
      /\ UNCHANGED <<conversation, voted, crossed, unpreviewed>>
  BY <1>1 DEF M!Remove
<1>4. /\ message'[m] \in MRow /\ message'[m].state = state /\ message'[m].type = message[m].type
      /\ message'[m].votes = message[m].votes
  BY <1>0, <1>3 DEF MTyped, MRow, M!State
<1>5. message' \in [M!Message -> MRow] /\ \A n \in M!Message \ {m} : message'[n] = message[n]
  BY <1>0, <1>3, <1>4 DEF MTyped
<1>6. MOutdates(None, m, M!AnyOp)
  BY <1>0, <1>3, MOutdated
<1>7. message'[m].state # "none" /\ message[m].state # "none"
  BY <1>2, <1>4 DEF M!Found
<1>8. MOrder' /\ MRelied' /\ MPreviews' /\ mreq' \in [Requests -> MReq]
  <2>1. None \notin Requests /\ conversation' \in MDoc
    BY <1>0, <1>3, MBounds DEF MTyped
  <2> QED
    BY <1>3, <1>4, <1>5, <1>6, <1>7, <2>1, MWrites
<1>9. MTyped'
  BY <1>0, <1>3, <1>5, <1>7, <1>8 DEF MTyped
<1>10. M!PollsAndPinsHold'
  BY <1>3, <1>4, <1>5, MPollsKept
<1> QED
  BY <1>8, <1>9, <1>10 DEF MInv

\* A pin beside the others, on a look that found none; and an unpin.
LEMMA MPinsInv ==
  ASSUME MInv, NEW m \in M!Message,
         M!UnpinMessage(m) \/ \E r \in Requests : M!Pin(r) /\ m = mreq[r].m
  PROVE  MInv'
<1>0. MTyped /\ conversation.pinned \in [M!Message -> Nat]
  BY MFields DEF MInv
<1>1. ASSUME NEW who, NEW n \in Nat, who \in Requests => mreq[who].at # "preview", mreq' = M!Outdated(who, m, {"pin"}),
             conversation' = [conversation EXCEPT !.pinned[m] = n], UNCHANGED <<message, voted, unpreviewed>>,
             n <= 1 \/ <<"pin", m>> \in crossed',
             \A x : x \in crossed /\ x # <<"pin", m>> => x \in crossed'
      PROVE  MInv'
  <2>1. /\ conversation'.pinned = [conversation.pinned EXCEPT ![m] = n]
        /\ conversation'.lastMessage = conversation.lastMessage /\ conversation'.disappearing = conversation.disappearing
        /\ DOMAIN conversation' = DOMAIN conversation /\ conversation \in MDoc
    BY <1>0, <1>1 DEF MTyped, MDoc
  <2>2. conversation'.pinned \in MPins /\ conversation'.pinned[m] = n
        /\ \A k \in M!Message \ {m} : conversation'.pinned[k] = conversation.pinned[k]
    BY <1>0, <1>1, <2>1 DEF MPins
  <2>3. conversation' \in MDoc
    <3> DEFINE pins == [conversation.pinned EXCEPT ![m] = n]
    <3>1. conversation' = [conversation EXCEPT !.pinned = pins] /\ pins \in MPins
      BY <1>1, <2>1, <2>2
    <3> HIDE DEF pins
    <3> QED
      BY <2>1, <3>1 DEF MDoc
  <2>4. MOutdates(who, m, {"pin"})
    BY <1>0, <1>1, MOutdated
  <2>5. MOrder' /\ MRelied' /\ MPreviews' /\ mreq' \in [Requests -> MReq]
    <3>1. \A a, b : <<"send", a, b>> # <<"pin", m>>
      OBVIOUS
    <3>2. \A a, b : <<"send", a, b>> \in crossed => <<"send", a, b>> \in crossed'
      BY <1>1, <3>1
    <3> QED
      BY <1>0, <1>1, <2>1, <2>2, <2>3, <2>4, <3>2, MWrites DEF MTyped
  <2>6. MTyped'
    BY <1>0, <1>1, <2>3, <2>5 DEF MTyped
  <2>7. M!PollsAndPinsHold'
    <3>1. \A k \in M!Message : conversation'.pinned[k] <= 1 \/ <<"pin", k>> \in crossed'
      <4> SUFFICES ASSUME NEW k \in M!Message, k # m PROVE conversation'.pinned[k] <= 1 \/ <<"pin", k>> \in crossed'
        BY <1>1, <2>2
      <4>1. <<"pin", k>> # <<"pin", m>>
        OBVIOUS
      <4>2. conversation.pinned[k] <= 1 \/ <<"pin", k>> \in crossed
        BY DEF MInv, M!PollsAndPinsHold
      <4> QED
        BY <1>1, <2>2, <4>1, <4>2
    <3>2. \A k \in M!Message : <<"vote", k>> \in crossed => <<"vote", k>> \in crossed'
      <4>1. \A k \in M!Message : <<"vote", k>> # <<"pin", m>>
        OBVIOUS
      <4> QED
        BY <1>1, <4>1
    <3> QED
      BY <1>1, <3>1, <3>2 DEF MInv, M!PollsAndPinsHold, M!Voted
  <2> QED
    BY <2>5, <2>6, <2>7 DEF MInv
<1>2. CASE M!UnpinMessage(m)
  <2>1. /\ conversation' = [conversation EXCEPT !.pinned[m] = 0] /\ mreq' = M!Outdated(None, m, {"pin"})
        /\ crossed' = crossed \ {<<"pin", m>>} /\ UNCHANGED <<message, voted, unpreviewed>>
    BY <1>2 DEF M!UnpinMessage
  <2>2. \A x : x \in crossed /\ x # <<"pin", m>> => x \in crossed'
    BY <2>1
  <2> QED
    BY <1>1, <2>1, <2>2, MBounds
<1>3. ASSUME NEW r \in Requests, M!Pin(r), m = mreq[r].m PROVE MInv'
  <2>1. /\ conversation' = [conversation EXCEPT !.pinned[m] = @ + 1] /\ mreq' = M!Outdated(r, m, {"pin"})
        /\ crossed' = (IF mreq[r].outdated THEN crossed \cup {<<"pin", m>>} ELSE crossed)
        /\ UNCHANGED <<message, voted, unpreviewed>> /\ mreq[r].op = "pin" /\ mreq[r].at = "write"
    BY <1>3 DEF M!Pin, M!At
  <2> DEFINE n == conversation.pinned[m] + 1
  <2>2. n \in Nat /\ conversation' = [conversation EXCEPT !.pinned[m] = n]
    BY <1>0, <2>1
  <2>3. ~mreq[r].outdated => conversation.pinned[m] = 0
    BY <1>3, <2>1 DEF MInv, MRelied, MHolds
  <2>4. n <= 1 \/ <<"pin", m>> \in crossed'
    BY <2>1, <2>3
  <2>5. \A x : x \in crossed /\ x # <<"pin", m>> => x \in crossed'
    BY <2>1
  <2> HIDE DEF n
  <2> QED
    BY <1>1, <2>1, <2>2, <2>4, <2>5
<1> QED
  BY <1>2, <1>3

\* The list of votes that was read, with this one.
LEMMA MVoteInv ==
  ASSUME MInv, NEW r \in Requests, M!VotePoll(r)
  PROVE  MInv'
<1> DEFINE m == mreq[r].m
           u == mreq[r].u
           v == mreq[r].votes
<1>0. MTyped /\ MHolds(message, conversation, mreq[r]) /\ v \in MVotes
  BY MFields DEF MInv, MRelied
<1>1. /\ message' = [message EXCEPT ![m].votes = v] /\ mreq' = M!Outdated(r, m, {"vote"})
      /\ voted' = voted \cup {<<m, u>>}
      /\ crossed' = (IF mreq[r].outdated THEN crossed \cup {<<"vote", m>>} ELSE crossed)
      /\ UNCHANGED <<conversation, unpreviewed>> /\ M!Found(m) /\ mreq[r].op = "vote" /\ mreq[r].at = "write"
  BY DEF M!VotePoll, M!At
<1>2. /\ m \in M!Message
      /\ message[m].type = "single" => MSingle(v)
      /\ \E o \in Option : <<o, u>> \in v
      /\ ~mreq[r].outdated => message[m].votes \subseteq v
  BY <1>0, <1>1 DEF MHolds, M!AnyOp
<1> HIDE DEF m, u, v
<1>3. /\ message'[m] \in MRow /\ message'[m].state = message[m].state /\ message'[m].type = message[m].type
      /\ message'[m].votes = v /\ message[m].state # "none"
  <2>0. m \in M!Message /\ message' = [message EXCEPT ![m].votes = v] /\ message \in [M!Message -> MRow]
    BY <1>0, <1>1, <1>2 DEF MTyped
  <2>1. message[m] \in MRow /\ message'[m] = [message[m] EXCEPT !.votes = v]
    BY <2>0
  <2>2. message[m].state # "none"
    BY <1>1 DEF M!Found
  <2> QED
    BY <1>0, <2>1, <2>2 DEF MRow
<1>4. message' \in [M!Message -> MRow] /\ \A n \in M!Message \ {m} : message'[n] = message[n]
  BY <1>0, <1>1, <1>2, <1>3 DEF MTyped
<1>5. MOutdates(r, m, {"vote"})
  BY <1>0, <1>1, MOutdated
<1>6. MGone(message'[m]) => MGone(message[m])
  BY <1>3 DEF MGone
<1>7. MOrder' /\ MRelied' /\ MPreviews' /\ mreq' \in [Requests -> MReq]
  BY <1>0, <1>1, <1>2, <1>3, <1>4, <1>5, <1>6, MWrites DEF MTyped
<1>8. MTyped'
  <2>1. \A n \in M!Message : message'[n].state = "none" => \A w \in Users : <<n, w>> \notin voted'
    <3> SUFFICES ASSUME NEW n \in M!Message, message'[n].state = "none", NEW w \in Users PROVE <<n, w>> \notin voted'
      OBVIOUS
    <3>1. n # m /\ <<n, w>> \notin voted
      BY <1>0, <1>3, <1>4 DEF MTyped
    <3> QED
      BY <1>1, <3>1
  <2> QED
    BY <1>0, <1>1, <1>4, <1>7, <2>1 DEF MTyped
<1>9. M!PollsAndPinsHold'
  <2>1. ASSUME NEW n \in M!Message, NEW w \in Users, <<n, w>> \in voted'
        PROVE  M!Voted(n, w)' \/ <<"vote", n>> \in crossed'
    <3>1. CASE n # m
      <4>1. <<n, w>> \in voted
        BY <1>1, <2>1, <3>1
      <4>2. M!Voted(n, w) \/ <<"vote", n>> \in crossed
        BY <4>1 DEF MInv, M!PollsAndPinsHold
      <4> QED
        BY <1>1, <1>4, <3>1, <4>2 DEF M!Voted
    <3>2. CASE n = m /\ mreq[r].outdated
      BY <1>1, <3>2
    <3>3. CASE n = m /\ ~mreq[r].outdated
      <4>1. CASE w = u
        BY <1>2, <1>3, <3>3, <4>1 DEF M!Voted
      <4>2. CASE w # u
        <5>1. <<n, w>> \in voted
          BY <1>1, <2>1, <3>3, <4>2
        <5>2. M!Voted(n, w) \/ <<"vote", n>> \in crossed
          BY <5>1 DEF MInv, M!PollsAndPinsHold
        <5> QED
          BY <1>1, <1>2, <1>3, <3>3, <5>2 DEF M!Voted
      <4> QED
        BY <4>1, <4>2
    <3> QED
      BY <3>1, <3>2, <3>3
  <2>2. ASSUME NEW n \in M!Message, message'[n].type = "single" PROVE MSingle(message'[n].votes)
    <3>1. CASE n = m
      BY <1>2, <1>3, <2>2, <3>1
    <3>2. CASE n # m
      BY <1>4, <2>2, <3>2 DEF MInv, M!PollsAndPinsHold, MSingle
    <3> QED
      BY <3>1, <3>2
  <2>3. \A n \in M!Message : conversation'.pinned[n] <= 1 \/ <<"pin", n>> \in crossed'
    BY <1>1 DEF MInv, M!PollsAndPinsHold
  <2> QED
    BY <2>1, <2>2, <2>3 DEF M!PollsAndPinsHold, MSingle
<1> QED
  BY <1>7, <1>8, <1>9 DEF MInv

\* messageModel.create: the newest message, whose preview is to follow.
LEMMA MStoreInv ==
  ASSUME MInv, NEW r \in Requests, M!Store(r)
  PROVE  MInv'
<1> DEFINE row == [M!NoMessage EXCEPT !.state = "stored", !.content = TRUE, !.type = mreq[r].type, !.expires = mreq[r].expires]
           id  == M!NextId
           new == [M!Idle EXCEPT !.op = "send", !.at = "preview", !.m = id]
<1>0. /\ MTyped /\ mreq[r].type \in M!MessageType /\ mreq[r].expires \in BOOLEAN /\ mreq[r].at = "store" /\ id \in M!Message
      /\ message' = [message EXCEPT ![id] = row] /\ mreq' = [mreq EXCEPT ![r] = new]
      /\ UNCHANGED <<conversation, voted, unpreviewed>>
      /\ crossed' = crossed \cup {<<"send", mreq[q].m, id>> : q \in {q \in Requests : M!At(q, "send", "preview")}}
  BY MFields DEF MInv, M!Store
<1>1. PICK k \in Nat : M!Stored = 1..k
  BY DEF MInv, MOrder
<1>2. k \in Nat /\ id = k + 1
  <2>1. Cardinality(1..k) = k
    BY FS_Interval
  <2> QED
    BY <1>1, <2>1, MCounts DEF M!NextId
<1>3. row \in MRow /\ row.state = "stored" /\ row.votes = {}
  BY <1>0 DEF M!NoMessage, MRow, M!State, MVotes
<1>4. new \in MReq /\ new.op = "send" /\ new.at = "preview" /\ new.m = id
  BY <1>0 DEF M!Idle, MReq, MOp, MAt, MWhat, MWho, MVotes, M!MessageType
<1> HIDE DEF row, id, new
<1>5. message' \in [M!Message -> MRow] /\ message'[id] = row /\ \A n \in M!Message \ {id} : message'[n] = message[n]
  BY <1>0, <1>3 DEF MTyped
<1>6. mreq' \in [Requests -> MReq] /\ mreq'[r] = new /\ \A q \in Requests \ {r} : mreq'[q] = mreq[q]
  BY <1>0, <1>4 DEF MTyped
<1>7. id \notin M!Stored /\ message[id].state = "none" /\ \A n \in M!Stored : n \in M!Message /\ n # id /\ id > n
  <2>1. id \notin M!Stored /\ \A n \in M!Stored : n # id /\ id > n
    BY <1>1, <1>2
  <2> QED
    BY <1>0, <2>1 DEF M!Stored
<1>8. M!Stored' = M!Stored \cup {id}
  BY <1>0, <1>3, <1>5 DEF M!Stored
<1>9. MOrder'
  <2>1. M!Stored' = 1..(k + 1)
    BY <1>1, <1>2, <1>8 DEF M!Message
  <2> QED
    BY <1>0, <1>2, <2>1 DEF MOrder
<1>10. MTyped'
  <2>1. \A n \in M!Message : message'[n].state = "none" => \A w \in Users : <<n, w>> \notin voted'
    BY <1>0, <1>3, <1>5 DEF MTyped
  <2> QED
    BY <1>0, <1>5, <1>6, <2>1 DEF MTyped
<1>11. MRelied'
  <2> SUFFICES ASSUME NEW q \in Requests PROVE MHolds(message', conversation', mreq'[q])
    BY DEF MRelied
  <2>1. CASE q = r
    <3>1. "send" \notin M!AnyOp
      BY DEF M!AnyOp
    <3> QED
      BY <1>0, <1>3, <1>4, <1>5, <1>6, <2>1, <3>1 DEF MHolds
  <2>2. CASE q # r
    <3>1. MHolds(message, conversation, mreq[q]) /\ mreq'[q] = mreq[q]
      BY <1>6, <2>2 DEF MInv, MRelied
    <3>2. mreq[q].op \in M!AnyOp \/ mreq[q].at = "preview" => mreq[q].m \in M!Message \ {id}
      BY <1>7, <3>1 DEF MHolds
    <3> QED
      BY <1>0, <1>5, <3>1, <3>2 DEF MHolds, M!AnyOp
  <2> QED
    BY <2>1, <2>2
<1>12. M!PollsAndPinsHold'
  <2>1. ASSUME NEW n \in M!Message, NEW w \in Users, <<n, w>> \in voted'
        PROVE  M!Voted(n, w)' \/ <<"vote", n>> \in crossed'
    <3>1. n # id
      BY <1>0, <1>7, <2>1 DEF MTyped
    <3>2. M!Voted(n, w) \/ <<"vote", n>> \in crossed
      BY <1>0, <2>1 DEF MInv, M!PollsAndPinsHold
    <3> QED
      BY <1>0, <1>5, <3>1, <3>2 DEF M!Voted
  <2>2. ASSUME NEW n \in M!Message, message'[n].type = "single" PROVE MSingle(message'[n].votes)
    <3>1. CASE n = id
      BY <1>3, <1>5, <3>1 DEF MSingle
    <3>2. CASE n # id
      BY <1>5, <2>2, <3>2 DEF MInv, M!PollsAndPinsHold, MSingle
    <3> QED
      BY <3>1, <3>2
  <2>3. \A n \in M!Message : conversation'.pinned[n] <= 1 \/ <<"pin", n>> \in crossed'
    BY <1>0 DEF MInv, M!PollsAndPinsHold
  <2> QED
    BY <2>1, <2>2, <2>3 DEF M!PollsAndPinsHold, MSingle
<1>13. MPreviews'
  <2>1. \A x : M!Newer(x)' \subseteq M!Newer(x) \cup {id}
    BY <1>8 DEF M!Newer
  <2>2. M!NewestIsPreviewed'
    <3> SUFFICES ASSUME NEW n \in M!Newer(conversation.lastMessage) \cup {id}
                 PROVE  \/ n \in unpreviewed' \/ <<"send", conversation.lastMessage, n>> \in crossed'
                        \/ \E q \in Requests : mreq'[q].op = "send" /\ mreq'[q].at = "preview" /\ mreq'[q].m = n
      BY <1>0, <1>8 DEF M!NewestIsPreviewed, M!Newer, M!At
    <3>1. CASE n = id
      BY <1>4, <1>6, <3>1
    <3>2. CASE n \in M!Newer(conversation.lastMessage)
      <4>1. \/ n \in unpreviewed \/ <<"send", conversation.lastMessage, n>> \in crossed
            \/ \E q \in Requests : mreq[q].op = "send" /\ mreq[q].at = "preview" /\ mreq[q].m = n
        BY <3>2 DEF MInv, MPreviews, M!NewestIsPreviewed, M!At
      <4> QED
        BY <1>0, <1>6, <4>1
    <3> QED
      BY <3>1, <3>2
  <2>3. MWaiting'
    <3> SUFFICES ASSUME NEW q \in Requests, mreq'[q].at = "preview", NEW n \in M!Newer(mreq'[q].m) \cup {id},
                        n > mreq'[q].m
                 PROVE  <<"send", mreq'[q].m, n>> \in crossed'
      BY <1>8 DEF MWaiting, M!Newer
    <3>1. CASE q = r
      <4>1. mreq'[q].m = id /\ id \in Nat
        BY <1>2, <1>4, <1>6, <3>1
      <4>2. n \in M!Stored /\ n \in Nat
        BY <4>1 DEF M!Newer, M!Stored, M!Message
      <4> QED
        BY <1>7, <4>1, <4>2
    <3>2. CASE q # r
      <4>1. mreq'[q] = mreq[q] /\ mreq[q].op = "send"
        BY <1>6, <3>2 DEF MInv, MRelied, MHolds
      <4>2. CASE n = id
        BY <1>0, <4>1, <4>2 DEF M!At
      <4>3. CASE n \in M!Newer(mreq'[q].m)
        BY <1>0, <4>1, <4>3 DEF MInv, MPreviews, MWaiting
      <4> QED
        BY <4>2, <4>3
    <3> QED
      BY <3>1, <3>2
  <2> QED
    BY <2>2, <2>3 DEF MPreviews
<1> QED
  BY <1>9, <1>10, <1>11, <1>12, <1>13 DEF MInv

\* The preview, which may be that of an older message; a request that is cut off before it.
LEMMA MEndsInv ==
  ASSUME MInv, NEW r \in Requests, M!Preview(r) \/ M!Fail(r)
  PROVE  MInv'
<1> DEFINE m == mreq[r].m
<1>0. MTyped /\ MHolds(message, conversation, mreq[r])
  BY DEF MInv, MRelied
<1>1. mreq' = [mreq EXCEPT ![r] = M!Idle] /\ UNCHANGED <<message, voted, crossed>>
  BY DEF M!Preview, M!Fail
<1>2. mreq' \in [Requests -> MReq] /\ mreq'[r] = M!Idle /\ \A q \in Requests \ {r} : mreq'[q] = mreq[q]
  BY <1>0, <1>1, MIdle DEF MTyped
<1>3. \/ /\ mreq[r].at = "preview" /\ m \in M!Message /\ m \in M!Stored
         /\ conversation' = [conversation EXCEPT !.lastMessage = m]
         /\ unpreviewed' = unpreviewed
      \/ /\ conversation' = conversation
         /\ unpreviewed' = IF mreq[r].at = "preview" THEN unpreviewed \cup {m} ELSE unpreviewed
  <2>1. CASE M!Preview(r)
    BY <1>0, <2>1 DEF M!Preview, M!At, MHolds, M!Stored
  <2>2. CASE M!Fail(r)
    BY <2>2 DEF M!Fail
  <2> QED
    BY <2>1, <2>2
<1>4. /\ conversation' \in MDoc /\ conversation'.pinned = conversation.pinned
      /\ conversation' = [conversation EXCEPT !.lastMessage = m] /\ m \in M!Message => conversation'.lastMessage = m
  <2>1. conversation \in MDoc
    BY <1>0 DEF MTyped
  <2>2. CASE conversation' = conversation
    BY <2>1, <2>2 DEF MDoc
  <2>3. CASE m \in M!Message /\ conversation' = [conversation EXCEPT !.lastMessage = m]
    <3> HIDE DEF m
    <3> QED
      BY <2>1, <2>3 DEF MDoc, MLast
  <2> QED
    BY <1>3, <2>1, <2>2, <2>3 DEF MDoc
<1> HIDE DEF m
<1>5. MTyped'
  BY <1>0, <1>1, <1>2, <1>4 DEF MTyped
<1>6. M!Stored' = M!Stored /\ \A n \in M!Message : M!Newer(n)' = M!Newer(n)
  BY <1>1 DEF M!Stored, M!Newer
<1>7. MOrder'
  BY <1>6 DEF MInv, MOrder
<1>8. MRelied'
  BY <1>1, <1>2, <1>4, MIdle DEF MInv, MRelied, MHolds
<1>9. M!PollsAndPinsHold'
  BY <1>1, <1>4 DEF MInv, M!PollsAndPinsHold, M!Voted
<1>10. M!NewestIsPreviewed'
  <2> SUFFICES ASSUME NEW n \in M!Newer(conversation'.lastMessage)
               PROVE  \/ n \in unpreviewed' \/ <<"send", conversation'.lastMessage, n>> \in crossed
                      \/ \E q \in Requests : mreq'[q].op = "send" /\ mreq'[q].at = "preview" /\ mreq'[q].m = n
    BY <1>1, <1>6 DEF M!NewestIsPreviewed, M!At, M!Newer
  <2>1. CASE conversation' = conversation
    <3>1. \/ n \in unpreviewed \/ <<"send", conversation.lastMessage, n>> \in crossed
          \/ \E q \in Requests : mreq[q].op = "send" /\ mreq[q].at = "preview" /\ mreq[q].m = n
      BY <2>1 DEF MInv, MPreviews, M!NewestIsPreviewed, M!At
    <3>2. ASSUME NEW q \in Requests, mreq[q].op = "send", mreq[q].at = "preview", mreq[q].m = n
          PROVE  \/ n \in unpreviewed' \/ <<"send", conversation'.lastMessage, n>> \in crossed
                 \/ mreq'[q].op = "send" /\ mreq'[q].at = "preview" /\ mreq'[q].m = n
      <4>1. CASE q = r /\ conversation'.lastMessage # m
        BY <1>3, <1>4, <2>1, <3>2, <4>1 DEF m
      <4>2. CASE q = r /\ conversation'.lastMessage = m
        BY <3>2, <4>2 DEF m, MInv, MPreviews, MWaiting
      <4>3. CASE q # r
        BY <1>2, <3>2, <4>3
      <4> QED
        BY <4>1, <4>2, <4>3
    <3> QED
      BY <1>3, <2>1, <3>1, <3>2
  <2>2. CASE mreq[r].at = "preview" /\ conversation'.lastMessage = m
    BY <2>2 DEF m, MInv, MPreviews, MWaiting
  <2> QED
    BY <1>3, <1>4, <2>1, <2>2
<1>11. MWaiting'
  BY <1>1, <1>2, <1>6, MIdle DEF MInv, MPreviews, MWaiting, M!Newer, M!Stored
<1> QED
  BY <1>5, <1>7, <1>8, <1>9, <1>10, <1>11 DEF MInv, MPreviews

\* Every step keeps the invariant.
LEMMA MNextInv == MInv /\ [M!Next]_M!vars => MInv'
<1> SUFFICES ASSUME MInv, [M!Next]_M!vars PROVE MInv'
  OBVIOUS
<1>1. CASE M!Asks
  BY <1>1, MAsksInv DEF M!Asks
<1>2. CASE M!Steps
  <2>1. PICK r \in Requests :
          \/ M!ForwardTarget(r) \/ M!Store(r) \/ M!Preview(r) \/ M!Edit(r) \/ M!Missing(r)
          \/ M!LookReaction(r) \/ M!React(r) \/ M!Star(r) \/ M!LoadPinned(r) \/ M!Pin(r) \/ M!VotePoll(r) \/ M!Fail(r)
    BY <1>2 DEF M!Steps
  <2>2. CASE M!Pin(r)
    <3>1. MHolds(message, conversation, mreq[r]) /\ mreq[r].op = "pin"
      BY <2>2 DEF MInv, MRelied, M!Pin, M!At
    <3>2. mreq[r].m \in M!Message
      BY <3>1 DEF MHolds, M!AnyOp
    <3> QED
      BY <2>2, <3>2, MPinsInv
  <2>3. CASE M!React(r) \/ M!Star(r)
    BY <2>3, MSidesInv
  <2> QED
    BY <2>1, <2>2, <2>3, MReadsInv, MStoreInv, MEndsInv, MEditInv, MVoteInv
<1>3. CASE M!Writes
  <2>1. PICK m \in M!Message : M!DeleteMessage(m) \/ M!Expire(m) \/ M!UnpinMessage(m) \/ \E u \in Users : M!Unstar(m, u)
    BY <1>3 DEF M!Writes
  <2>2. CASE \E u \in Users : M!Unstar(m, u)
    BY <2>2, MSidesInv
  <2> QED
    BY <2>1, <2>2, MRemoveInv, MPinsInv
<1>4. CASE \E enabled \in BOOLEAN : M!SetDisappearing(enabled)
  BY <1>4, MSidesInv
<1>5. CASE UNCHANGED M!vars
  <2>1. M!Stored' = M!Stored
    BY <1>5 DEF M!vars, M!Stored
  <2>2. MPreviews'
    BY <1>5, <2>1, MPreviewsKept DEF M!vars
  <2> QED
    BY <1>5, <2>1, <2>2 DEF M!vars, MInv, MTyped, MOrder, MRelied, M!PollsAndPinsHold, M!Voted
<1> QED
  BY <1>1, <1>2, <1>3, <1>4, <1>5 DEF M!Next


\* What none of the four ways of adding to a message amounts to.
LEMMA MNothingAdded ==
  ASSUME MTyped, NEW m \in M!Message,
         message'[m].content => message[m].content,
         message'[m].votes \subseteq message[m].votes,
         conversation'.pinned[m] = conversation.pinned[m] \/ conversation'.pinned[m] = 0,
         \A u \in Users : <<m, u>> \in reactions' \cup starred' => <<m, u>> \in reactions \cup starred
  PROVE  ~M!Adds(m)
<1>1. conversation.pinned[m] \in Nat
  BY DEF MTyped, MDoc, MPins
<1>2. ~(conversation'.pinned[m] > conversation.pinned[m])
  BY <1>1
<1>3. ~(message[m]'.content /\ ~message[m].content) /\ message[m]'.votes \subseteq message[m].votes
  OBVIOUS
<1>4. ~\E u \in Users : <<m, u>> \in (reactions' \cup starred') \ (reactions \cup starred)
  OBVIOUS
<1> QED
  BY <1>2, <1>3, <1>4 DEF M!Adds

\* Whatever is added to a message that is gone comes of a request that had loaded it before.
LEMMA MRemovedStep ==
  ASSUME MInv, M!Next, NEW m \in M!Message, MGone(message[m])
  PROVE  /\ M!Adds(m) => \E r \in Requests : mreq[r].m = m /\ mreq[r].outdated /\ mreq'[r] = M!Idle
         /\ \A r \in Requests : mreq[r].op = "forward" /\ mreq[r].m = m /\ mreq'[r].at = "preview" => mreq[r].outdated
<1> DEFINE Late == \E r \in Requests : mreq[r].m = m /\ mreq[r].outdated /\ mreq'[r] = M!Idle
<1>0. MTyped /\ \A r \in Requests : MHolds(message, conversation, mreq[r])
  BY DEF MInv, MRelied
<1>1. ASSUME NEW r \in Requests, mreq[r].op = "forward", mreq[r].m = m, mreq'[r].at = "preview" PROVE mreq[r].outdated
  <2>1. mreq[r].op \in M!AnyOp /\ mreq[r].op # "pin"
    BY <1>1 DEF M!AnyOp
  <2> QED
    BY <1>0, <1>1, <2>1 DEF MHolds
<1>2. ASSUME NEW r \in Requests, mreq[r].m = m, mreq[r].op \in M!AnyOp, mreq[r].at = "write", mreq'[r] = M!Idle PROVE Late
  BY <1>0, <1>2 DEF MHolds
<1> SUFFICES M!Adds(m) => Late
  BY <1>1
<1>3. ASSUME UNCHANGED <<message, conversation, reactions, starred>> PROVE ~M!Adds(m)
  BY <1>0, <1>3, MNothingAdded
<1>4. CASE M!Asks
  <2>1. PICK r \in Requests : \E new : M!Ask(r, new)
    BY <1>4 DEF M!Asks, M!AskSend, M!AskForward, M!AskEdit, M!AskReact, M!AskStar, M!AskPin, M!AskVote
  <2> QED
    BY <1>3, <2>1 DEF M!Ask
<1>5. CASE M!Writes \/ \E enabled \in BOOLEAN : M!SetDisappearing(enabled)
  <2>1. ASSUME NEW n \in M!Message, M!DeleteMessage(n) \/ M!Expire(n) PROVE ~M!Adds(m)
    <3>1. PICK state \in {"isDeleted", "expired"} : M!Remove(n, state, FALSE)
      BY <2>1 DEF M!DeleteMessage, M!Expire
    <3>2. message' = [message EXCEPT ![n].state = state, ![n].content = FALSE] /\ UNCHANGED <<conversation, reactions, starred>>
      BY <3>1 DEF M!Remove
    <3>3. message'[m].votes = message[m].votes /\ (message'[m].content => message[m].content)
      BY <1>0, <3>2 DEF MTyped, MRow
    <3> QED
      BY <1>0, <3>2, <3>3, MNothingAdded
  <2>2. ASSUME NEW n \in M!Message, M!UnpinMessage(n) PROVE ~M!Adds(m)
    <3>1. conversation' = [conversation EXCEPT !.pinned[n] = 0] /\ UNCHANGED <<message, reactions, starred>>
      BY <2>2 DEF M!UnpinMessage
    <3>2. conversation'.pinned[m] \in {0, conversation.pinned[m]} /\ conversation.pinned[m] \in Nat
      BY <1>0, <3>1 DEF MTyped, MDoc, MPins
    <3> QED
      BY <1>0, <3>1, <3>2, MNothingAdded
  <2>3. ASSUME NEW n \in M!Message, NEW u \in Users, M!Unstar(n, u) PROVE ~M!Adds(m)
    BY <1>0, <2>3, MNothingAdded DEF M!Unstar
  <2>4. ASSUME NEW enabled \in BOOLEAN, M!SetDisappearing(enabled) PROVE ~M!Adds(m)
    <3>1. conversation' = [conversation EXCEPT !.disappearing = enabled] /\ UNCHANGED <<message, reactions, starred>>
      BY <2>4 DEF M!SetDisappearing
    <3>2. conversation'.pinned = conversation.pinned
      BY <1>0, <3>1 DEF MTyped, MDoc
    <3>3. conversation.pinned[m] \in Nat
      BY <1>0 DEF MTyped, MDoc, MPins
    <3> QED
      BY <1>0, <3>1, <3>2, <3>3, MNothingAdded
  <2> QED
    BY <1>5, <2>1, <2>2, <2>3, <2>4 DEF M!Writes
<1>6. CASE M!Steps
  <2>1. PICK r \in Requests :
          \/ M!ForwardTarget(r) \/ M!Store(r) \/ M!Preview(r) \/ M!Edit(r) \/ M!Missing(r)
          \/ M!LookReaction(r) \/ M!React(r) \/ M!Star(r) \/ M!LoadPinned(r) \/ M!Pin(r) \/ M!VotePoll(r) \/ M!Fail(r)
    BY <1>6 DEF M!Steps
  <2>2. CASE M!ForwardTarget(r) \/ M!Missing(r) \/ M!LookReaction(r) \/ M!LoadPinned(r) \/ M!Fail(r)
    BY <1>3, <2>2 DEF M!ForwardTarget, M!Missing, M!LookReaction, M!LoadPinned, M!Throw, M!Goto, M!Fail
  <2>3. CASE M!Edit(r)
    <3>1. /\ mreq'[r] = M!Idle /\ mreq[r].op = "edit" /\ mreq[r].at = "write" /\ UNCHANGED <<conversation, reactions, starred>>
          /\ message' = [message EXCEPT ![mreq[r].m].content = TRUE]
      BY <1>0, <2>3 DEF M!Edit, M!At, MTyped
    <3>2. CASE mreq[r].m = m
      BY <1>2, <3>1, <3>2 DEF M!AnyOp
    <3>3. CASE mreq[r].m # m
      <4>1. message'[m] = message[m]
        BY <1>0, <3>1, <3>3 DEF MTyped
      <4> QED
        BY <1>0, <3>1, <4>1, MNothingAdded
    <3> QED
      BY <3>2, <3>3
  <2>4. CASE M!VotePoll(r)
    <3>1. /\ mreq'[r] = M!Idle /\ mreq[r].op = "vote" /\ mreq[r].at = "write" /\ UNCHANGED <<conversation, reactions, starred>>
          /\ message' = [message EXCEPT ![mreq[r].m].votes = mreq[r].votes]
      BY <1>0, <2>4 DEF M!VotePoll, M!Outdated, M!At, MTyped
    <3>2. CASE mreq[r].m = m
      BY <1>2, <3>1, <3>2 DEF M!AnyOp
    <3>3. CASE mreq[r].m # m
      <4>1. message'[m] = message[m]
        BY <1>0, <3>1, <3>3 DEF MTyped
      <4> QED
        BY <1>0, <3>1, <4>1, MNothingAdded
    <3> QED
      BY <3>2, <3>3
  <2>5. CASE M!Pin(r)
    <3>1. /\ mreq'[r] = M!Idle /\ mreq[r].op = "pin" /\ mreq[r].at = "write" /\ UNCHANGED <<message, reactions, starred>>
          /\ conversation' = [conversation EXCEPT !.pinned[mreq[r].m] = @ + 1]
      BY <1>0, <2>5 DEF M!Pin, M!Outdated, M!At, MTyped
    <3>2. CASE mreq[r].m = m
      BY <1>2, <3>1, <3>2 DEF M!AnyOp
    <3>3. CASE mreq[r].m # m
      <4>1. conversation'.pinned[m] = conversation.pinned[m] /\ conversation.pinned[m] \in Nat
        BY <1>0, <3>1, <3>3 DEF MTyped, MDoc, MPins
      <4> QED
        BY <1>0, <3>1, <4>1, MNothingAdded
    <3> QED
      BY <3>2, <3>3
  <2>6. CASE M!React(r) \/ M!Star(r)
    <3>1. /\ mreq'[r] = M!Idle /\ mreq[r].op \in {"react", "star"} /\ mreq[r].at = "write" /\ UNCHANGED <<message, conversation>>
          /\ reactions' \subseteq reactions \cup {<<mreq[r].m, mreq[r].u>>}
          /\ starred' \subseteq starred \cup {<<mreq[r].m, mreq[r].u>>}
      BY <1>0, <2>6 DEF M!React, M!Star, M!At, MTyped
    <3>2. CASE mreq[r].m = m
      BY <1>2, <3>1, <3>2 DEF M!AnyOp
    <3>3. CASE mreq[r].m # m
      <4>1. conversation.pinned[m] \in Nat
        BY <1>0 DEF MTyped, MDoc, MPins
      <4>2. ASSUME NEW u \in Users, <<m, u>> \in reactions' \cup starred' PROVE <<m, u>> \in reactions \cup starred
        BY <3>1, <3>3, <4>2
      <4> QED
        BY <1>0, <3>1, <4>2, MNothingAdded
    <3> QED
      BY <3>2, <3>3
  <2>7. CASE M!Store(r)
    <3>1. /\ message' = [message EXCEPT ![M!NextId] =
               [M!NoMessage EXCEPT !.state = "stored", !.content = TRUE, !.type = mreq[r].type, !.expires = mreq[r].expires]]
          /\ UNCHANGED <<conversation, reactions, starred>>
      BY <2>7 DEF M!Store
    <3>2. m \in M!Stored
      BY DEF M!Stored, MGone
    <3>3. m # M!NextId
      <4>1. PICK k \in Nat : M!Stored = 1..k
        BY DEF MInv, MOrder
      <4>2. k \in Nat
        OBVIOUS
      <4>3. Cardinality(1..k) = k
        BY <4>2, FS_Interval
      <4> QED
        BY <3>2, <4>1, <4>2, <4>3, MCounts DEF M!NextId
    <3>4. message'[m] = message[m] /\ conversation.pinned[m] \in Nat
      BY <1>0, <3>1, <3>3 DEF MTyped, MDoc, MPins
    <3> QED
      BY <1>0, <3>1, <3>4, MNothingAdded
  <2>8. CASE M!Preview(r)
    <3>1. conversation' = [conversation EXCEPT !.lastMessage = mreq[r].m] /\ UNCHANGED <<message, reactions, starred>>
      BY <2>8 DEF M!Preview
    <3>2. conversation'.pinned = conversation.pinned /\ conversation.pinned[m] \in Nat
      BY <1>0, <3>1 DEF MTyped, MDoc, MPins
    <3> QED
      BY <1>0, <3>1, <3>2, MNothingAdded
  <2> QED
    BY <2>1, <2>2, <2>3, <2>4, <2>5, <2>6, <2>7, <2>8
<1> QED
  BY <1>4, <1>5, <1>6 DEF M!Next

LEMMA MAlways == M!Spec => []MInv
  BY MInitInv, MNextInv, PTL DEF M!Spec

\* An accepted vote counts, a poll for one answer has one of each user and a message is
\* pinned once, but where another write came between a read and its write.
THEOREM MPollsHold == M!Spec => []M!PollsAndPinsHold
<1>1. MInv => M!PollsAndPinsHold
  BY DEF MInv
<1> QED
  BY <1>1, MAlways, PTL

\* No message is newer than the preview, unless its request is under way, was cut off or
\* overlapped that of the previewed one.
THEOREM MPreviewed == M!Spec => []M!NewestIsPreviewed
<1>1. MInv => M!NewestIsPreviewed
  BY DEF MInv, MPreviews
<1> QED
  BY <1>1, MAlways, PTL

\* A message that is gone gets nothing more, except from a request that had loaded it.
THEOREM MRemovedKept == M!Spec => M!RemovedIsLeftAlone
<1>1. ASSUME MInv, M!Next
      PROVE  \A m \in M!Message : message[m].state \in {"isDeleted", "expired"} =>
       /\ M!Adds(m) => \E r \in Requests : mreq[r].m = m /\ mreq[r].outdated /\ mreq'[r] = M!Idle
       /\ \A r \in Requests : mreq[r].op = "forward" /\ mreq[r].m = m /\ mreq'[r].at = "preview" => mreq[r].outdated
  BY <1>1, MRemovedStep DEF MGone
<1>2. MInv /\ [M!Next]_M!vars => [\A m \in M!Message : message[m].state \in {"isDeleted", "expired"} =>
       /\ M!Adds(m) => \E r \in Requests : mreq[r].m = m /\ mreq[r].outdated /\ mreq'[r] = M!Idle
       /\ \A r \in Requests : mreq[r].op = "forward" /\ mreq[r].m = m /\ mreq'[r].at = "preview" => mreq[r].outdated]_M!vars
  BY <1>1
<1> QED
  BY <1>2, MAlways, PTL DEF M!Spec, M!RemovedIsLeftAlone

-----------------------------------------------------------------------------
(* The private conversation: PInv                                          *)

\* What the assumption says of the requests.
LEMMA PFiniteRequests == IsFiniteSet(Requests)
  BY ChatGroupAssumption

\* The instance counts as the module of finite sets does.
LEMMA PCounts == \A S : P!Cardinality(S) = Cardinality(S)
  BY DEF P!Cardinality, Cardinality

PAt  == {"idle", "create", "members", "rows"}
PRow == [at : PAt, c : Nat \cup {None}, outdated : BOOLEAN]
PTyped ==
  /\ made \in Nat /\ pfaults \in Nat /\ paired \subseteq 1..made /\ preq \in [Requests -> PRow]
  /\ \A r \in Requests : preq[r].at = "idle" => preq[r] = P!Idle
\* The requests that have made a conversation hold one each, theirs alone.
PHolders == {r \in Requests : preq[r].at \in {"members", "rows"}}
PHeld ==
  /\ \A r \in PHolders : preq[r].c \in 1..made
  /\ \A r, q \in PHolders : preq[r].c = preq[q].c => r = q
  /\ \A r \in Requests : preq[r].at = "members" => preq[r].c \notin paired \cup shown
  /\ \A r \in Requests : preq[r].at = "rows" => preq[r].c \in paired \ shown
\* Who has looked found no conversation, and none has got its members since.
PLooked == \A r \in Requests : preq[r].at \in {"create", "members"} /\ ~preq[r].outdated => paired = {}
\* The requests that are to put a conversation on the lists.
PRows == {r \in Requests : preq[r].at = "rows"}
POne  == Cardinality(paired \ overlapped) <= 1
PShown == Cardinality(paired \ shown) <= Cardinality(PRows) + pfaults
PInv == PTyped /\ PHeld /\ PLooked /\ shown \subseteq paired /\ POne /\ PShown

\* A slot at rest is a request that has nothing.
LEMMA PIdle == P!Idle \in PRow /\ P!Idle.at = "idle"
  BY DEF P!Idle, PRow, PAt

\* There are finitely many conversations and requests.
LEMMA PFinite ==
  ASSUME PTyped
  PROVE  /\ \A S \in SUBSET paired : IsFiniteSet(S) /\ Cardinality(S) \in Nat
         /\ IsFiniteSet(PRows) /\ Cardinality(PRows) \in Nat
<1>1. IsFiniteSet(1..made)
  BY FS_Interval DEF PTyped
<1>2. IsFiniteSet(paired)
  BY <1>1, FS_Subset DEF PTyped
<1>3. IsFiniteSet(PRows)
  BY PFiniteRequests, FS_Subset DEF PRows
<1> QED
  BY <1>2, <1>3, FS_Subset, FS_CardinalityType

\* Nobody has made a conversation.
LEMMA PInitInv == P!Init => PInv
<1> SUFFICES ASSUME P!Init PROVE PInv
  OBVIOUS
<1>1. PTyped
  BY PIdle DEF P!Init, PTyped
<1>2. PHeld /\ PLooked /\ shown \subseteq paired
  BY PIdle DEF P!Init, PHeld, PHolders, PLooked
<1>3. Cardinality(paired \ overlapped) = 0 /\ Cardinality(paired \ shown) = 0
  <2>1. paired \ overlapped = {} /\ paired \ shown = {}
    BY DEF P!Init
  <2> QED
    BY <2>1, FS_EmptySet
<1>4. Cardinality(PRows) \in Nat
  BY <1>1, PFinite
<1>5. POne /\ PShown
  BY <1>3, <1>4 DEF P!Init, POne, PShown
<1> QED
  BY <1>1, <1>2, <1>5 DEF PInv

\* A request that looks, or makes its conversation.
LEMMA PBeginInv ==
  ASSUME PInv, NEW r \in Requests, P!Look(r) \/ P!Create(r)
  PROVE  PInv'
<1>1. PICK at \in {"create", "members"}, c \in Nat \cup {None} :
        /\ preq' = [preq EXCEPT ![r] = [@ EXCEPT !.at = at, !.c = c]]
        /\ at = "members" => made' = made + 1 /\ c = made + 1 /\ preq[r].at = "create"
        /\ at = "create" => made' = made /\ paired = {} /\ preq[r] = P!Idle
  <2>1. CASE P!Look(r)
    <3>1. /\ preq' = [preq EXCEPT ![r] = [@ EXCEPT !.at = "create", !.c = None]]
          /\ made' = made /\ paired = {} /\ preq[r] = P!Idle
      BY <2>1 DEF P!Look, P!Move
    <3>2. "create" \in {"create", "members"} /\ "create" # "members" /\ None \in Nat \cup {None}
      OBVIOUS
    <3> QED
      BY <3>1, <3>2
  <2>2. CASE P!Create(r)
    <3>1. /\ preq' = [preq EXCEPT ![r] = [@ EXCEPT !.at = "members", !.c = made + 1]]
          /\ made' = made + 1 /\ preq[r].at = "create"
      BY <2>2 DEF P!Create, P!Move
    <3>2. "members" \in {"create", "members"} /\ "create" # "members" /\ made + 1 \in Nat \cup {None}
      BY DEF PInv, PTyped
    <3> QED
      BY <3>1, <3>2
  <2> QED
    BY <2>1, <2>2
<1>2. UNCHANGED <<paired, shown, pfaults, overlapped>> /\ made \in Nat
  BY DEF P!Look, P!Create, PInv, PTyped
<1> DEFINE new == [preq[r] EXCEPT !.at = at, !.c = c]
<1>3. new \in PRow /\ new.at = at /\ new.c = c /\ new.outdated = preq[r].outdated
  BY DEF PInv, PTyped, PRow, PAt
<1>4. preq' = [preq EXCEPT ![r] = new]
  BY <1>1
<1> HIDE DEF new
<1>5. preq' \in [Requests -> PRow] /\ preq'[r] = new /\ \A q \in Requests \ {r} : preq'[q] = preq[q]
  BY <1>3, <1>4 DEF PInv, PTyped
<1>6. PTyped'
  <2>1. made' \in Nat /\ 1..made \subseteq 1..made'
    BY <1>1, <1>2
  <2> QED
    BY <1>2, <1>3, <1>5, <2>1 DEF PInv, PTyped
<1>7. PHolders \subseteq PHolders' /\ PHolders' \subseteq PHolders \cup {r}
  BY <1>1, <1>3, <1>5, PIdle DEF PHolders
<1>8. PHeld'
  <2>1. \A q \in PHolders : preq[q].c \in 1..made /\ preq[q].c # made + 1 /\ q # r
    BY <1>1, <1>2, PIdle DEF PInv, PHeld, PHolders
  <2>2. \A q \in PHolders : preq'[q] = preq[q] /\ preq'[q].c \in 1..made'
    BY <1>1, <1>2, <1>5, <2>1 DEF PHolders
  <2>3. r \in PHolders' => new.at = "members" /\ new.c = made + 1 /\ new.c \in 1..made' /\ made' = made + 1
    BY <1>1, <1>2, <1>3, <1>5 DEF PHolders
  <2>4. \A q \in PHolders' : preq'[q].c \in 1..made'
    BY <1>5, <1>7, <2>2, <2>3
  <2>5. \A q, s \in PHolders' : preq'[q].c = preq'[s].c => q = s
    <3> SUFFICES ASSUME NEW q \in PHolders', NEW s \in PHolders', preq'[q].c = preq'[s].c, q # s PROVE FALSE
      OBVIOUS
    <3>1. CASE q # r /\ s # r
      BY <1>7, <2>2, <3>1 DEF PInv, PHeld
    <3>2. CASE q = r \/ s = r
      BY <1>5, <1>7, <2>1, <2>2, <2>3, <3>2
    <3> QED
      BY <3>1, <3>2
  <2>6. paired \subseteq 1..made /\ shown \subseteq 1..made
    BY DEF PInv, PTyped
  <2>7. new.at = "members" => new.c \notin paired \cup shown
    BY <1>1, <1>2, <1>3, <2>6
  <2>8. \A q \in Requests : preq'[q].at = "members" => preq'[q].c \notin paired' \cup shown'
    BY <1>2, <1>5, <2>7 DEF PInv, PHeld
  <2>9. \A q \in Requests : preq'[q].at = "rows" => preq'[q].c \in paired' \ shown'
    BY <1>2, <1>3, <1>5 DEF PInv, PHeld
  <2> QED
    BY <2>4, <2>5, <2>8, <2>9 DEF PHeld
<1>9. PLooked'
  BY <1>1, <1>2, <1>3, <1>5 DEF PInv, PLooked
<1>10. PRows' = PRows
  BY <1>1, <1>3, <1>5, PIdle DEF PRows
<1>11. POne' /\ PShown'
  BY <1>2, <1>10 DEF PInv, POne, PShown
<1> QED
  BY <1>2, <1>6, <1>8, <1>9, <1>11 DEF PInv

\* The members: by a request nobody has overtaken they are the first.
LEMMA PInsertMembersInv ==
  ASSUME PInv, NEW r \in Requests, P!InsertMembers(r)
  PROVE  PInv'
<1> DEFINE c == preq[r].c
<1>1. /\ preq[r].at = "members" /\ paired' = paired \cup {c}
      /\ overlapped' = IF preq[r].outdated THEN overlapped \cup {c} ELSE overlapped
      /\ preq' = [q \in Requests |-> IF q = r THEN [preq[r] EXCEPT !.at = "rows"]
                                ELSE [preq[q] EXCEPT !.outdated = preq[q] # P!Idle]]
      /\ UNCHANGED <<made, shown, pfaults>>
  BY DEF P!InsertMembers
<1>2. c \in 1..made /\ c \notin paired \cup shown
  BY <1>1 DEF PInv, PHeld, PHolders
<1>3. \A q \in Requests \ {r} : /\ preq'[q] \in PRow /\ preq'[q].at = preq[q].at /\ preq'[q].c = preq[q].c
                                /\ preq'[q].outdated <=> preq[q] # P!Idle
  <2> SUFFICES ASSUME NEW q \in Requests \ {r}
               PROVE  /\ preq'[q] \in PRow /\ preq'[q].at = preq[q].at /\ preq'[q].c = preq[q].c
                      /\ preq'[q].outdated <=> preq[q] # P!Idle
    OBVIOUS
  <2>1. PICK b \in BOOLEAN : b = (preq[q] # P!Idle)
    OBVIOUS
  <2>2. preq'[q] = [preq[q] EXCEPT !.outdated = b] /\ preq[q] \in PRow
    BY <1>1, <2>1 DEF PInv, PTyped
  <2>3. /\ preq'[q] \in PRow /\ preq'[q].at = preq[q].at /\ preq'[q].c = preq[q].c /\ preq'[q].outdated = b
    BY <2>2 DEF PRow
  <2> QED
    BY <2>1, <2>3
<1>4. preq'[r] \in PRow /\ preq'[r].at = "rows" /\ preq'[r].c = c
  <2>1. preq[r] \in PRow /\ preq'[r] = [preq[r] EXCEPT !.at = "rows"]
    BY <1>1 DEF PInv, PTyped
  <2> QED
    BY <2>1 DEF PRow, PAt
<1> HIDE DEF c
<1>5. PTyped'
  <2>1. preq' \in [Requests -> PRow]
    BY <1>1, <1>3, <1>4
  <2>2. \A q \in Requests : preq'[q].at = "idle" => preq'[q] = P!Idle
    <3> SUFFICES ASSUME NEW q \in Requests, preq'[q].at = "idle" PROVE preq'[q] = P!Idle
      OBVIOUS
    <3>1. q # r /\ preq[q] = P!Idle
      BY <1>3, <1>4 DEF PInv, PTyped
    <3>2. preq'[q] \in PRow /\ preq'[q].at = P!Idle.at /\ preq'[q].c = P!Idle.c /\ preq'[q].outdated = FALSE
      BY <1>3, <3>1 DEF PRow
    <3> QED
      BY <3>2 DEF PRow, P!Idle
  <2> QED
    BY <1>1, <1>2, <2>1, <2>2 DEF PInv, PTyped
<1>6. PHolders' = PHolders
  BY <1>1, <1>3, <1>4 DEF PHolders
<1>7. \A q \in Requests : preq'[q].c = preq[q].c
  BY <1>3, <1>4 DEF c
<1>8. PHeld'
  <2>1. \A q \in PHolders \ {r} : preq[q].c # c
    BY <1>1 DEF PInv, PHeld, PHolders, c
  <2>2. \A q \in Requests : preq'[q].at = "members" => preq'[q].c \notin paired' \cup shown'
    BY <1>1, <1>3, <1>4, <2>1 DEF PInv, PHeld, PHolders
  <2>3. \A q \in Requests : preq'[q].at = "rows" => preq'[q].c \in paired' \ shown'
    <3>1. c \in paired' \ shown'
      BY <1>1, <1>2
    <3>2. \A q \in Requests \ {r} : preq[q].at = "rows" => preq[q].c \in paired' \ shown'
      BY <1>1 DEF PInv, PHeld
    <3> QED
      BY <1>3, <1>4, <3>1, <3>2
  <2>4. (\A q \in PHolders' : preq'[q].c \in 1..made') /\ \A q, s \in PHolders' : preq'[q].c = preq'[s].c => q = s
    BY <1>1, <1>6, <1>7 DEF PInv, PHeld, PHolders
  <2> QED
    BY <2>2, <2>3, <2>4 DEF PHeld
<1>9. PLooked'
  <2> SUFFICES ASSUME NEW q \in Requests, preq'[q].at \in {"create", "members"}, ~preq'[q].outdated PROVE FALSE
    BY DEF PLooked
  <2>1. q # r /\ preq[q] = P!Idle
    BY <1>3, <1>4
  <2> QED
    BY <1>3, <2>1, PIdle
<1>10. POne'
  <2>1. CASE preq[r].outdated
    <3>1. paired' \ overlapped' = paired \ (overlapped \cup {c})
      BY <1>1, <2>1
    <3>2. /\ Cardinality(paired' \ overlapped') <= Cardinality(paired \ overlapped)
          /\ Cardinality(paired' \ overlapped') \in Nat /\ Cardinality(paired \ overlapped) \in Nat
      BY <3>1, PFinite, FS_Subset DEF PInv
    <3> QED
      BY <3>2 DEF PInv, POne
  <2>2. CASE ~preq[r].outdated
    <3>1. paired = {}
      BY <1>1, <2>2 DEF PInv, PLooked
    <3>2. paired' \ overlapped' \subseteq {c}
      BY <1>1, <3>1
    <3>3. IsFiniteSet({c}) /\ Cardinality({c}) = 1
      BY FS_Singleton
    <3>4. Cardinality(paired' \ overlapped') <= 1
      BY <3>2, <3>3, FS_Subset
    <3> QED
      BY <3>4 DEF POne
  <2> QED
    BY <2>1, <2>2
<1>11. PShown'
  <2>1. paired' \ shown' = (paired \ shown) \cup {c} /\ c \notin paired \ shown
    BY <1>1, <1>2
  <2>2. PRows' = PRows \cup {r} /\ r \notin PRows
    BY <1>1, <1>3, <1>4 DEF PRows
  <2>3. Cardinality(paired' \ shown') = Cardinality(paired \ shown) + 1
    BY <2>1, PFinite, FS_AddElement DEF PInv
  <2>4. Cardinality(PRows') = Cardinality(PRows) + 1
    BY <2>2, PFinite, FS_AddElement DEF PInv
  <2>5. Cardinality(paired \ shown) \in Nat /\ Cardinality(PRows) \in Nat /\ pfaults \in Nat
    BY PFinite DEF PInv, PTyped
  <2> QED
    BY <1>1, <2>3, <2>4, <2>5 DEF PInv, PShown
<1> QED
  BY <1>1, <1>5, <1>8, <1>9, <1>10, <1>11 DEF PInv

\* A request ends: its conversation goes on the lists, or it was cut off.
LEMMA PEndInv ==
  ASSUME PInv, NEW r \in Requests, P!InsertRows(r) \/ P!Fail(r)
  PROVE  PInv'
<1> DEFINE c == preq[r].c
<1>1. preq' = [preq EXCEPT ![r] = P!Idle] /\ UNCHANGED <<made, paired, overlapped>>
  BY DEF P!InsertRows, P!Fail
<1>2. preq' \in [Requests -> PRow] /\ preq'[r] = P!Idle /\ \A q \in Requests \ {r} : preq'[q] = preq[q]
  BY <1>1, PIdle DEF PInv, PTyped
<1>3. \/ preq[r].at = "rows" /\ shown' = shown \cup {c} /\ pfaults' = pfaults
      \/ shown' = shown /\ pfaults' = pfaults + 1
  BY DEF P!InsertRows, P!Fail
<1> HIDE DEF c
<1>4. PTyped'
  BY <1>1, <1>2, <1>3 DEF PInv, PTyped
<1>5. PHolders' = PHolders \ {r}
  BY <1>2, PIdle DEF PHolders
<1>6. preq[r].at = "rows" => /\ c \in paired \ shown
                             /\ \A q \in PHolders \ {r} : preq[q].c # c
  BY DEF PInv, PHeld, PHolders, c
<1>7. PHeld'
  <2>1. \A q \in Requests : preq'[q].at = "members" => preq'[q].c \notin paired' \cup shown'
    BY <1>1, <1>2, <1>3, <1>6, PIdle DEF PInv, PHeld, PHolders
  <2>2. \A q \in Requests : preq'[q].at = "rows" => preq'[q].c \in paired' \ shown'
    BY <1>1, <1>2, <1>3, <1>6, PIdle DEF PInv, PHeld, PHolders
  <2>3. \A q \in PHolders' : preq'[q].c \in 1..made'
    BY <1>1, <1>2, <1>5 DEF PInv, PHeld, PHolders
  <2>4. \A q, s \in PHolders' : preq'[q].c = preq'[s].c => q = s
    BY <1>1, <1>2, <1>5 DEF PInv, PHeld, PHolders
  <2> QED
    BY <2>1, <2>2, <2>3, <2>4 DEF PHeld
<1>8. PLooked'
  BY <1>1, <1>2, PIdle DEF PInv, PLooked
<1>9. shown' \subseteq paired'
  BY <1>1, <1>3, <1>6 DEF PInv
<1>10. POne'
  BY <1>1 DEF PInv, POne
<1>11. PShown'
  <2>1. Cardinality(paired \ shown) \in Nat /\ Cardinality(PRows) \in Nat /\ pfaults \in Nat
    BY PFinite DEF PInv, PTyped
  <2>2. CASE preq[r].at = "rows"
    <3>1. PRows' = PRows \ {r} /\ r \in PRows
      BY <1>2, <2>2, PIdle DEF PRows
    <3>2. Cardinality(PRows') = Cardinality(PRows) - 1
      BY <3>1, PFinite, FS_RemoveElement DEF PInv
    <3>3. CASE shown' = shown \cup {c} /\ pfaults' = pfaults
      <4>1. paired' \ shown' = (paired \ shown) \ {c} /\ c \in paired \ shown
        BY <1>1, <1>6, <2>2, <3>3
      <4>2. Cardinality(paired' \ shown') = Cardinality(paired \ shown) - 1
        BY <4>1, PFinite, FS_RemoveElement DEF PInv
      <4> QED
        BY <2>1, <3>2, <3>3, <4>2 DEF PInv, PShown
    <3>4. CASE shown' = shown /\ pfaults' = pfaults + 1
      <4>1. Cardinality(paired' \ shown') = Cardinality(paired \ shown)
        BY <1>1, <3>4
      <4> QED
        BY <2>1, <3>2, <3>4, <4>1 DEF PInv, PShown
    <3> QED
      BY <1>3, <3>3, <3>4
  <2>3. CASE preq[r].at # "rows"
    <3>1. PRows' = PRows
      BY <1>2, <2>3, PIdle DEF PRows
    <3>2. paired' \ shown' = paired \ shown /\ pfaults' = pfaults + 1
      BY <1>1, <1>3, <2>3
    <3>3. Cardinality(paired' \ shown') = Cardinality(paired \ shown) /\ Cardinality(PRows') = Cardinality(PRows)
      BY <3>1, <3>2
    <3> QED
      BY <2>1, <3>2, <3>3 DEF PInv, PShown
  <2> QED
    BY <2>2, <2>3
<1> QED
  BY <1>4, <1>7, <1>8, <1>9, <1>10, <1>11 DEF PInv

\* Every step keeps the invariant.
LEMMA PNextInv == PInv /\ [P!Next]_P!vars => PInv'
<1> SUFFICES ASSUME PInv, [P!Next]_P!vars PROVE PInv'
  OBVIOUS
<1>1. CASE UNCHANGED P!vars
  BY <1>1 DEF P!vars, PInv, PTyped, PHeld, PHolders, PLooked, POne, PShown, PRows
<1> QED
  BY <1>1, PBeginInv, PInsertMembersInv, PEndInv DEF P!Next

\* Two users share one private conversation, but where a request overtook the look of
\* another, and one on no list is under way or was cut off.
THEOREM PKept == P!Spec => []P!OnePrivateChat
<1>1. PInv => P!OnePrivateChat
  BY PCounts DEF PInv, POne, PShown, PRows, P!OnePrivateChat
<1> QED
  BY <1>1, PInitInv, PNextInv, PTL DEF P!Spec

-----------------------------------------------------------------------------
(* The three side by side                                                  *)

parts == <<focus, vars, messages, private>>

\* A step of the whole is a step of one of them, and for the others a stutter.
LEMMA AllSteps ==
  [AllNext]_parts => [Next]_vars /\ [M!Next]_(M!vars) /\ [P!Next]_(P!vars)
  <1> SUFFICES ASSUME [AllNext]_parts PROVE [Next]_vars /\ [M!Next]_(M!vars) /\ [P!Next]_(P!vars)
    OBVIOUS
  <1>1. M!Next \/ UNCHANGED M!vars
    BY DEF AllNext, parts, messages, M!vars
  <1>2. P!Next \/ UNCHANGED P!vars
    BY DEF AllNext, parts, private, P!vars
  <1>3. Next \/ UNCHANGED vars
    BY DEF AllNext, parts
  <1> QED BY <1>1, <1>2, <1>3

\* A behaviour of the whole is one of each.
LEMMA AllBehaviours == AllSpec => Spec /\ M!Spec /\ P!Spec
  <1>1. AllInit => Init /\ M!Init /\ P!Init
    BY DEF AllInit
  <1> QED BY <1>1, AllSteps, PTL DEF AllSpec, parts, Spec, M!Spec, P!Spec

\* Votes and pins hold, but where another was written between a read and its write.
THEOREM VotesKept == AllSpec => []PollsAndPinsHold
  BY AllBehaviours, MPollsHold, PTL DEF PollsAndPinsHold

\* The preview is the newest message, but where requests were overtaken or cut off.
THEOREM Previewed == AllSpec => []NewestIsPreviewed
  BY AllBehaviours, MPreviewed, PTL DEF NewestIsPreviewed

\* Nothing is added to a message that is gone, except by who had loaded it before.
THEOREM RemovedStays == AllSpec => RemovedIsLeftAlone
  BY AllBehaviours, MRemovedKept, PTL DEF RemovedIsLeftAlone

\* Two users have one private conversation, but where two requests crossed.
THEOREM PairKept == AllSpec => []OnePrivateChat
  BY AllBehaviours, PKept, PTL DEF OnePrivateChat
=============================================================================
