--------------------------- MODULE WorkspaceProofs --------------------------
(***************************************************************************)
(* What a workplace, the accounts and a fund pool keep, although every     *)
(* service reads, checks and writes apart, for any number of users, rows,  *)
(* requests, workers and documents.                                        *)
(*                                                                         *)
(* Each service has its part, and its definitions and lemmas the letter of *)
(* its instance in MCWorkspace (S the sprints): an invariant, a lemma per  *)
(* action that says why the action keeps it, and the theorem.  At the end  *)
(* a behaviour of the whole is one of each service.                        *)
(*                                                                         *)
(* All but F and P say the same of a request: what it has read is still    *)
(* so, unless a write of another has overtaken it and left its mark.       *)
(*                                                                         *)
(* M  The rows are a sequence and a write takes the first of its user, so  *)
(*    what was read is the first row: when another user's row is removed   *)
(*    the first of everyone else is a row that was first before.           *)
(* P  A key found free is free until someone inserts it; who will delete   *)
(*    the cached lists is known from the write on.                         *)
(* F  The stamp is no older than the last addition, and whoever found the  *)
(*    pool due has it still due, unless it shares that finding.            *)
(* A  Where a request of each route can be, and which account it holds.    *)
(* L  A name that was looked for is free, or the row's own.                *)
(* S  The document read still stands, and passed the check of its route.   *)
(***************************************************************************)
EXTENDS MCWorkspace, FiniteSetTheorems, SequenceTheorems, WellFoundedInduction, TLAPS

-----------------------------------------------------------------------------
(* Members of a group: MInv                                                *)

\* What the assumption says of the creator.
LEMMA MCreator == Creator \in User
  BY WorkspaceAssumption

\* The first row of a user: the one findOne, updateOne and deleteOne take.
MIsFirst(s, u, i) == i \in 1..Len(s) /\ s[i].user = u /\ \A j \in 1..(i - 1) : s[j].user # u
MTyped ==
  /\ kind \in {"workplace", "project"} /\ group \in {"none", "active", "archived"}
  /\ rows \in Seq(M!Member) /\ mreq \in [Req -> M!Request] /\ ownerless \in BOOLEAN
\* What a request holds at each of its calls.
MHeld ==
  \A r \in Req :
    /\ mreq[r].pc # "idle" => mreq[r].user \in User
    /\ mreq[r].pc \in {"owner", "insert", "update"} => mreq[r].role \in M!WorkplaceMemberRole \cup M!ProjectMemberRole
    /\ mreq[r].pc = "update" => mreq[r].role # "owner"
    /\ mreq[r].pc \in {"ownerOf", "delete"} /\ kind = "project" => mreq[r].pc = "ownerOf" \/ mreq[r].user # Creator
    /\ mreq[r].pc = "ownerOf" => kind = "project"
    /\ mreq[r].pc \notin {"idle", "create"} => group # "none"
MBegun == group = "none" => Len(rows) = 0
\* What it has read of the rows is so, unless a write has outdated it.
MRead ==
  \A r \in Req : ~mreq[r].outdated =>
    /\ mreq[r].pc \in {"owner", "insert"} => \A i \in 1..Len(rows) : rows[i].user # mreq[r].user
    /\ mreq[r].pc = "insert" /\ mreq[r].role = "owner" => \A i \in 1..Len(rows) : rows[i].role # "owner"
    /\ mreq[r].pc = "update" \/ (mreq[r].pc = "delete" /\ kind = "workplace") =>
         \A i \in 1..Len(rows) : MIsFirst(rows, mreq[r].user, i) => rows[i].role # "owner"
MClash(s, i, j) == /\ s[i].user = s[j].user \/ (s[i].role = "owner" /\ s[j].role = "owner")
                   /\ ~s[i].outdated /\ ~s[j].outdated
MSingle == \A i, j \in 1..Len(rows) : i # j => ~MClash(rows, i, j)
MOwned ==
  group # "none" /\ ~ownerless /\ (\A r \in Req : mreq[r].pc # "first") =>
    IF kind = "workplace" THEN \E i \in 1..Len(rows) : rows[i].role = "owner"
    ELSE \E i \in 1..Len(rows) : rows[i].user = Creator
MInv == MTyped /\ MHeld /\ MBegun /\ MRead /\ MSingle /\ MOwned

\* A slot at rest is a request, and knows nothing that could be outdated.
LEMMA MIdle == M!Idle \in M!Request /\ M!Idle.pc = "idle" /\ ~M!Idle.outdated
  BY DEF M!Idle, M!Request, M!Pc

\* The rows, by their positions.
LEMMA MRows ==
  ASSUME MTyped
  PROVE  /\ Len(rows) \in Nat /\ DOMAIN rows = 1..Len(rows)
         /\ \A i \in 1..Len(rows) : rows[i] \in M!Member
         /\ \A u : M!Has(u) <=> \E i \in 1..Len(rows) : rows[i].user = u
         /\ M!HasOwner <=> \E i \in 1..Len(rows) : rows[i].role = "owner"
<1>1. rows \in Seq(M!Member)
  BY DEF MTyped
<1>2. Len(rows) \in Nat /\ DOMAIN rows = 1..Len(rows) /\ \A i \in 1..Len(rows) : rows[i] \in M!Member
  BY <1>1, LenProperties, ElementOfSeq
<1> QED
  BY <1>2 DEF M!Has, M!HasOwner

\* Who has a row has a first one.
LEMMA MLeast ==
  ASSUME NEW T \in SUBSET Nat, T # {}
  PROVE  \E x \in T : \A y \in T : x <= y
<1>1. PICK x \in T : \A y \in T : ~(<<y, x>> \in OpToRel(<, Nat))
  BY NatLessThanWellFounded, WFMin, Zenon
<1>2. \A y \in T : ~(y < x)
  BY <1>1, Zenon DEF OpToRel
<1> QED
  BY <1>2

\* It is the one the model chooses.
LEMMA MFirstRow ==
  ASSUME MTyped, NEW u, M!Has(u)
  PROVE  MIsFirst(rows, u, M!First(u))
<1> DEFINE T == {i \in 1..Len(rows) : rows[i].user = u}
<1>1. T \in SUBSET Nat /\ T # {}
  BY MRows
<1>2. PICK x \in T : \A y \in T : x <= y
  BY <1>1, MLeast
<1>3. x \in 1..Len(rows) /\ rows[x].user = u /\ \A j \in 1..(x - 1) : rows[j].user # u
  BY <1>2, MRows
<1>4. \E i \in DOMAIN rows : rows[i].user = u /\ \A j \in 1..(i - 1) : rows[j].user # u
  BY <1>3, MRows
<1>5. M!First(u) \in DOMAIN rows /\ rows[M!First(u)].user = u /\ \A j \in 1..(M!First(u) - 1) : rows[j].user # u
  BY <1>4 DEF M!First
<1> QED
  BY <1>5, MRows DEF MIsFirst

\* No group, nobody asks.
LEMMA MInitInv == M!Init => MInv
<1> SUFFICES ASSUME M!Init PROVE MInv
  OBVIOUS
<1>1. rows \in Seq(M!Member) /\ Len(rows) = 0 /\ \A r \in Req : mreq[r] = M!Idle
  BY EmptySeq DEF M!Init
<1>2. MTyped
  BY <1>1, MIdle DEF M!Init, MTyped
<1>3. MHeld /\ MRead
  BY <1>1, MIdle DEF M!Init, MHeld, MRead
<1>4. MBegun /\ MSingle /\ MOwned
  BY <1>1 DEF M!Init, MBegun, MSingle, MOwned
<1> QED
  BY <1>2, <1>3, <1>4 DEF MInv

\* A request that writes no row.
LEMMA MMovesInv ==
  ASSUME MInv, NEW r \in Req, NEW new \in M!Request, mreq' = [mreq EXCEPT ![r] = new],
         UNCHANGED <<kind, rows, ownerless>>, group' \in {"none", "active", "archived"},
         group # "none" => group' # "none", group' = "none" \/ group # "none" \/ new.pc = "first",
         mreq[r].pc = "first" => new.pc = "first",
         new.pc # "idle" => new.user \in User,
         new.pc \in {"owner", "insert", "update"} => new.role \in M!WorkplaceMemberRole \cup M!ProjectMemberRole,
         new.pc = "update" => new.role # "owner",
         new.pc = "delete" /\ kind = "project" => new.user # Creator,
         new.pc = "ownerOf" => kind = "project",
         new.pc \notin {"idle", "create"} => group' # "none",
         ~new.outdated /\ new.pc \in {"owner", "insert"} => ~M!Has(new.user),
         ~new.outdated /\ new.pc = "insert" /\ new.role = "owner" => ~M!HasOwner,
         ~new.outdated /\ (new.pc = "update" \/ (new.pc = "delete" /\ kind = "workplace")) =>
           \A i \in 1..Len(rows) : MIsFirst(rows, new.user, i) => rows[i].role # "owner"
  PROVE  MInv'
<1>1. mreq' \in [Req -> M!Request] /\ mreq'[r] = new /\ \A q \in Req \ {r} : mreq'[q] = mreq[q]
  BY DEF MInv, MTyped
<1>2. MTyped'
  BY <1>1 DEF MInv, MTyped
<1>3. MHeld'
  BY <1>1 DEF MInv, MHeld
<1>4. MBegun' /\ MSingle'
  BY DEF MInv, MBegun, MSingle, MClash
<1>5. MRead'
  <2> SUFFICES ASSUME NEW q \in Req, ~mreq'[q].outdated
               PROVE  /\ mreq'[q].pc \in {"owner", "insert"} => \A i \in 1..Len(rows) : rows[i].user # mreq'[q].user
                      /\ mreq'[q].pc = "insert" /\ mreq'[q].role = "owner" => \A i \in 1..Len(rows) : rows[i].role # "owner"
                      /\ mreq'[q].pc = "update" \/ (mreq'[q].pc = "delete" /\ kind = "workplace") =>
                           \A i \in 1..Len(rows) : MIsFirst(rows, mreq'[q].user, i) => rows[i].role # "owner"
    BY DEF MRead
  <2>1. CASE q = r
    BY <1>1, <2>1, MRows DEF MInv
  <2>2. CASE q # r
    BY <1>1, <2>2 DEF MInv, MRead
  <2> QED
    BY <2>1, <2>2
<1>6. MOwned'
  <2> SUFFICES ASSUME group' # "none", ~ownerless, \A q \in Req : mreq'[q].pc # "first"
               PROVE  IF kind = "workplace" THEN \E i \in 1..Len(rows) : rows[i].role = "owner"
                      ELSE \E i \in 1..Len(rows) : rows[i].user = Creator
    BY DEF MOwned
  <2>1. group # "none" /\ \A q \in Req : mreq[q].pc # "first"
    BY <1>1
  <2> QED
    BY <2>1 DEF MInv, MOwned
<1> QED
  BY <1>2, <1>3, <1>4, <1>5, <1>6 DEF MInv

\* The rows of one user are written: who has read them, or has looked for an owner and
\* an owner is written, has been outdated; the rows of the others are as they were.
LEMMA MSetRowsInv ==
  ASSUME MInv, NEW r \in Req, NEW u \in User, NEW new \in Seq(M!Member), NEW touched, M!SetRows(r, u, new, touched),
         group # "none", ownerless' \in BOOLEAN,
         \A i \in 1..Len(new) : new[i].user # u => \E k \in 1..Len(rows) : rows[k].user = new[i].user,
         \A v \in User, i \in 1..Len(new) : v # u /\ MIsFirst(new, v, i) =>
           \E k \in 1..Len(rows) : MIsFirst(rows, v, k) /\ rows[k].role = new[i].role,
         touched # "owner" => \A i \in 1..Len(new) : new[i].role = "owner" => \E k \in 1..Len(rows) : rows[k].role = "owner",
         \A i, j \in 1..Len(new) : i # j => ~MClash(new, i, j),
         ~ownerless' /\ (\A q \in Req : q = r \/ mreq[q].pc # "first") =>
           IF kind = "workplace" THEN \E i \in 1..Len(new) : new[i].role = "owner"
           ELSE \E i \in 1..Len(new) : new[i].user = Creator
  PROVE  MInv'
<1>1. rows' = new /\ UNCHANGED <<kind, group, mcalls, faults>>
      /\ mreq' = [q \in Req |-> IF q = r THEN M!Idle
            ELSE [mreq[q] EXCEPT !.outdated = @ \/ mreq[q].user = u \/ (touched = "owner" /\ mreq[q].role = "owner")]]
  BY DEF M!SetRows
<1>2. mreq'[r] = M!Idle
  BY <1>1
<1>3. \A q \in Req \ {r} : /\ mreq'[q] \in M!Request /\ mreq'[q].pc = mreq[q].pc /\ mreq'[q].user = mreq[q].user
                           /\ mreq'[q].role = mreq[q].role
                           /\ ~mreq'[q].outdated => /\ ~mreq[q].outdated /\ mreq[q].user # u
                                                   /\ ~(touched = "owner" /\ mreq[q].role = "owner")
  <2> SUFFICES ASSUME NEW q \in Req \ {r}
               PROVE  /\ mreq'[q] \in M!Request /\ mreq'[q].pc = mreq[q].pc /\ mreq'[q].user = mreq[q].user
                      /\ mreq'[q].role = mreq[q].role
                      /\ ~mreq'[q].outdated => /\ ~mreq[q].outdated /\ mreq[q].user # u
                                              /\ ~(touched = "owner" /\ mreq[q].role = "owner")
    OBVIOUS
  <2>1. PICK b \in BOOLEAN : b = (mreq[q].outdated \/ mreq[q].user = u \/ (touched = "owner" /\ mreq[q].role = "owner"))
    OBVIOUS
  <2>2. mreq[q] \in M!Request
    BY DEF MInv, MTyped
  <2>3. mreq'[q] = [mreq[q] EXCEPT !.outdated = b]
    BY <1>1, <2>1
  <2>4. /\ [mreq[q] EXCEPT !.outdated = b] \in M!Request /\ [mreq[q] EXCEPT !.outdated = b].pc = mreq[q].pc
        /\ [mreq[q] EXCEPT !.outdated = b].user = mreq[q].user /\ [mreq[q] EXCEPT !.outdated = b].role = mreq[q].role
        /\ [mreq[q] EXCEPT !.outdated = b].outdated = b
    BY <2>2 DEF M!Request
  <2> QED
    BY <2>1, <2>3, <2>4
<1>4. MTyped'
  <2>1. \A q \in Req : mreq'[q] \in M!Request
    BY <1>2, <1>3, MIdle
  <2>2. mreq' \in [Req -> M!Request]
    BY <1>1, <2>1
  <2> QED
    BY <1>1, <2>2 DEF MInv, MTyped
<1>5. MHeld'
  <2>1. \A q \in Req \ {r} : mreq'[q].pc = mreq[q].pc /\ mreq'[q].user = mreq[q].user /\ mreq'[q].role = mreq[q].role
    BY <1>3
  <2>2. MHeld
    BY DEF MInv
  <2> QED
    BY <1>1, <1>2, <2>1, <2>2, MIdle DEF MHeld
<1>6. MBegun' /\ MSingle'
  BY <1>1 DEF MBegun, MSingle
<1>7. MRead'
  <2> SUFFICES ASSUME NEW q \in Req, ~mreq'[q].outdated
               PROVE  /\ mreq'[q].pc \in {"owner", "insert"} => \A i \in 1..Len(new) : new[i].user # mreq'[q].user
                      /\ mreq'[q].pc = "insert" /\ mreq'[q].role = "owner" => \A i \in 1..Len(new) : new[i].role # "owner"
                      /\ mreq'[q].pc = "update" \/ (mreq'[q].pc = "delete" /\ kind = "workplace") =>
                           \A i \in 1..Len(new) : MIsFirst(new, mreq'[q].user, i) => new[i].role # "owner"
    BY <1>1 DEF MRead
  <2>1. CASE q = r
    BY <1>2, <2>1, MIdle
  <2>2. CASE q # r
    <3>1. /\ mreq'[q].pc = mreq[q].pc /\ mreq'[q].user = mreq[q].user /\ mreq'[q].role = mreq[q].role
          /\ ~mreq[q].outdated /\ mreq[q].user # u /\ ~(touched = "owner" /\ mreq[q].role = "owner")
      BY <1>3, <2>2
    <3>2. /\ mreq[q].pc \in {"owner", "insert"} => \A i \in 1..Len(rows) : rows[i].user # mreq[q].user
          /\ mreq[q].pc = "insert" /\ mreq[q].role = "owner" => \A i \in 1..Len(rows) : rows[i].role # "owner"
          /\ mreq[q].pc = "update" \/ (mreq[q].pc = "delete" /\ kind = "workplace") =>
               \A i \in 1..Len(rows) : MIsFirst(rows, mreq[q].user, i) => rows[i].role # "owner"
      BY <3>1 DEF MInv, MRead
    <3>3. mreq[q].pc \in {"owner", "insert"} => \A i \in 1..Len(new) : new[i].user # mreq[q].user
      BY <3>1, <3>2
    <3>4. mreq[q].pc = "insert" /\ mreq[q].role = "owner" => \A i \in 1..Len(new) : new[i].role # "owner"
      BY <3>1, <3>2
    <3>5. mreq[q].pc # "idle" => mreq[q].user \in User
      BY DEF MInv, MHeld
    <3>6. mreq[q].pc = "update" \/ (mreq[q].pc = "delete" /\ kind = "workplace") =>
            \A i \in 1..Len(new) : MIsFirst(new, mreq[q].user, i) => new[i].role # "owner"
      BY <3>1, <3>2, <3>5
    <3> QED
      BY <3>1, <3>3, <3>4, <3>6
  <2> QED
    BY <2>1, <2>2
<1>8. MOwned'
  <2>1. (\A q \in Req : mreq'[q].pc # "first") => \A q \in Req : q = r \/ mreq[q].pc # "first"
    BY <1>3
  <2> QED
    BY <1>1, <2>1 DEF MOwned
<1> QED
  BY <1>4, <1>5, <1>6, <1>7, <1>8 DEF MInv

\* The call of a route whose checks passed.
LEMMA MCalled ==
  ASSUME NEW r \in Req, NEW l \in M!Pc, NEW u \in User,
         NEW role \in M!WorkplaceMemberRole \cup M!ProjectMemberRole \cup {None}, M!Call(r, l, u, role)
  PROVE  \E new \in M!Request :
           /\ mreq' = [mreq EXCEPT ![r] = new] /\ new.pc = l /\ new.user = u /\ new.role = role /\ ~new.outdated
           /\ mreq[r].pc = "idle" /\ UNCHANGED <<kind, group, rows, faults, ownerless>>
<1> DEFINE new == [pc |-> l, user |-> u, role |-> role, outdated |-> FALSE]
<1>1. new \in M!Request /\ new.pc = l /\ new.user = u /\ new.role = role /\ ~new.outdated
  BY DEF M!Request
<1>2. mreq' = [mreq EXCEPT ![r] = new]
  BY DEF M!Call
<1> HIDE DEF new
<1> QED
  BY <1>1, <1>2 DEF M!Call, M!At

\* A route is called: what its checks found is what the invariant asks of it.
LEMMA MRoutesInv ==
  ASSUME MInv, NEW r \in Req, M!Routes(r) PROVE MInv'
<1>1. \A u \in User : M!RowOf(u).role # "owner" /\ M!Has(u) =>
        \A i \in 1..Len(rows) : MIsFirst(rows, u, i) => rows[i].role # "owner"
  <2> SUFFICES ASSUME NEW u \in User, M!RowOf(u).role # "owner", M!Has(u), NEW i \in 1..Len(rows), MIsFirst(rows, u, i)
               PROVE  rows[i].role # "owner"
    OBVIOUS
  <2>1. MIsFirst(rows, u, M!First(u)) /\ Len(rows) \in Nat
    BY MFirstRow, MRows DEF MInv
  <2>2. i = M!First(u)
    <3>1. ~(i < M!First(u)) /\ ~(M!First(u) < i) /\ i \in Nat /\ M!First(u) \in Nat
      BY <2>1 DEF MIsFirst
    <3> QED
      BY <3>1
  <2> QED
    BY <2>2 DEF M!RowOf
<1>2. \A u : M!Has(u) => group # "none"
  BY MRows DEF MInv, MBegun
<1>3. group \in {"none", "active", "archived"}
  BY DEF MInv, MTyped
<1>4. CASE M!CreateGroup(r)
  <2>1. PICK new \in M!Request : /\ mreq' = [mreq EXCEPT ![r] = new] /\ new.pc = "create" /\ new.user = Creator
                               /\ mreq[r].pc = "idle" /\ UNCHANGED <<kind, group, rows, faults, ownerless>>
    BY <1>4, MCreator, MCalled DEF M!CreateGroup, M!Pc
  <2> QED
    BY <1>3, <2>1, MCreator, MMovesInv
<1>5. ASSUME NEW u \in User, NEW role \in M!Role(kind), M!AddMember(r, u, role) PROVE MInv'
  <2>1. role \in M!WorkplaceMemberRole \cup M!ProjectMemberRole /\ group # "none" /\ ~M!Has(u)
    BY <1>5 DEF M!Role, M!AddMember
  <2>2. PICK l \in {"owner", "insert"} : (role = "owner" => l = "owner") /\ M!Call(r, l, u, role)
    BY <1>5 DEF M!AddMember
  <2>3. PICK new \in M!Request : /\ mreq' = [mreq EXCEPT ![r] = new] /\ new.pc = l /\ new.user = u /\ new.role = role
                               /\ mreq[r].pc = "idle" /\ UNCHANGED <<kind, group, rows, faults, ownerless>>
    BY <2>1, <2>2, MCalled DEF M!Pc
  <2> QED
    BY <1>3, <2>1, <2>2, <2>3, MMovesInv
<1>6. ASSUME NEW u \in User, NEW role \in M!Role(kind), M!UpdateMemberRole(r, u, role) PROVE MInv'
  <2>1. role \in M!WorkplaceMemberRole \cup M!ProjectMemberRole /\ role # "owner" /\ M!Has(u) /\ M!RowOf(u).role # "owner"
    BY <1>6 DEF M!Role, M!UpdateMemberRole
  <2>2. PICK new \in M!Request : /\ mreq' = [mreq EXCEPT ![r] = new] /\ new.pc = "update" /\ new.user = u /\ new.role = role
                               /\ mreq[r].pc = "idle" /\ UNCHANGED <<kind, group, rows, faults, ownerless>>
    BY <1>6, <2>1, MCalled DEF M!Pc, M!UpdateMemberRole
  <2> QED
    BY <1>1, <1>2, <1>3, <2>1, <2>2, MMovesInv
<1>7. ASSUME NEW u \in User, M!RemoveMember(r, u) PROVE MInv'
  <2>1. M!Has(u) /\ (kind = "workplace" => M!RowOf(u).role # "owner") /\ kind \in {"workplace", "project"}
    BY <1>7 DEF M!RemoveMember, M!MayRemove, MInv, MTyped
  <2>2. PICK l \in {"delete", "ownerOf"} : /\ kind = "workplace" => l = "delete"
                                           /\ kind # "workplace" => l = "ownerOf"
                                           /\ M!Call(r, l, u, None)
    BY <1>7 DEF M!RemoveMember
  <2>3. PICK new \in M!Request : /\ mreq' = [mreq EXCEPT ![r] = new] /\ new.pc = l /\ new.user = u
                               /\ mreq[r].pc = "idle" /\ UNCHANGED <<kind, group, rows, faults, ownerless>>
    BY <2>2, MCalled DEF M!Pc
  <2> QED
    BY <1>1, <1>2, <1>3, <2>1, <2>2, <2>3, MMovesInv
<1>8. ASSUME NEW u \in User, M!UpdateWorkplace(r, u) \/ M!DeleteWorkplace(r, u) PROVE MInv'
  <2>1. M!Has(u)
    BY <1>8 DEF M!UpdateWorkplace, M!DeleteWorkplace, M!IsAdminOrOwner, M!Has
  <2>2. PICK l \in {"edit", "archive"} : M!Call(r, l, u, None)
    BY <1>8 DEF M!UpdateWorkplace, M!DeleteWorkplace
  <2>3. PICK new \in M!Request : /\ mreq' = [mreq EXCEPT ![r] = new] /\ new.pc = l /\ new.user = u
                               /\ mreq[r].pc = "idle" /\ UNCHANGED <<kind, group, rows, faults, ownerless>>
    BY <2>2, MCalled DEF M!Pc
  <2> QED
    BY <1>2, <1>3, <2>1, <2>3, MMovesInv
<1> QED
  BY <1>4, <1>5, <1>6, <1>7, <1>8 DEF M!Routes

\* The next call of a request, or its end.
LEMMA MGoInv ==
  ASSUME MInv, NEW r \in Req,
         \/ mreq[r].pc = "owner" /\ M!Goto(r, "insert") /\ ~M!HasOwner
         \/ mreq[r].pc = "ownerOf" /\ M!Goto(r, "delete") /\ mreq[r].user # Creator
  PROVE  MInv'
<1>1. PICK l \in {"insert", "delete"} :
        /\ mreq' = [mreq EXCEPT ![r].pc = l] /\ UNCHANGED <<kind, group, rows, mcalls, faults, ownerless>>
        /\ \/ mreq[r].pc = "owner" /\ l = "insert" /\ ~M!HasOwner
           \/ mreq[r].pc = "ownerOf" /\ l = "delete" /\ mreq[r].user # Creator
  BY DEF M!Goto
<1> DEFINE new == [mreq[r] EXCEPT !.pc = l]
<1>2. l \in M!Pc
  BY DEF M!Pc
<1>3. mreq[r] \in M!Request /\ group \in {"none", "active", "archived"} /\ kind \in {"workplace", "project"}
  BY DEF MInv, MTyped
<1>4. /\ new \in M!Request /\ new.pc = l /\ new.user = mreq[r].user /\ new.role = mreq[r].role
      /\ new.outdated = mreq[r].outdated
  BY <1>2, <1>3 DEF M!Request
<1>5. mreq' = [mreq EXCEPT ![r] = new]
  BY <1>1
<1> HIDE DEF new
<1>6. /\ mreq[r].user \in User /\ group # "none"
      /\ mreq[r].pc = "owner" => mreq[r].role \in M!WorkplaceMemberRole \cup M!ProjectMemberRole
      /\ mreq[r].pc = "ownerOf" => kind = "project"
  BY <1>1 DEF MInv, MHeld
<1>7. ~mreq[r].outdated /\ mreq[r].pc = "owner" => ~M!Has(mreq[r].user)
  BY MRows DEF MInv, MRead
<1> QED
  BY <1>1, <1>3, <1>4, <1>5, <1>6, <1>7, MMovesInv

\* A check fails: the request is answered.
LEMMA MThrowInv ==
  ASSUME MInv, NEW r \in Req, M!Throw(r), mreq[r].pc # "first" PROVE MInv'
<1>1. group \in {"none", "active", "archived"}
  BY DEF MInv, MTyped
<1> QED
  BY <1>1, MIdle, MMovesInv DEF M!Throw

\* The group's document: its first member is to follow.
LEMMA MInsertGroupInv ==
  ASSUME MInv, NEW r \in Req, M!InsertGroup(r) PROVE MInv'
<1>1. CASE group # "none"
  BY <1>1, MThrowInv DEF M!InsertGroup, M!At
<1>2. CASE group = "none"
  <2> DEFINE new == [mreq[r] EXCEPT !.pc = "first"]
  <2>1. /\ mreq[r].pc = "create" /\ group' = "active" /\ mreq' = [mreq EXCEPT ![r] = new]
        /\ UNCHANGED <<kind, rows, mcalls, faults, ownerless>>
    BY <1>2 DEF M!InsertGroup, M!At
  <2>2. mreq[r] \in M!Request /\ "first" \in M!Pc
    BY DEF MInv, MTyped, M!Pc
  <2>3. new \in M!Request /\ new.pc = "first" /\ new.user = mreq[r].user
    BY <2>2 DEF M!Request
  <2>4. mreq[r].user \in User
    BY <2>1 DEF MInv, MHeld
  <2> HIDE DEF new
  <2> QED
    BY <1>2, <2>1, <2>3, <2>4, MMovesInv
<1> QED
  BY <1>1, <1>2

\* PUT and DELETE write the status and end.
LEMMA MWriteInv ==
  ASSUME MInv, NEW r \in Req, M!WriteWorkplace(r) PROVE MInv'
<1>1. /\ mreq[r].pc \in {"edit", "archive"} /\ group' \in {"active", "archived"}
      /\ mreq' = [mreq EXCEPT ![r] = M!Idle] /\ UNCHANGED <<kind, rows, ownerless>>
  BY DEF M!WriteWorkplace, M!At
<1>2. group # "none"
  BY <1>1 DEF MInv, MHeld
<1> QED
  BY <1>1, <1>2, MIdle, MMovesInv

\* A row at the end: the rows before it keep their places.
MExtends(new, row) ==
  /\ new \in Seq(M!Member) /\ Len(new) = Len(rows) + 1 /\ Len(rows) \in Nat
  /\ \A i \in 1..Len(rows) : new[i] = rows[i]
  /\ new[Len(rows) + 1] = row
  /\ \A i \in 1..Len(new) : new[i].user # row.user => \E k \in 1..Len(rows) : rows[k].user = new[i].user
  /\ \A v \in User, i \in 1..Len(new) : v # row.user /\ MIsFirst(new, v, i) =>
       \E k \in 1..Len(rows) : MIsFirst(rows, v, k) /\ rows[k].role = new[i].role
  /\ \A i \in 1..Len(new) : new[i].role = "owner" => row.role = "owner" \/ \E k \in 1..Len(rows) : rows[k].role = "owner"
  /\ \A i, j \in 1..Len(new) : i # j => ~MClash(new, i, j)
\* An inserted row leaves such a sequence.
LEMMA MAppended ==
  ASSUME MInv, NEW row \in M!Member,
         ~row.outdated => \A i \in 1..Len(rows) : rows[i].user # row.user /\ ~(row.role = "owner" /\ rows[i].role = "owner")
  PROVE  MExtends(Append(rows, row), row)
<1> DEFINE new == Append(rows, row)
<1>1. rows \in Seq(M!Member) /\ Len(rows) \in Nat
  BY MRows DEF MInv, MTyped
<1>2. /\ new \in Seq(M!Member) /\ Len(new) = Len(rows) + 1
      /\ \A i \in 1..Len(rows) : new[i] = rows[i]
      /\ new[Len(rows) + 1] = row
  BY <1>1, AppendProperties
<1> HIDE DEF new
<1>3. \A i \in 1..Len(new) : i \in 1..Len(rows) \/ i = Len(rows) + 1
  BY <1>1, <1>2
<1>4. \A i \in 1..Len(new) : new[i].user # row.user => \E k \in 1..Len(rows) : rows[k].user = new[i].user
  BY <1>2, <1>3
<1>5. \A v \in User, i \in 1..Len(new) : v # row.user /\ MIsFirst(new, v, i) =>
        \E k \in 1..Len(rows) : MIsFirst(rows, v, k) /\ rows[k].role = new[i].role
  <2> SUFFICES ASSUME NEW v \in User, NEW i \in 1..Len(new), v # row.user, MIsFirst(new, v, i)
               PROVE  MIsFirst(rows, v, i) /\ rows[i].role = new[i].role /\ i \in 1..Len(rows)
    OBVIOUS
  <2>1. new[i].user = v /\ \A j \in 1..(i - 1) : new[j].user # v
    BY DEF MIsFirst
  <2>2. i \in 1..Len(rows)
    BY <1>2, <1>3, <2>1
  <2>3. \A j \in 1..(i - 1) : j \in 1..Len(rows)
    BY <1>1, <2>2
  <2> QED
    BY <1>2, <2>1, <2>2, <2>3 DEF MIsFirst
<1>6. \A i \in 1..Len(new) : new[i].role = "owner" => row.role = "owner" \/ \E k \in 1..Len(rows) : rows[k].role = "owner"
  BY <1>2, <1>3
<1>7. \A i, j \in 1..Len(new) : i # j => ~MClash(new, i, j)
  <2> SUFFICES ASSUME NEW i \in 1..Len(new), NEW j \in 1..Len(new), i # j PROVE ~MClash(new, i, j)
    OBVIOUS
  <2>1. CASE i \in 1..Len(rows) /\ j \in 1..Len(rows)
    <3>1. ~MClash(rows, i, j)
      BY <2>1 DEF MInv, MSingle
    <3> QED
      BY <1>2, <2>1, <3>1 DEF MClash
  <2>2. CASE i \in 1..Len(rows) /\ j = Len(rows) + 1
    BY <1>2, <2>2 DEF MClash
  <2>3. CASE i = Len(rows) + 1 /\ j \in 1..Len(rows)
    BY <1>2, <2>3 DEF MClash
  <2> QED
    BY <1>3, <2>1, <2>2, <2>3
<1> QED
  <2>1. MExtends(new, row)
    BY <1>1, <1>2, <1>4, <1>5, <1>6, <1>7 DEF MExtends
  <2> QED
    BY <2>1 DEF new

\* The creator's row, after the group.
LEMMA MFirstMemberInv ==
  ASSUME MInv, NEW r \in Req, M!FirstMember(r) PROVE MInv'
<1> DEFINE role == IF kind = "workplace" THEN "owner" ELSE "manager"
<1> DEFINE row == [user |-> Creator, role |-> role, outdated |-> M!Has(Creator) \/ (role = "owner" /\ M!HasOwner)]
<1> DEFINE new == Append(rows, row)
<1>1. mreq[r].pc = "first" /\ M!SetRows(r, Creator, new, role) /\ ownerless' = ownerless
  BY DEF M!FirstMember, M!At
<1>2. group # "none" /\ ownerless \in BOOLEAN
  BY <1>1 DEF MInv, MHeld, MTyped
<1>3. role \in M!WorkplaceMemberRole \cup M!ProjectMemberRole /\ (kind = "workplace" <=> role = "owner")
  BY DEF M!WorkplaceMemberRole, M!ProjectMemberRole
<1> HIDE DEF role
<1>4. /\ row \in M!Member /\ row.user = Creator /\ row.role = role
      /\ ~row.outdated => ~M!Has(Creator) /\ ~(role = "owner" /\ M!HasOwner)
  <2>1. PICK b \in BOOLEAN : b = (M!Has(Creator) \/ (role = "owner" /\ M!HasOwner))
    OBVIOUS
  <2>2. row = [user |-> Creator, role |-> role, outdated |-> b]
    BY <2>1
  <2>3. [user |-> Creator, role |-> role, outdated |-> b] \in M!Member
    BY <1>3, MCreator DEF M!Member
  <2> QED
    BY <2>1, <2>2, <2>3
<1> HIDE DEF row
<1>5. ~row.outdated => \A i \in 1..Len(rows) : rows[i].user # row.user /\ ~(row.role = "owner" /\ rows[i].role = "owner")
  BY <1>4, MRows DEF MInv
<1>6. /\ new \in Seq(M!Member) /\ Len(new) = Len(rows) + 1 /\ Len(rows) \in Nat
      /\ new[Len(rows) + 1] = row
      /\ \A i \in 1..Len(new) : new[i].user # row.user => \E k \in 1..Len(rows) : rows[k].user = new[i].user
      /\ \A v \in User, i \in 1..Len(new) : v # row.user /\ MIsFirst(new, v, i) =>
           \E k \in 1..Len(rows) : MIsFirst(rows, v, k) /\ rows[k].role = new[i].role
      /\ \A i \in 1..Len(new) : new[i].role = "owner" => row.role = "owner" \/ \E k \in 1..Len(rows) : rows[k].role = "owner"
      /\ \A i, j \in 1..Len(new) : i # j => ~MClash(new, i, j)
  <2>1. MExtends(new, row)
    BY <1>4, <1>5, MAppended
  <2> QED
    BY <2>1 DEF MExtends
<1> HIDE DEF new
<1>7. Len(rows) + 1 \in 1..Len(new)
  BY <1>6
<1>8. IF kind = "workplace" THEN \E i \in 1..Len(new) : new[i].role = "owner" ELSE \E i \in 1..Len(new) : new[i].user = Creator
  BY <1>3, <1>4, <1>6, <1>7
<1> QED
  BY <1>1, <1>2, <1>4, <1>6, <1>8, MCreator, MSetRowsInv

\* A group that has its owner's row keeps it when rows are only added.
LEMMA MInsertInv ==
  ASSUME MInv, NEW r \in Req, M!InsertMember(r) PROVE MInv'
<1> DEFINE row == [user |-> mreq[r].user, role |-> mreq[r].role, outdated |-> mreq[r].outdated]
<1> DEFINE new == Append(rows, row)
<1>1. mreq[r].pc = "insert" /\ M!SetRows(r, mreq[r].user, new, mreq[r].role) /\ ownerless' = ownerless
  BY DEF M!InsertMember, M!At
<1>2. /\ group # "none" /\ ownerless \in BOOLEAN /\ mreq[r].user \in User /\ mreq[r].outdated \in BOOLEAN
      /\ mreq[r].role \in M!WorkplaceMemberRole \cup M!ProjectMemberRole
  BY <1>1 DEF MInv, MHeld, MTyped, M!Request
<1>3. row \in M!Member /\ row.user = mreq[r].user /\ row.role = mreq[r].role /\ row.outdated = mreq[r].outdated
  BY <1>2 DEF M!Member
<1> HIDE DEF row
<1>4. ~row.outdated => \A i \in 1..Len(rows) : rows[i].user # row.user /\ ~(row.role = "owner" /\ rows[i].role = "owner")
  BY <1>1, <1>3 DEF MInv, MRead
<1>5. /\ new \in Seq(M!Member) /\ Len(new) = Len(rows) + 1 /\ Len(rows) \in Nat
      /\ \A i \in 1..Len(rows) : new[i] = rows[i]
      /\ \A i \in 1..Len(new) : new[i].user # row.user => \E k \in 1..Len(rows) : rows[k].user = new[i].user
      /\ \A v \in User, i \in 1..Len(new) : v # row.user /\ MIsFirst(new, v, i) =>
           \E k \in 1..Len(rows) : MIsFirst(rows, v, k) /\ rows[k].role = new[i].role
      /\ \A i \in 1..Len(new) : new[i].role = "owner" => row.role = "owner" \/ \E k \in 1..Len(rows) : rows[k].role = "owner"
      /\ \A i, j \in 1..Len(new) : i # j => ~MClash(new, i, j)
  <2>1. MExtends(new, row)
    BY <1>3, <1>4, MAppended
  <2> QED
    BY <2>1 DEF MExtends
<1> HIDE DEF new
<1>6. ~ownerless' /\ (\A q \in Req : q = r \/ mreq[q].pc # "first") =>
        IF kind = "workplace" THEN \E i \in 1..Len(new) : new[i].role = "owner"
        ELSE \E i \in 1..Len(new) : new[i].user = Creator
  <2> SUFFICES ASSUME ~ownerless, \A q \in Req : q = r \/ mreq[q].pc # "first"
               PROVE  IF kind = "workplace" THEN \E i \in 1..Len(new) : new[i].role = "owner"
                      ELSE \E i \in 1..Len(new) : new[i].user = Creator
    BY <1>1
  <2>1. IF kind = "workplace" THEN \E i \in 1..Len(rows) : rows[i].role = "owner" ELSE \E i \in 1..Len(rows) : rows[i].user = Creator
    BY <1>1, <1>2 DEF MInv, MOwned
  <2>2. \A i \in 1..Len(rows) : i \in 1..Len(new)
    BY <1>5
  <2> QED
    BY <1>5, <2>1, <2>2
<1>7. (mreq[r].role # "owner") => \A i \in 1..Len(new) : new[i].role = "owner" => \E k \in 1..Len(rows) : rows[k].role = "owner"
  BY <1>3, <1>5
<1>8. /\ \A i \in 1..Len(new) : new[i].user # mreq[r].user => \E k \in 1..Len(rows) : rows[k].user = new[i].user
      /\ \A v \in User, i \in 1..Len(new) : v # mreq[r].user /\ MIsFirst(new, v, i) =>
           \E k \in 1..Len(rows) : MIsFirst(rows, v, k) /\ rows[k].role = new[i].role
  BY <1>3, <1>5
<1>9. ownerless' \in BOOLEAN /\ new \in Seq(M!Member) /\ \A i, j \in 1..Len(new) : i # j => ~MClash(new, i, j)
  BY <1>1, <1>2, <1>5
<1> QED
  BY <1>1, <1>2, <1>6, <1>7, <1>8, <1>9, MSetRowsInv

\* Without the row at a position those behind it move up.
MShrinks(new, k) ==
  /\ new \in Seq(M!Member) /\ Len(rows) \in Nat \ {0} /\ Len(new) = Len(rows) - 1
  /\ \A i \in 1..Len(new) : i < k => new[i] = rows[i]
  /\ \A i \in 1..Len(new) : i >= k => new[i] = rows[i + 1]
\* deleteOne leaves such a sequence.
LEMMA MRemoved ==
  ASSUME MTyped, NEW k \in 1..Len(rows)
  PROVE  MShrinks(SubSeq(rows, 1, k - 1) \o SubSeq(rows, k + 1, Len(rows)), k)
<1> DEFINE s == SubSeq(rows, 1, k - 1)
<1> DEFINE t == SubSeq(rows, k + 1, Len(rows))
<1>1. Len(rows) \in Nat /\ k \in Nat /\ k >= 1 /\ k <= Len(rows) /\ \A i \in 1..Len(rows) : rows[i] \in M!Member
  BY MRows
<1>2. s \in Seq(M!Member) /\ Len(s) = k - 1 /\ \A i \in 1..(k - 1) : s[i] = rows[i]
  <2>1. \A i \in 1..(k - 1) : rows[i] \in M!Member
    BY <1>1
  <2>2. /\ s \in Seq(M!Member) /\ Len(s) = IF 1 <= k - 1 THEN (k - 1) - 1 + 1 ELSE 0
        /\ \A i \in 1..((k - 1) - 1 + 1) : s[i] = rows[1 + i - 1]
    BY <1>1, <2>1, SubSeqProperties
  <2>3. Len(s) = k - 1
    BY <1>1, <2>2
  <2>4. \A i \in 1..(k - 1) : 1 + i - 1 = i /\ (k - 1) - 1 + 1 = k - 1
    BY <1>1
  <2> QED
    BY <1>1, <2>2, <2>3, <2>4
<1>3. t \in Seq(M!Member) /\ Len(t) = Len(rows) - k /\ \A i \in 1..(Len(rows) - k) : t[i] = rows[k + i]
  <2>1. \A i \in (k + 1)..Len(rows) : rows[i] \in M!Member
    BY <1>1
  <2>2. /\ t \in Seq(M!Member) /\ Len(t) = IF k + 1 <= Len(rows) THEN Len(rows) - (k + 1) + 1 ELSE 0
        /\ \A i \in 1..(Len(rows) - (k + 1) + 1) : t[i] = rows[(k + 1) + i - 1]
    BY <1>1, <2>1, SubSeqProperties
  <2>3. Len(t) = Len(rows) - k
    BY <1>1, <2>2
  <2>4. \A i \in 1..(Len(rows) - k) : (k + 1) + i - 1 = k + i /\ Len(rows) - (k + 1) + 1 = Len(rows) - k
    BY <1>1
  <2> QED
    BY <1>1, <2>2, <2>3, <2>4
<1> HIDE DEF s, t
<1>4. /\ s \o t \in Seq(M!Member) /\ Len(s \o t) = Len(s) + Len(t)
      /\ \A i \in 1..(Len(s) + Len(t)) : (s \o t)[i] = IF i <= Len(s) THEN s[i] ELSE t[i - Len(s)]
  BY <1>2, <1>3, ConcatProperties
<1>5. Len(s \o t) = Len(rows) - 1
  BY <1>1, <1>2, <1>3, <1>4
<1>6. ASSUME NEW i \in 1..(Len(rows) - 1), i < k PROVE (s \o t)[i] = rows[i]
  BY <1>1, <1>2, <1>3, <1>4, <1>6
<1>7. ASSUME NEW i \in 1..(Len(rows) - 1), i >= k PROVE (s \o t)[i] = rows[i + 1]
  <2>1. i - (k - 1) \in 1..(Len(rows) - k) /\ k + (i - (k - 1)) = i + 1 /\ ~(i <= k - 1)
    BY <1>1, <1>7
  <2>2. (s \o t)[i] = t[i - (k - 1)]
    BY <1>1, <1>2, <1>3, <1>4, <2>1
  <2>3. t[i - (k - 1)] = rows[k + (i - (k - 1))]
    BY <1>3, <2>1
  <2> QED
    BY <2>1, <2>2, <2>3
<1>8. MShrinks(s \o t, k)
  <2>1. Len(rows) \in Nat \ {0}
    BY <1>1
  <2>2. \A i \in 1..Len(s \o t) : i < k => (s \o t)[i] = rows[i]
    BY <1>5, <1>6
  <2>3. \A i \in 1..Len(s \o t) : i >= k => (s \o t)[i] = rows[i + 1]
    BY <1>5, <1>7
  <2> QED
    BY <1>4, <1>5, <2>1, <2>2, <2>3 DEF MShrinks
<1> QED
  BY <1>8 DEF s, t

\* Where a row came from.
LEMMA MBefore ==
  ASSUME NEW new, NEW k \in 1..Len(rows), MShrinks(new, k)
  PROVE  /\ \A i \in 1..Len(new) : \E j \in 1..Len(rows) \ {k} : new[i] = rows[j] /\ j = IF i < k THEN i ELSE i + 1
         /\ \A j \in 1..Len(rows) \ {k} : \E i \in 1..Len(new) : new[i] = rows[j] /\ j = IF i < k THEN i ELSE i + 1
<1>1. Len(rows) \in Nat /\ k \in Nat /\ Len(new) = Len(rows) - 1
  BY DEF MShrinks
<1>2. ASSUME NEW i \in 1..Len(new) PROVE \E j \in 1..Len(rows) \ {k} : new[i] = rows[j] /\ j = IF i < k THEN i ELSE i + 1
  <2>1. CASE i < k
    <3>1. i \in 1..Len(rows) \ {k} /\ new[i] = rows[i]
      BY <1>1, <2>1 DEF MShrinks
    <3> QED
      BY <2>1, <3>1
  <2>2. CASE i >= k
    <3>1. i + 1 \in 1..Len(rows) \ {k} /\ new[i] = rows[i + 1] /\ ~(i < k)
      BY <1>1, <2>2 DEF MShrinks
    <3> QED
      BY <3>1
  <2> QED
    BY <1>1, <2>1, <2>2
<1>3. ASSUME NEW j \in 1..Len(rows) \ {k} PROVE \E i \in 1..Len(new) : new[i] = rows[j] /\ j = IF i < k THEN i ELSE i + 1
  <2>1. CASE j < k
    <3>1. j \in 1..Len(new) /\ new[j] = rows[j]
      BY <1>1, <2>1 DEF MShrinks
    <3> QED
      BY <2>1, <3>1
  <2>2. CASE j > k
    <3>1. j - 1 \in 1..Len(new) /\ j - 1 >= k /\ (j - 1) + 1 = j /\ ~(j - 1 < k)
      BY <1>1, <2>2
    <3>2. new[j - 1] = rows[j]
      BY <3>1 DEF MShrinks
    <3> QED
      BY <3>1, <3>2
  <2> QED
    BY <1>1, <2>1, <2>2
<1> QED
  BY <1>2, <1>3

\* What a removal and a change of role find: the first row of the user, which is not
\* an owner's unless it is one that the request has not read.
LEMMA MHits ==
  ASSUME MInv, NEW r \in Req, mreq[r].pc \in {"delete", "update"}, M!Has(mreq[r].user)
  PROVE  /\ M!First(mreq[r].user) \in 1..Len(rows) /\ rows[M!First(mreq[r].user)].user = mreq[r].user
         /\ MIsFirst(rows, mreq[r].user, M!First(mreq[r].user))
         /\ kind = "workplace" => rows[M!First(mreq[r].user)].role # "owner" \/ mreq[r].outdated
         /\ group # "none" /\ mreq[r].user \in User /\ ownerless \in BOOLEAN /\ mreq[r].outdated \in BOOLEAN
         /\ kind \in {"workplace", "project"}
<1>1. MIsFirst(rows, mreq[r].user, M!First(mreq[r].user))
  BY MFirstRow DEF MInv
<1>2. group # "none" /\ mreq[r].user \in User /\ ownerless \in BOOLEAN /\ kind \in {"workplace", "project"}
  BY DEF MInv, MHeld, MTyped
<1>3. mreq[r].outdated \in BOOLEAN
  BY DEF MInv, MTyped, M!Request
<1>4. kind = "workplace" => rows[M!First(mreq[r].user)].role # "owner" \/ mreq[r].outdated
  BY <1>1 DEF MInv, MRead, MIsFirst
<1> QED
  BY <1>1, <1>2, <1>3, <1>4 DEF MIsFirst

\* deleteOne: the owner's row goes only at the hands of a request that has not read it.
LEMMA MDeleteInv ==
  ASSUME MInv, NEW r \in Req, M!DeleteMember(r) PROVE MInv'
<1> DEFINE u == mreq[r].user
<1> DEFINE k == M!First(u)
<1> DEFINE new == SubSeq(rows, 1, k - 1) \o SubSeq(rows, k + 1, Len(rows))
<1>0. mreq[r].pc = "delete"
  BY DEF M!DeleteMember, M!At
<1>1. CASE ~M!Has(u)
  BY <1>0, <1>1, MThrowInv DEF M!DeleteMember
<1>2. CASE M!Has(u)
  <2>1. /\ k \in 1..Len(rows) /\ rows[k].user = u /\ MIsFirst(rows, u, k)
        /\ kind = "workplace" => rows[k].role # "owner" \/ mreq[r].outdated
        /\ group # "none" /\ u \in User /\ ownerless \in BOOLEAN /\ mreq[r].outdated \in BOOLEAN
        /\ kind \in {"workplace", "project"}
    BY <1>0, <1>2, MHits
  <2>2. M!SetRows(r, u, new, rows[k].role) /\ ownerless' = (ownerless \/ (rows[k].role = "owner" /\ mreq[r].outdated))
    BY <1>2 DEF M!DeleteMember
  <2>3. kind = "project" => u # Creator
    BY <1>0 DEF MInv, MHeld
  <2>4. MShrinks(new, k)
    BY <2>1, MRemoved DEF MInv
  <2> HIDE DEF new, k, u
  <2>5. new \in Seq(M!Member) /\ Len(new) \in Nat /\ Len(rows) \in Nat /\ k \in Nat /\ Len(new) = Len(rows) - 1
    BY <2>1, <2>4 DEF MShrinks
  <2>6. /\ \A i \in 1..Len(new) : \E j \in 1..Len(rows) \ {k} : new[i] = rows[j] /\ j = IF i < k THEN i ELSE i + 1
        /\ \A j \in 1..Len(rows) \ {k} : \E i \in 1..Len(new) : new[i] = rows[j] /\ j = IF i < k THEN i ELSE i + 1
    BY <2>1, <2>4, MBefore
  <2>7. ASSUME NEW v \in User, NEW i \in 1..Len(new), v # u, MIsFirst(new, v, i)
        PROVE  \E j \in 1..Len(rows) : MIsFirst(rows, v, j) /\ rows[j].role = new[i].role
    <3>1. PICK j \in 1..Len(rows) \ {k} : new[i] = rows[j] /\ j = IF i < k THEN i ELSE i + 1
      BY <2>6
    <3>2. rows[j].user = v /\ \A l \in 1..(i - 1) : new[l].user # v
      BY <2>7, <3>1 DEF MIsFirst
    <3>3. ASSUME NEW l \in 1..(j - 1), rows[l].user = v PROVE FALSE
      <4>1. l \in 1..Len(rows) \ {k} /\ l < j /\ l \in Nat /\ j \in Nat
        BY <2>1, <2>5, <2>7, <3>1, <3>3
      <4>2. PICK m \in 1..Len(new) : new[m] = rows[l] /\ l = IF m < k THEN m ELSE m + 1
        BY <2>6, <4>1
      <4>3. m < i
        BY <2>5, <3>1, <4>1, <4>2
      <4>4. m \in 1..(i - 1)
        BY <2>5, <4>3
      <4> QED
        BY <3>2, <3>3, <4>2, <4>4
    <3>4. MIsFirst(rows, v, j)
      BY <3>1, <3>2, <3>3 DEF MIsFirst
    <3> QED
      BY <3>1, <3>4
  <2>8. ASSUME NEW i \in 1..Len(new), NEW j \in 1..Len(new), i # j PROVE ~MClash(new, i, j)
    <3>1. PICK l \in 1..Len(rows) \ {k} : new[i] = rows[l] /\ l = IF i < k THEN i ELSE i + 1
      BY <2>6
    <3>2. PICK m \in 1..Len(rows) \ {k} : new[j] = rows[m] /\ m = IF j < k THEN j ELSE j + 1
      BY <2>6
    <3>3. l # m
      BY <2>5, <2>8, <3>1, <3>2
    <3>4. ~MClash(rows, l, m)
      BY <3>3 DEF MInv, MSingle
    <3> QED
      BY <3>1, <3>2, <3>4 DEF MClash
  <2>9. ASSUME ~ownerless', \A q \in Req : q = r \/ mreq[q].pc # "first"
        PROVE  IF kind = "workplace" THEN \E i \in 1..Len(new) : new[i].role = "owner"
               ELSE \E i \in 1..Len(new) : new[i].user = Creator
    <3>1. ~ownerless /\ ~(rows[k].role = "owner" /\ mreq[r].outdated)
      BY <2>2, <2>9
    <3>2. IF kind = "workplace" THEN \E i \in 1..Len(rows) : rows[i].role = "owner" ELSE \E i \in 1..Len(rows) : rows[i].user = Creator
      BY <1>0, <2>1, <2>9, <3>1 DEF MInv, MOwned
    <3>3. CASE kind = "workplace"
      <4>1. PICK j \in 1..Len(rows) : rows[j].role = "owner"
        BY <3>2, <3>3
      <4>2. j # k
        BY <2>1, <3>1, <3>3, <4>1
      <4> QED
        BY <2>6, <3>3, <4>1, <4>2
    <3>4. CASE kind # "workplace"
      <4>1. PICK j \in 1..Len(rows) : rows[j].user = Creator
        BY <3>2, <3>4
      <4>2. j # k
        BY <2>1, <2>3, <3>4, <4>1
      <4> QED
        BY <2>6, <3>4, <4>1, <4>2
    <3> QED
      BY <3>3, <3>4
  <2>10. ownerless' \in BOOLEAN
    BY <2>1, <2>2
  <2>11. /\ \A i \in 1..Len(new) : new[i].user # u => \E j \in 1..Len(rows) : rows[j].user = new[i].user
         /\ \A i \in 1..Len(new) : new[i].role = "owner" => \E j \in 1..Len(rows) : rows[j].role = "owner"
    BY <2>6
  <2> QED
    BY <2>1, <2>2, <2>5, <2>7, <2>8, <2>9, <2>10, <2>11, MSetRowsInv
<1> QED
  BY <1>1, <1>2

\* updateOne: the same for a change of role.
LEMMA MSetRoleInv ==
  ASSUME MInv, NEW r \in Req, M!SetRole(r) PROVE MInv'
<1> DEFINE u == mreq[r].user
<1> DEFINE k == M!First(u)
<1> DEFINE row == [rows[k] EXCEPT !.role = mreq[r].role]
<1> DEFINE new == [rows EXCEPT ![k] = row]
<1>0. mreq[r].pc = "update"
  BY DEF M!SetRole, M!At
<1>1. CASE ~M!Has(u)
  BY <1>0, <1>1, MThrowInv DEF M!SetRole
<1>2. CASE M!Has(u)
  <2>1. /\ k \in 1..Len(rows) /\ rows[k].user = u /\ MIsFirst(rows, u, k)
        /\ kind = "workplace" => rows[k].role # "owner" \/ mreq[r].outdated
        /\ group # "none" /\ u \in User /\ ownerless \in BOOLEAN /\ mreq[r].outdated \in BOOLEAN
        /\ kind \in {"workplace", "project"}
    BY <1>0, <1>2, MHits
  <2>2. /\ M!SetRows(r, u, new, "admin")
        /\ ownerless' = (ownerless \/ (rows[k].role = "owner" /\ mreq[r].outdated))
    BY <1>2 DEF M!SetRole, M!RowOf
  <2>3. mreq[r].role # "owner" /\ mreq[r].role \in M!WorkplaceMemberRole \cup M!ProjectMemberRole
    BY <1>0 DEF MInv, MHeld
  <2>4. rows[k] \in M!Member /\ rows \in Seq(M!Member)
    BY <2>1, MRows DEF MInv, MTyped
  <2>5. row \in M!Member /\ row.user = u /\ row.role = mreq[r].role /\ row.outdated = rows[k].outdated
    BY <2>1, <2>3, <2>4 DEF M!Member
  <2> HIDE DEF row, k, u
  <2>6. /\ new \in Seq(M!Member) /\ Len(new) = Len(rows)
        /\ \A i \in 1..Len(rows) : new[i] = IF i = k THEN row ELSE rows[i]
    BY <2>1, <2>4, <2>5, ExceptSeq
  <2> HIDE DEF new
  <2>7. \A i \in 1..Len(rows) : /\ new[i].user = rows[i].user /\ new[i].outdated = rows[i].outdated
                                /\ i # k => new[i].role = rows[i].role
                                /\ new[i].role = "owner" => rows[i].role = "owner" /\ i # k
    BY <2>1, <2>3, <2>5, <2>6
  <2>8. ASSUME NEW v \in User, NEW i \in 1..Len(new), v # u, MIsFirst(new, v, i)
        PROVE  \E j \in 1..Len(rows) : MIsFirst(rows, v, j) /\ rows[j].role = new[i].role
    <3>1. i \in 1..Len(rows) /\ new[i].user = v /\ \A j \in 1..(i - 1) : new[j].user # v
      BY <2>6, <2>8 DEF MIsFirst
    <3>2. i # k
      BY <2>1, <2>7, <2>8, <3>1
    <3>3. \A j \in 1..(i - 1) : j \in 1..Len(rows)
      BY <3>1, MRows DEF MInv
    <3>4. MIsFirst(rows, v, i)
      BY <2>7, <3>1, <3>3 DEF MIsFirst
    <3> QED
      BY <2>7, <3>1, <3>2, <3>4
  <2>9. ASSUME NEW i \in 1..Len(new), NEW j \in 1..Len(new), i # j PROVE ~MClash(new, i, j)
    <3>1. i \in 1..Len(rows) /\ j \in 1..Len(rows)
      BY <2>6
    <3>2. ~MClash(rows, i, j)
      BY <2>9, <3>1 DEF MInv, MSingle
    <3> QED
      BY <2>7, <3>1, <3>2 DEF MClash
  <2>10. ASSUME ~ownerless', \A q \in Req : q = r \/ mreq[q].pc # "first"
         PROVE  IF kind = "workplace" THEN \E i \in 1..Len(new) : new[i].role = "owner"
                ELSE \E i \in 1..Len(new) : new[i].user = Creator
    <3>1. ~ownerless /\ ~(rows[k].role = "owner" /\ mreq[r].outdated)
      BY <2>2, <2>10
    <3>2. IF kind = "workplace" THEN \E i \in 1..Len(rows) : rows[i].role = "owner" ELSE \E i \in 1..Len(rows) : rows[i].user = Creator
      BY <1>0, <2>1, <2>10, <3>1 DEF MInv, MOwned
    <3> QED
      BY <2>1, <2>6, <2>7, <3>1, <3>2
  <2>11. ownerless' \in BOOLEAN
    BY <2>1, <2>2
  <2>12. /\ \A i \in 1..Len(new) : new[i].user # u => \E j \in 1..Len(rows) : rows[j].user = new[i].user
         /\ \A i \in 1..Len(new) : new[i].role = "owner" => \E j \in 1..Len(rows) : rows[j].role = "owner"
    BY <2>6, <2>7
  <2> QED
    BY <2>1, <2>2, <2>6, <2>8, <2>9, <2>10, <2>11, <2>12, MSetRowsInv
<1> QED
  BY <1>1, <1>2

\* A crash forgets the requests; a creation that had only its group is told of.
LEMMA MCrashInv ==
  ASSUME MInv, M!Crash PROVE MInv'
<1>1. /\ ownerless' = (ownerless \/ \E r \in Req : mreq[r].pc = "first")
      /\ mreq' = [r \in Req |-> M!Idle] /\ UNCHANGED <<kind, group, rows, mcalls>>
  BY DEF M!Crash, M!At
<1>2. ownerless' \in BOOLEAN /\ \A r \in Req : mreq'[r] = M!Idle
  BY <1>1 DEF MInv, MTyped
<1>3. MTyped'
  BY <1>1, <1>2, MIdle DEF MInv, MTyped
<1>4. MHeld' /\ MRead'
  BY <1>2, MIdle DEF MHeld, MRead
<1>5. MBegun' /\ MSingle'
  BY <1>1 DEF MInv, MBegun, MSingle, MClash
<1>6. MOwned'
  BY <1>1 DEF MInv, MOwned
<1> QED
  BY <1>3, <1>4, <1>5, <1>6 DEF MInv

\* Every step keeps the invariant.
LEMMA MNextInv == MInv /\ [M!Next]_M!vars => MInv'
<1> SUFFICES ASSUME MInv, [M!Next]_M!vars PROVE MInv'
  OBVIOUS
<1>1. CASE UNCHANGED M!vars
  BY <1>1 DEF M!vars, MInv, MTyped, MHeld, MBegun, MRead, MSingle, MClash, MOwned
<1>2. CASE M!Crash
  BY <1>2, MCrashInv
<1>3. ASSUME NEW r \in Req, M!CheckOwner(r) PROVE MInv'
  BY <1>3, MGoInv, MThrowInv DEF M!CheckOwner, M!At
<1>4. ASSUME NEW r \in Req, M!CheckProjectOwner(r) PROVE MInv'
  BY <1>4, MGoInv, MThrowInv DEF M!CheckProjectOwner, M!At
<1>5. ASSUME NEW r \in Req, M!Routes(r) \/ M!InsertGroup(r) \/ M!FirstMember(r) \/ M!InsertMember(r) PROVE MInv'
  BY <1>5, MRoutesInv, MInsertGroupInv, MFirstMemberInv, MInsertInv
<1>6. ASSUME NEW r \in Req, M!DeleteMember(r) \/ M!SetRole(r) \/ M!WriteWorkplace(r) PROVE MInv'
  BY <1>6, MDeleteInv, MSetRoleInv, MWriteInv
<1> QED
  BY <1>1, <1>2, <1>3, <1>4, <1>5, <1>6 DEF M!Next

\* Every user has one row and a workplace one OWNER row, which stays, but where a write
\* overtook the look of another, or a crash cut the creation short.
THEOREM MKept == M!Spec => []M!MemberRules
<1>1. MInv => M!MemberRules
  <2> SUFFICES ASSUME MInv PROVE M!MemberRules
    OBVIOUS
  <2>1. M!RowsAreSingle
    <3> SUFFICES ASSUME NEW i \in DOMAIN rows, NEW j \in DOMAIN rows, i # j
                 PROVE  \/ rows[i].user # rows[j].user /\ ~(rows[i].role = "owner" /\ rows[j].role = "owner")
                        \/ rows[i].outdated \/ rows[j].outdated
      BY DEF M!RowsAreSingle
    <3>1. i \in 1..Len(rows) /\ j \in 1..Len(rows)
      BY MRows DEF MInv
    <3> QED
      BY <3>1 DEF MInv, MSingle, MClash
  <2>2. M!OwnerStays
    BY MRows DEF MInv, MOwned, M!OwnerStays
  <2> QED
    BY <2>1, <2>2 DEF M!MemberRules
<1> QED
  BY <1>1, MInitInv, MNextInv, PTL DEF M!Spec

-----------------------------------------------------------------------------
(* Projects and their cached lists: PInv                                   *)

\* What the assumption says of the keys.
LEMMA PNone == None \notin Key
  BY WorkspaceAssumption

PTyped ==
  /\ project \in [Project -> P!Row] /\ preq \in [Req -> P!Request]
  /\ watched \in P!List /\ cache \in {"absent", "fresh", "stale"} /\ excused \in BOOLEAN
  /\ \A p \in Project : IF P!Exists(p) THEN project[p].key \in Key ELSE project[p].key = None
\* What a request has in hand: a key to insert, a project there is, lists to delete.
PInHand ==
  \A r \in Req :
    /\ preq[r].pc = "create" => preq[r].key \in Key
    /\ preq[r].pc \in {"update", "archive", "activate"} => preq[r].project \in Project /\ P!Exists(preq[r].project)
    /\ preq[r].pc \notin {"member", "bust"} => preq[r].busts = {}
\* A key that was found free, and that nobody inserted since, is free.
PFree ==
  \A r \in Req : preq[r].pc = "create" /\ ~preq[r].crossed =>
    \A p \in Project : P!Exists(p) => project[p].key # preq[r].key
PInv == PTyped /\ PInHand /\ PFree /\ P!ProjectRules

\* No project, no request, no list.
LEMMA PInitInv == P!Init => PInv
<1> SUFFICES ASSUME P!Init PROVE PInv
  OBVIOUS
<1>1. P!Idle \in P!Request /\ P!Absent \in P!Row /\ P!Idle.pc = "idle" /\ P!Idle.busts = {} /\ P!Absent.status = "none" /\ P!Absent.key = None
  BY DEF P!Idle, P!Request, P!Absent, P!Row
<1> QED
  BY <1>1 DEF P!Init, PInv, PTyped, PInHand, PFree, P!ProjectRules, P!ListsRecover, P!KeysDistinct, P!Exists, P!List

\* What a request held goes, and the list is excused if that was its deletion.
PExcuses(busts) ==
  /\ excused' \in BOOLEAN /\ (excused => excused')
  /\ cache = "stale" /\ watched \in busts => excused'
LEMMA PExcused ==
  ASSUME PInv, NEW B, excused' = (excused \/ (cache = "stale" /\ B))
  PROVE  excused' \in BOOLEAN /\ (excused => excused') /\ (cache = "stale" /\ B => excused')
<1>1. CASE excused \/ (cache = "stale" /\ B)
  BY <1>1 DEF PInv, PTyped
<1>2. CASE ~(excused \/ (cache = "stale" /\ B))
  BY <1>2 DEF PInv, PTyped
<1> QED
  BY <1>1, <1>2

\* A request goes on; at most the cached list goes, or its deletion is dropped.
LEMMA PMoves ==
  ASSUME PInv, NEW r \in Req, NEW new \in P!Request, preq' = [preq EXCEPT ![r] = new], UNCHANGED <<project, watched>>,
         new.pc = "create" => new.key \in Key /\ \A p \in Project : P!Exists(p) => project[p].key # new.key,
         new.pc \in {"update", "archive", "activate"} => new.project \in Project /\ P!Exists(new.project),
         new.pc \notin {"member", "bust"} => new.busts = {},
         \/ UNCHANGED <<cache, excused>> /\ (watched \in preq[r].busts => watched \in new.busts)
         \/ cache' = "absent" /\ excused' = FALSE
         \/ cache' \in {"fresh", "stale"} /\ excused' = (cache' = "stale")
         \/ UNCHANGED cache /\ PExcuses(preq[r].busts)
  PROVE  PInv'
<1>1. preq' \in [Req -> P!Request] /\ preq'[r] = new /\ \A q \in Req \ {r} : preq'[q] = preq[q]
  BY DEF PInv, PTyped
<1>2. \A p : P!Exists(p)' <=> P!Exists(p)
  BY DEF P!Exists
<1>3. PTyped'
  BY <1>1, <1>2 DEF PInv, PTyped, PExcuses
<1>4. PInHand'
  BY <1>1 DEF PInv, PInHand, P!Exists
<1>5. PFree'
  BY <1>1 DEF PInv, PFree, P!Exists
<1>6. P!ListsRecover'
  BY <1>1 DEF PInv, P!ProjectRules, P!ListsRecover, PExcuses
<1>7. P!KeysDistinct'
  BY DEF PInv, P!ProjectRules, P!KeysDistinct, P!Exists
<1> QED
  BY <1>3, <1>4, <1>5, <1>6, <1>7 DEF PInv, P!ProjectRules

\* A project is written: its request deletes both lists next, and whoever was
\* about to insert its key is told.
LEMMA PWriteInv ==
  ASSUME PInv, NEW r \in Req, NEW p \in Project, NEW row \in P!Row, NEW next \in {"member", "bust"}, NEW busts \in SUBSET P!List,
         P!Write(r, p, row, next, busts), row.status # "none", {"workplace", "active"} \subseteq busts,
         preq[r].pc \in {"create", "update", "archive", "activate"},
         \/ P!Exists(p) /\ row.key = project[p].key /\ row.crossed = project[p].crossed
         \/ ~P!Exists(p) /\ preq[r].pc = "create" /\ row.key = preq[r].key /\ row.crossed = preq[r].crossed
  PROVE  PInv'
<1> DEFINE shown == row.status = "active" \/ project[p].status = "active"
           new == [P!Idle EXCEPT !.pc = next, !.busts = busts]
<1>1. /\ project' = [project EXCEPT ![p] = row]
      /\ cache' = IF shown /\ cache = "fresh" THEN "stale" ELSE cache
      /\ \A q \in Req : preq'[q] = IF q = r THEN new
                         ELSE [preq[q] EXCEPT !.seen = IF shown /\ preq[q].pc = "store" THEN "stale" ELSE @,
                                             !.crossed = @ \/ (~P!Exists(p) /\ preq[q].key = row.key)]
      /\ preq' = [q \in Req |-> preq'[q]]
      /\ UNCHANGED <<watched, excused>>
  BY DEF P!Write
<1>2. new \in P!Request /\ new.pc = next /\ new.busts = busts
  BY DEF P!Idle, P!Request
<1> HIDE DEF shown, new
<1>3. preq'[r] = new
  BY <1>1
<1>4. ASSUME NEW q \in Req \ {r}
      PROVE  /\ preq'[q] \in P!Request /\ preq'[q].pc = preq[q].pc /\ preq'[q].project = preq[q].project /\ preq'[q].key = preq[q].key
             /\ preq'[q].busts = preq[q].busts
             /\ ~preq'[q].crossed => ~preq[q].crossed /\ (P!Exists(p) \/ preq[q].key # row.key)
  <2>1. preq[q] \in P!Request
    BY DEF PInv, PTyped
  <2>2. PICK c \in BOOLEAN : c = (preq[q].crossed \/ (~P!Exists(p) /\ preq[q].key = row.key))
    BY <2>1 DEF P!Request
  <2>3. PICK s \in {"fresh", "stale"} : s = IF shown /\ preq[q].pc = "store" THEN "stale" ELSE preq[q].seen
    BY <2>1 DEF P!Request
  <2>4. preq'[q] = [preq[q] EXCEPT !.seen = s, !.crossed = c]
    BY <1>1, <2>2, <2>3
  <2>5. /\ preq'[q] \in P!Request /\ preq'[q].pc = preq[q].pc /\ preq'[q].project = preq[q].project /\ preq'[q].key = preq[q].key
        /\ preq'[q].busts = preq[q].busts /\ preq'[q].crossed = c
    BY <2>1, <2>4 DEF P!Request
  <2> QED
    BY <2>2, <2>5
<1>5. project'[p] = row /\ (\A x \in Project \ {p} : project'[x] = project[x]) /\ project' \in [Project -> P!Row]
  BY <1>1 DEF PInv, PTyped
<1>6. \A x \in Project : P!Exists(x)' <=> (x = p \/ P!Exists(x))
  BY <1>5 DEF P!Exists
<1>7. row.key \in Key
  BY DEF PInv, PTyped, PInHand
<1>8. PTyped'
  <2>1. preq' \in [Req -> P!Request]
    BY <1>1, <1>2, <1>3, <1>4
  <2>2. cache' \in {"absent", "fresh", "stale"}
    BY <1>1 DEF PInv, PTyped
  <2>3. \A x \in Project : IF P!Exists(x)' THEN project'[x].key \in Key ELSE project'[x].key = None
    BY <1>5, <1>6, <1>7 DEF PInv, PTyped
  <2> QED
    BY <1>1, <1>5, <2>1, <2>2, <2>3 DEF PInv, PTyped
<1>9. PInHand'
  <2> SUFFICES ASSUME NEW q \in Req
               PROVE  /\ preq'[q].pc = "create" => preq'[q].key \in Key
                      /\ preq'[q].pc \in {"update", "archive", "activate"} => preq'[q].project \in Project /\ P!Exists(preq[q].project)'
                      /\ preq'[q].pc \notin {"member", "bust"} => preq'[q].busts = {}
    BY DEF PInHand
  <2>1. CASE q = r
    BY <1>2, <1>3, <2>1
  <2>2. CASE q # r
    <3>1. preq'[q].pc \in {"update", "archive", "activate"} => preq'[q].project \in Project /\ P!Exists(preq[q].project)'
      BY <1>4, <1>5, <2>2 DEF PInv, PInHand, P!Exists
    <3> QED
      BY <1>4, <2>2, <3>1 DEF PInv, PInHand
  <2> QED
    BY <2>1, <2>2
<1>10. PFree'
  <2> SUFFICES ASSUME NEW q \in Req, preq'[q].pc = "create", ~preq'[q].crossed, NEW x \in Project, P!Exists(x)'
               PROVE  project'[x].key # preq'[q].key
    BY DEF PFree
  <2>1. /\ q # r /\ preq[q].pc = "create" /\ ~preq[q].crossed /\ preq'[q].key = preq[q].key
        /\ (P!Exists(p) \/ preq[q].key # row.key)
    BY <1>2, <1>3, <1>4
  <2>2. \A y \in Project : P!Exists(y) => project[y].key # preq[q].key
    BY <2>1 DEF PInv, PFree
  <2> QED
    BY <1>5, <1>6, <2>1, <2>2
<1>11. P!ListsRecover'
  <2>1. watched # "owner" => watched \in busts
    BY DEF PInv, PTyped, P!List
  <2> QED
    BY <1>1, <1>2, <1>3, <2>1 DEF P!ListsRecover
<1>12. P!KeysDistinct'
  <2> SUFFICES ASSUME NEW x \in Project, NEW y \in Project, P!Exists(x)', project'[x].key = project'[y].key, x # y
               PROVE  project'[x].crossed \/ project'[y].crossed
    BY DEF P!KeysDistinct
  <2>0. P!Exists(y)' 
    BY <1>8, PNone DEF PTyped
  <2>1. CASE x # p /\ y # p
    BY <1>5, <1>6, <2>1 DEF PInv, P!ProjectRules, P!KeysDistinct
  <2>2. CASE P!Exists(p)
    <3>1. /\ \A z \in Project : project'[z].key = project[z].key /\ project'[z].crossed = project[z].crossed
          /\ \A z \in Project : P!Exists(z)' => P!Exists(z)
      BY <1>5, <1>6, <2>2
    <3> QED
      BY <3>1 DEF PInv, P!ProjectRules, P!KeysDistinct
  <2>3. CASE ~P!Exists(p) /\ ~(x # p /\ y # p)
    <3>1. PICK z \in {x, y} : z # p /\ P!Exists(z) /\ project[z].key = row.key
      BY <1>5, <1>6, <2>0, <2>3
    <3>2. preq[r].crossed
      BY <2>3, <3>1 DEF PInv, PFree
    <3> QED
      BY <1>5, <2>3, <3>2
  <2> QED
    BY <2>1, <2>2, <2>3
<1> QED
  BY <1>8, <1>9, <1>10, <1>11, <1>12 DEF PInv, P!ProjectRules

\* A route begins: its project is there, its key free.
LEMMA PCallInv ==
  ASSUME PInv, NEW r \in Req, NEW l, NEW p, NEW k, P!Call(r, l, p, k),
         \/ l = "create" /\ p = None /\ k \in Key /\ \A x \in Project : P!Exists(x) => project[x].key # k
         \/ l \in {"update", "archive", "activate"} /\ p \in Project /\ P!Exists(p) /\ k = None
         \/ l = "query" /\ p = None /\ k = None
  PROVE  PInv'
<1> DEFINE new == [P!Idle EXCEPT !.pc = l, !.project = p, !.key = k]
<1>1. new \in P!Request /\ new.pc = l /\ new.project = p /\ new.key = k /\ new.busts = {}
  BY DEF P!Idle, P!Request
<1>2. preq' = [preq EXCEPT ![r] = new] /\ UNCHANGED <<project, watched, cache, excused>>
  BY DEF P!Call
<1>3. preq[r].busts = {}
  BY DEF P!Call, PInv, PInHand
<1> HIDE DEF new
<1> QED
  BY <1>1, <1>2, <1>3, PMoves

\* Every step keeps the invariant.
LEMMA PNextInv == PInv /\ [P!Next]_P!vars => PInv'
<1> SUFFICES ASSUME PInv, [P!Next]_P!vars PROVE PInv'
  OBVIOUS
<1>0. P!Idle \in P!Request /\ P!Idle.pc = "idle" /\ P!Idle.busts = {}
  BY DEF P!Idle, P!Request
<1>1. ASSUME NEW r \in Req, NEW k \in Key, P!CreateProject(r, k) PROVE PInv'
  BY <1>1, PCallInv DEF P!CreateProject
<1>2. ASSUME NEW r \in Req, NEW p \in Project, P!InsertProject(r, p) PROVE PInv'
  <2> DEFINE row == [status |-> "active", key |-> preq[r].key, crossed |-> preq[r].crossed]
  <2>1. row \in P!Row /\ row.status = "active" /\ row.key = preq[r].key /\ row.crossed = preq[r].crossed
    BY DEF P!Row, PInv, PTyped, P!Request
  <2>2. P!Write(r, p, row, "member", {"workplace", "owner", "active"}) /\ preq[r].pc = "create" /\ ~P!Exists(p)
    BY <1>2 DEF P!InsertProject
  <2> HIDE DEF row
  <2> QED
    BY <2>1, <2>2, PWriteInv DEF P!List
<1>3. ASSUME NEW r \in Req, NEW p \in Project, P!UpdateProject(r, p) \/ P!ArchiveProject(r, p) \/ P!ActivateProject(r, p) PROVE PInv'
  BY <1>3, PCallInv DEF P!UpdateProject, P!ArchiveProject, P!ActivateProject
<1>4. ASSUME NEW r \in Req, NEW x \in {"active", "archived"}, NEW busts \in SUBSET P!List, {"workplace", "active"} \subseteq busts,
             preq[r].pc \in {"update", "archive", "activate"},
             P!Write(r, preq[r].project, [project[preq[r].project] EXCEPT !.status = x], "bust", busts)
      PROVE  PInv'
  <2> DEFINE p == preq[r].project
             row == [project[p] EXCEPT !.status = x]
  <2>1. p \in Project /\ P!Exists(p)
    BY <1>4 DEF PInv, PInHand
  <2>2. row \in P!Row /\ row.status = x /\ row.key = project[p].key /\ row.crossed = project[p].crossed
    BY <2>1 DEF PInv, PTyped, P!Row
  <2>3. P!Write(r, p, row, "bust", busts)
    BY <1>4
  <2> HIDE DEF row, p
  <2> QED
    BY <1>4, <2>1, <2>2, <2>3, PWriteInv
<1>5. ASSUME NEW r \in Req, P!WriteUpdate(r) \/ P!WriteArchive(r) \/ P!WriteActivate(r) PROVE PInv'
  BY <1>4, <1>5 DEF P!WriteUpdate, P!WriteArchive, P!WriteActivate, P!UpdateBusts, P!ArchiveBusts, P!List
<1>6. ASSUME NEW r \in Req, P!AddManager(r) PROVE PInv'
  <2> DEFINE new == [preq[r] EXCEPT !.pc = "bust"]
  <2>1. new \in P!Request /\ new.pc = "bust" /\ new.busts = preq[r].busts
    BY DEF PInv, PTyped, P!Request
  <2>2. preq' = [preq EXCEPT ![r] = new] /\ UNCHANGED <<project, watched, cache, excused>>
    BY <1>6 DEF P!AddManager
  <2> HIDE DEF new
  <2> QED
    BY <2>1, <2>2, PMoves
<1>7. ASSUME NEW r \in Req, P!DelPatterns(r) PROVE PInv'
  BY <1>0, <1>7, PMoves DEF P!DelPatterns
<1>8. ASSUME NEW r \in Req, P!Lookup(r) PROVE PInv'
  BY <1>8, PCallInv DEF P!Lookup
<1>9. ASSUME NEW r \in Req, P!Query(r) PROVE PInv'
  <2> DEFINE new == [preq[r] EXCEPT !.pc = "store"]
  <2>1. new \in P!Request /\ new.pc = "store" /\ new.busts = {} /\ preq[r].busts = {}
    BY <1>9 DEF P!Query, PInv, PTyped, PInHand, P!Request
  <2>2. preq' = [preq EXCEPT ![r] = new] /\ UNCHANGED <<project, watched, cache, excused>>
    BY <1>9 DEF P!Query
  <2> HIDE DEF new
  <2> QED
    BY <2>1, <2>2, PMoves
<1>10. ASSUME NEW r \in Req, P!StoreList(r) PROVE PInv'
  <2>1. preq[r].seen \in {"fresh", "stale"}
    BY DEF PInv, PTyped, P!Request
  <2> QED
    BY <1>0, <1>10, <2>1, PMoves DEF P!StoreList
<1>11. CASE P!ExpireList
  <2>1. cache' = "absent" /\ excused' = FALSE /\ UNCHANGED <<project, watched, preq>>
    BY <1>11 DEF P!ExpireList
  <2> QED
    BY <2>1 DEF PInv, PTyped, PInHand, PFree, P!ProjectRules, P!ListsRecover, P!KeysDistinct, P!Exists
<1>12. ASSUME NEW r \in Req, P!CallFails(r) PROVE PInv'
  <2>1. PExcuses(preq[r].busts)
    BY <1>12, PExcused DEF P!CallFails, PExcuses
  <2> QED
    BY <1>0, <1>12, <2>1, PMoves DEF P!CallFails
<1>13. CASE P!Crash
  <2>1. /\ preq' \in [Req -> P!Request] /\ \A r \in Req : preq'[r] = P!Idle
        /\ UNCHANGED <<project, watched, cache>>
    BY <1>0, <1>13 DEF P!Crash
  <2>2. /\ excused' \in BOOLEAN /\ (excused => excused')
        /\ cache = "stale" /\ (\E r \in Req : watched \in preq[r].busts) => excused'
    BY <1>13, PExcused DEF P!Crash
  <2>3. P!ListsRecover'
    BY <2>1, <2>2 DEF PInv, P!ProjectRules, P!ListsRecover
  <2> QED
    BY <1>0, <2>1, <2>2, <2>3 DEF PInv, PTyped, PInHand, PFree, P!ProjectRules, P!KeysDistinct, P!Exists
<1>14. CASE UNCHANGED P!vars
  BY <1>14 DEF P!vars, PInv, PTyped, PInHand, PFree, P!ProjectRules, P!ListsRecover, P!KeysDistinct, P!Exists
<1> QED
  BY <1>1, <1>2, <1>3, <1>5, <1>6, <1>7, <1>8, <1>9, <1>10, <1>11, <1>12, <1>13, <1>14 DEF P!Next

\* The workplace's list and that of all recover, and two projects share a key only where
\* one was inserted between the other's check and its insertion.
THEOREM PKept == P!Spec => []P!ProjectRules
<1>1. PInv => P!ProjectRules
  BY DEF PInv
<1> QED
  BY <1>1, PInitInv, PNextInv, PTL DEF P!Spec

\* The step that puts the owner's list out of date is a write that deletes it, a PUT or an
\* activation.
LEMMA PForgets ==
  ASSUME PInv, [P!Next]_P!vars, watched = "owner", project' # project, cache = "fresh", cache' = "stale"
  PROVE  \E r \in Req : \/ preq[r].pc \in {"create", "archive"} /\ watched \in preq'[r].busts
                        \/ preq[r].pc \in {"update", "activate"}
<1>1. ASSUME NEW r \in Req, NEW p, NEW row, NEW next, P!Write(r, p, row, next, {"workplace", "owner", "active"})
      PROVE  watched \in preq'[r].busts
  <2>1. preq'[r] = [P!Idle EXCEPT !.pc = next, !.busts = {"workplace", "owner", "active"}]
    BY <1>1 DEF P!Write
  <2> QED
    BY <2>1 DEF P!Idle
<1>2. ASSUME NEW r \in Req, NEW p \in Project, P!InsertProject(r, p) PROVE preq[r].pc = "create" /\ watched \in preq'[r].busts
  BY <1>1, <1>2 DEF P!InsertProject
<1>3. ASSUME NEW r \in Req, P!WriteArchive(r) PROVE preq[r].pc = "archive" /\ watched \in preq'[r].busts
  BY <1>1, <1>3 DEF P!WriteArchive, P!ArchiveBusts
<1>4. ASSUME NEW r \in Req, P!WriteUpdate(r) \/ P!WriteActivate(r) PROVE preq[r].pc \in {"update", "activate"}
  BY <1>4 DEF P!WriteUpdate, P!WriteActivate
<1>5. ASSUME NEW r \in Req, \/ \E k \in Key : P!CreateProject(r, k)
                            \/ \E p \in Project : P!UpdateProject(r, p) \/ P!ArchiveProject(r, p) \/ P!ActivateProject(r, p)
                            \/ P!AddManager(r) \/ P!DelPatterns(r) \/ P!Lookup(r) \/ P!Query(r) \/ P!StoreList(r)
                            \/ P!CallFails(r)
      PROVE  FALSE
  BY <1>5 DEF P!CreateProject, P!UpdateProject, P!ArchiveProject, P!ActivateProject, P!AddManager, P!DelPatterns, P!Lookup, P!Query, P!StoreList, P!CallFails, P!Call
<1>6. ~P!ExpireList /\ ~P!Crash /\ ~UNCHANGED P!vars
  BY DEF P!ExpireList, P!Crash, P!vars
<1> QED
  BY <1>2, <1>3, <1>4, <1>5, <1>6 DEF P!Next

\* Only a PUT or an activation puts the owner's list out of date for good.
THEOREM PListKept == P!Spec => P!OwnerListForgotten
<1>1. PInv /\ [P!Next]_P!vars =>
        [watched = "owner" /\ project' # project /\ cache = "fresh" /\ cache' = "stale" =>
           \E r \in Req : (preq[r].pc \in {"create", "archive"} /\ watched \in preq'[r].busts)
                          \/ preq[r].pc \in {"update", "activate"}]_P!vars
  BY PForgets
<1> QED
  BY <1>1, PInitInv, PNextInv, PTL DEF P!Spec, P!OwnerListForgotten

-----------------------------------------------------------------------------
(* Fund pool: FInv                                                         *)

\* What the assumption says of the workers and the interval.
LEMMA FBounds == IsFiniteSet(Worker) /\ Interval \in Nat
  BY WorkspaceAssumption

\* The instance counts as the module of finite sets does.
LEMMA FCounts == \A T : F!Cardinality(T) = Cardinality(T)
  BY DEF F!Cardinality, Cardinality

FPool == [state : {"absent", "live", "deleted"}, enabled : BOOLEAN, age : 0..Interval]
FReq  == [at : {"idle", "create", "toggle", "delete", "toggleFlag", "executions"}, saw : BOOLEAN]
FJob  == {"idle", "find", "apply", "record"}
FTyped ==
  /\ pool \in FPool /\ twin \in BOOLEAN /\ job \in [Worker -> FJob] /\ freq \in [Req -> FReq]
  /\ additions \in Nat /\ records \in Nat /\ ffaults \in Nat /\ since \in 0..Interval
  /\ hasty \in BOOLEAN /\ shared \in BOOLEAN /\ restamped \in BOOLEAN /\ outlived \in BOOLEAN /\ fraced \in BOOLEAN
FRecording == {w \in Worker : job[w] = "record"}
\* Before there is a pool nothing was added to it.
FAbsent == pool.state = "absent" => since = Interval /\ ~twin /\ records = 0 /\ FRecording = {}
\* The stamp is no older than the last addition; whoever found the pool due has it
\* still due, unless it shares that finding.
FHaste ==
  /\ ~restamped => pool.age <= since
  /\ ~restamped /\ ~shared => \A w \in Worker : job[w] = "apply" => since = Interval
  /\ hasty => shared \/ restamped
FCount == pool.state # "deleted" /\ ffaults = 0 => additions = records + Cardinality(FRecording)
\* What is left of a deleted pool.
FGone ==
  /\ \A r \in Req : freq[r].at = "executions" => pool.state = "deleted"
  /\ pool.state = "deleted" /\ FRecording # {} => outlived
  /\ pool.state = "deleted" /\ records > 0 => ffaults > 0 \/ outlived \/ \E r \in Req : freq[r].at = "executions"
\* A creation that found the name free is alone, and there is no pool, unless two raced.
FNames ==
  /\ \A r, q \in Req : freq[r].at = "create" /\ freq[q].at = "create" => r = q \/ fraced
  /\ \A r \in Req : F!Live /\ freq[r].at = "create" => fraced
  /\ F!Live /\ twin => fraced
FInv == FTyped /\ FAbsent /\ FHaste /\ FCount /\ FGone /\ FNames

\* Nothing was added, nobody asks.
LEMMA FInitInv == F!Init => FInv
<1> SUFFICES ASSUME F!Init PROVE FInv
  OBVIOUS
<1>1. FRecording = {} /\ Cardinality({}) = 0
  BY FS_EmptySet DEF F!Init, FRecording
<1>2. F!Free \in FReq /\ F!Free.at = "idle"
  BY DEF F!Free, FReq
<1>3. FTyped
  <2>1. PICK p \in [state : {"absent", "live"}, enabled : {TRUE}, age : {Interval}] : pool = p
    BY DEF F!Init
  <2>2. Interval \in 0..Interval /\ Interval \in Nat
    BY FBounds
  <2>3. p \in FPool
    BY <2>2 DEF FPool
  <2>4. job \in [Worker -> FJob] /\ freq \in [Req -> FReq] /\ since \in 0..Interval
    BY <1>2, <2>2 DEF F!Init, FJob
  <2> QED
    BY <2>1, <2>3, <2>4 DEF F!Init, FTyped
<1> QED
  BY <1>1, <1>2, <1>3, FBounds DEF F!Init, FInv, FAbsent, FHaste, FCount, FGone, FNames, F!Live

\* The jobs about to write their execution.
LEMMA FRecords ==
  ASSUME FTyped, NEW w \in Worker, NEW l \in FJob, F!Goto(w, l)
  PROVE  /\ job' \in [Worker -> FJob] /\ job'[w] = l /\ \A v \in Worker \ {w} : job'[v] = job[v]
         /\ FRecording' = IF l = "record" THEN FRecording \cup {w} ELSE FRecording \ {w}
         /\ Cardinality(FRecording) \in Nat
         /\ l = "record" /\ job[w] # "record" => Cardinality(FRecording') = Cardinality(FRecording) + 1
         /\ l # "record" /\ job[w] = "record" => Cardinality(FRecording') = Cardinality(FRecording) - 1
         /\ l # "record" /\ job[w] # "record" => FRecording' = FRecording
<1>1. job' \in [Worker -> FJob] /\ job'[w] = l /\ \A v \in Worker \ {w} : job'[v] = job[v]
  BY DEF F!Goto, FTyped
<1>2. FRecording' = IF l = "record" THEN FRecording \cup {w} ELSE FRecording \ {w}
  BY <1>1 DEF FRecording
<1>3. IsFiniteSet(FRecording)
  BY FBounds, FS_Subset DEF FRecording
<1>4. Cardinality(FRecording) \in Nat
  BY <1>3, FS_CardinalityType
<1>5. w \in FRecording <=> job[w] = "record"
  BY DEF FRecording
<1>6. l = "record" /\ job[w] # "record" => Cardinality(FRecording') = Cardinality(FRecording) + 1
  BY <1>2, <1>3, <1>5, FS_AddElement
<1>7. l # "record" /\ job[w] = "record" => Cardinality(FRecording') = Cardinality(FRecording) - 1
  BY <1>2, <1>3, <1>5, FS_RemoveElement
<1> QED
  BY <1>1, <1>2, <1>4, <1>5, <1>6, <1>7

\* A request is made or answered and writes nothing the executor looks at, but perhaps
\* the pool's switch.
LEMMA FAsksInv ==
  ASSUME FInv, NEW r \in Req, NEW new \in FReq, freq' = [freq EXCEPT ![r] = new],
         pool' \in FPool, pool'.state = pool.state, pool'.age = pool.age,
         UNCHANGED <<twin, job, additions, records, ffaults, since, hasty, shared, restamped, outlived>>,
         fraced' \in BOOLEAN, fraced => fraced',
         freq[r].at # "executions", new.at # "executions",
         new.at = "create" => ~F!Live /\ \A q \in Req : freq[q].at = "create" => fraced'
  PROVE  FInv'
<1>1. freq' \in [Req -> FReq] /\ freq'[r] = new /\ \A q \in Req \ {r} : freq'[q] = freq[q]
  BY DEF FInv, FTyped
<1>2. FTyped'
  BY <1>1 DEF FInv, FTyped
<1>3. FRecording' = FRecording
  BY DEF FRecording
<1>4. FAbsent' /\ FHaste' /\ FCount'
  BY <1>3 DEF FInv, FAbsent, FHaste, FCount
<1>5. FGone'
  BY <1>1, <1>3 DEF FInv, FGone
<1>6. FNames'
  BY <1>1 DEF FInv, FNames, F!Live
<1> QED
  BY <1>2, <1>4, <1>5, <1>6 DEF FInv

\* The pool and the requests, field by field.
LEMMA FRows == FInv => /\ F!Free \in FReq /\ F!Free.at = "idle"
                       /\ pool.state \in {"absent", "live", "deleted"} /\ pool.enabled \in BOOLEAN /\ pool.age \in 0..Interval
                       /\ \A r \in Req : freq[r].saw \in BOOLEAN
  BY DEF F!Free, FReq, FInv, FTyped, FPool

\* A request begins with its find.
LEMMA FFindInv ==
  ASSUME FInv, NEW r \in Req, NEW what \in F!Request, F!Find(r, what) PROVE FInv'
<1> DEFINE new == [at |-> what, saw |-> IF what = "toggleFlag" THEN flag = "on" ELSE pool.enabled]
<1>1. new \in FReq /\ new.at = what /\ what \in {"create", "toggle", "delete", "toggleFlag"}
  BY FRows DEF FReq, F!Request
<1>2. /\ freq[r] = F!Free /\ freq' = [freq EXCEPT ![r] = new]
      /\ fraced' = (fraced \/ (what = "create" /\ \E q \in Req : freq[q].at = "create"))
      /\ UNCHANGED <<pool, twin, job, additions, records, ffaults, since, hasty, shared, restamped, outlived>>
      /\ what = "create" => ~F!Live
  BY DEF F!Find, F!worker
<1> HIDE DEF new
<1>3. fraced' \in BOOLEAN /\ pool \in FPool
  BY <1>2 DEF FInv, FTyped
<1> QED
  BY <1>1, <1>2, <1>3, FRows, FAsksInv

\* The pool's document as the requests write it.
LEMMA FWritten ==
  ASSUME FInv
  PROVE  /\ \A b \in BOOLEAN, a \in 0..Interval :
              /\ [pool EXCEPT !.enabled = b] \in FPool /\ [pool EXCEPT !.enabled = b].state = pool.state
              /\ [pool EXCEPT !.enabled = b].age = pool.age
              /\ [pool EXCEPT !.age = a] \in FPool /\ [pool EXCEPT !.age = a].state = pool.state
              /\ [pool EXCEPT !.age = a].age = a
         /\ [pool EXCEPT !.state = "deleted"] \in FPool /\ [pool EXCEPT !.state = "deleted"].state = "deleted"
         /\ [pool EXCEPT !.state = "deleted"].age = pool.age
  BY DEF FInv, FTyped, FPool

\* The negation of what was read is written.
LEMMA FTogglesInv ==
  ASSUME FInv, NEW r \in Req, F!ToggleEnabled(r) \/ F!ToggleFlag(r) PROVE FInv'
<1>1. /\ freq[r].at \in {"toggle", "toggleFlag"} /\ freq' = [freq EXCEPT ![r] = F!Free]
      /\ UNCHANGED <<twin, job, additions, records, ffaults, since, hasty, shared, restamped, outlived, fraced>>
  BY DEF F!ToggleEnabled, F!ToggleFlag, F!Return, F!worker, F!history
<1>2. pool' \in FPool /\ pool'.state = pool.state /\ pool'.age = pool.age
  <2>1. freq[r].saw \in BOOLEAN
    BY FRows
  <2>2. PICK b \in BOOLEAN : b = (~freq[r].saw)
    BY <2>1
  <2>3. pool' = pool \/ pool' = [pool EXCEPT !.enabled = b]
    BY <2>2 DEF F!ToggleEnabled, F!ToggleFlag
  <2>4. pool \in FPool
    BY DEF FInv, FTyped
  <2>5. /\ [pool EXCEPT !.enabled = b] \in FPool /\ [pool EXCEPT !.enabled = b].state = pool.state
        /\ [pool EXCEPT !.enabled = b].age = pool.age
    BY <2>4 DEF FPool
  <2> QED
    BY <2>3, <2>4, <2>5
<1>3. fraced \in BOOLEAN
  BY DEF FInv, FTyped
<1> QED
  BY <1>1, <1>2, <1>3, FRows, FAsksInv

\* The pool is created, or another of its name.
LEMMA FCreateInv ==
  ASSUME FInv, NEW r \in Req, F!CreateFundPool(r) PROVE FInv'
<1>1. /\ freq[r].at = "create" /\ freq' = [freq EXCEPT ![r] = F!Free]
      /\ UNCHANGED <<job, additions, records, ffaults, since, hasty, shared, restamped, outlived, fraced>>
  BY DEF F!CreateFundPool, F!Return, F!worker, F!history
<1>2. F!Free \in FReq /\ F!Free.at = "idle"
  BY FRows
<1>3. freq' \in [Req -> FReq] /\ freq'[r] = F!Free /\ \A q \in Req \ {r} : freq'[q] = freq[q]
  BY <1>1, <1>2 DEF FInv, FTyped
<1>4. FRecording' = FRecording
  BY <1>1 DEF FRecording
<1>5. CASE pool.state = "absent"
  <2>1. PICK b \in BOOLEAN, a \in {0, Interval} : pool' = [state |-> "live", enabled |-> b, age |-> a]
    BY <1>5 DEF F!CreateFundPool
  <2>2. pool' \in FPool /\ pool'.state = "live" /\ pool'.age \in 0..Interval /\ twin' = twin
    <3>1. a \in 0..Interval
      BY FBounds
    <3>2. pool' \in FPool /\ pool'.state = "live" /\ pool'.age = a
      BY <2>1, <3>1 DEF FPool
    <3> QED
      BY <1>5, <3>1, <3>2 DEF F!CreateFundPool
  <2>3. FTyped'
    BY <1>1, <1>3, <2>2 DEF FInv, FTyped
  <2>4. FAbsent' /\ FHaste' /\ FCount'
    BY <1>1, <1>4, <1>5, <2>2, FBounds DEF FInv, FAbsent, FHaste, FCount
  <2>5. FGone'
    BY <1>2, <1>3, <1>5, <2>2 DEF FInv, FGone
  <2>6. FNames'
    BY <1>1, <1>2, <1>3, <1>5, <2>2 DEF FInv, FNames, FAbsent, F!Live
  <2> QED
    BY <2>3, <2>4, <2>5, <2>6 DEF FInv
<1>6. CASE pool.state # "absent"
  <2>1. twin' = TRUE /\ pool' = pool
    BY <1>6 DEF F!CreateFundPool
  <2>2. FTyped'
    BY <1>1, <1>3, <2>1 DEF FInv, FTyped
  <2>3. FAbsent' /\ FHaste' /\ FCount'
    BY <1>1, <1>4, <1>6, <2>1 DEF FInv, FAbsent, FHaste, FCount
  <2>4. FGone'
    BY <1>1, <1>2, <1>3, <1>4, <2>1 DEF FInv, FGone
  <2>5. FNames'
    BY <1>1, <1>2, <1>3, <2>1 DEF FInv, FNames, F!Live
  <2> QED
    BY <2>2, <2>3, <2>4, <2>5 DEF FInv
<1> QED
  BY <1>5, <1>6

\* The pool goes, its executions are to follow.
LEMMA FDeleteInv ==
  ASSUME FInv, NEW r \in Req, F!DeleteFundPool(r) PROVE FInv'
<1> DEFINE new == [freq[r] EXCEPT !.at = "executions"]
<1>1. /\ pool' = [pool EXCEPT !.state = "deleted"] /\ freq' = [freq EXCEPT ![r] = new]
      /\ outlived' = (outlived \/ \E w \in Worker : job[w] = "record")
      /\ UNCHANGED <<twin, job, additions, records, ffaults, since, hasty, shared, restamped, fraced>>
  BY DEF F!DeleteFundPool, F!worker
<1>2. new \in FReq /\ new.at = "executions"
  BY DEF FInv, FTyped, FReq
<1> HIDE DEF new
<1>3. freq' \in [Req -> FReq] /\ freq'[r] = new /\ \A q \in Req \ {r} : freq'[q] = freq[q]
  BY <1>1, <1>2 DEF FInv, FTyped
<1>4. pool' \in FPool /\ pool'.state = "deleted" /\ pool'.age = pool.age
  BY <1>1, FWritten
<1>5. FRecording' = FRecording /\ (FRecording # {} => outlived')
  BY <1>1 DEF FRecording
<1>6. outlived' \in BOOLEAN
  BY <1>1 DEF FInv, FTyped
<1>7. FTyped'
  BY <1>1, <1>3, <1>4, <1>6 DEF FInv, FTyped
<1>8. FAbsent' /\ FHaste' /\ FCount'
  BY <1>1, <1>4 DEF FInv, FAbsent, FHaste, FCount
<1>9. FGone'
  BY <1>1, <1>2, <1>3, <1>4, <1>5 DEF FInv, FGone
<1>10. FNames'
  BY <1>1, <1>2, <1>3, <1>4 DEF FInv, FNames, F!Live
<1> QED
  BY <1>7, <1>8, <1>9, <1>10 DEF FInv

\* The executions of a deleted pool go, or their deletion fails.
LEMMA FExecutionsInv ==
  ASSUME FInv, NEW r \in Req, F!DeleteExecutions(r) \/ F!Fail(r) PROVE FInv'
<1>1. /\ freq[r].at = "executions" /\ freq' = [freq EXCEPT ![r] = F!Free]
      /\ UNCHANGED <<pool, twin, job, additions, since, hasty, shared, restamped, outlived, fraced>>
      /\ \/ records' = 0 /\ ffaults' = ffaults
         \/ records' = records /\ ffaults' = ffaults + 1
  BY DEF F!DeleteExecutions, F!Fail, F!Return, F!worker, F!history
<1>2. pool.state = "deleted"
  BY <1>1 DEF FInv, FGone
<1>3. freq' \in [Req -> FReq] /\ freq'[r] = F!Free /\ F!Free.at = "idle" /\ \A q \in Req \ {r} : freq'[q] = freq[q]
  BY <1>1, FRows DEF FInv, FTyped
<1>4. FRecording' = FRecording
  BY <1>1 DEF FRecording
<1>5. FTyped'
  BY <1>1, <1>3 DEF FInv, FTyped
<1>6. FAbsent' /\ FHaste' /\ FCount'
  BY <1>1, <1>2 DEF FInv, FAbsent, FHaste, FCount
<1>7. FGone'
  BY <1>1, <1>2, <1>3, <1>4 DEF FInv, FGone, FTyped
<1>8. FNames'
  BY <1>1, <1>3 DEF FInv, FNames, F!Live
<1> QED
  BY <1>5, <1>6, <1>7, <1>8 DEF FInv

\* The writes of one step: the stamp, the switch, the other pool, the flag.
LEMMA FWritesInv ==
  ASSUME FInv, F!Writes PROVE FInv'
<1>1. /\ UNCHANGED <<job, additions, records, freq, ffaults, since, hasty, shared, outlived, fraced>>
      /\ twin' \in {twin, FALSE}
      /\ \/ pool' = [pool EXCEPT !.age = Interval] /\ restamped' = TRUE
         \/ pool' \in {pool, [pool EXCEPT !.enabled = ~@], [pool EXCEPT !.age = 0]} /\ restamped' = restamped
  BY DEF F!Writes, F!UpdateFundPool, F!UpdateTwin, F!RecordExecution, F!WriteFlag, F!worker, F!history
<1>2. /\ pool' \in FPool /\ pool'.state = pool.state
      /\ ~restamped' => pool'.age <= pool.age /\ ~restamped
  <2>1. PICK b \in BOOLEAN : b = (~pool.enabled)
    OBVIOUS
  <2>2. pool \in FPool /\ pool.age \in 0..Interval /\ 0 \in 0..Interval /\ Interval \in 0..Interval
    BY FBounds DEF FInv, FTyped, FPool
  <2>3. pool' \in {pool, [pool EXCEPT !.enabled = b], [pool EXCEPT !.age = 0], [pool EXCEPT !.age = Interval]}
    BY <1>1, <2>1
  <2>6. /\ [pool EXCEPT !.enabled = b] \in FPool /\ [pool EXCEPT !.enabled = b].state = pool.state
        /\ [pool EXCEPT !.enabled = b].age = pool.age
    BY <2>2 DEF FPool
  <2>7. \A a \in 0..Interval : /\ [pool EXCEPT !.age = a] \in FPool /\ [pool EXCEPT !.age = a].state = pool.state
                               /\ [pool EXCEPT !.age = a].age = a
    BY FWritten
  <2>4. pool' \in FPool /\ pool'.state = pool.state
    BY <2>2, <2>3, <2>6, <2>7
  <2>8. ~restamped' => ~restamped /\ pool' \in {pool, [pool EXCEPT !.enabled = b], [pool EXCEPT !.age = 0]}
    BY <1>1, <2>1
  <2>9. pool.age \in Nat
    BY <2>2, FBounds
  <2>5. ~restamped' => pool'.age <= pool.age /\ ~restamped
    <3>1. [pool EXCEPT !.age = 0].age = 0
      BY <2>2, <2>7
    <3>2. ~restamped' => pool'.age = pool.age \/ pool'.age = 0
      BY <2>6, <2>8, <3>1
    <3> QED
      BY <2>8, <2>9, <3>2
  <2> QED
    BY <2>4, <2>5
<1>3. FRecording' = FRecording
  BY <1>1 DEF FRecording
<1>4. FTyped'
  BY <1>1, <1>2 DEF FInv, FTyped
<1>5. pool'.age \in 0..Interval /\ pool.age \in 0..Interval /\ since \in 0..Interval
  BY <1>2 DEF FInv, FTyped, FPool
<1>6. FHaste'
  BY <1>1, <1>2, <1>5, FBounds DEF FInv, FHaste
<1>7. FAbsent'
  <2>1. twin' => twin
    BY <1>1
  <2> QED
    BY <1>1, <1>2, <1>3, <2>1 DEF FInv, FAbsent
<1>8. FCount'
  BY <1>1, <1>2, <1>3 DEF FInv, FCount
<1>9. FGone'
  BY <1>1, <1>2, <1>3 DEF FInv, FGone
<1>10. FNames'
  <2>1. twin' => twin
    BY <1>1
  <2> QED
    BY <1>1, <1>2, <2>1 DEF FInv, FNames, F!Live
<1> QED
  BY <1>4, <1>6, <1>7, <1>8, <1>9, <1>10 DEF FInv

\* A period passes, for the stamp as for the last addition.
LEMMA FTickInv ==
  ASSUME FInv, F!Tick PROVE FInv'
<1>1. /\ pool' = IF pool.age < Interval THEN [pool EXCEPT !.age = @ + 1] ELSE pool
      /\ since' = IF since < Interval THEN since + 1 ELSE since
      /\ UNCHANGED <<twin, job, additions, records, freq, ffaults, hasty, shared, restamped, outlived, fraced>>
  BY DEF F!Tick
<1>2. pool.age \in 0..Interval /\ since \in 0..Interval /\ pool \in FPool
  BY DEF FInv, FTyped, FPool
<1>3. PICK a \in 0..Interval : a = IF pool.age < Interval THEN pool.age + 1 ELSE pool.age
  BY <1>2, FBounds
<1>4. (pool' = pool /\ pool.age = a) \/ pool' = [pool EXCEPT !.age = a]
  BY <1>1, <1>3
<1>5. pool' \in FPool /\ pool'.state = pool.state /\ pool'.age = a
  BY <1>2, <1>4, FWritten
<1>6. since' \in 0..Interval /\ (since = Interval => since' = Interval)
  BY <1>1, <1>2, FBounds
<1>7. FTyped'
  BY <1>1, <1>5, <1>6 DEF FInv, FTyped
<1>8. FRecording' = FRecording
  BY <1>1 DEF FRecording
<1>9. ~restamped => pool'.age <= since'
  BY <1>1, <1>2, <1>3, <1>5, FBounds DEF FInv, FHaste
<1>10. FHaste'
  BY <1>1, <1>6, <1>9 DEF FInv, FHaste
<1>11. FAbsent' /\ FCount'
  BY <1>1, <1>5, <1>6, <1>8 DEF FInv, FAbsent, FCount
<1>12. FGone' /\ FNames'
  BY <1>1, <1>5, <1>8 DEF FInv, FGone, FNames, F!Live
<1> QED
  BY <1>7, <1>10, <1>11, <1>12 DEF FInv

\* A job begins, ends, is given up, or finds the pool due.
LEMMA FJobInv ==
  ASSUME FInv, NEW w \in Worker, NEW l \in {"idle", "find", "apply"}, F!Goto(w, l), job[w] # "record",
         l = "apply" => pool.age = Interval,
         UNCHANGED <<pool, twin, additions, records, freq, since, hasty, shared, restamped, outlived, fraced>>,
         ffaults' \in Nat, ffaults' = 0 => ffaults = 0, ffaults > 0 => ffaults' > 0
  PROVE  FInv'
<1>1. /\ job' \in [Worker -> FJob] /\ job'[w] = l /\ \A v \in Worker \ {w} : job'[v] = job[v]
      /\ FRecording' = FRecording
  BY FRecords DEF FInv, FJob
<1>2. FTyped'
  BY <1>1 DEF FInv, FTyped
<1>3. pool.age \in 0..Interval /\ since \in 0..Interval
  BY DEF FInv, FTyped, FPool
<1>4. FHaste'
  BY <1>1, <1>3, FBounds DEF FInv, FHaste
<1>5. FAbsent' /\ FCount'
  BY <1>1 DEF FInv, FAbsent, FCount
<1>6. FGone' /\ FNames'
  BY <1>1 DEF FInv, FGone, FNames, F!Live
<1> QED
  BY <1>2, <1>4, <1>5, <1>6 DEF FInv

\* The addition, with its stamp: no other had read the pool as due, or it is shared.
LEMMA FApplyInv ==
  ASSUME FInv, NEW w \in Worker, F!ApplyRecurring(w) PROVE FInv'
<1>1. /\ job[w] = "apply" /\ pool.state = "live"
      /\ additions' = additions + 1 /\ pool' = [pool EXCEPT !.age = 0]
      /\ since' = 0 /\ hasty' = (hasty \/ since < Interval)
      /\ shared' = (shared \/ \E v \in Worker \ {w} : job[v] = "apply")
      /\ F!Goto(w, "record")
      /\ UNCHANGED <<twin, records, freq, ffaults, restamped, outlived, fraced>>
  BY DEF F!ApplyRecurring, F!Live
<1>2. /\ job' \in [Worker -> FJob] /\ job'[w] = "record" /\ \A v \in Worker \ {w} : job'[v] = job[v]
      /\ FRecording' = FRecording \cup {w} /\ Cardinality(FRecording) \in Nat
      /\ Cardinality(FRecording') = Cardinality(FRecording) + 1
  BY <1>1, FRecords DEF FInv, FJob
<1>3. pool' \in FPool /\ pool'.state = "live" /\ pool'.age = 0
  <2>1. 0 \in 0..Interval
    BY FBounds
  <2> QED
    BY <1>1, <2>1, FWritten
<1>4. hasty' \in BOOLEAN /\ shared' \in BOOLEAN /\ since' \in 0..Interval /\ since \in 0..Interval
  BY <1>1, FBounds DEF FInv, FTyped
<1>5. FTyped'
  BY <1>1, <1>2, <1>3, <1>4 DEF FInv, FTyped
<1>6. FHaste'
  <2>1. ~restamped' /\ ~shared' => \A v \in Worker : job'[v] # "apply"
    BY <1>1, <1>2
  <2>2. hasty' => shared' \/ restamped'
    <3>1. CASE hasty
      BY <1>1, <3>1 DEF FInv, FHaste
    <3>2. CASE since < Interval
      <4>1. since # Interval
        BY <1>4, <3>2, FBounds
      <4> QED
        BY <1>1, <4>1 DEF FInv, FHaste
    <3> QED
      BY <1>1, <3>1, <3>2
  <2> QED
    BY <1>1, <1>3, <2>1, <2>2 DEF FHaste
<1>7. FCount'
  BY <1>1, <1>2, <1>3 DEF FInv, FCount, FTyped
<1>8. FAbsent' /\ FGone' /\ FNames'
  BY <1>1, <1>3 DEF FInv, FAbsent, FGone, FNames, F!Live
<1> QED
  BY <1>5, <1>6, <1>7, <1>8 DEF FInv

\* The execution is written, or is not: then a fault tells.
LEMMA FRecordInv ==
  ASSUME FInv, NEW w \in Worker, job[w] = "record", F!Goto(w, "idle"),
         UNCHANGED <<pool, twin, additions, freq, since, hasty, shared, restamped, outlived, fraced>>,
         \/ records' = records + 1 /\ ffaults' = ffaults
         \/ records' = records /\ ffaults' = ffaults + 1
  PROVE  FInv'
<1>1. /\ job' \in [Worker -> FJob] /\ job'[w] = "idle" /\ \A v \in Worker \ {w} : job'[v] = job[v]
      /\ FRecording' = FRecording \ {w} /\ Cardinality(FRecording) \in Nat
      /\ Cardinality(FRecording') = Cardinality(FRecording) - 1
  BY FRecords DEF FInv, FJob
<1>2. w \in FRecording
  BY DEF FRecording
<1>3. FTyped'
  BY <1>1 DEF FInv, FTyped
<1>4. FHaste'
  BY <1>1 DEF FInv, FHaste
<1>5. FCount'
  BY <1>1 DEF FInv, FCount, FTyped
<1>6. FAbsent' /\ FNames'
  BY <1>1, <1>2 DEF FInv, FAbsent, FNames, F!Live
<1>7. FGone'
  BY <1>1, <1>2 DEF FInv, FGone, FTyped
<1> QED
  BY <1>3, <1>4, <1>5, <1>6, <1>7 DEF FInv

\* Every step keeps the invariant.
LEMMA FNextInv == FInv /\ [F!Next]_F!vars => FInv'
<1> SUFFICES ASSUME FInv, [F!Next]_F!vars PROVE FInv'
  OBVIOUS
<1>0. ffaults \in Nat
  BY DEF FInv, FTyped
<1>1. CASE F!Writes
  BY <1>1, FWritesInv
<1>2. CASE F!Tick
  BY <1>2, FTickInv
<1>3. ASSUME NEW r \in Req, F!Requests(r) PROVE FInv'
  BY <1>3, FFindInv, FCreateInv, FTogglesInv, FDeleteInv, FExecutionsInv DEF F!Requests
<1>4. ASSUME NEW w \in Worker, F!ProcessJob(w) \/ F!GetDuePools(w) \/ F!ApplyFails(w) PROVE FInv'
  <2>1. PICK l \in {"idle", "find", "apply"} : F!Goto(w, l) /\ (l = "apply" => pool.age = Interval)
    BY <1>4 DEF F!ProcessJob, F!GetDuePools, F!ApplyFails
  <2>2. /\ job[w] # "record" /\ ffaults' = ffaults
        /\ UNCHANGED <<pool, twin, additions, records, freq, since, hasty, shared, restamped, outlived, fraced>>
    BY <1>4 DEF F!ProcessJob, F!GetDuePools, F!ApplyFails, F!history
  <2> QED
    BY <1>0, <2>1, <2>2, FJobInv
<1>5. ASSUME NEW w \in Worker, F!ApplyRecurring(w) PROVE FInv'
  BY <1>5, FApplyInv
<1>6. ASSUME NEW w \in Worker, F!CreateExecution(w) \/ F!CreateExecutionFails(w) \/ F!Crash(w) PROVE FInv'
  <2>1. /\ F!Goto(w, "idle")
        /\ UNCHANGED <<pool, twin, additions, freq, since, hasty, shared, restamped, outlived, fraced>>
        /\ \/ records' = records + 1 /\ ffaults' = ffaults /\ job[w] = "record"
           \/ records' = records /\ ffaults' = ffaults + 1
    BY <1>6 DEF F!CreateExecution, F!CreateExecutionFails, F!Crash, F!history
  <2>2. CASE job[w] = "record"
    BY <2>1, <2>2, FRecordInv
  <2>3. CASE job[w] # "record"
    BY <1>0, <2>1, <2>3, FJobInv
  <2> QED
    BY <2>2, <2>3
<1>7. CASE UNCHANGED F!vars
  BY <1>7 DEF F!vars, FInv, FTyped, FAbsent, FHaste, FCount, FGone, FNames, FRecording, F!Live
<1> QED
  BY <1>1, <1>2, <1>3, <1>4, <1>5, <1>6, <1>7 DEF F!Next, F!Executes

\* The recurring amount is added once per interval and each addition has its execution,
\* but for shared findings, updates of the stamp, and faults.
THEOREM FKept == F!Spec => []F!PoolsExact
<1>1. FInv => F!PoolsExact
  <2> SUFFICES ASSUME FInv PROVE F!PoolsExact
    OBVIOUS
  <2>1. pool.state \in {"absent", "live", "deleted"}
    BY FRows
  <2>2. hasty => shared \/ restamped
    BY DEF FInv, FHaste
  <2>3. F!Live /\ ffaults = 0 => additions = records + F!Cardinality({w \in Worker : job[w] = "record"})
    BY FCounts DEF FInv, FCount, F!Live, FRecording
  <2>4. ~F!Live /\ records > 0 => ffaults > 0 \/ outlived \/ \E r \in Req : freq[r].at = "executions"
    BY <2>1 DEF FInv, FGone, FAbsent, F!Live
  <2>5. F!Live /\ twin => fraced
    BY DEF FInv, FNames
  <2> QED
    BY <2>2, <2>3, <2>4, <2>5 DEF F!PoolsExact
<1> QED
  BY <1>1, FInitInv, FNextInv, PTL DEF F!Spec

-----------------------------------------------------------------------------
(* Accounts: AInv                                                          *)

ADoc   == [email : Email \cup {Admin}, password : Password, isActive : BOOLEAN]
\* What the assumption says of the documents.
LEMMA ANone == None \notin ADoc
  BY WorkspaceAssumption DEF ADoc

AThere(docs, a) == a \in Account /\ docs[a] # None
ATaken(docs, e) == \E a \in Account : docs[a] # None /\ docs[a].email = e
\* Where a request of each route can be, and what it then holds.
ARoute(docs, q) ==
  \/ q.at = "idle"
  \/ q.op = "start" /\ q.at \in {"look", "lookAgain", "insert"} /\ q.email = Admin /\ q.password \in Password
  \/ q.op = "register" /\ q.at \in {"lookAgain", "insert"} /\ q.email \in Email /\ q.password \in Password
  \/ q.op = "login" /\ q.at = "find"
  \/ q.op = "login" /\ q.at = "issue" /\ AThere(docs, q.account)
  \/ q.op = "refresh" /\ q.at \in {"find", "issue"} /\ AThere(docs, q.account)
  \/ q.op = "deactivate" /\ q.at \in {"guard", "write"} /\ AThere(docs, q.account)
  \/ q.op = "profile" /\ q.at \in {"guard", "write"} /\ AThere(docs, q.account) /\ q.email \in Email
  \/ q.op = "change" /\ q.at \in {"guard", "find", "write"} /\ AThere(docs, q.account) /\ q.password \in Password
  \/ q.op = "put" /\ q.at = "write" /\ AThere(docs, q.account)
\* What it has read is so, unless another request has written meanwhile.
AReads(docs, q) ==
  \/ q.overlapped
  \/ /\ q.at = "issue" => docs[q.account].isActive
     /\ q.at = "issue" /\ q.op = "login" =>
          docs[q.account].email = q.email /\ docs[q.account].password = q.password
     /\ q.at = "write" /\ q.op # "put" => docs[q.account].isActive
     /\ q.at = "find" /\ q.op = "change" => docs[q.account].isActive
     /\ q.at = "write" /\ q.op = "change" => docs[q.account].password = q.password
     /\ q.at \in {"lookAgain", "insert"} /\ q.op = "start" => ~ATaken(docs, q.email)
AOp  == {None, "start", "register", "login", "refresh", "deactivate", "profile", "change", "put"}
AAt  == {"idle", "look", "lookAgain", "insert", "find", "issue", "guard", "write"}
AReq == [op : AOp, at : AAt, account : Account \cup {None}, email : Email \cup {Admin, None},
         password : Password \cup {None}, overlapped : BOOLEAN]
ATyped    == user \in [Account -> ADoc \cup {None}] /\ areq \in [Req -> AReq]
             /\ started \in BOOLEAN /\ renamed \in BOOLEAN
ARouted   == \A r \in Req : ARoute(user, areq[r])
ARead     == \A r \in Req : AReads(user, areq[r])
AAnswered == \A a \in answers : a.right \/ a.overlapped
AKnown    == started => ATaken(user, Admin) \/ renamed
AInv      == ATyped /\ ARouted /\ ARead /\ AAnswered /\ AKnown

\* The accounts there are, as the model and the invariant name them.
LEMMA ANames ==
  /\ \A a : a \in A!Existing <=> AThere(user, a)
  /\ \A e : A!Taken(e) <=> ATaken(user, e)
  /\ \A e, a : a \in A!Of(e) <=> AThere(user, a) /\ user[a].email = e
  BY DEF A!Existing, A!Of, A!Taken, AThere, ATaken

\* A slot at rest is a request that has read nothing.
LEMMA AIdle == A!Idle \in AReq /\ A!Idle.at = "idle" /\ ~A!Idle.overlapped
  BY DEF A!Idle, AReq, AOp, AAt

\* It holds nothing the invariant asks about.
LEMMA AIdleFree == \A docs : ARoute(docs, A!Idle) /\ AReads(docs, A!Idle)
  BY AIdle DEF ARoute, AReads

\* An account that is there has a document.
LEMMA ADocs == AInv => \A a \in Account : user[a] # None => user[a] \in ADoc
  BY DEF AInv, ATyped

\* No request has begun.
LEMMA AInitInv == A!Init => AInv
<1> SUFFICES ASSUME A!Init PROVE AInv
  OBVIOUS
<1>1. \A r \in Req : areq[r] = A!Idle
  BY DEF A!Init
<1>2. ATyped
  BY AIdle DEF A!Init, ATyped
<1>3. ARouted /\ ARead
  BY <1>1, AIdleFree DEF ARouted, ARead
<1> QED
  BY <1>2, <1>3 DEF A!Init, AInv, AAnswered, AKnown

\* A request that writes no account.
LEMMA AMovesInv ==
  ASSUME AInv, NEW r \in Req, NEW new \in AReq, areq' = [areq EXCEPT ![r] = new],
         UNCHANGED <<user, renamed>>, ARoute(user, new), AReads(user, new),
         started' \in BOOLEAN, started' => started \/ ATaken(user, Admin),
         AAnswered'
  PROVE  AInv'
<1>1. areq' \in [Req -> AReq] /\ areq'[r] = new /\ \A q \in Req \ {r} : areq'[q] = areq[q]
  BY DEF AInv, ATyped
<1>2. ATyped'
  BY <1>1 DEF AInv, ATyped
<1>3. ARouted'
  BY <1>1 DEF AInv, ARouted
<1>4. ARead'
  BY <1>1 DEF AInv, ARead
<1>5. AKnown'
  BY DEF AInv, AKnown
<1> QED
  BY <1>2, <1>3, <1>4, <1>5 DEF AInv

\* An answer is right, or something has overlapped.
LEMMA AAnswersInv ==
  ASSUME AInv, NEW r \in Req, NEW right, A!Answer(r, right), right \/ areq[r].overlapped PROVE AAnswered'
<1> DEFINE new == [right |-> right, overlapped |-> areq[r].overlapped]
<1>1. answers' = answers \cup {new} /\ (new.right \/ new.overlapped)
  BY DEF A!Answer
<1> QED
  BY <1>1 DEF AInv, AAnswered

\* The document of an account is written, or is new: who has read it, or relies on
\* its email, learns of it.
LEMMA AWritesInv ==
  ASSUME AInv, NEW r \in Req, NEW a \in Account, NEW doc \in ADoc, NEW emails,
         user' = [user EXCEPT ![a] = doc], A!Ends(r, a, emails),
         doc.email \in emails, user[a] # None => user[a].email \in emails,
         renamed' \in BOOLEAN, renamed => renamed',
         user[a] # None /\ user[a].email # doc.email => renamed',
         started' \in BOOLEAN, started' => started \/ doc.email = Admin,
         AAnswered'
  PROVE  AInv'
<1>0. doc # None
  BY ANone
<1>1. user' \in [Account -> ADoc \cup {None}] /\ user'[a] = doc /\ \A b \in Account \ {a} : user'[b] = user[b]
  BY DEF AInv, ATyped
<1>2. \A b : AThere(user, b) => AThere(user', b)
  BY <1>0, <1>1 DEF AThere
<1>3. \A e : e \notin emails => (ATaken(user', e) <=> ATaken(user, e))
  BY <1>1 DEF ATaken
<1>4. \A q \in Req : \/ areq'[q] = A!Idle
                     \/ /\ areq[q].at # "idle"
                        /\ \E b \in BOOLEAN : areq'[q] = [areq[q] EXCEPT !.overlapped = b]
                                              /\ (~b => ~areq[q].overlapped /\ areq[q].account # a /\ areq[q].email \notin emails)
  <2> SUFFICES ASSUME NEW q \in Req, areq'[q] # A!Idle
               PROVE  /\ areq[q].at # "idle"
                      /\ \E b \in BOOLEAN : areq'[q] = [areq[q] EXCEPT !.overlapped = b]
                                            /\ (~b => ~areq[q].overlapped /\ areq[q].account # a /\ areq[q].email \notin emails)
    OBVIOUS
  <2>1. areq[q].at # "idle"
        /\ areq'[q] = [areq[q] EXCEPT !.overlapped = areq[q].overlapped \/ areq[q].account = a \/ areq[q].email \in emails]
    BY DEF A!Ends
  <2>2. PICK b \in BOOLEAN : b = (areq[q].overlapped \/ areq[q].account = a \/ areq[q].email \in emails)
    OBVIOUS
  <2> QED
    BY <2>1, <2>2
<1>5. \A q \in Req : \/ areq'[q] = A!Idle
                     \/ /\ areq'[q] \in AReq /\ areq'[q].op = areq[q].op /\ areq'[q].at = areq[q].at
                        /\ areq'[q].account = areq[q].account /\ areq'[q].email = areq[q].email
                        /\ areq'[q].password = areq[q].password
                        /\ ~areq'[q].overlapped => ~areq[q].overlapped /\ areq[q].account # a /\ areq[q].email \notin emails
  <2> SUFFICES ASSUME NEW q \in Req, areq'[q] # A!Idle
               PROVE  /\ areq'[q] \in AReq /\ areq'[q].op = areq[q].op /\ areq'[q].at = areq[q].at
                      /\ areq'[q].account = areq[q].account /\ areq'[q].email = areq[q].email
                      /\ areq'[q].password = areq[q].password
                      /\ ~areq'[q].overlapped => ~areq[q].overlapped /\ areq[q].account # a /\ areq[q].email \notin emails
    OBVIOUS
  <2>1. PICK b \in BOOLEAN : areq'[q] = [areq[q] EXCEPT !.overlapped = b]
                             /\ (~b => ~areq[q].overlapped /\ areq[q].account # a /\ areq[q].email \notin emails)
    BY <1>4
  <2>2. areq[q] \in AReq
    BY DEF AInv, ATyped
  <2> QED
    BY <2>1, <2>2 DEF AReq
<1>6. ATyped'
  <2>1. areq' \in [Req -> AReq]
    <3>1. \A q \in Req : areq'[q] \in AReq
      BY <1>5, AIdle
    <3>2. areq' = [q \in Req |-> areq'[q]]
      BY DEF A!Ends
    <3> QED
      BY <3>1, <3>2
  <2> QED
    BY <1>1, <2>1 DEF ATyped
<1>7. ARouted'
  <2> SUFFICES ASSUME NEW q \in Req PROVE ARoute(user', areq'[q])
    BY DEF ARouted
  <2>1. CASE areq'[q] = A!Idle
    BY <2>1, AIdleFree
  <2>2. CASE areq'[q] # A!Idle
    <3>1. ARoute(user, areq[q])
      BY DEF AInv, ARouted
    <3>2. /\ areq'[q].op = areq[q].op /\ areq'[q].at = areq[q].at /\ areq'[q].account = areq[q].account
          /\ areq'[q].email = areq[q].email /\ areq'[q].password = areq[q].password
      BY <1>5, <2>2
    <3> QED
      BY <1>2, <3>1, <3>2 DEF ARoute
  <2> QED
    BY <2>1, <2>2
<1>8. ARead'
  <2> SUFFICES ASSUME NEW q \in Req PROVE AReads(user', areq'[q])
    BY DEF ARead
  <2>1. CASE areq'[q] = A!Idle
    BY <2>1, AIdleFree
  <2>2. CASE areq'[q] # A!Idle /\ ~areq'[q].overlapped
    <3>1. AReads(user, areq[q]) /\ ARoute(user, areq[q])
      BY DEF AInv, ARead, ARouted
    <3>2. /\ areq'[q].op = areq[q].op /\ areq'[q].at = areq[q].at /\ areq'[q].account = areq[q].account
          /\ areq'[q].email = areq[q].email /\ areq'[q].password = areq[q].password
          /\ ~areq[q].overlapped /\ areq[q].account # a /\ areq[q].email \notin emails
      BY <1>5, <2>2
    <3>3. AThere(user, areq[q].account) => user'[areq[q].account] = user[areq[q].account]
      BY <1>1, <3>2 DEF AThere
    <3>4. ATaken(user', areq[q].email) <=> ATaken(user, areq[q].email)
      BY <1>3, <3>2
    <3>5. areq[q].at \in {"issue", "write"} \/ (areq[q].at = "find" /\ areq[q].op = "change") => AThere(user, areq[q].account)
      BY <3>1 DEF ARoute
    <3> QED
      BY <3>1, <3>2, <3>3, <3>4, <3>5 DEF AReads
  <2>3. CASE areq'[q].overlapped
    BY <2>3 DEF AReads
  <2> QED
    BY <2>1, <2>2, <2>3
<1>9. AKnown'
  <2> SUFFICES ASSUME started' PROVE ATaken(user', Admin) \/ renamed'
    BY DEF AKnown
  <2>1. CASE doc.email = Admin
    BY <1>0, <1>1, <2>1 DEF ATaken
  <2>2. CASE doc.email # Admin
    <3>1. ATaken(user, Admin) \/ renamed
      BY <2>2 DEF AInv, AKnown
    <3> QED
      BY <1>1, <2>2, <3>1 DEF ATaken
  <2> QED
    BY <2>1, <2>2
<1> QED
  BY <1>6, <1>7, <1>8, <1>9 DEF AInv

\* A route is called: it has read nothing but that its account is there.
LEMMA ABeginInv ==
  ASSUME AInv, NEW r \in Req, A!Request(r) PROVE AInv'
<1>1. PICK op \in {"start", "register", "login", "refresh", "deactivate", "change", "profile", "put"},
           at \in {"look", "lookAgain", "find", "guard", "write"},
           a \in Account \cup {None}, e \in Email \cup {Admin, None}, p \in Password \cup {None} :
        /\ A!Begin(r, op, at, a, e, p)
        /\ \/ op = "start" /\ at = "look" /\ e = Admin /\ p \in Password
           \/ op = "register" /\ at = "lookAgain" /\ e \in Email /\ p \in Password
           \/ op = "login" /\ at = "find"
           \/ op = "refresh" /\ at = "find" /\ AThere(user, a)
           \/ op = "deactivate" /\ at = "guard" /\ AThere(user, a)
           \/ op = "change" /\ at = "guard" /\ AThere(user, a) /\ p \in Password
           \/ op = "profile" /\ at = "guard" /\ AThere(user, a) /\ e \in Email
           \/ op = "put" /\ at = "write" /\ AThere(user, a)
  <2>1. \A a \in A!Existing : AThere(user, a) /\ a \in Account
    BY ANames DEF AThere
  <2>2. CASE \E p \in Password : A!Begin(r, "start", "look", None, Admin, p)
    BY <2>2
  <2>3. CASE \E e \in Email, p \in Password : A!Begin(r, "register", "lookAgain", None, e, p)
    BY <2>3
  <2>4. CASE \E e \in Email, p \in Password : A!Begin(r, "login", "find", None, e, p)
    BY <2>4
  <2>5. CASE \E a \in A!Existing : A!Begin(r, "refresh", "find", a, None, None)
    BY <2>1, <2>5
  <2>6. CASE \E a \in A!Existing : A!Begin(r, "deactivate", "guard", a, None, None)
    BY <2>1, <2>6
  <2>7. CASE \E a \in A!Existing : \E p \in Password : A!Begin(r, "change", "guard", a, None, p)
    BY <2>1, <2>7
  <2>8. CASE \E a \in A!Existing : \E e \in Email : A!Begin(r, "profile", "guard", a, e, None)
    BY <2>1, <2>8
  <2>9. CASE \E a \in A!Existing : A!Begin(r, "put", "write", a, None, None)
    BY <2>1, <2>9
  <2> QED
    BY <2>2, <2>3, <2>4, <2>5, <2>6, <2>7, <2>8, <2>9 DEF A!Request
<1> DEFINE new == [A!Idle EXCEPT !.op = op, !.at = at, !.account = a, !.email = e, !.password = p]
<1>2. /\ new \in AReq /\ new.op = op /\ new.at = at /\ new.account = a /\ new.email = e /\ new.password = p
      /\ ~new.overlapped
  <2>1. op \in AOp /\ at \in AAt
    BY DEF AOp, AAt
  <2>2. A!Idle \in AReq
    BY AIdle
  <2>3. new \in AReq
    BY <2>1, <2>2 DEF AReq
  <2>4. new.op = op /\ new.at = at /\ new.account = a /\ new.email = e /\ new.password = p
    BY <2>2 DEF AReq
  <2>5. new.overlapped = A!Idle.overlapped
    BY <2>2 DEF AReq
  <2> QED
    BY <2>3, <2>4, <2>5, AIdle
<1>3. areq' = [areq EXCEPT ![r] = new] /\ UNCHANGED <<user, renamed, started, answers>>
  BY <1>1 DEF A!Begin, A!Kept
<1> HIDE DEF new
<1>4. ARoute(user, new)
  BY <1>1, <1>2 DEF ARoute
<1>5. AReads(user, new)
  BY <1>1, <1>2 DEF AReads
<1>6. AAnswered' /\ started' \in BOOLEAN
  BY <1>3 DEF AInv, AAnswered, ATyped
<1> QED
  BY <1>2, <1>3, <1>4, <1>5, <1>6, AMovesInv

\* A request moves on.
LEMMA AGoInv ==
  ASSUME AInv, NEW r \in Req, NEW at \in {"lookAgain", "insert", "find", "issue", "write"}, A!Go(r, at),
         UNCHANGED <<user, renamed, started, answers>>,
         \/ areq[r].op = "start" /\ at \in {"lookAgain", "insert"} /\ areq[r].at \in {"look", "lookAgain"} /\ ~A!Taken(areq[r].email)
         \/ areq[r].op = "register" /\ at = "insert" /\ areq[r].at = "lookAgain"
         \/ areq[r].op = "refresh" /\ areq[r].at = "find" /\ at = "issue" /\ user[areq[r].account].isActive
         \/ areq[r].op \in {"deactivate", "profile"} /\ areq[r].at = "guard" /\ at = "write" /\ user[areq[r].account].isActive
         \/ areq[r].op = "change" /\ areq[r].at = "guard" /\ at = "find" /\ user[areq[r].account].isActive
         \/ areq[r].op = "change" /\ areq[r].at = "find" /\ at = "write" /\ user[areq[r].account].password = areq[r].password
  PROVE  AInv'
<1> DEFINE new == [areq[r] EXCEPT !.at = at]
<1>1. areq[r] \in AReq
  BY DEF AInv, ATyped
<1>2. /\ new \in AReq /\ new.op = areq[r].op /\ new.at = at /\ new.account = areq[r].account
      /\ new.email = areq[r].email /\ new.password = areq[r].password /\ new.overlapped = areq[r].overlapped
  BY <1>1 DEF AReq, AAt
<1>3. areq' = [areq EXCEPT ![r] = new]
  BY DEF A!Go
<1> HIDE DEF new
<1>4. ARoute(user, areq[r]) /\ AReads(user, areq[r])
  BY DEF AInv, ARouted, ARead
<1>5. ARoute(user, new)
  BY <1>2, <1>4 DEF ARoute
<1>6. AReads(user, new)
  BY <1>2, <1>4, ANames DEF AReads
<1>7. AAnswered' /\ started' \in BOOLEAN
  BY DEF AInv, AAnswered, ATyped
<1> QED
  BY <1>2, <1>3, <1>5, <1>6, <1>7, AMovesInv

\* A request ends and has written no account.
LEMMA ADoneInv ==
  ASSUME AInv, NEW r \in Req, A!Done(r), UNCHANGED <<user, renamed>>,
         started' \in BOOLEAN, started' => started \/ ATaken(user, Admin), AAnswered'
  PROVE  AInv'
  BY AIdle, AIdleFree, AMovesInv DEF A!Done

\* The look for the administrator's account, at the start of an instance.
LEMMA ALookInv ==
  ASSUME AInv, NEW r \in Req, A!Look(r) PROVE AInv'
<1>1. areq[r].op = "start" /\ areq[r].at = "look" /\ UNCHANGED <<user, renamed, answers>>
  BY DEF A!Look, A!At
<1>2. areq[r].email = Admin
  BY <1>1 DEF AInv, ARouted, ARoute
<1>3. AAnswered' /\ started \in BOOLEAN
  BY <1>1 DEF AInv, AAnswered, ATyped
<1>4. CASE A!Taken(Admin)
  <2>1. A!Done(r) /\ started' = TRUE
    BY <1>4 DEF A!Look
  <2> QED
    BY <1>1, <1>3, <1>4, <2>1, ANames, ADoneInv
<1>5. CASE ~A!Taken(Admin)
  <2>1. A!Go(r, "lookAgain") /\ started' = started
    BY <1>5 DEF A!Look
  <2> QED
    BY <1>1, <1>2, <1>5, <2>1, AGoInv
<1> QED
  BY <1>4, <1>5

\* A start is refused only when another took the administrator's email meanwhile.
LEMMA AFailsInv ==
  ASSUME AInv, NEW r \in Req, areq[r].at \in {"lookAgain", "insert"}, A!Taken(areq[r].email), A!Fails(r) PROVE AInv'
<1>1. A!Done(r) /\ UNCHANGED <<user, started, renamed>>
  BY DEF A!Fails
<1>2. AAnswered'
  <2>1. CASE areq[r].op = "start"
    <3>1. areq[r].overlapped
      BY <2>1, ANames DEF AInv, ARead, AReads
    <3>2. A!Answer(r, FALSE)
      BY <2>1 DEF A!Fails
    <3> QED
      BY <3>1, <3>2, AAnswersInv
  <2>2. CASE areq[r].op # "start"
    BY <2>2 DEF A!Fails, AInv, AAnswered
  <2> QED
    BY <2>1, <2>2
<1>3. started' \in BOOLEAN
  BY <1>1 DEF AInv, ATyped
<1> QED
  BY <1>1, <1>2, <1>3, ADoneInv

\* createUser looks for the email.
LEMMA ALookAgainInv ==
  ASSUME AInv, NEW r \in Req, A!LookAgain(r) PROVE AInv'
<1>1. areq[r].at = "lookAgain" /\ areq[r].op \in {"start", "register"}
  BY DEF AInv, ARouted, ARoute, A!LookAgain
<1>2. CASE A!Taken(areq[r].email)
  BY <1>1, <1>2, AFailsInv DEF A!LookAgain
<1>3. CASE ~A!Taken(areq[r].email)
  <2>1. A!Go(r, "insert") /\ UNCHANGED <<user, renamed, started, answers>>
    BY <1>3 DEF A!LookAgain, A!Kept
  <2> QED
    BY <1>1, <1>3, <2>1, AGoInv
<1> QED
  BY <1>2, <1>3

\* createUser inserts an account that was not there.
LEMMA AInsertInv ==
  ASSUME AInv, NEW r \in Req, A!Insert(r) PROVE AInv'
<1>1. PICK a \in Account \ A!Existing :
        /\ user' = [user EXCEPT ![a] = [email |-> areq[r].email, password |-> areq[r].password, isActive |-> TRUE]]
        /\ A!Ends(r, a, {areq[r].email})
  BY DEF A!Insert
<1>2. areq[r].at = "insert" /\ started' = (started \/ areq[r].op = "start") /\ UNCHANGED <<renamed, answers>>
  BY DEF A!Insert
<1>3. /\ areq[r].email \in Email \cup {Admin} /\ areq[r].password \in Password
      /\ areq[r].op = "start" => areq[r].email = Admin
  BY <1>2 DEF AInv, ARouted, ARoute
<1> DEFINE doc == [email |-> areq[r].email, password |-> areq[r].password, isActive |-> TRUE]
<1>4. doc \in ADoc /\ doc.email = areq[r].email /\ user' = [user EXCEPT ![a] = doc]
  BY <1>1, <1>3 DEF ADoc
<1> HIDE DEF doc
<1>5. user[a] = None
  BY <1>1 DEF A!Existing
<1>6. AAnswered' /\ started' \in BOOLEAN /\ renamed' \in BOOLEAN
  BY <1>2 DEF AInv, AAnswered, ATyped
<1> QED
  BY <1>1, <1>2, <1>3, <1>4, <1>5, <1>6, AWritesInv

\* One read finds the account, its password and its state.
LEMMA AValidateUserInv ==
  ASSUME AInv, NEW r \in Req, A!ValidateUser(r) PROVE AInv'
<1> DEFINE found == {a \in A!Of(areq[r].email) : user[a].password = areq[r].password /\ user[a].isActive}
<1>1. areq[r].op = "login" /\ areq[r].at = "find" /\ UNCHANGED <<user, renamed, started, answers>>
  BY DEF A!ValidateUser, A!At, A!Kept
<1>2. AAnswered' /\ started' \in BOOLEAN
  BY <1>1 DEF AInv, AAnswered, ATyped
<1>3. CASE A!Done(r)
  BY <1>1, <1>2, <1>3, ADoneInv
<1>4. CASE \E a \in found : areq' = [areq EXCEPT ![r].at = "issue", ![r].account = a]
  <2>1. PICK a \in found : areq' = [areq EXCEPT ![r].at = "issue", ![r].account = a]
    BY <1>4
  <2>2. /\ AThere(user, a) /\ a \in Account /\ user[a].email = areq[r].email
        /\ user[a].password = areq[r].password /\ user[a].isActive
    BY ANames DEF AThere
  <2> DEFINE new == [areq[r] EXCEPT !.at = "issue", !.account = a]
  <2>3. areq[r] \in AReq
    BY DEF AInv, ATyped
  <2>4. /\ new \in AReq /\ new.op = "login" /\ new.at = "issue" /\ new.account = a
        /\ new.email = areq[r].email /\ new.password = areq[r].password
    BY <1>1, <2>2, <2>3 DEF AReq, AAt
  <2>5. areq' = [areq EXCEPT ![r] = new]
    BY <2>1, <2>3 DEF AInv, ATyped
  <2> HIDE DEF new, found
  <2>6. ARoute(user, new)
    BY <2>2, <2>4 DEF ARoute
  <2>7. AReads(user, new)
    BY <2>2, <2>4 DEF AReads
  <2> QED
    BY <1>1, <1>2, <2>4, <2>5, <2>6, <2>7, AMovesInv
<1> QED
  BY <1>3, <1>4 DEF A!ValidateUser

\* The account is asked for once more, or its guard, or its password.
LEMMA AAsksInv ==
  ASSUME AInv, NEW r \in Req, A!RefreshToken(r) \/ A!Validate(r) \/ A!ChangePassword(r) PROVE AInv'
<1>1. UNCHANGED <<user, renamed, started, answers>>
  BY DEF A!RefreshToken, A!Validate, A!ChangePassword, A!Kept
<1>2. AAnswered' /\ started' \in BOOLEAN
  BY <1>1 DEF AInv, AAnswered, ATyped
<1>3. CASE A!Done(r)
  BY <1>1, <1>2, <1>3, ADoneInv
<1>4. CASE A!RefreshToken(r) /\ ~A!Done(r)
  BY <1>1, <1>4, AGoInv DEF A!RefreshToken, A!At
<1>5. CASE A!ChangePassword(r) /\ ~A!Done(r)
  BY <1>1, <1>5, AGoInv DEF A!ChangePassword, A!At
<1>6. CASE A!Validate(r) /\ ~A!Done(r)
  <2>1. /\ areq[r].at = "guard" /\ user[areq[r].account].isActive
        /\ A!Go(r, IF areq[r].op = "change" THEN "find" ELSE "write")
    BY <1>6 DEF A!Validate
  <2>2. areq[r].op \in {"deactivate", "profile", "change"}
    BY <2>1 DEF AInv, ARouted, ARoute
  <2> QED
    BY <1>1, <2>1, <2>2, AGoInv
<1> QED
  BY <1>3, <1>4, <1>5, <1>6

\* The tokens are issued on what was read.
LEMMA ATokensInv ==
  ASSUME AInv, NEW r \in Req, A!GenerateTokens(r) PROVE AInv'
<1> DEFINE u == user[areq[r].account]
<1> DEFINE right == u.isActive /\ (areq[r].op = "login" => u.email = areq[r].email /\ u.password = areq[r].password)
<1>1. areq[r].at = "issue" /\ A!Answer(r, right) /\ A!Done(r) /\ UNCHANGED <<user, started, renamed>>
  BY DEF A!GenerateTokens
<1>2. right \/ areq[r].overlapped
  BY <1>1 DEF AInv, ARead, AReads
<1> HIDE DEF right
<1>3. AAnswered'
  BY <1>1, <1>2, AAnswersInv
<1>4. started' \in BOOLEAN
  BY <1>1 DEF AInv, ATyped
<1> QED
  BY <1>1, <1>3, <1>4, ADoneInv

\* A write of the account that the request holds.
LEMMA AWriteInv ==
  ASSUME AInv, NEW r \in Req, AThere(user, areq[r].account), NEW u \in ADoc, NEW right, A!Write(r, u, right),
         right \/ areq[r].overlapped
  PROVE  AInv'
<1> DEFINE a == areq[r].account
<1>1. /\ user' = [user EXCEPT ![a] = u] /\ renamed' = (renamed \/ u.email # user[a].email)
      /\ A!Answer(r, right) /\ A!Ends(r, a, {u.email, user[a].email}) /\ UNCHANGED <<acalls, started>>
  BY DEF A!Write
<1>2. a \in Account /\ user[a] # None
  BY DEF AThere
<1>3. AAnswered'
  BY <1>1, AAnswersInv
<1>4. started' \in BOOLEAN /\ renamed' \in BOOLEAN
  BY <1>1 DEF AInv, ATyped
<1> HIDE DEF a
<1> QED
  BY <1>1, <1>2, <1>3, <1>4, AWritesInv

\* What the writes make of the document.
LEMMA AWritten ==
  ASSUME NEW u \in ADoc
  PROVE  /\ \A p \in Password : [u EXCEPT !.password = p] \in ADoc
         /\ [u EXCEPT !.isActive = FALSE] \in ADoc
         /\ \A e \in Email : [u EXCEPT !.email = e] \in ADoc
  BY DEF ADoc

\* The four writes: what each relies on was read, or was overtaken.
LEMMA AEditInv ==
  ASSUME AInv, NEW r \in Req, A!WritePassword(r) \/ A!DeactivateAccount(r) \/ A!UpdateProfile(r) \/ A!UpdateUser(r)
  PROVE  AInv'
<1> DEFINE u == user[areq[r].account]
<1>1. /\ areq[r].at = "write" /\ areq[r].op \in {"change", "deactivate", "profile", "put"}
      /\ A!WritePassword(r) => areq[r].op = "change"
      /\ A!DeactivateAccount(r) => areq[r].op = "deactivate"
      /\ A!UpdateProfile(r) => areq[r].op = "profile"
  BY DEF A!WritePassword, A!DeactivateAccount, A!UpdateProfile, A!UpdateUser, A!At
<1>2. AThere(user, areq[r].account) /\ (areq[r].op = "profile" => areq[r].email \in Email)
  BY <1>1 DEF AInv, ARouted, ARoute
<1>3. u \in ADoc
  BY <1>2, ADocs DEF AThere
<1>4. /\ areq[r].op # "put" => u.isActive \/ areq[r].overlapped
      /\ areq[r].op = "change" => u.password = areq[r].password \/ areq[r].overlapped
  BY <1>1 DEF AInv, ARead, AReads
<1>5. CASE A!WritePassword(r)
  <2>1. PICK p \in Password : A!Write(r, [u EXCEPT !.password = p], u.isActive /\ u.password = areq[r].password)
    BY <1>5 DEF A!WritePassword
  <2>2. [u EXCEPT !.password = p] \in ADoc /\ ((u.isActive /\ u.password = areq[r].password) \/ areq[r].overlapped)
    BY <1>1, <1>3, <1>4, <1>5, AWritten
  <2> HIDE DEF u
  <2> QED
    BY <1>2, <2>1, <2>2, AWriteInv
<1>6. CASE A!DeactivateAccount(r)
  <2>1. A!Write(r, [u EXCEPT !.isActive = FALSE], u.isActive)
    BY <1>6 DEF A!DeactivateAccount
  <2>2. [u EXCEPT !.isActive = FALSE] \in ADoc /\ (u.isActive \/ areq[r].overlapped)
    BY <1>1, <1>3, <1>4, <1>6, AWritten
  <2> HIDE DEF u
  <2> QED
    BY <1>2, <2>1, <2>2, AWriteInv
<1>7. CASE A!UpdateProfile(r)
  <2>1. CASE A!Write(r, [u EXCEPT !.email = areq[r].email], u.isActive)
    <3>1. [u EXCEPT !.email = areq[r].email] \in ADoc /\ (u.isActive \/ areq[r].overlapped)
      BY <1>1, <1>2, <1>3, <1>4, <1>7, AWritten
    <3> HIDE DEF u
    <3> QED
      BY <1>2, <2>1, <3>1, AWriteInv
  <2>2. CASE A!Done(r) /\ A!Kept
    <3>1. AAnswered' /\ started' \in BOOLEAN
      BY <2>2 DEF A!Kept, AInv, AAnswered, ATyped
    <3> QED
      BY <2>2, <3>1, ADoneInv DEF A!Kept
  <2> QED
    BY <1>7, <2>1, <2>2 DEF A!UpdateProfile
<1>8. CASE A!UpdateUser(r)
  <2>1. PICK e \in Email, p \in Password, v \in BOOLEAN : A!Write(r, [email |-> e, password |-> p, isActive |-> v], TRUE)
    BY <1>8 DEF A!UpdateUser
  <2>2. [email |-> e, password |-> p, isActive |-> v] \in ADoc
    BY DEF ADoc
  <2> QED
    BY <1>2, <2>1, <2>2, AWriteInv
<1> QED
  BY <1>5, <1>6, <1>7, <1>8

\* Every step keeps the invariant.
LEMMA ANextInv == AInv /\ [A!Next]_A!vars => AInv'
<1> SUFFICES ASSUME AInv, [A!Next]_A!vars PROVE AInv'
  OBVIOUS
<1>1. CASE UNCHANGED A!vars
  BY <1>1 DEF A!vars, AInv, ATyped, ARouted, ARead, AAnswered, AKnown
<1>2. ASSUME NEW r \in Req, A!Step(r) PROVE AInv'
  <2>1. CASE A!Request(r) \/ A!Look(r) \/ A!LookAgain(r)
    BY <2>1, ABeginInv, ALookInv, ALookAgainInv
  <2>2. CASE A!Insert(r) \/ A!InsertRefused(r)
    BY <2>2, AInsertInv, AFailsInv DEF A!InsertRefused
  <2>3. CASE A!ValidateUser(r) \/ A!RefreshToken(r) \/ A!Validate(r) \/ A!ChangePassword(r) \/ A!GenerateTokens(r)
    BY <2>3, AValidateUserInv, AAsksInv, ATokensInv
  <2>4. CASE A!WritePassword(r) \/ A!DeactivateAccount(r) \/ A!UpdateProfile(r) \/ A!UpdateUser(r)
    BY <2>4, AEditInv
  <2> QED
    BY <1>2, <2>1, <2>2, <2>3, <2>4 DEF A!Step
<1> QED
  BY <1>1, <1>2 DEF A!Next

\* Tokens and writes go by what still stands, unless another request wrote the account or
\* took its email; the administrator has an account once an instance has started.
THEOREM AKept == A!Spec => []A!AccountRules
<1>1. AInv => A!AccountRules
  BY ANames DEF AInv, AAnswered, AKnown, A!AccountRules
<1> QED
  BY <1>1, AInitInv, ANextInv, PTL DEF A!Spec

-----------------------------------------------------------------------------
(* Labels and saved replies: LInv                                          *)

\* What the assumption says of the documents.
LEMMA LNone == None \notin Document
  BY WorkspaceAssumption

LOp  == {"create", "update", "delete", None}
LRow == [op : LOp, at : {"idle", "look", "write"}, row : Document \cup {None}, name : Name \cup {None}, outdated : BOOLEAN]
LTyped ==
  /\ sort \in {"label", "savedReply"} /\ name \in [Document -> Name \cup {None}]
  /\ nreq \in [Req -> LRow] /\ \A r \in Req : nreq[r].op = "create" => nreq[r].row = None
\* A label's name that was looked for and not outdated since is free, or the row's own.
LFound(q) ==
  /\ q.op = "create" => \A y \in Document : name[y] # None => name[y] # q.name
  /\ q.op = "update" /\ q.row \in Document /\ name[q.row] # None /\ name[q.row] # q.name =>
       \A y \in Document : name[y] # None /\ name[y] = q.name => y = q.row
LLooked == sort = "label" => \A r \in Req : nreq[r].at = "write" /\ ~nreq[r].outdated => LFound(nreq[r])
LInv == LTyped /\ LLooked /\ L!NamesDistinct

\* No row, no request.
LEMMA LInitInv == L!Init => LInv
  BY DEF L!Init, L!Idle, LInv, LTyped, LLooked, LRow, LOp, L!NamesDistinct, L!Existing

\* A request that goes on, or is done, without a write.
LEMMA LMoves ==
  ASSUME LInv, NEW r \in Req, NEW new \in LRow, nreq' = [nreq EXCEPT ![r] = new], UNCHANGED <<sort, name, crossed>>,
         new.op = "create" => new.row = None,
         sort = "label" /\ new.at = "write" /\ ~new.outdated => LFound(new)
  PROVE  LInv'
<1>1. nreq' \in [Req -> LRow] /\ nreq'[r] = new /\ \A q \in Req \ {r} : nreq'[q] = nreq[q]
  BY DEF LInv, LTyped
<1>2. L!Existing' = L!Existing
  BY DEF L!Existing
<1>3. LTyped'
  BY <1>1 DEF LInv, LTyped
<1>4. LLooked'
  BY <1>1 DEF LInv, LLooked, LFound
<1>5. L!NamesDistinct'
  BY <1>2 DEF LInv, L!NamesDistinct
<1> QED
  BY <1>3, <1>4, <1>5 DEF LInv

\* A new request: one that keeps the name it was read with has that name.
LEMMA LRequestInv ==
  ASSUME LInv, NEW r \in Req, L!Request(r)
  PROVE  LInv'
<1>1. CASE \E n \in Name : nreq' = [nreq EXCEPT ![r] = [L!Idle EXCEPT !.op = "create", !.at = "look", !.name = n]]
  <2>1. PICK n \in Name : nreq' = [nreq EXCEPT ![r] = [L!Idle EXCEPT !.op = "create", !.at = "look", !.name = n]]
    BY <1>1
  <2> DEFINE new == [L!Idle EXCEPT !.op = "create", !.at = "look", !.name = n]
  <2>2. new \in LRow /\ new.at = "look" /\ new.row = None
    BY DEF L!Idle, LRow, LOp
  <2>3. nreq' = [nreq EXCEPT ![r] = new]
    BY <2>1
  <2> HIDE DEF new
  <2> QED
    BY <2>2, <2>3, LMoves DEF L!Request, L!Kept
<1>2. CASE \E x \in L!Existing, n \in Name :
             nreq' = [nreq EXCEPT ![r] = [L!Idle EXCEPT !.op = "update", !.at = IF n = name[x] THEN "write" ELSE "look",
                                                    !.row = x, !.name = n]]
  <2>1. PICK x \in L!Existing, n \in Name :
             nreq' = [nreq EXCEPT ![r] = [L!Idle EXCEPT !.op = "update", !.at = IF n = name[x] THEN "write" ELSE "look",
                                                    !.row = x, !.name = n]]
    BY <1>2
  <2> DEFINE new == [L!Idle EXCEPT !.op = "update", !.at = IF n = name[x] THEN "write" ELSE "look", !.row = x, !.name = n]
  <2>2. new \in LRow /\ new.op = "update" /\ (new.at = "write" => name[new.row] = new.name)
    BY DEF L!Idle, LRow, LOp, L!Existing
  <2>3. nreq' = [nreq EXCEPT ![r] = new]
    BY <2>1
  <2> HIDE DEF new
  <2>4. new.at = "write" => LFound(new)
    BY <2>2 DEF LFound
  <2> QED
    BY <2>2, <2>3, <2>4, LMoves DEF L!Request, L!Kept
<1>3. CASE \E x \in L!Existing : nreq' = [nreq EXCEPT ![r] = [L!Idle EXCEPT !.op = "delete", !.at = "write", !.row = x]]
  <2>1. PICK x \in L!Existing : nreq' = [nreq EXCEPT ![r] = [L!Idle EXCEPT !.op = "delete", !.at = "write", !.row = x]]
    BY <1>3
  <2> DEFINE new == [L!Idle EXCEPT !.op = "delete", !.at = "write", !.row = x]
  <2>2. new \in LRow /\ new.op = "delete"
    BY DEF L!Idle, LRow, LOp, L!Existing
  <2>3. nreq' = [nreq EXCEPT ![r] = new]
    BY <2>1
  <2> HIDE DEF new
  <2>4. LFound(new)
    BY <2>2 DEF LFound
  <2> QED
    BY <2>2, <2>3, <2>4, LMoves DEF L!Request, L!Kept
<1> QED
  BY <1>1, <1>2, <1>3 DEF L!Request

\* The look: the name is free, but for the label's own row.
LEMMA LFindInv ==
  ASSUME LInv, NEW r \in Req, L!FindName(r)
  PROVE  LInv'
<1>1. nreq[r] \in LRow /\ nreq[r].at = "look" /\ UNCHANGED <<sort, name, crossed>>
  BY DEF L!FindName, L!Kept, LInv, LTyped
<1>2. CASE nreq' = [nreq EXCEPT ![r] = L!Idle]
  <2>1. L!Idle \in LRow /\ L!Idle.at = "idle" /\ L!Idle.row = None
    BY DEF L!Idle, LRow, LOp
  <2> QED
    BY <1>1, <1>2, <2>1, LMoves
<1>3. CASE /\ L!Bearers(nreq[r].name) \ (IF sort = "label" THEN {nreq[r].row} ELSE {}) = {}
           /\ nreq' = [nreq EXCEPT ![r].at = "write"]
  <2> DEFINE new == [nreq[r] EXCEPT !.at = "write"]
  <2>1. new \in LRow /\ new.op = nreq[r].op /\ new.row = nreq[r].row /\ new.name = nreq[r].name
    BY <1>1 DEF LRow
  <2>2. nreq' = [nreq EXCEPT ![r] = new]
    BY <1>3
  <2> HIDE DEF new
  <2>3. ASSUME sort = "label", new.op = "create", NEW y \in Document, name[y] # None PROVE name[y] # new.name
    <3>1. nreq[r].row = None
      BY <2>1, <2>3 DEF LInv, LTyped
    <3> QED
      BY <1>3, <2>1, <2>3, <3>1, LNone DEF L!Bearers, L!Existing
  <2>4. ASSUME sort = "label", NEW y \in Document, name[y] # None, name[y] = new.name PROVE y = new.row
    BY <1>3, <2>1, <2>4 DEF L!Bearers, L!Existing
  <2>5. new.op = "create" => new.row = None
    BY <2>1 DEF LInv, LTyped
  <2>6. sort = "label" => LFound(new)
    BY <2>3, <2>4 DEF LFound
  <2> QED
    BY <1>1, <2>2, <2>1, <2>5, <2>6, LMoves
<1> QED
  BY <1>2, <1>3 DEF L!FindName, L!Done

\* A name is written: on a look that still stands, or the row is marked.
LEMMA LWriteInv ==
  ASSUME LInv, NEW r \in Req, NEW x \in Document, nreq[r].at = "write", L!Write(r, x),
         \/ nreq[r].op = "create" /\ x \notin L!Existing /\ \A q \in Req : nreq[q].row # x
         \/ nreq[r].op = "update" /\ x = nreq[r].row /\ x \in L!Existing
  PROVE  LInv'
<1> DEFINE n == nreq[r].name
           refused == sort = "savedReply" /\ L!Bearers(n) \ {x} # {}
<1>0. nreq[r] \in LRow /\ n \in Name \cup {None} /\ refused \in BOOLEAN /\ sort \in {"label", "savedReply"}
  BY DEF LInv, LTyped, LRow
<1>1. /\ name' = IF refused THEN name ELSE [name EXCEPT ![x] = n]
      /\ crossed' = IF refused \/ name[x] = n THEN crossed
                    ELSE IF nreq[r].outdated THEN crossed \cup {x} ELSE crossed \ {x}
      /\ nreq' = [q \in Req |-> IF q = r \/ nreq[q].at = "idle" THEN L!Idle
                               ELSE [nreq[q] EXCEPT !.outdated =
                                       @ \/ (~refused /\ nreq[q].at = "write" /\ (nreq[q].name = n \/ nreq[q].row = x))]]
      /\ sort' = sort
  BY DEF L!Write
<1>2. \A q \in Req : /\ q = r \/ nreq[q].at = "idle" => nreq'[q] = L!Idle
                     /\ ~(q = r \/ nreq[q].at = "idle") =>
                          nreq'[q] = [nreq[q] EXCEPT !.outdated =
                                       @ \/ (~refused /\ nreq[q].at = "write" /\ (nreq[q].name = n \/ nreq[q].row = x))]
  BY <1>1
<1>3. refused <=> sort = "savedReply" /\ L!Bearers(n) \ {x} # {}
  OBVIOUS
<1> HIDE DEF refused
<1>4. \A q \in Req : /\ q = r \/ nreq[q].at = "idle" => nreq'[q] = L!Idle
                     /\ ~(q = r \/ nreq[q].at = "idle") =>
                          /\ nreq'[q] \in LRow /\ nreq'[q].op = nreq[q].op /\ nreq'[q].at = nreq[q].at
                          /\ nreq'[q].row = nreq[q].row /\ nreq'[q].name = nreq[q].name
                          /\ ~nreq'[q].outdated => ~nreq[q].outdated
                          /\ ~nreq'[q].outdated /\ ~refused /\ nreq[q].at = "write" => nreq[q].name # n /\ nreq[q].row # x
  <2> SUFFICES ASSUME NEW q \in Req, ~(q = r \/ nreq[q].at = "idle")
               PROVE  /\ nreq'[q] \in LRow /\ nreq'[q].op = nreq[q].op /\ nreq'[q].at = nreq[q].at
                      /\ nreq'[q].row = nreq[q].row /\ nreq'[q].name = nreq[q].name
                      /\ ~nreq'[q].outdated => ~nreq[q].outdated
                      /\ ~nreq'[q].outdated /\ ~refused /\ nreq[q].at = "write" => nreq[q].name # n /\ nreq[q].row # x
    BY <1>2
  <2>1. PICK b \in BOOLEAN : b = (nreq[q].outdated \/ (~refused /\ nreq[q].at = "write" /\ (nreq[q].name = n \/ nreq[q].row = x)))
    BY DEF LInv, LTyped, LRow
  <2>2. nreq[q] \in LRow
    BY DEF LInv, LTyped
  <2>3. nreq'[q] = [nreq[q] EXCEPT !.outdated = b]
    BY <1>2, <2>1
  <2>4. /\ nreq'[q] \in LRow /\ nreq'[q].op = nreq[q].op /\ nreq'[q].at = nreq[q].at
        /\ nreq'[q].row = nreq[q].row /\ nreq'[q].name = nreq[q].name /\ nreq'[q].outdated = b
    BY <2>2, <2>3 DEF LRow
  <2> QED
    BY <2>1, <2>4
<1>5. L!Idle \in LRow /\ L!Idle.at = "idle" /\ L!Idle.row = None
  BY DEF L!Idle, LRow, LOp
<1>6. LTyped'
  <2>1. nreq' \in [Req -> LRow]
    BY <1>1, <1>4, <1>5
  <2>2. name' \in [Document -> Name \cup {None}]
    BY <1>0, <1>1 DEF LInv, LTyped
  <2>3. \A q \in Req : nreq'[q].op = "create" => nreq'[q].row = None
    BY <1>4, <1>5 DEF LInv, LTyped
  <2> QED
    BY <1>1, <2>1, <2>2, <2>3 DEF LInv, LTyped
<1>7. CASE refused
  <2>1. name' = name /\ crossed' = crossed /\ sort = "savedReply"
    BY <1>1, <1>3, <1>7
  <2>2. L!NamesDistinct'
    BY <1>1, <2>1 DEF LInv, L!NamesDistinct, L!Existing
  <2>3. LLooked'
    BY <1>1, <2>1 DEF LLooked
  <2> QED
    BY <1>6, <2>2, <2>3 DEF LInv
<1>8. CASE ~refused
  <2>1. name' = [name EXCEPT ![x] = n]
    BY <1>1, <1>8
  <2>2. name'[x] = n /\ \A y \in Document \ {x} : name'[y] = name[y]
    BY <2>1 DEF LInv, LTyped
  <2>3. LLooked'
    <3> SUFFICES ASSUME sort = "label", NEW q \in Req, nreq'[q].at = "write", ~nreq'[q].outdated
                 PROVE  LFound(nreq[q])'
      BY <1>1 DEF LLooked
    <3>1. /\ nreq'[q].op = nreq[q].op /\ nreq'[q].at = nreq[q].at /\ nreq[q].at = "write"
          /\ nreq'[q].row = nreq[q].row /\ nreq'[q].name = nreq[q].name /\ ~nreq[q].outdated
          /\ nreq[q].name # n /\ nreq[q].row # x
      BY <1>4, <1>5, <1>8
    <3>2. LFound(nreq[q])
      BY <3>1 DEF LInv, LLooked
    <3>3. ASSUME nreq[q].op = "create", NEW y \in Document, name'[y] # None PROVE name'[y] # nreq[q].name
      BY <2>2, <3>1, <3>2, <3>3 DEF LFound
    <3>4. ASSUME nreq[q].op = "update", nreq[q].row \in Document, name'[nreq[q].row] # None, name'[nreq[q].row] # nreq[q].name,
                 NEW y \in Document, name'[y] # None, name'[y] = nreq[q].name
          PROVE  y = nreq[q].row
      BY <2>2, <3>1, <3>2, <3>4 DEF LFound
    <3> QED
      BY <3>1, <3>3, <3>4 DEF LFound
  <2>4. L!NamesDistinct'
    <3> SUFFICES ASSUME NEW y \in Document, NEW z \in Document, y \in L!Existing', z \in L!Existing', y # z, name'[y] = name'[z]
                 PROVE  sort' = "label" /\ {y, z} \cap crossed' # {}
      BY DEF L!NamesDistinct, L!Existing
    <3>1. CASE x \notin {y, z}
      <4>1. y \in L!Existing /\ z \in L!Existing /\ name[y] = name[z]
        BY <2>2, <3>1 DEF L!Existing
      <4>2. sort = "label" /\ {y, z} \cap crossed # {}
        BY <4>1 DEF LInv, L!NamesDistinct
      <4> QED
        BY <1>1, <3>1, <4>2
    <3>2. CASE x \in {y, z}
      <4>1. PICK w \in {y, z} : w # x
        BY <3>2
      <4>2. w \in Document /\ w \in L!Existing /\ name[w] = n /\ {y, z} = {x, w} /\ n # None
        BY <2>2, <3>2, <4>1 DEF L!Existing
      <4>3. w \in L!Bearers(n)
        BY <4>2 DEF L!Bearers
      <4>4. sort = "label"
        BY <1>0, <1>3, <1>8, <4>1, <4>3
      <4>5. CASE name[x] = n
        <5>1. x \in L!Existing
          BY <4>2, <4>5 DEF L!Existing
        <5>2. {x, w} \cap crossed # {}
          BY <4>1, <4>2, <4>5, <5>1 DEF LInv, L!NamesDistinct
        <5> QED
          BY <1>1, <4>2, <4>4, <4>5, <5>2
      <4>6. CASE name[x] # n
        <5>1. nreq[r].outdated
          <6>1. ~nreq[r].outdated => LFound(nreq[r])
            BY <4>4 DEF LInv, LLooked
          <6> QED
            BY <4>1, <4>2, <4>6, <6>1 DEF LFound, L!Existing
        <5>2. x \in crossed'
          BY <1>1, <1>8, <4>6, <5>1
        <5> QED
          BY <1>1, <4>2, <4>4, <5>2
      <4> QED
        BY <4>5, <4>6
    <3> QED
      BY <3>1, <3>2
  <2> QED
    BY <1>6, <2>3, <2>4 DEF LInv
<1> QED
  BY <1>7, <1>8

\* A row goes with its name.
LEMMA LDeleteInv ==
  ASSUME LInv, NEW r \in Req, L!Delete(r)
  PROVE  LInv'
<1> DEFINE x == nreq[r].row
<1>1. /\ name' = [name EXCEPT ![x] = None] /\ crossed' = crossed \ {x}
      /\ nreq' = [nreq EXCEPT ![r] = L!Idle] /\ sort' = sort
  BY DEF L!Delete, L!Done
<1>2. L!Idle \in LRow /\ L!Idle.at = "idle" /\ L!Idle.row = None
  BY DEF L!Idle, LRow, LOp
<1>3. nreq' \in [Req -> LRow] /\ nreq'[r] = L!Idle /\ \A q \in Req \ {r} : nreq'[q] = nreq[q]
  BY <1>1, <1>2 DEF LInv, LTyped
<1>4. /\ \A y \in Document : name'[y] = IF y = x THEN None ELSE name[y]
      /\ name' \in [Document -> Name \cup {None}]
  BY <1>1 DEF LInv, LTyped
<1> HIDE DEF x
<1>5. L!Existing' = L!Existing \ {x}
  BY <1>4 DEF L!Existing
<1>6. LTyped'
  BY <1>1, <1>2, <1>3, <1>4 DEF LInv, LTyped
<1>7. LLooked'
  <2> SUFFICES ASSUME sort = "label", NEW q \in Req, nreq'[q].at = "write", ~nreq'[q].outdated
               PROVE  LFound(nreq[q])'
    BY <1>1 DEF LLooked
  <2>1. nreq'[q] = nreq[q]
    BY <1>2, <1>3
  <2>2. LFound(nreq[q])
    BY <2>1 DEF LInv, LLooked
  <2> QED
    BY <1>4, <2>1, <2>2 DEF LFound
<1>8. L!NamesDistinct'
  <2> SUFFICES ASSUME NEW y \in L!Existing', NEW z \in L!Existing', y # z, name'[y] = name'[z]
               PROVE  sort' = "label" /\ {y, z} \cap crossed' # {}
    BY DEF L!NamesDistinct
  <2>1. y \in L!Existing /\ z \in L!Existing /\ name[y] = name[z] /\ x \notin {y, z}
    BY <1>4, <1>5 DEF L!Existing
  <2>2. sort = "label" /\ {y, z} \cap crossed # {}
    BY <2>1 DEF LInv, L!NamesDistinct
  <2> QED
    BY <1>1, <2>1, <2>2
<1> QED
  BY <1>6, <1>7, <1>8 DEF LInv

\* Every step keeps the invariant.
LEMMA LNextInv == LInv /\ [L!Next]_L!vars => LInv'
<1> SUFFICES ASSUME LInv, [L!Next]_L!vars PROVE LInv'
  OBVIOUS
<1>1. ASSUME NEW r \in Req, L!Request(r) PROVE LInv'
  BY <1>1, LRequestInv
<1>2. ASSUME NEW r \in Req, L!FindName(r) PROVE LInv'
  BY <1>2, LFindInv
<1>3. ASSUME NEW r \in Req, L!Create(r) PROVE LInv'
  BY <1>3, LWriteInv DEF L!Create, L!At
<1>4. ASSUME NEW r \in Req, L!Update(r) PROVE LInv'
  <2>1. CASE nreq[r].row \in L!Existing
    BY <1>4, <2>1, LWriteInv DEF L!Update, L!At, L!Existing
  <2>2. CASE nreq[r].row \notin L!Existing
    <3>1. L!Idle \in LRow /\ L!Idle.at = "idle" /\ L!Idle.row = None
      BY DEF L!Idle, LRow, LOp
    <3> QED
      BY <1>4, <2>2, <3>1, LMoves DEF L!Update, L!Done, L!Kept
  <2> QED
    BY <2>1, <2>2
<1>5. ASSUME NEW r \in Req, L!Delete(r) PROVE LInv'
  BY <1>5, LDeleteInv
<1>6. CASE UNCHANGED L!vars
  BY <1>6 DEF L!vars, LInv, LTyped, LLooked, LFound, L!NamesDistinct, L!Existing
<1> QED
  BY <1>1, <1>2, <1>3, <1>4, <1>5, <1>6 DEF L!Next

\* Two labels or saved replies bear one name only where a label was written on a look
\* that another write had outdated, for any rows, names and requests.
THEOREM LKept == L!Spec => []L!NamesDistinct
<1>1. LInv => L!NamesDistinct
  BY DEF LInv
<1> QED
  BY <1>1, LInitInv, LNextInv, PTL DEF L!Spec

-----------------------------------------------------------------------------
(* Sprints: SInv                                                           *)

STyped ==
  /\ sprint \in [Sprint -> Row] /\ req \in [Req -> Request]
  /\ \A r \in Req : req[r].pc # "idle" => req[r].sprint \in Sprint

SFresh == \A r \in Req : req[r].pc # "idle" /\ ~req[r].outdated => sprint[req[r].sprint] = req[r].read

SPassedCheck(q) ==
  /\ q.pc \in {"active", "start"} => q.read.status = "planning"
  /\ q.pc = "close" => q.read.status = "active"
  /\ q.pc = "delete" => q.read.status \in {"planning", "closed"}
  /\ q.pc = "put" => InOrder(Or(q.body.start, q.read.start), Or(q.body.end, q.read.end))
SChecked == \A r \in Req : SPassedCheck(req[r])

SNoneFound == \A r \in Req : req[r].pc = "start" /\ ~req[r].outdated => \A s \in Sprint : ~Active(s)

SInv == STyped /\ SFresh /\ SChecked /\ SNoneFound /\ SprintRules

-----------------------------------------------------------------------------
\* No sprint, no request.
LEMMA SInitInv == Init => SInv
<1> SUFFICES ASSUME Init PROVE SInv
  OBVIOUS
<1> USE DEF Init
<1>1. NoSprint \in Row /\ Idle \in Request
  BY DEF NoSprint, Row, SprintStatus, Date, Idle, Request, Body, NoBody
<1>2. STyped
  BY <1>1 DEF STyped, Idle
<1>3. SFresh /\ SChecked /\ SNoneFound
  BY DEF SFresh, SChecked, SPassedCheck, SNoneFound, Idle
<1>4. SprintRules
  BY DEF SprintRules, OneActive, DatesInOrder, Active, InOrder, NoSprint
<1> QED
  BY <1>2, <1>3, <1>4 DEF SInv

\* A request comes in, having read a sprint and passed the check on it.
LEMMA SLoadInv ==
  ASSUME SInv, NEW r \in Req, NEW s \in Sprint, NEW l \in {"active", "close", "put", "delete"}, NEW body \in Body,
         Load(r, s, l, body),
         SPassedCheck([pc |-> l, sprint |-> s, read |-> sprint[s], body |-> body, outdated |-> FALSE])
  PROVE  SInv'
<1> DEFINE new == [pc |-> l, sprint |-> s, read |-> sprint[s], body |-> body, outdated |-> FALSE]
<1>1. new \in Request /\ new.pc = l /\ new.sprint = s /\ new.read = sprint[s] /\ SPassedCheck(new)
  BY DEF SInv, STyped, Request
<1>2. req' = [req EXCEPT ![r] = new] /\ UNCHANGED <<sprint, unchecked, skewed>> /\ req \in [Req -> Request]
  BY DEF Load, SInv, STyped
<1> HIDE DEF new
<1>3. req'[r] = new /\ \A q \in Req \ {r} : req'[q] = req[q]
  BY <1>2
<1>4. STyped'
  BY <1>1, <1>2, <1>3 DEF SInv, STyped
<1>5. SFresh' /\ SChecked'
  BY <1>1, <1>2, <1>3 DEF SInv, SFresh, SChecked
<1>6. SNoneFound'
  BY <1>1, <1>2, <1>3 DEF SInv, SNoneFound, Active
<1>7. SprintRules'
  BY <1>2 DEF SInv, SprintRules, OneActive, DatesInOrder, Active
<1> QED
  BY <1>4, <1>5, <1>6, <1>7 DEF SInv

\* The four operations that begin with a read.
LEMMA SReadsInv ==
  ASSUME SInv, NEW r \in Req, NEW s \in Sprint
  PROVE  /\ StartSprint(r, s) \/ CloseSprint(r, s) \/ DeleteSprint(r, s) => SInv'
         /\ \A body \in Body : UpdateSprint(r, s, body) => SInv'
<1>0. sprint[s].status \in SprintStatus \cup {"none"} /\ NoBody \in Body
  BY DEF SInv, STyped, Row, NoBody, Body, Date
<1>1. ASSUME StartSprint(r, s) PROVE SInv'
  BY <1>0, <1>1, SLoadInv DEF StartSprint, SPassedCheck
<1>2. ASSUME CloseSprint(r, s) PROVE SInv'
  BY <1>0, <1>2, SLoadInv DEF CloseSprint, Active, SPassedCheck
<1>3. ASSUME DeleteSprint(r, s) PROVE SInv'
  BY <1>0, <1>3, SLoadInv DEF DeleteSprint, Exists, Active, SPassedCheck, SprintStatus
<1>4. ASSUME NEW body \in Body, UpdateSprint(r, s, body) PROVE SInv'
  BY <1>4, SLoadInv DEF UpdateSprint, SPassedCheck
<1> QED
  BY <1>1, <1>2, <1>3, <1>4

\* A new sprint is one that no request has read.
LEMMA SCreateInv ==
  ASSUME SInv, NEW r \in Req, NEW s \in Sprint, NEW a \in Date, NEW b \in Date, CreateSprint(r, s, a, b)
  PROVE  SInv'
<1> DEFINE new == [status |-> "planning", start |-> a, end |-> b]
<1>1. new \in Row /\ new.status = "planning" /\ InOrder(new.start, new.end)
  BY DEF Row, SprintStatus, CreateSprint
<1>2. /\ sprint' = [sprint EXCEPT ![s] = new] /\ skewed' = skewed \ {s} /\ UNCHANGED <<req, unchecked>>
      /\ \A q \in Req : req[q].sprint # s
  BY DEF CreateSprint
<1> HIDE DEF new
<1>3. sprint'[s] = new /\ \A t \in Sprint \ {s} : sprint'[t] = sprint[t]
  BY <1>2 DEF SInv, STyped
<1>4. STyped'
  BY <1>1, <1>2 DEF SInv, STyped
<1>5. SFresh' /\ SChecked'
  BY <1>2, <1>3 DEF SInv, STyped, SFresh, SChecked
<1>6. \A t \in Sprint : Active(t)' => Active(t) /\ t # s
  BY <1>1, <1>3 DEF Active
<1>7. SNoneFound' /\ OneActive'
  BY <1>2, <1>6 DEF SInv, SNoneFound, SprintRules, OneActive
<1>8. DatesInOrder'
  BY <1>1, <1>2, <1>3 DEF SInv, SprintRules, DatesInOrder
<1> QED
  BY <1>4, <1>5, <1>7, <1>8 DEF SInv, SprintRules

\* A start goes on when no sprint is ACTIVE.
LEMMA SCheckActiveInv ==
  ASSUME SInv, NEW r \in Req, CheckActive(r)
  PROVE  SInv'
<1>1. req[r] \in Request /\ req[r].pc = "active" /\ UNCHANGED <<sprint, unchecked, skewed>>
  BY DEF SInv, STyped, CheckActive
<1>2. SprintRules'
  BY <1>1 DEF SInv, SprintRules, OneActive, DatesInOrder, Active
<1>3. CASE \E s \in Sprint : Active(s)
  <2>1. req' = [req EXCEPT ![r] = Idle]
    BY <1>3 DEF CheckActive
  <2>2. req'[r] = Idle /\ \A q \in Req \ {r} : req'[q] = req[q]
    BY <2>1 DEF SInv, STyped
  <2>3. Idle \in Request /\ Idle.pc = "idle"
    BY DEF NoSprint, Row, SprintStatus, Date, Idle, Request, Body, NoBody
  <2>4. STyped'
    BY <1>1, <2>1, <2>2, <2>3 DEF SInv, STyped
  <2>5. SFresh' /\ SChecked'
    BY <1>1, <2>2, <2>3 DEF SInv, SFresh, SChecked, SPassedCheck
  <2>6. SNoneFound'
    BY <1>1, <2>2, <2>3 DEF SInv, SNoneFound, Active
  <2> QED
    BY <1>2, <2>4, <2>5, <2>6 DEF SInv
<1>4. CASE ~ \E s \in Sprint : Active(s)
  <2> DEFINE new == [req[r] EXCEPT !.pc = "start"]
  <2>1. req' = [req EXCEPT ![r] = new]
    BY <1>4 DEF CheckActive
  <2>2. new \in Request /\ new.pc = "start" /\ new.sprint = req[r].sprint /\ new.read = req[r].read
        /\ new.outdated = req[r].outdated
    BY <1>1 DEF Request
  <2> HIDE DEF new
  <2>3. req'[r] = new /\ \A q \in Req \ {r} : req'[q] = req[q]
    BY <2>1 DEF SInv, STyped
  <2>4. STyped'
    BY <1>1, <2>1, <2>2, <2>3 DEF SInv, STyped
  <2>5. SFresh' /\ SChecked'
    BY <1>1, <2>2, <2>3 DEF SInv, SFresh, SChecked, SPassedCheck
  <2>6. SNoneFound'
    BY <1>1, <1>4 DEF SNoneFound, Active
  <2> QED
    BY <1>2, <2>4, <2>5, <2>6 DEF SInv
<1> QED
  BY <1>3, <1>4

\* The writes that end a request: those that make a sprint ACTIVE are starts and PUTs,
\* and a PUT that is up to date keeps the dates in order.
LEMMA SWriteInv ==
  ASSUME SInv, NEW r \in Req, NEW s \in Sprint, req[r].sprint = s, NEW row \in Row, Write(r, row),
         row.status = "active" => Active(s) \/ req[r].pc \in {"start", "put"},
         req[r].pc = "put" /\ ~req[r].outdated => InOrder(row.start, row.end)
  PROVE  SInv'
<1> DEFINE new == IF Exists(s) THEN row ELSE sprint[s]
           stale(q) == new # sprint[s] /\ (req[q].sprint = s \/
                         (req[q].pc = "start" /\ new.status = "active" /\ ~Active(s)))
<1>1. s \in Sprint /\ new \in Row /\ sprint \in [Sprint -> Row] /\ req \in [Req -> Request]
  BY DEF SInv, STyped
<1>2. sprint' = [sprint EXCEPT ![s] = new]
  BY DEF Write
<1>3. req' = [q \in Req |-> IF q = r THEN Idle ELSE [req[q] EXCEPT !.outdated = @ \/ stale(q)]]
  BY DEF Write
<1>4. unchecked' = IF new.status # "active" THEN unchecked \ {s}
                   ELSE IF ~Active(s) /\ (req[r].pc = "put" \/ req[r].outdated) THEN unchecked \cup {s}
                   ELSE unchecked
  BY DEF Write
<1>5. skewed' = IF <<new.start, new.end>> = <<sprint[s].start, sprint[s].end>> THEN skewed
                ELSE IF req[r].pc # "put" \/ req[r].outdated THEN skewed \cup {s} ELSE skewed \ {s}
  BY DEF Write
<1>6. /\ new.status = "active" => Active(s) \/ req[r].pc \in {"start", "put"}
      /\ req[r].pc = "put" /\ ~req[r].outdated => InOrder(new.start, new.end) \/ new = sprint[s]
  BY DEF Exists, Active
<1> HIDE DEF new
<1>7. sprint'[s] = new /\ \A t \in Sprint \ {s} : sprint'[t] = sprint[t]
  BY <1>1, <1>2
<1>8. /\ req'[r] = Idle
      /\ \A q \in Req \ {r} : /\ req'[q] \in Request
                              /\ req'[q].pc = req[q].pc /\ req'[q].sprint = req[q].sprint
                              /\ req'[q].read = req[q].read /\ req'[q].body = req[q].body
                              /\ req'[q].outdated = (req[q].outdated \/ stale(q))
  <2>1. req'[r] = Idle
    BY <1>3
  <2>2. ASSUME NEW q \in Req \ {r}
        PROVE  /\ req'[q] \in Request
               /\ req'[q].pc = req[q].pc /\ req'[q].sprint = req[q].sprint
               /\ req'[q].read = req[q].read /\ req'[q].body = req[q].body
               /\ req'[q].outdated = (req[q].outdated \/ stale(q))
    <3>1. req[q] \in Request /\ stale(q) \in BOOLEAN
      BY <1>1
    <3>2. req'[q] = [req[q] EXCEPT !.outdated = @ \/ stale(q)]
      BY <1>3
    <3> HIDE DEF stale
    <3> QED
      BY <3>1, <3>2 DEF Request
  <2> QED
    BY <2>1, <2>2
<1>9. Idle \in Request /\ Idle.pc = "idle"
  BY DEF NoSprint, Row, SprintStatus, Date, Idle, Request, Body, NoBody
<1>10. req' \in [Req -> Request]
  <2>1. DOMAIN req' = Req /\ req' = [q \in Req |-> req'[q]]
    BY <1>3
  <2>2. \A q \in Req : req'[q] \in Request
    BY <1>8, <1>9
  <2> QED
    BY <2>1, <2>2
<1>11. STyped'
  <2>1. sprint' \in [Sprint -> Row]
    BY <1>1, <1>2
  <2>2. \A q \in Req : req'[q].pc # "idle" => req'[q].sprint \in Sprint
    BY <1>8, <1>9 DEF SInv, STyped
  <2> QED
    BY <1>10, <2>1, <2>2 DEF STyped
<1>12. SFresh'
  <2> SUFFICES ASSUME NEW q \in Req, req'[q].pc # "idle", ~req'[q].outdated
               PROVE  sprint'[req'[q].sprint] = req'[q].read
    BY DEF SFresh
  <2>1. q # r /\ ~req[q].outdated /\ ~stale(q) /\ req[q].pc # "idle" /\ req[q].sprint \in Sprint
    BY <1>8, <1>9 DEF SInv, STyped
  <2>2. sprint[req[q].sprint] = req[q].read
    BY <2>1 DEF SInv, SFresh
  <2>3. CASE req[q].sprint = s
    BY <1>7, <1>8, <2>1, <2>2, <2>3
  <2>4. CASE req[q].sprint # s
    BY <1>7, <1>8, <2>1, <2>2, <2>4
  <2> QED
    BY <2>3, <2>4
<1>13. SChecked'
  BY <1>8, <1>9 DEF SInv, SChecked, SPassedCheck
<1>14. \A t \in Sprint \ {s} : Active(t)' <=> Active(t)
  BY <1>7 DEF Active
<1>15. Active(s)' <=> new.status = "active"
  BY <1>7 DEF Active
<1>16. SNoneFound'
  <2> SUFFICES ASSUME NEW q \in Req, req'[q].pc = "start", ~req'[q].outdated, NEW t \in Sprint
               PROVE  ~Active(t)'
    BY DEF SNoneFound
  <2>1. q # r /\ ~req[q].outdated /\ ~stale(q) /\ req[q].pc = "start"
    BY <1>8, <1>9
  <2>2. ~Active(t) /\ ~Active(s)
    BY <1>1, <2>1 DEF SInv, SNoneFound
  <2>3. new.status # "active"
    BY <1>1, <2>1, <2>2 DEF Active
  <2> QED
    BY <1>14, <1>15, <2>2, <2>3
<1>17. OneActive'
  <2>1. CASE new.status # "active"
    BY <1>4, <1>14, <1>15, <2>1 DEF SInv, SprintRules, OneActive
  <2>2. CASE new.status = "active" /\ Active(s)
    BY <1>4, <1>14, <1>15, <2>2 DEF SInv, SprintRules, OneActive
  <2>3. CASE new.status = "active" /\ ~Active(s) /\ s \in unchecked'
    <3>1. unchecked \subseteq unchecked'
      BY <1>4, <2>3
    <3> QED
      BY <1>14, <2>3, <3>1 DEF SInv, SprintRules, OneActive
  <2>4. CASE new.status = "active" /\ ~Active(s) /\ s \notin unchecked'
    <3>1. req[r].pc = "start" /\ ~req[r].outdated
      BY <1>4, <1>6, <2>4
    <3>2. \A t \in Sprint : ~Active(t)
      BY <3>1 DEF SInv, SNoneFound
    <3> QED
      BY <1>14, <3>2 DEF OneActive
  <2> QED
    BY <2>1, <2>2, <2>3, <2>4
<1>18. DatesInOrder'
  <2> SUFFICES ASSUME NEW t \in Sprint, t \notin skewed' PROVE InOrder(sprint'[t].start, sprint'[t].end)
    BY DEF DatesInOrder
  <2>1. t # s => t \notin skewed
    BY <1>5
  <2>2. CASE t # s
    BY <1>7, <2>1, <2>2 DEF SInv, SprintRules, DatesInOrder
  <2>3. CASE t = s /\ <<new.start, new.end>> = <<sprint[s].start, sprint[s].end>>
    BY <1>5, <1>7, <2>3 DEF SInv, SprintRules, DatesInOrder
  <2>4. CASE t = s /\ <<new.start, new.end>> # <<sprint[s].start, sprint[s].end>>
    <3>1. req[r].pc = "put" /\ ~req[r].outdated
      BY <1>5, <2>4
    <3> QED
      BY <1>6, <1>7, <2>4, <3>1
  <2> QED
    BY <2>2, <2>3, <2>4
<1> QED
  BY <1>11, <1>12, <1>13, <1>16, <1>17, <1>18 DEF SInv, SprintRules

\* What the four writes write meets WriteInv's conditions.
LEMMA SWritesInv ==
  ASSUME SInv, NEW r \in Req, WritePut(r) \/ WriteStart(r) \/ WriteClose(r) \/ WriteDelete(r)
  PROVE  SInv'
<1>0. req[r].sprint \in Sprint
  BY DEF SInv, STyped, WritePut, WriteStart, WriteClose, WriteDelete
<1> PICK s \in Sprint : s = req[r].sprint
  BY <1>0
<1>1. req[r] \in Request /\ Now \in Date
  BY SprintsAssumption DEF SInv, STyped, Date
<1>2. CASE WritePut(r)
  <2>1. s \in Sprint /\ req[r].pc = "put"
    BY <1>2 DEF WritePut, SInv, STyped
  <2>2. sprint[s] \in Row /\ req[r].body \in Body
    BY <1>1, <2>1 DEF SInv, STyped, Request
  <2> DEFINE row == [status |-> Or(req[r].body.status, sprint[s].status),
                     start |-> Or(req[r].body.start, sprint[s].start),
                     end |-> Or(req[r].body.end, sprint[s].end)]
  <2>3. row \in Row
    BY <2>2 DEF Row, Body, SprintStatus, Or
  <2>4. ~req[r].outdated => InOrder(row.start, row.end)
    BY <2>1 DEF SInv, SFresh, SChecked, SPassedCheck
  <2>5. Write(r, row)
    BY <1>2 DEF WritePut
  <2> HIDE DEF row
  <2> QED
    BY <2>1, <2>3, <2>4, <2>5, SWriteInv
<1>3. CASE WriteStart(r)
  <2>1. s \in Sprint /\ req[r].pc = "start"
    BY <1>3 DEF WriteStart, SInv, STyped
  <2> DEFINE row == [sprint[s] EXCEPT !.status = "active", !.start = IF req[r].read.start = None THEN Now ELSE @]
  <2>2. sprint[s] \in Row
    BY <2>1 DEF SInv, STyped
  <2>3. row \in Row
    BY <1>1, <2>2 DEF Row, SprintStatus
  <2>4. Write(r, row)
    BY <1>3 DEF WriteStart
  <2> HIDE DEF row
  <2> QED
    BY <2>1, <2>3, <2>4, SWriteInv
<1>4. CASE WriteClose(r)
  <2>1. s \in Sprint /\ req[r].pc = "close"
    BY <1>4 DEF WriteClose, SInv, STyped
  <2> DEFINE row == [sprint[s] EXCEPT !.status = "closed", !.end = IF req[r].read.end = None THEN Now ELSE @]
  <2>2. sprint[s] \in Row
    BY <2>1 DEF SInv, STyped
  <2>3. row \in Row /\ row.status = "closed"
    BY <1>1, <2>2 DEF Row, SprintStatus
  <2>4. Write(r, row)
    BY <1>4 DEF WriteClose
  <2> HIDE DEF row
  <2> QED
    BY <2>1, <2>3, <2>4, SWriteInv
<1>5. CASE WriteDelete(r)
  <2>1. NoSprint \in Row /\ NoSprint.status = "none" /\ req[r].pc = "delete" /\ Write(r, NoSprint)
    BY <1>5 DEF WriteDelete, NoSprint, Row, Date
  <2> QED
    BY <2>1, SWriteInv
<1> QED
  BY <1>2, <1>3, <1>4, <1>5

\* Every step keeps the invariant.
LEMMA SStepInv == SInv /\ [Next]_vars => SInv'
<1> SUFFICES ASSUME SInv, [Next]_vars PROVE SInv'
  OBVIOUS
<1>1. CASE UNCHANGED vars
  BY <1>1 DEF vars, SInv, STyped, SFresh, SChecked, SNoneFound, SprintRules, OneActive, DatesInOrder, Active
<1>2. ASSUME NEW r \in Req, NEW s \in Sprint, NEW a \in Date, NEW b \in Date, CreateSprint(r, s, a, b)
      PROVE  SInv'
  BY <1>2, SCreateInv
<1>3. ASSUME NEW r \in Req, NEW s \in Sprint, NEW x \in SprintStatus \cup {None}, NEW a \in Date, NEW b \in Date,
             UpdateSprint(r, s, [status |-> x, start |-> a, end |-> b])
      PROVE  SInv'
  <2>1. [status |-> x, start |-> a, end |-> b] \in Body
    BY DEF Body
  <2> QED
    BY <1>3, <2>1, SReadsInv
<1>4. ASSUME NEW r \in Req, NEW s \in Sprint, StartSprint(r, s) \/ CloseSprint(r, s) \/ DeleteSprint(r, s)
      PROVE  SInv'
  BY <1>4, SReadsInv
<1>5. ASSUME NEW r \in Req, CheckActive(r) PROVE SInv'
  BY <1>5, SCheckActiveInv
<1>6. ASSUME NEW r \in Req, WritePut(r) \/ WriteStart(r) \/ WriteClose(r) \/ WriteDelete(r) PROVE SInv'
  BY <1>6, SWritesInv
<1> QED
  BY <1>1, <1>2, <1>3, <1>4, <1>5, <1>6 DEF Next

\* Of two ACTIVE sprints one was made so without a check or on an outdated one, and the
\* dates of a sprint are in order but for those stamped, or checked against outdated ones.
THEOREM SRulesKept == Spec => []SprintRules
<1>1. SInv /\ [Next]_vars => SInv'
  BY SStepInv
<1>2. SInv => SprintRules
  BY DEF SInv
<1> QED
  BY SInitInv, <1>1, <1>2, PTL DEF Spec

\* One step, of one sprint: what changes its status was planned, or came from a PUT or a
\* request whose read is outdated.
LEMMA SLifecycleStep ==
  ASSUME SInv, [Next]_vars, NEW s \in Sprint, sprint'[s].status # sprint[s].status
  PROVE  \/ <<sprint[s].status, sprint'[s].status>> \in
              {<<"none", "planning">>, <<"planning", "active">>, <<"active", "closed">>,
               <<"planning", "none">>, <<"closed", "none">>}
         \/ \E r \in Req : req[r].sprint = s /\ (req[r].pc = "put" \/ req[r].outdated)
<1>1. sprint[s] \in Row
  BY DEF SInv, STyped
<1>2. ASSUME NEW r \in Req, NEW t \in Sprint, NEW a \in Date, NEW b \in Date, CreateSprint(r, t, a, b)
      PROVE  sprint[s].status = "none" /\ sprint'[s].status = "planning"
  BY <1>1, <1>2 DEF CreateSprint, Exists, SInv, STyped
<1>3. ASSUME NEW r \in Req, NEW row, Write(r, row), req[r].pc # "idle"
      PROVE  req[r].sprint = s /\ Exists(s) /\ sprint'[s] = row
  <2>1. req[r].sprint \in Sprint
    BY <1>3 DEF SInv, STyped
  <2> QED
    BY <1>3, <2>1 DEF Write, SInv, STyped, Exists
<1>4. ASSUME NEW r \in Req, WriteStart(r), ~req[r].outdated
      PROVE  sprint[s].status = "planning" /\ sprint'[s].status = "active"
  <2>1. req[r].sprint = s
    BY <1>3, <1>4 DEF WriteStart
  <2>2. sprint'[s] = [sprint[s] EXCEPT !.status = "active", !.start = IF req[r].read.start = None THEN Now ELSE @]
    BY <1>3, <1>4, <2>1 DEF WriteStart
  <2>3. sprint'[s].status = "active"
    BY <1>1, <2>2 DEF Row
  <2> QED
    BY <1>4, <2>1, <2>3 DEF WriteStart, SInv, SFresh, SChecked, SPassedCheck
<1>5. ASSUME NEW r \in Req, WriteClose(r), ~req[r].outdated
      PROVE  sprint[s].status = "active" /\ sprint'[s].status = "closed"
  <2>1. req[r].sprint = s
    BY <1>3, <1>5 DEF WriteClose
  <2>2. sprint'[s] = [sprint[s] EXCEPT !.status = "closed", !.end = IF req[r].read.end = None THEN Now ELSE @]
    BY <1>3, <1>5, <2>1 DEF WriteClose
  <2>3. sprint'[s].status = "closed"
    BY <1>1, <2>2 DEF Row
  <2> QED
    BY <1>5, <2>1, <2>3 DEF WriteClose, SInv, SFresh, SChecked, SPassedCheck
<1>6. ASSUME NEW r \in Req, WriteDelete(r), ~req[r].outdated
      PROVE  sprint[s].status \in {"planning", "closed"} /\ sprint'[s].status = "none"
  <2>1. req[r].sprint = s /\ sprint'[s].status = "none"
    BY <1>3, <1>6 DEF WriteDelete, NoSprint
  <2> QED
    BY <1>6, <2>1 DEF WriteDelete, SInv, SFresh, SChecked, SPassedCheck
<1>7. ASSUME NEW r \in Req, WritePut(r) \/ WriteStart(r) \/ WriteClose(r) \/ WriteDelete(r)
      PROVE  req[r].sprint = s
  BY <1>3, <1>7 DEF WritePut, WriteStart, WriteClose, WriteDelete
<1>8. UNCHANGED sprint \/ \E r \in Req :
        \/ \E t \in Sprint, a, b \in Date : CreateSprint(r, t, a, b)
        \/ WritePut(r) \/ WriteStart(r) \/ WriteClose(r) \/ WriteDelete(r)
  BY DEF Next, vars, UpdateSprint, StartSprint, CloseSprint, DeleteSprint, Load, CheckActive
<1> QED
  BY <1>2, <1>4, <1>5, <1>6, <1>7, <1>8 DEF WritePut

\* A sprint goes from planning to active to closed and is not deleted while active, but
\* for a PUT and for a request whose read is outdated.
THEOREM SLifecycleKept == Spec => SprintLifecycle
<1>1. SInv /\ [Next]_vars => SInv'
  BY SStepInv
<1>2. SInv /\ [Next]_vars =>
        [\A s \in Sprint :
           sprint'[s].status # sprint[s].status =>
             \/ <<sprint[s].status, sprint'[s].status>> \in
                  {<<"none", "planning">>, <<"planning", "active">>, <<"active", "closed">>,
                   <<"planning", "none">>, <<"closed", "none">>}
             \/ \E r \in Req : req[r].sprint = s /\ (req[r].pc = "put" \/ req[r].outdated)]_vars
  BY SLifecycleStep
<1> QED
  BY SInitInv, <1>1, <1>2, PTL DEF Spec, SprintLifecycle

-----------------------------------------------------------------------------
(* The services side by side                                               *)

parts == <<focus, vars, members, projects, pools, accounts, labels>>

\* A step of the whole is a step of one service, and for the others a stutter.
LEMMA AllSteps ==
  [AllNext]_parts =>
    /\ [M!Next]_(M!vars) /\ [P!Next]_(P!vars) /\ [F!Next]_(F!vars) /\ [A!Next]_(A!vars)
    /\ [L!Next]_(L!vars) /\ [Next]_vars
<1> SUFFICES ASSUME [AllNext]_parts
             PROVE  /\ [M!Next]_(M!vars) /\ [P!Next]_(P!vars) /\ [F!Next]_(F!vars) /\ [A!Next]_(A!vars)
                    /\ [L!Next]_(L!vars) /\ [Next]_vars
  OBVIOUS
<1>1. M!Next \/ UNCHANGED M!vars
  BY DEF AllNext, parts, members, M!vars
<1>2. P!Next \/ UNCHANGED P!vars
  BY DEF AllNext, parts, projects, P!vars
<1>3. F!Next \/ UNCHANGED F!vars
  BY DEF AllNext, parts, pools, F!vars
<1>4. A!Next \/ UNCHANGED A!vars
  BY DEF AllNext, parts, accounts, A!vars
<1>5. L!Next \/ UNCHANGED L!vars
  BY DEF AllNext, parts, labels, L!vars
<1>6. Next \/ UNCHANGED vars
  BY DEF AllNext, parts
<1> QED
  BY <1>1, <1>2, <1>3, <1>4, <1>5, <1>6

\* A behaviour of the whole is one of each service.
LEMMA AllBehaviours == AllSpec => M!Spec /\ P!Spec /\ F!Spec /\ A!Spec /\ L!Spec /\ Spec
<1>1. AllInit => M!Init /\ P!Init /\ F!Init /\ A!Init /\ L!Init /\ Init
  BY DEF AllInit
<1> QED
  BY <1>1, AllSteps, PTL DEF AllSpec, parts, M!Spec, P!Spec, F!Spec, A!Spec, L!Spec, Spec

\* Every user has one row and the group keeps its owner, a token is for an active
\* account with the password given, and the administrator has an account: but where
\* the write of one request overtook the look of another, or a creation was cut short.
THEOREM PeopleKept == AllSpec => []PeopleRules
  BY AllBehaviours, MKept, AKept, PTL DEF PeopleRules

\* The keys of projects are distinct, a stale list is about to be deleted, was stored
\* late or lost its deletion to a failed call or an exit, and two labels share a name only if their requests crossed.
THEOREM ProjectsKept == AllSpec => []ProjectRules
  BY AllBehaviours, PKept, LKept, PTL DEF ProjectRules

\* No pool is added to twice in an interval, and every addition has its execution, but
\* for jobs that had read the same, an update of the stamp, and faults.
THEOREM PoolsKept == AllSpec => []PoolsExact
  BY AllBehaviours, FKept, PTL DEF PoolsExact

\* At most one sprint is active that a start checked, and its dates are in order, but
\* where a request wrote on the strength of a document that had changed.
THEOREM SprintsKept == AllSpec => []SprintRules
  BY AllBehaviours, SRulesKept, PTL

\* A list of a project's owner goes stale only when a request is about to delete it, and
\* a sprint goes from planning to active to closed, but by a PUT or an outdated write.
THEOREM StepsKept == AllSpec => AllowedSteps
  BY AllBehaviours, PListKept, SLifecycleKept, PTL DEF AllowedSteps
=============================================================================
