---------------------------- MODULE MCWorkspace ----------------------------
(***************************************************************************)
(* A workplace as TLC explores it: its members (or those of a project),    *)
(* its projects, the sprints and the labels of a project; beside it the    *)
(* accounts of users and a fund pool.  The services share no document that *)
(* one of them writes and another checks, so what one can do does not      *)
(* depend on the others: a behaviour exercises one of them, chosen at the  *)
(* start, and the others stand still.                                      *)
(***************************************************************************)
EXTENDS Sprints, FiniteSets, TLC

CONSTANTS User, Creator, MaxRows, MaxFaults,
          Project, Key,
          Worker, Interval, MaxJobs, MaxAdditions, PoolCalls,
          Account, Email, Admin, Password, AccountCalls,
          Document, Name, NameCalls

VARIABLES focus,
          kind, group, rows, mreq, mcalls, faults, ownerless,
          project, watched, cache, preq, pcalls, pfaults, excused,
          pool, twin, flag, waiting, job, additions, records, freq, fcalls, ffaults,
          since, hasty, shared, restamped, outlived, fraced,
          user, areq, acalls, started, renamed, answers,
          sort, name, nreq, ncalls, crossed

\* None is not one of the things it stands for the absence of; the creator of a group
\* is a user.
ASSUME WorkspaceAssumption ==
  /\ None \notin Key /\ None \notin Document /\ Creator \in User
  /\ \A e \in Email \cup {Admin}, p \in Password, b \in BOOLEAN : None # [email |-> e, password |-> p, isActive |-> b]
  /\ IsFiniteSet(Worker) /\ Interval \in Nat

M == INSTANCE Members  WITH req <- mreq, calls <- mcalls
P == INSTANCE Projects WITH req <- preq, calls <- pcalls, faults <- pfaults
F == INSTANCE FundPools WITH req <- freq, calls <- fcalls, faults <- ffaults,
       raced <- fraced, MaxCalls <- PoolCalls
A == INSTANCE Accounts WITH req <- areq, calls <- acalls, MaxCalls <- AccountCalls
L == INSTANCE Names WITH kind <- sort, req <- nreq, calls <- ncalls, MaxCalls <- NameCalls

members  == <<kind, group, rows, mreq, mcalls, faults, ownerless>>
projects == <<project, watched, cache, preq, pcalls, pfaults, excused>>
pools    == <<pool, twin, flag, waiting, job, additions, records, freq, fcalls, ffaults,
              since, hasty, shared, restamped, outlived, fraced>>
accounts == <<user, areq, acalls, started, renamed, answers>>
labels   == <<sort, name, nreq, ncalls, crossed>>

AllInit ==
  /\ Init /\ M!Init /\ P!Init /\ F!Init /\ A!Init /\ L!Init
  /\ focus \in {"members", "sprints", "projects", "pools", "accounts", "labels"}
  /\ focus # "labels" => sort = "label"
  /\ focus # "members" => kind = "workplace"
  /\ focus # "projects" => watched = "workplace"
  /\ focus # "pools" => pool.state = "absent" /\ flag = "absent"
AllNext ==
  \/ focus = "members" /\ M!Next /\ UNCHANGED <<focus, vars, projects, pools, accounts, labels>>
  \/ focus = "sprints" /\ Next /\ UNCHANGED <<focus, members, projects, pools, accounts, labels>>
  \/ focus = "projects" /\ P!Next /\ UNCHANGED <<focus, vars, members, pools, accounts, labels>>
  \/ focus = "pools" /\ F!Next /\ UNCHANGED <<focus, vars, members, projects, accounts, labels>>
  \/ focus = "accounts" /\ A!Next /\ UNCHANGED <<focus, vars, members, projects, pools, labels>>
  \/ focus = "labels" /\ L!Next /\ UNCHANGED <<focus, vars, members, projects, pools, accounts>>
AllSpec == AllInit /\ [][AllNext]_<<focus, vars, members, projects, pools, accounts, labels>>

\* What the other modules state, of their parts of the state.
\* Who is who: the members of a group and the accounts of users.
PeopleRules        == M!MemberRules /\ A!AccountRules
\* The key and the lists of a project, and the names of labels and saved replies.
ProjectRules       == P!ProjectRules /\ L!NamesDistinct
PoolsExact         == F!PoolsExact
\* The steps a cached list and a sprint may take.
AllowedSteps       == P!OwnerListForgotten /\ SprintLifecycle

Symmetric == Permutations(Req) \cup Permutations(Sprint) \cup Permutations(Project) \cup Permutations(Worker)
=============================================================================
