---------------------------- MODULE OutboxPromise ----------------------------
(***************************************************************************)
(* What an outbox promises, whatever its tables, relay and broker are like *)
(* inside: the event of a committed order is owed until it is handed to    *)
(* the broker, it is handed over once, and it is received once, after what *)
(* was handed over before.  An event is dropped in two ways only: there is *)
(* no room for another that is owed, or an accident (an exit, the loss of  *)
(* the connection, the clearing of the tables) takes all that is owed, all *)
(* that is in transit, or both.                                            *)
(***************************************************************************)
EXTENDS Naturals, Sequences, FiniteSets, Functions

CONSTANTS
  Id,         \* the events
  Room        \* how many may be owed

VARIABLES
  committed,  \* events of committed orders
  owed,       \* those still to hand over
  transit,    \* handed over and not received, in order
  delivered,  \* received, in order
  accidents

vars == <<committed, owed, transit, delivered, accidents>>

Init == committed = {} /\ owed = {} /\ transit = <<>> /\ delivered = <<>> /\ accidents = 0

Commit(n) ==
  /\ n \notin committed /\ committed' = committed \cup {n}
  /\ IF Cardinality(owed) < Room THEN owed' = owed \cup {n}
     ELSE \E m \in owed : owed' = (owed \ {m}) \cup {n}
  /\ UNCHANGED <<transit, delivered, accidents>>

\* Some of what is owed, in some order, each event once.
Orders(S) == {q \in [1..Cardinality(S) -> S] : IsInjective(q) /\ Range(q) = S}
HandOver(S) ==
  /\ \E q \in Orders(S) : transit' = transit \o q
  /\ owed' = owed \ S
  /\ UNCHANGED <<committed, delivered, accidents>>

Deliver ==
  /\ transit # <<>>
  /\ transit' = Tail(transit) /\ delivered' = Append(delivered, Head(transit))
  /\ UNCHANGED <<committed, owed, accidents>>

Accident ==
  /\ accidents' = accidents + 1
  /\ owed' \in {owed, {}} /\ transit' \in {transit, <<>>}
  /\ UNCHANGED <<committed, delivered>>

Next ==
  \/ \E n \in Id : Commit(n)
  \/ \E S \in SUBSET owed : HandOver(S)
  \/ Deliver \/ Accident

Spec == Init /\ [][Next]_vars

-----------------------------------------------------------------------------
\* Whatever implements this hands over and delivers no event twice, and only
\* events of committed orders.
EachOnce ==
  /\ IsInjective(transit) /\ IsInjective(delivered)
  /\ Range(transit) \cap Range(delivered) = {}
  /\ owed \cap (Range(transit) \cup Range(delivered)) = {}
  /\ owed \cup Range(transit) \cup Range(delivered) \subseteq committed
=============================================================================
