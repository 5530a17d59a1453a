------------------------------ MODULE DlqProofs -------------------------------
(***************************************************************************)
(* Proofs about Dlq, for any messages, configurations, caps and numbers of *)
(* handlers and faults: the broker loses nothing but by an old tag, a      *)
(* failing mode that recovers gives nothing up, and the rows tell the      *)
(* truth until a delivery is taken back from a running handler.            *)
(***************************************************************************)
EXTENDS Dlq, FiniteSetTheorems, TLAPS

-----------------------------------------------------------------------------
(* The inductive invariant.                                                *)

Has(q, c) == \E i \in DOMAIN q : q[i] = c
Live(c)   == Has(main, c) \/ retry[c] > 0 \/ \E s \in DOMAIN running : running[s].copy = c

\* With prefetch 1 the broker waits for one acknowledgement at most, and for
\* none once the channel is gone.
OneHeld == /\ \A s, t \in Held : s = t
           /\ channel # "up" => Held = {}

\* Copies are made of what was sent.
SentOnly == /\ \A c \in Copy : Live(c) => c.id \in sent
            /\ \A m \in Msg : status[m] = "dead" => m \in sent

Shown == \A m \in Msg : status[m] # "none" => Tracked(m)

\* As long as nothing has set them apart, every copy has been tried as often as
\* its header says.
Open(m) == m \notin mixed \cup done
Counting ==
  /\ \A m \in Msg : status[m] = "dead" => ~Open(m)
  /\ \A c \in Copy : Open(c.id) /\ (Has(main, c) \/ retry[c] > 0) =>
       Bounded(c.n) <= attempts[c.id]
  /\ \A s \in DOMAIN running : Open(running[s].copy.id) =>
       /\ Bounded(running[s].copy.n + 1) <= running[s].attempt
       /\ running[s].attempt <= attempts[running[s].copy.id]

\* As long as no delivery was taken back, a message has one copy, in one place.
Once(q) == \A i, j \in DOMAIN q : q[i].id = q[j].id => i = j
Single ==
  ~overlapped =>
    /\ \A s \in DOMAIN running : running[s].hold = "held"
    /\ Once(main)
    /\ \A c, d \in Copy : retry[c] > 0 /\ retry[d] > 0 /\ c.id = d.id => c = d /\ retry[c] = 1
    /\ \A m \in Msg : Queued(m) => ~Waiting(m) /\ ~Working(m)
    /\ \A m \in Msg : Waiting(m) => ~Working(m)
    /\ \A m \in refused : ~Alive(m) /\ status[m] # "dead"

DlqInv == /\ TypeOK /\ OneHeld /\ SentOnly /\ Shown /\ Counting /\ Single
          /\ NotLost /\ FirstNRecovers /\ KnownSubscription /\ RowsTellTruth

-----------------------------------------------------------------------------
(* Operators.                                                              *)

LEMMA BoundedFacts ==
  /\ Bounded(0) = 0
  /\ \A k \in Nat : Bounded(k) \in 0..(FailCount + 1) /\ Bounded(k) <= Bounded(k + 1)
  /\ \A k \in Nat, a \in 0..(FailCount + 1) :
       /\ a <= Bounded(a + 1) /\ Bounded(a + 1) \in 1..(FailCount + 1)
       /\ Bounded(k) <= a => Bounded(k + 1) <= Bounded(a + 1)
BY DlqAssumption DEF Bounded

LEMMA MarkFacts ==
  ASSUME NEW m \in Msg, NEW s, status \in [Msg -> {"none", "processing", "retry", "completed", "dead"}]
  PROVE  \A x \in Msg : Mark(m, s)[x] = IF x = m /\ Tracked(m) THEN s ELSE status[x]
BY DEF Mark

LEMMA QueuedHas == \A m : Queued(m) <=> \E i \in DOMAIN main : main[i].id = m
BY DEF Queued

\* What is in a queue after an arrival, a departure and a return to its head.
LEMMA Arrived ==
  ASSUME NEW q \in Seq(Copy), NEW c \in Copy
  PROVE  /\ Append(q, c) \in Seq(Copy)
         /\ \A d : Has(Append(q, c), d) <=> Has(q, d) \/ d = c
         /\ Once(q) /\ (\A d : Has(q, d) => d.id # c.id) => Once(Append(q, c))
<1> DEFINE r == Append(q, c)
<1>1. /\ r \in Seq(Copy) /\ DOMAIN r = 1..(Len(q) + 1) /\ DOMAIN q = 1..Len(q) /\ Len(q) \in Nat
      /\ \A i \in DOMAIN q : r[i] = q[i]
      /\ r[Len(q) + 1] = c
  OBVIOUS
<1> HIDE DEF r
<1>2. \A i \in DOMAIN r : i \in DOMAIN q \/ i = Len(q) + 1 BY <1>1
<1>3. DOMAIN q \subseteq DOMAIN r /\ Len(q) + 1 \in DOMAIN r BY <1>1
<1>4. \A d : Has(r, d) <=> Has(q, d) \/ d = c
  <2>1. ASSUME NEW d, Has(r, d) PROVE Has(q, d) \/ d = c BY <1>1, <1>2, <2>1 DEF Has
  <2>2. ASSUME NEW d, Has(q, d) PROVE Has(r, d) BY <1>1, <1>3, <2>2 DEF Has
  <2>3. Has(r, c) BY <1>1, <1>3 DEF Has
  <2> QED BY <2>1, <2>2, <2>3
<1>5. ASSUME Once(q), \A d : Has(q, d) => d.id # c.id
      PROVE  Once(r)
  <2> SUFFICES ASSUME NEW i \in DOMAIN r, NEW j \in DOMAIN r, r[i].id = r[j].id PROVE i = j
    BY DEF Once
  <2>1. CASE i \in DOMAIN q /\ j \in DOMAIN q BY <1>1, <1>5, <2>1 DEF Once
  <2>2. CASE i \in DOMAIN q /\ j = Len(q) + 1 BY <1>1, <1>5, <2>2 DEF Has
  <2>3. CASE j \in DOMAIN q /\ i = Len(q) + 1 BY <1>1, <1>5, <2>3 DEF Has
  <2> QED BY <1>2, <2>1, <2>2, <2>3
<1> QED BY <1>1, <1>4, <1>5 DEF r

LEMMA Left ==
  ASSUME NEW q \in Seq(Copy), q # <<>>
  PROVE  /\ Tail(q) \in Seq(Copy) /\ Head(q) \in Copy /\ Has(q, Head(q))
         /\ \A d : Has(Tail(q), d) => Has(q, d)
         /\ \A d : Has(q, d) => d = Head(q) \/ Has(Tail(q), d)
         /\ Once(q) => Once(Tail(q)) /\ \A d : Has(Tail(q), d) => d.id # Head(q).id
<1> DEFINE r == Tail(q)
           n == Len(q)
<1>1. /\ n \in Nat /\ n # 0 /\ DOMAIN q = 1..n /\ DOMAIN r = 1..(n - 1) /\ r \in Seq(Copy)
      /\ Head(q) = q[1] /\ \A i \in 1..(n - 1) : r[i] = q[i + 1]
  OBVIOUS
<1>2. Head(q) \in Copy OBVIOUS
<1> HIDE DEF r, n
<1>3. Has(q, Head(q)) BY <1>1 DEF Has
<1>4. ASSUME NEW d, Has(r, d) PROVE Has(q, d)
  <2>1. PICK i \in 1..(n - 1) : r[i] = d BY <1>1, <1>4 DEF Has
  <2>2. i + 1 \in DOMAIN q /\ q[i + 1] = d BY <1>1, <2>1
  <2> QED BY <2>2 DEF Has
<1>5. ASSUME NEW d, Has(q, d), d # Head(q) PROVE Has(r, d)
  <2>1. PICK i \in 1..n : q[i] = d BY <1>1, <1>5 DEF Has
  <2>2. i # 1 BY <1>1, <1>5, <2>1
  <2> DEFINE k == i - 1
  <2>3. k \in 1..(n - 1) /\ k + 1 = i BY <1>1, <2>2
  <2>4. r[k] = d BY <1>1, <2>1, <2>3
  <2> QED BY <1>1, <2>3, <2>4 DEF Has
<1>6. ASSUME Once(q) PROVE Once(r) /\ \A d : Has(r, d) => d.id # Head(q).id
  <2>1. Once(r)
    <3> SUFFICES ASSUME NEW i \in 1..(n - 1), NEW j \in 1..(n - 1), r[i].id = r[j].id PROVE i = j
      BY <1>1 DEF Once
    <3>1. i + 1 \in DOMAIN q /\ j + 1 \in DOMAIN q /\ q[i + 1].id = q[j + 1].id BY <1>1
    <3>2. i + 1 = j + 1 BY <1>6, <3>1 DEF Once
    <3> QED BY <3>2
  <2>2. ASSUME NEW d, Has(r, d), d.id = Head(q).id PROVE FALSE
    <3>1. PICK i \in 1..(n - 1) : r[i] = d BY <1>1, <2>2 DEF Has
    <3>2. i + 1 \in DOMAIN q /\ 1 \in DOMAIN q /\ q[i + 1].id = q[1].id BY <1>1, <2>2, <3>1
    <3>3. i + 1 = 1 BY <1>6, <3>2 DEF Once
    <3> QED BY <3>3
  <2> QED BY <2>1, <2>2
<1> QED BY <1>1, <1>2, <1>3, <1>4, <1>5, <1>6 DEF r

LEMMA Returned ==
  ASSUME NEW q \in Seq(Copy), NEW c \in Copy
  PROVE  /\ <<c>> \o q \in Seq(Copy)
         /\ \A d : Has(<<c>> \o q, d) <=> Has(q, d) \/ d = c
<1> DEFINE r == <<c>> \o q
           n == Len(q)
<1>1. /\ r \in Seq(Copy) /\ n \in Nat /\ DOMAIN r = 1..(n + 1) /\ DOMAIN q = 1..n
      /\ r[1] = c /\ \A i \in 1..n : r[i + 1] = q[i]
  OBVIOUS
<1> HIDE DEF r, n
<1>2. Has(r, c) BY <1>1 DEF Has
<1>3. ASSUME NEW d, Has(q, d) PROVE Has(r, d)
  <2>1. PICK i \in 1..n : q[i] = d BY <1>1, <1>3 DEF Has
  <2>2. i + 1 \in DOMAIN r /\ r[i + 1] = d BY <1>1, <2>1
  <2> QED BY <2>2 DEF Has
<1>4. ASSUME NEW d, Has(r, d), d # c PROVE Has(q, d)
  <2>1. PICK i \in 1..(n + 1) : r[i] = d BY <1>1, <1>4 DEF Has
  <2>2. i # 1 BY <1>1, <1>4, <2>1
  <2> DEFINE k == i - 1
  <2>3. k \in 1..n /\ k + 1 = i BY <1>1, <2>2
  <2>4. q[k] = d BY <1>1, <2>1, <2>3
  <2> QED BY <1>1, <2>3, <2>4 DEF Has
<1> QED BY <1>1, <1>2, <1>3, <1>4 DEF r

\* What is taken back goes to the head of the queue.
LEMMA TakenBackFacts ==
  ASSUME TypeOK, OneHeld, NEW H \in SUBSET Held
  PROVE  /\ TakenBack(H) \in Seq(Copy)
         /\ \A d : Has(TakenBack(H), d) <=> Has(main, d) \/ \E s \in H : running[s].copy = d
         /\ H = {} => TakenBack(H) = main
<1>1. main \in Seq(Copy) BY DEF TypeOK
<1>2. CASE H = {} BY <1>1, <1>2 DEF TakenBack
<1>3. CASE H # {}
  <2> DEFINE s == CHOOSE x \in H : TRUE
  <2>1. s \in H BY <1>3
  <2> HIDE DEF s
  <2>2. \A x \in H : x = s BY <2>1 DEF OneHeld
  <2>3. s \in DOMAIN running /\ running[s].copy \in Copy BY <2>1 DEF TypeOK, Held, Handler
  <2>4. TakenBack(H) = <<running[s].copy>> \o main BY <1>3 DEF TakenBack, s
  <2> DEFINE c == running[s].copy
  <2>5. \A d : (\E x \in H : running[x].copy = d) <=> d = c BY <2>1, <2>2
  <2> HIDE DEF c
  <2>6. /\ <<c>> \o main \in Seq(Copy)
        /\ \A d : Has(<<c>> \o main, d) <=> Has(main, d) \/ d = c
    BY <1>1, <2>3, Returned DEF c
  <2>7. \A d : Has(<<c>> \o main, d) <=> Has(main, d) \/ \E x \in H : running[x].copy = d
    BY <2>5, <2>6
  <2>8. TakenBack(H) = <<c>> \o main BY <2>4 DEF c
  <2> QED BY <1>3, <2>6, <2>7, <2>8
<1> QED BY <1>2, <1>3

LEMMA HeldCardinality ==
  ASSUME DOMAIN running \subseteq Slot, \A s, t \in Held : s = t
  PROVE  Cardinality(Held) <= 1
<1>1. CASE Held = {}
  <2>1. Cardinality(Held) = 0 BY <1>1, FS_EmptySet
  <2> QED BY <2>1
<1>2. CASE Held # {}
  <2>1. PICK s \in Held : TRUE BY <1>2
  <2>2. Held = {s} BY <2>1
  <2>3. Cardinality(Held) = 1 BY <2>2, FS_Singleton
  <2> QED BY <2>3
<1> QED BY <1>1, <1>2

-----------------------------------------------------------------------------
(* What an acknowledgement does.                                           *)

\* The broker holds nothing afterwards: its own delivery, the one the old tag
\* named, or all of them, with the channel.
LEMMA Acknowledged ==
  ASSUME TypeOK, OneHeld, channel = "up", NEW s \in DOMAIN running, NEW t \in Target(s),
         Acknowledge(s, t)
  PROVE  /\ DOMAIN running' = DOMAIN running \ {s}
         /\ \A x \in DOMAIN running' : /\ running'[x] \in Handler
                                       /\ running'[x].copy = running[x].copy
                                       /\ running'[x].attempt = running[x].attempt
         /\ Held' = {}
         /\ main' \in Seq(Copy)
         /\ \A d : Has(main, d) => Has(main', d)
         /\ \A d : Has(main', d) => Has(main, d) \/ \E x \in DOMAIN running : running[x].copy = d
         /\ channel' \in {"up", "broken"} /\ (subscribed' => subscribed /\ channel' = "up")
         /\ subscribed' \in BOOLEAN
         /\ misacked' \in BOOLEAN /\ overlapped' \in BOOLEAN
         /\ ~misacked' => /\ ~misacked
                          /\ \A x \in Held \ {s} : Has(main', running[x].copy)
                          /\ t \in {s, None}
         /\ t = s => s \in Held
         /\ ~overlapped' => /\ ~overlapped /\ t = s /\ s \in Held /\ main' = main
                            /\ \A x \in DOMAIN running' : running'[x] = running[x]
<1>1. /\ main \in Seq(Copy) /\ misacked \in BOOLEAN /\ overlapped \in BOOLEAN
      /\ subscribed \in BOOLEAN /\ channel \in {"up", "closing", "broken"}
      /\ s \in Slot /\ DOMAIN running \subseteq Slot
      /\ \A x \in DOMAIN running : running[x] \in Handler
  BY DEF TypeOK
<1>2. s # None /\ None \notin DOMAIN running BY <1>1 DEF Slot, None
<1>3. /\ DOMAIN Without(s) = DOMAIN running \ {s}
      /\ \A x \in DOMAIN running \ {s} : Without(s)[x] = running[x]
  BY DEF Without, Restrict
<1>4. \/ running[s].hold = "held" /\ t = s /\ Held = {s}
      \/ running[s].hold = "freed" /\ t = None /\ s \notin Held
      \/ running[s].hold = "old" /\ t \in Held \cup {None} /\ s \notin Held
  <2>1. running[s].hold \in {"held", "freed", "old"} BY <1>1 DEF Handler
  <2>2. CASE running[s].hold = "held"
    <3>1. s \in Held BY <2>2 DEF Held
    <3>2. Held = {s} BY <3>1 DEF OneHeld
    <3> QED BY <2>2, <3>2 DEF Target
  <2>3. CASE running[s].hold = "freed" BY <2>3 DEF Target, Held
  <2>4. CASE running[s].hold = "old" BY <2>4 DEF Target, Held
  <2> QED BY <2>1, <2>2, <2>3, <2>4
<1>5. /\ channel' = IF t = None THEN "broken" ELSE channel
      /\ subscribed' = (subscribed /\ t # None)
      /\ main' = IF t = None THEN TakenBack(Held \ {s}) ELSE main
      /\ misacked' = (misacked \/ t \notin {s, None})
      /\ overlapped' = (overlapped \/ t # s)
      /\ running' = IF t = None THEN Orphaned(Without(s))
                    ELSE [x \in DOMAIN Without(s) |->
                            IF x = t THEN [running[x] EXCEPT !.hold = "freed"] ELSE running[x]]
  BY DEF Acknowledge
<1>6. \A h \in Handler, e \in {"freed", "old"} :
        LET g == [h EXCEPT !.hold = e] IN
        g \in Handler /\ g.copy = h.copy /\ g.attempt = h.attempt /\ g.hold = e
  BY DEF Handler
<1>7. \A x \in DOMAIN running : x \in Held <=> running[x].hold = "held" BY DEF Held
<1>8. CASE t = None
  <2>1. running' = [x \in DOMAIN running \ {s} |-> [running[x] EXCEPT !.hold = "old"]]
    BY <1>3, <1>5, <1>8 DEF Orphaned
  <2>2. /\ DOMAIN running' = DOMAIN running \ {s}
        /\ \A x \in DOMAIN running' : /\ running'[x] \in Handler /\ running'[x].hold = "old"
                                      /\ running'[x].copy = running[x].copy
                                      /\ running'[x].attempt = running[x].attempt
    BY <1>1, <1>6, <2>1
  <2>3. Held' = {} BY <2>2 DEF Held
  <2>4. Held \ {s} \in SUBSET Held OBVIOUS
  <2>5. main' = TakenBack(Held \ {s}) BY <1>5, <1>8
  <2>6. /\ main' \in Seq(Copy)
        /\ \A d : Has(main', d) <=> Has(main, d) \/ \E x \in Held \ {s} : running[x].copy = d
    BY <2>4, <2>5, TakenBackFacts
  <2>7. Held \subseteq DOMAIN running BY DEF Held
  <2> QED BY <1>1, <1>2, <1>5, <1>8, <2>2, <2>3, <2>6, <2>7
<1>9. CASE t # None
  <2>1. running' = [x \in DOMAIN running \ {s} |->
                      IF x = t THEN [running[x] EXCEPT !.hold = "freed"] ELSE running[x]]
    BY <1>3, <1>5, <1>9
  <2>2. /\ DOMAIN running' = DOMAIN running \ {s}
        /\ \A x \in DOMAIN running' : /\ running'[x] \in Handler
                                      /\ running'[x].copy = running[x].copy
                                      /\ running'[x].attempt = running[x].attempt
                                      /\ x = t => running'[x].hold = "freed"
                                      /\ x # t => running'[x] = running[x]
    BY <1>1, <1>6, <2>1
  <2>3. \A x \in Held : x = s \/ x = t BY <1>4, <1>9 DEF OneHeld
  <2>4. Held' = {}
    <3>1. ASSUME NEW x \in Held' PROVE FALSE
      <4>1. x \in DOMAIN running \ {s} /\ running'[x].hold = "held" BY <2>2, <3>1 DEF Held
      <4>2. x # t /\ running'[x] = running[x] BY <2>2, <4>1
      <4>3. x \in Held BY <1>7, <4>1, <4>2
      <4> QED BY <2>3, <4>1, <4>2, <4>3
    <3> QED BY <3>1
  <2>5. main' = main /\ channel' = "up" /\ (subscribed' <=> subscribed) BY <1>1, <1>5, <1>9
  <2>6. t = s => s \in Held BY <1>2, <1>4
  <2>7. t = s => Held \ {s} = {} BY <1>2, <1>4
  <2>8. t = s => \A x \in DOMAIN running' : running'[x] = running[x] BY <2>2
  <2>9. ~misacked' => ~misacked /\ t = s BY <1>1, <1>5, <1>9
  <2>10. ~overlapped' => ~overlapped /\ t = s BY <1>1, <1>5, <1>9
  <2>11. subscribed' \in BOOLEAN /\ misacked' \in BOOLEAN /\ overlapped' \in BOOLEAN BY <1>1, <1>5
  <2> QED BY <1>1, <1>9, <2>2, <2>4, <2>5, <2>6, <2>7, <2>8, <2>9, <2>10, <2>11
<1> QED BY <1>8, <1>9

-----------------------------------------------------------------------------
(* The operator's actions keep the invariant.                              *)

States == {"none", "processing", "retry", "completed", "dead"}

LEMMA Unmoved ==
  ASSUME UNCHANGED <<main, retry, running>>
  PROVE  /\ Held' = Held
         /\ \A m : /\ Queued(m)' <=> Queued(m)
                   /\ Waiting(m)' <=> Waiting(m)
                   /\ Working(m)' <=> Working(m)
                   /\ Alive(m)' <=> Alive(m)
         /\ \A c : Live(c)' <=> Live(c)
BY DEF Held, Queued, Waiting, Working, Alive, Live, Has

LEMMA HasId == \A q, m : (\E i \in DOMAIN q : q[i].id = m) <=> \E c : Has(q, c) /\ c.id = m
BY DEF Has

\* A message with a copy in a place of the broker was sent.
LEMMA AliveSent ==
  ASSUME TypeOK, SentOnly
  PROVE  \A m : Alive(m) => m \in sent
<1> SUFFICES ASSUME NEW m, Alive(m) PROVE m \in sent OBVIOUS
<1>1. CASE Queued(m)
  <2>1. PICK i \in DOMAIN main : main[i].id = m BY <1>1 DEF Queued
  <2>2. main[i] \in Copy BY DEF TypeOK
  <2>3. Live(main[i]) BY DEF Live, Has
  <2> QED BY <2>1, <2>2, <2>3 DEF SentOnly
<1>2. CASE Waiting(m) BY <1>2 DEF Waiting, Live, SentOnly
<1>3. CASE Working(m)
  <2>1. PICK s \in Held : running[s].copy.id = m BY <1>3 DEF Working
  <2>2. s \in DOMAIN running /\ running[s].copy \in Copy BY DEF TypeOK, Held, Handler
  <2>3. Live(running[s].copy) BY <2>2 DEF Live
  <2> QED BY <2>1, <2>2, <2>3 DEF SentOnly
<1> QED BY <1>1, <1>2, <1>3 DEF Alive

\* Starting, a stop that is refused and the new channel: only the flags change.
LEMMA SwitchKeeps ==
  ASSUME DlqInv, (\E c \in Configs : StartConsuming(c)) \/ StopRefused \/ StopReopened
  PROVE  DlqInv'
<1>0. /\ UNCHANGED <<rows, status, attempts, main, retry, running, history>>
      /\ config' \in Configs \cup {DefaultConfig} /\ consuming' \in BOOLEAN
      /\ subscribed' \in BOOLEAN /\ channel' \in {"up", "closing", "broken"}
      /\ subscribed' => consuming' /\ channel' = "up"
      /\ channel' # "up" => channel # "up"
  <2>0. /\ config \in Configs \cup {DefaultConfig} /\ consuming \in BOOLEAN
        /\ subscribed \in BOOLEAN /\ channel \in {"up", "closing", "broken"}
        /\ subscribed => consuming /\ channel = "up"
    BY DEF DlqInv, TypeOK, KnownSubscription
  <2>1. CASE \E c \in Configs : StartConsuming(c)
    <3>1. PICK c \in Configs : StartConsuming(c) BY <2>1
    <3>2. subscribed' = (channel = "up") /\ channel' = channel BY <3>1 DEF StartConsuming
    <3>3. (subscribed' <=> channel = "up") /\ subscribed' \in BOOLEAN BY <3>2
    <3> QED BY <2>0, <3>1, <3>2, <3>3 DEF StartConsuming
  <2>2. CASE StopRefused BY <2>0, <2>2 DEF StopRefused, broker
  <2>3. CASE StopReopened BY <2>0, <2>3 DEF StopReopened, memory
  <2> QED BY <2>1, <2>2, <2>3
<1>1. /\ Held' = Held
      /\ \A m : Queued(m)' <=> Queued(m)
      /\ \A m : Waiting(m)' <=> Waiting(m)
      /\ \A m : Working(m)' <=> Working(m)
      /\ \A m : Alive(m)' <=> Alive(m)
      /\ \A d : Live(d)' <=> Live(d)
  BY <1>0, Unmoved
<1> USE DEF history
<1>2. TypeOK' BY <1>0, <1>1 DEF DlqInv, TypeOK
<1>3. OneHeld' BY <1>0, <1>1 DEF DlqInv, OneHeld
<1>4. SentOnly' BY <1>0, <1>1 DEF DlqInv, SentOnly
<1>5. Shown' BY <1>0 DEF DlqInv, Shown, Tracked
<1>6. Counting' BY <1>0 DEF DlqInv, Counting, Open
<1>7. Single' BY <1>0, <1>1 DEF DlqInv, Single
<1>8. NotLost' BY <1>0, <1>1 DEF DlqInv, NotLost
<1>9. FirstNRecovers' BY <1>0 DEF DlqInv, FirstNRecovers
<1>10. KnownSubscription' BY <1>0 DEF KnownSubscription
<1>11. RowsTellTruth' BY <1>0, <1>1 DEF DlqInv, RowsTellTruth
<1> QED BY <1>2, <1>3, <1>4, <1>5, <1>6, <1>7, <1>8, <1>9, <1>10, <1>11 DEF DlqInv

\* The rows that remain are rows, and no other row goes.
LEMMA RemainingFacts ==
  ASSUME TypeOK, NEW ms, NEW r \in Remaining(ms)
  PROVE  /\ r \in Seq(Msg) /\ Len(r) <= Len(rows)
         /\ \A i \in DOMAIN rows : rows[i] \notin ms => \E j \in DOMAIN r : r[j] = rows[i]
<1> DEFINE left == {i \in DOMAIN rows : rows[i] \notin ms}
<1>0. PICK k \in 0..Len(rows) : \E at \in [1..k -> left] :
        /\ r = [j \in DOMAIN at |-> rows[at[j]]]
        /\ \A i \in left : \E j \in DOMAIN at : at[j] = i
  BY DEF Remaining
<1>1. PICK at \in [1..k -> left] :
        /\ r = [j \in DOMAIN at |-> rows[at[j]]]
        /\ \A i \in left : \E j \in DOMAIN at : at[j] = i
  BY <1>0
<1>2. rows \in Seq(Msg) BY DEF TypeOK
<1>3. k \in Nat /\ k <= Len(rows) BY <1>2
<1>4. \A i \in left : rows[i] \in Msg BY <1>2
<1>5. r \in [1..k -> Msg] BY <1>1, <1>4
<1>6. r \in Seq(Msg) /\ Len(r) = k BY <1>3, <1>5
<1> QED BY <1>1, <1>3, <1>5, <1>6

LEMMA DiscardKeeps ==
  ASSUME DlqInv, NEW ms \in SUBSET Msg, NEW forget \in BOOLEAN, DiscardDead(ms, forget)
  PROVE  DlqInv'
<1> USE DEF DiscardDead, history, broker
<1>1. /\ Held' = Held
      /\ \A m : Queued(m)' <=> Queued(m)
      /\ \A m : Waiting(m)' <=> Waiting(m)
      /\ \A m : Working(m)' <=> Working(m)
      /\ \A m : Alive(m)' <=> Alive(m)
      /\ \A d : Live(d)' <=> Live(d)
  BY Unmoved
<1>a. /\ rows' \in Seq(Msg) /\ Len(rows') <= Len(rows)
      /\ \A i \in DOMAIN rows : rows[i] \notin ms => \E j \in DOMAIN rows' : rows'[j] = rows[i]
  BY RemainingFacts DEF DlqInv
<1>b. \A m \in Msg : /\ m \in ms => status'[m] = "none" /\ status[m] = "dead"
                     /\ m \notin ms => status'[m] = status[m] /\ attempts'[m] = attempts[m]
                     /\ attempts'[m] \in 0..(FailCount + 1)
  BY DlqAssumption DEF DlqInv, TypeOK
<1>2. TypeOK'
  <2>1. Len(rows') <= RowCap
    <3>1. Len(rows') \in Nat /\ Len(rows) \in Nat /\ Len(rows) <= RowCap /\ RowCap \in Nat
      BY <1>a, DlqAssumption DEF DlqInv, TypeOK
    <3> QED BY <3>1, <1>a
  <2>2. status' \in [Msg -> {"none", "processing", "retry", "completed", "dead"}]
    BY <1>b DEF DlqInv, TypeOK
  <2>3. attempts' \in [Msg -> 0..(FailCount + 1)] BY <1>b
  <2> QED BY <1>1, <1>a, <2>1, <2>2, <2>3 DEF DlqInv, TypeOK
<1>3. OneHeld' BY <1>1 DEF DlqInv, OneHeld
<1>4. SentOnly' BY <1>1, <1>b DEF DlqInv, SentOnly
<1>5. Shown'
  <2> SUFFICES ASSUME NEW m \in Msg, status'[m] # "none" PROVE \E j \in DOMAIN rows' : rows'[j] = m
    BY DEF Shown, Tracked
  <2>1. m \notin ms /\ status[m] # "none" BY <1>b
  <2>2. PICK i \in DOMAIN rows : rows[i] = m BY <2>1 DEF DlqInv, Shown, Tracked
  <2> QED BY <1>a, <2>1, <2>2
<1>6. Counting'
  <2>1. \A m \in Msg : Open(m)' <=> Open(m) BY DEF Open
  <2>2. \A m \in ms : ~Open(m) BY <1>b DEF DlqInv, Counting
  <2>3. \A m \in Msg : Open(m) => attempts'[m] = attempts[m] BY <1>b, <2>2
  <2>4. \A c \in Copy : c.id \in Msg BY DEF Copy
  <2>5. \A s \in DOMAIN running : running[s].copy.id \in Msg BY <2>4 DEF DlqInv, TypeOK, Handler
  <2>6. \A m \in Msg : status'[m] = "dead" => status[m] = "dead" BY <1>b
  <2> QED BY <2>1, <2>3, <2>4, <2>5, <2>6 DEF DlqInv, Counting
<1>7. Single'
  <2>1. \A m \in Msg : status'[m] = "dead" => status[m] = "dead" BY <1>b
  <2>2. refused \subseteq Msg BY DEF DlqInv, TypeOK
  <2> QED BY <1>1, <2>1, <2>2 DEF DlqInv, Single
<1>8. NotLost' BY <1>1 DEF DlqInv, NotLost
<1>9. FirstNRecovers' BY DEF DlqInv, FirstNRecovers
<1>10. KnownSubscription' BY DEF DlqInv, KnownSubscription
<1>11. RowsTellTruth' BY <1>1, <1>b DEF DlqInv, RowsTellTruth
<1> QED BY <1>2, <1>3, <1>4, <1>5, <1>6, <1>7, <1>8, <1>9, <1>10, <1>11 DEF DlqInv

LEMMA ClearKeeps ==
  ASSUME DlqInv, ClearAll
  PROVE  DlqInv'
<1> USE DEF ClearAll, broker
<1>1. /\ Held' = Held
      /\ \A m : Queued(m)' <=> Queued(m)
      /\ \A m : Waiting(m)' <=> Waiting(m)
      /\ \A m : Working(m)' <=> Working(m)
      /\ \A m : Alive(m)' <=> Alive(m)
      /\ \A d : Live(d)' <=> Live(d)
  BY Unmoved
<1>a. \A m \in Msg : status'[m] = "none" OBVIOUS
<1>2. TypeOK'
  <2>1. rows' \in Seq(Msg) /\ Len(rows') <= RowCap
    <3>1. RowCap \in Nat BY DlqAssumption
    <3>2. rows' = <<>> OBVIOUS
    <3>3. <<>> \in Seq(Msg) /\ Len(<<>>) = 0 OBVIOUS
    <3> QED BY <3>1, <3>2, <3>3
  <2>2. status' \in [Msg -> {"none", "processing", "retry", "completed", "dead"}] OBVIOUS
  <2>3. attempts' \in [Msg -> 0..(FailCount + 1)] BY DlqAssumption
  <2>4. faults' \in 0..MaxFaults BY DlqAssumption DEF DlqInv, TypeOK
  <2>5. mixed' \subseteq Msg BY DEF DlqInv, TypeOK
  <2> QED BY <1>1, <2>1, <2>2, <2>3, <2>4, <2>5 DEF DlqInv, TypeOK
<1>3. OneHeld' BY <1>1 DEF DlqInv, OneHeld
<1>4. SentOnly' BY <1>1, <1>a DEF DlqInv, SentOnly
<1>5. Shown' BY <1>a DEF Shown
<1>6. Counting'
  <2>1. \A c \in Copy : Live(c) => ~Open(c.id)' BY DEF DlqInv, SentOnly, Open
  <2>2. \A s \in DOMAIN running : ~Open(running[s].copy.id)'
    <3>1. \A s \in DOMAIN running : running[s].copy \in Copy /\ Live(running[s].copy)
      BY DEF DlqInv, TypeOK, Handler, Live
    <3> QED BY <2>1, <3>1
  <2>3. \A c \in Copy : Has(main, c) \/ retry[c] > 0 => Live(c) BY DEF Live
  <2> QED BY <1>a, <2>1, <2>2, <2>3 DEF Counting
<1>7. Single'
  <2>1. refused \subseteq Msg BY DEF DlqInv, TypeOK
  <2> QED BY <1>1, <1>a, <2>1 DEF DlqInv, Single
<1>8. NotLost' BY <1>1 DEF DlqInv, NotLost
<1>9. FirstNRecovers' BY DEF DlqInv, FirstNRecovers
<1>10. KnownSubscription' BY DEF DlqInv, KnownSubscription
<1>11. RowsTellTruth' BY <1>a DEF RowsTellTruth
<1> QED BY <1>2, <1>3, <1>4, <1>5, <1>6, <1>7, <1>8, <1>9, <1>10, <1>11 DEF DlqInv

LEMMA QueuedNext == \A m : Queued(m)' <=> \E d : Has(main', d) /\ d.id = m
BY DEF Queued, Has

\* A copy arrives in the main queue.
LEMMA ArrivedFacts ==
  ASSUME TypeOK, NEW c \in Copy, main' = Append(main, c), UNCHANGED running
  PROVE  /\ main' \in Seq(Copy) /\ Held' = Held
         /\ \A d : Has(main', d) <=> Has(main, d) \/ d = c
         /\ \A m : Queued(m)' <=> Queued(m) \/ m = c.id
         /\ \A m : Working(m)' <=> Working(m)
         /\ Once(main) /\ ~Queued(c.id) => Once(main')
<1>1. main \in Seq(Copy) BY DEF TypeOK
<1>2. /\ main' \in Seq(Copy)
      /\ \A d : Has(main', d) <=> Has(main, d) \/ d = c
      /\ Once(main) /\ (\A d : Has(main, d) => d.id # c.id) => Once(main')
  BY <1>1, Arrived
<1>3. \A m : Queued(m)' <=> \E d : Has(main', d) /\ d.id = m BY QueuedNext
<1>4. \A m : Queued(m) <=> \E d : Has(main, d) /\ d.id = m BY HasId DEF Queued
<1>5. Held' = Held /\ \A m : Working(m)' <=> Working(m) BY DEF Held, Working
<1> QED BY <1>2, <1>3, <1>4, <1>5

\* A send is refused, or the copy of a message that has no other arrives.
LEMMA SentFacts ==
  ASSUME DlqInv, NEW m \in Msg, UNCHANGED <<retry, running>>,
         IF channel = "up"
         THEN main' = Append(main, [id |-> m, n |-> 0]) /\ UNCHANGED refused
         ELSE refused' = refused \cup {m} /\ UNCHANGED main
  PROVE  /\ main' \in Seq(Copy) /\ Held' = Held /\ refused' \subseteq Msg
         /\ \A d : Has(main', d) => Has(main, d) \/ d = [id |-> m, n |-> 0]
         /\ \A x : Alive(x) => Alive(x)'
         /\ \A x : Alive(x)' => Alive(x) \/ (x = m /\ channel = "up")
         /\ channel = "up" => Alive(m)' /\ refused' = refused
         /\ channel # "up" => m \in refused'
         /\ refused \subseteq refused' /\ refused' \subseteq refused \cup {m}
         /\ Single /\ ~overlapped /\ ~Alive(m) /\ ~overlapped' =>
              /\ \A s \in DOMAIN running' : running'[s].hold = "held"
              /\ Once(main')
              /\ \A c, d \in Copy : retry'[c] > 0 /\ retry'[d] > 0 /\ c.id = d.id => c = d /\ retry'[c] = 1
              /\ \A x \in Msg : Queued(x)' => ~Waiting(x)' /\ ~Working(x)'
              /\ \A x \in Msg : Waiting(x)' => ~Working(x)'
<1> DEFINE c == [id |-> m, n |-> 0]
<1>1. c \in Copy /\ c.id = m BY DlqAssumption DEF Copy
<1>0. TypeOK /\ refused \subseteq Msg /\ main \in Seq(Copy) BY DEF DlqInv, TypeOK
<1>2. CASE channel = "up"
  <2> HIDE DEF c
  <2>1. main' = Append(main, c) /\ refused' = refused BY <1>2 DEF c
  <2>2. /\ main' \in Seq(Copy) /\ Held' = Held
        /\ \A d : Has(main', d) <=> Has(main, d) \/ d = c
        /\ \A x : Queued(x)' <=> Queued(x) \/ x = m
        /\ \A x : Working(x)' <=> Working(x)
        /\ Once(main) /\ ~Queued(m) => Once(main')
    BY <1>0, <1>1, <2>1, ArrivedFacts
  <2>3. \A x : Waiting(x)' <=> Waiting(x) BY DEF Waiting
  <2>4. \A x : Alive(x)' <=> Alive(x) \/ x = m BY <2>2, <2>3 DEF Alive
  <2>5. ASSUME Single, ~overlapped, ~Alive(m)
        PROVE  /\ \A s \in DOMAIN running' : running'[s].hold = "held"
               /\ Once(main')
               /\ \A e, d \in Copy : retry'[e] > 0 /\ retry'[d] > 0 /\ e.id = d.id => e = d /\ retry'[e] = 1
               /\ \A x \in Msg : Queued(x)' => ~Waiting(x)' /\ ~Working(x)'
               /\ \A x \in Msg : Waiting(x)' => ~Working(x)'
    <3>1. ~Queued(m) /\ ~Waiting(m) /\ ~Working(m) BY <2>5 DEF Alive
    <3>2. Once(main') BY <2>2, <2>5, <3>1 DEF Single
    <3>3. \A x \in Msg : Queued(x)' => ~Waiting(x)' /\ ~Working(x)' BY <2>2, <2>3, <2>5, <3>1 DEF Single
    <3>4. \A x \in Msg : Waiting(x)' => ~Working(x)' BY <2>2, <2>3, <2>5 DEF Single
    <3> QED BY <2>5, <3>2, <3>3, <3>4 DEF Single
  <2> QED BY <1>0, <1>2, <2>1, <2>2, <2>4, <2>5 DEF c
<1>3. CASE channel # "up"
  <2>1. main' = main /\ refused' = refused \cup {m} BY <1>3
  <2>2. /\ Held' = Held
        /\ \A x : /\ Queued(x)' <=> Queued(x)
                  /\ Waiting(x)' <=> Waiting(x)
                  /\ Working(x)' <=> Working(x)
                  /\ Alive(x)' <=> Alive(x)
    BY <2>1, Unmoved
  <2>3. Once(main') <=> Once(main) BY <2>1
  <2>4. Single /\ ~overlapped =>
              /\ \A s \in DOMAIN running' : running'[s].hold = "held"
              /\ Once(main')
              /\ \A e, d \in Copy : retry'[e] > 0 /\ retry'[d] > 0 /\ e.id = d.id => e = d /\ retry'[e] = 1
              /\ \A x \in Msg : Queued(x)' => ~Waiting(x)' /\ ~Working(x)'
              /\ \A x \in Msg : Waiting(x)' => ~Working(x)'
    BY <2>2, <2>3 DEF Single
  <2> QED BY <1>0, <1>3, <2>1, <2>2, <2>4
<1> QED BY <1>2, <1>3

LEMMA SendKeeps ==
  ASSUME DlqInv, NEW m \in Msg, SendMessage(m)
  PROVE  DlqInv'
<1> DEFINE new == [id |-> m, n |-> 0]
<1>0. new \in Copy /\ new.id = m /\ new.n = 0 BY DlqAssumption DEF Copy
<1>1. TypeOK /\ SentOnly /\ Single /\ ~(m \in sent) /\ ~(m \in refused)
  BY DEF SendMessage, DlqInv
<1>2. UNCHANGED <<config, consuming, attempts, channel, subscribed, retry, running,
                  done, dead, mixed, misacked, overlapped, faults>>
  BY DEF SendMessage
<1>3. IF channel = "up"
      THEN main' = Append(main, new) /\ UNCHANGED refused
      ELSE refused' = refused \cup {m} /\ UNCHANGED main
  BY DEF SendMessage
<1>4. sent' = (IF channel = "up" THEN sent \cup {m} ELSE sent) BY DEF SendMessage
<1>5. ~Alive(m) BY <1>1, AliveSent
<1>6. /\ main' \in Seq(Copy) /\ Held' = Held /\ refused' \subseteq Msg
      /\ \A d : Has(main', d) => Has(main, d) \/ d = new
      /\ \A x : Alive(x) => Alive(x)'
      /\ \A x : Alive(x)' => Alive(x) \/ (x = m /\ channel = "up")
      /\ channel = "up" => Alive(m)' /\ refused' = refused
      /\ channel # "up" => m \in refused'
      /\ refused \subseteq refused' /\ refused' \subseteq refused \cup {m}
  BY <1>2, <1>3, SentFacts
<1>7. ~overlapped =>
        /\ \A s \in DOMAIN running' : running'[s].hold = "held"
        /\ Once(main')
        /\ \A c, d \in Copy : retry'[c] > 0 /\ retry'[d] > 0 /\ c.id = d.id => c = d /\ retry'[c] = 1
        /\ \A x \in Msg : Queued(x)' => ~Waiting(x)' /\ ~Working(x)'
        /\ \A x \in Msg : Waiting(x)' => ~Working(x)'
  BY <1>1, <1>2, <1>3, <1>5, SentFacts
<1>8. rows' \in Seq(Msg) /\ Len(rows') <= RowCap
  <2> DEFINE all == <<m>> \o rows
  <2>1. rows \in Seq(Msg) /\ Len(rows) \in Nat /\ RowCap \in Nat
    BY <1>1, DlqAssumption DEF TypeOK
  <2>2. all \in Seq(Msg) /\ Len(all) = Len(rows) + 1 BY <2>1
  <2>3. rows' = SubSeq(all, 1, IF Len(all) > RowCap THEN RowCap ELSE Len(all)) BY DEF SendMessage
  <2> HIDE DEF all
  <2> DEFINE k == IF Len(all) > RowCap THEN RowCap ELSE Len(all)
  <2>4. k \in 0..Len(all) /\ k <= RowCap BY <2>1, <2>2
  <2> HIDE DEF k
  <2>5. SubSeq(all, 1, k) \in Seq(Msg) /\ Len(SubSeq(all, 1, k)) = k BY <2>2, <2>4
  <2> QED BY <2>3, <2>4, <2>5 DEF k
<1>9. \A x \in Msg : status'[x] = IF Tracked(x)' THEN (IF x = m THEN "processing" ELSE status[x])
                                                ELSE "none"
  <2>1. status' = [x \in Msg |-> IF \E i \in DOMAIN rows' : rows'[i] = x
                                 THEN [status EXCEPT ![m] = "processing"][x] ELSE "none"]
    BY DEF SendMessage, Only
  <2>2. status \in [Msg -> States] BY <1>1 DEF TypeOK, States
  <2>3. \A x \in Msg : [status EXCEPT ![m] = "processing"][x] = IF x = m THEN "processing" ELSE status[x]
    BY <2>2
  <2> QED BY <2>1, <2>3 DEF Tracked
<1>10. status' \in [Msg -> States]
  <2>0. \A r, st : Only(r, st) = [x \in Msg |-> Only(r, st)[x]] BY DEF Only
  <2>1. status' = [x \in Msg |-> status'[x]] BY <2>0 DEF SendMessage
  <2>2. \A x \in Msg : status[x] \in States BY <1>1 DEF TypeOK, States
  <2>3. \A x \in Msg : status'[x] \in States BY <1>9, <2>2 DEF States
  <2> QED BY <2>1, <2>3
<1> HIDE DEF new
<1>11. TypeOK'
  <2>1. sent' \subseteq Msg BY <1>1, <1>4 DEF TypeOK
  <2> QED BY <1>1, <1>2, <1>6, <1>8, <1>10, <2>1 DEF TypeOK, States
<1>12. OneHeld' BY <1>2, <1>6 DEF DlqInv, OneHeld
<1>13. SentOnly'
  <2>1. sent \subseteq sent' BY <1>4
  <2>2. ASSUME NEW c \in Copy, Live(c)' PROVE c.id \in sent'
    <3>1. CASE Has(main', c)
      <4>1. CASE Has(main, c) BY <1>1, <2>1, <4>1 DEF SentOnly, Live
      <4>2. CASE ~Has(main, c)
        <5>1. c = new BY <1>6, <3>1, <4>2
        <5>2. channel = "up"
          <6>1. CASE channel # "up"
            <7>1. main' = main BY <1>3, <6>1
            <7> QED BY <3>1, <4>2, <7>1
          <6> QED BY <6>1
        <5> QED BY <1>0, <1>4, <5>1, <5>2
      <4> QED BY <4>1, <4>2
    <3>2. CASE ~Has(main', c) BY <1>1, <1>2, <2>1, <2>2, <3>2 DEF SentOnly, Live
    <3> QED BY <3>1, <3>2
  <2>3. \A x \in Msg : status'[x] = "dead" => status[x] = "dead" BY <1>9
  <2> QED BY <1>1, <2>1, <2>2, <2>3 DEF SentOnly
<1>14. Shown' BY <1>9 DEF Shown
<1>15. Counting'
  <2>1. \A x : Open(x)' <=> Open(x) BY <1>2 DEF Open
  <2>2. Counting BY DEF DlqInv
  <2>3. \A x \in Msg : status'[x] = "dead" => status[x] = "dead" BY <1>9
  <2>4. Bounded(new.n) <= attempts[new.id]
    <3>1. attempts[m] \in 0..(FailCount + 1) BY <1>1 DEF TypeOK
    <3>2. Bounded(0) = 0 /\ 0 <= attempts[m] BY <3>1, BoundedFacts, DlqAssumption
    <3> QED BY <1>0, <3>2
  <2>5. ASSUME NEW c \in Copy, Open(c.id), Has(main', c) \/ retry'[c] > 0
        PROVE  Bounded(c.n) <= attempts[c.id]
    BY <1>2, <1>6, <2>2, <2>4, <2>5 DEF Counting
  <2> QED BY <1>2, <2>1, <2>2, <2>3, <2>5 DEF Counting
<1>16. Single'
  <2>1. ASSUME ~overlapped, NEW x \in refused' PROVE ~Alive(x)' /\ status'[x] # "dead"
    <3>1. x \in Msg BY <1>6
    <3>2. CASE x = m
      <4>1. channel # "up" BY <1>1, <1>6, <3>2
      <4>2. ~Alive(x)' BY <1>5, <1>6, <3>2, <4>1
      <4> QED BY <1>9, <3>1, <3>2, <4>2
    <3>3. CASE x # m
      <4>1. x \in refused BY <1>6, <3>3
      <4>2. ~Alive(x) /\ status[x] # "dead" BY <1>1, <2>1, <4>1 DEF Single
      <4>3. status'[x] # "dead" BY <1>9, <3>1, <3>3, <4>2
      <4> QED BY <1>6, <3>3, <4>2, <4>3
    <3> QED BY <3>2, <3>3
  <2> QED BY <1>2, <1>7, <2>1 DEF Single
<1>17. NotLost'
  <2>1. \A x \in sent : Alive(x) => Alive(x)' BY <1>6
  <2>2. \A x \in sent' : x \in sent \/ Alive(x)' BY <1>4, <1>6
  <2> QED BY <1>2, <2>1, <2>2 DEF DlqInv, NotLost
<1>18. FirstNRecovers' BY <1>2 DEF DlqInv, FirstNRecovers
<1>19. KnownSubscription' BY <1>2 DEF DlqInv, KnownSubscription
<1>20. RowsTellTruth'
  <2> SUFFICES ASSUME ~overlapped, NEW x \in Msg \ refused'
               PROVE  /\ status'[x] \in {"dead", "completed"} => ~Alive(x)'
                      /\ status'[x] \in {"processing", "retry"} => Alive(x)'
    BY <1>2 DEF RowsTellTruth
  <2>1. CASE x = m
    <3>1. channel = "up" /\ Alive(m)' BY <1>6, <2>1
    <3>2. status'[x] \in {"processing", "none"} BY <1>9, <2>1
    <3> QED BY <2>1, <3>1, <3>2
  <2>2. CASE x # m
    <3>1. x \in Msg \ refused BY <1>6
    <3>2. status'[x] \in {status[x], "none"} BY <1>9, <2>2
    <3>3. Alive(x)' <=> Alive(x) BY <1>6, <2>2
    <3> QED BY <3>1, <3>2, <3>3 DEF DlqInv, RowsTellTruth
  <2> QED BY <2>1, <2>2
<1> QED BY <1>11, <1>12, <1>13, <1>14, <1>15, <1>16, <1>17, <1>18, <1>19, <1>20 DEF DlqInv

\* A dead message was sent, and given up for a reason the history knows.
LEMMA ResendKeeps ==
  ASSUME DlqInv, NEW m \in Msg, RetryDeadMessage(m)
  PROVE  DlqInv'
<1> DEFINE new == [id |-> m, n |-> 0]
<1>0. new \in Copy /\ new.id = m /\ new.n = 0 BY DlqAssumption DEF Copy
<1>1. TypeOK /\ SentOnly /\ Single /\ Counting /\ status[m] = "dead"
  BY DEF RetryDeadMessage, DlqInv
<1>2. UNCHANGED <<config, consuming, rows, channel, subscribed, retry, running,
                  sent, done, dead, mixed, misacked, overlapped, faults>>
  BY DEF RetryDeadMessage
<1>3. IF channel = "up"
      THEN main' = Append(main, new) /\ UNCHANGED refused
      ELSE refused' = refused \cup {m} /\ UNCHANGED main
  BY DEF RetryDeadMessage
<1>4. m \in sent /\ ~Open(m) BY <1>1 DEF SentOnly, Counting
<1>5. ~overlapped => ~Alive(m) /\ m \notin refused
  <2>1. ASSUME ~overlapped, m \notin refused PROVE ~Alive(m)
    BY <1>1, <2>1 DEF DlqInv, RowsTellTruth
  <2> QED BY <1>1, <2>1 DEF Single
<1>6. /\ main' \in Seq(Copy) /\ Held' = Held /\ refused' \subseteq Msg
      /\ \A d : Has(main', d) => Has(main, d) \/ d = new
      /\ \A x : Alive(x) => Alive(x)'
      /\ \A x : Alive(x)' => Alive(x) \/ (x = m /\ channel = "up")
      /\ channel = "up" => Alive(m)' /\ refused' = refused
      /\ channel # "up" => m \in refused'
      /\ refused \subseteq refused' /\ refused' \subseteq refused \cup {m}
  BY <1>2, <1>3, SentFacts
<1>7. ~overlapped =>
        /\ \A s \in DOMAIN running' : running'[s].hold = "held"
        /\ Once(main')
        /\ \A c, d \in Copy : retry'[c] > 0 /\ retry'[d] > 0 /\ c.id = d.id => c = d /\ retry'[c] = 1
        /\ \A x \in Msg : Queued(x)' => ~Waiting(x)' /\ ~Working(x)'
        /\ \A x \in Msg : Waiting(x)' => ~Working(x)'
  BY <1>1, <1>2, <1>3, <1>5, SentFacts
<1> HIDE DEF new
<1>8. /\ status' = [status EXCEPT ![m] = "processing"] /\ attempts' = [attempts EXCEPT ![m] = 0]
  BY DEF RetryDeadMessage
<1>9. /\ status' \in [Msg -> States] /\ attempts' \in [Msg -> 0..(FailCount + 1)]
      /\ status'[m] = "processing"
      /\ \A x \in Msg : x # m => status'[x] = status[x] /\ attempts'[x] = attempts[x]
  <2>1. status \in [Msg -> States] /\ attempts \in [Msg -> 0..(FailCount + 1)] /\ 0 \in 0..(FailCount + 1)
    BY <1>1, DlqAssumption DEF TypeOK, States
  <2> QED BY <1>8, <2>1 DEF States
<1>11. TypeOK' BY <1>1, <1>2, <1>6, <1>9 DEF TypeOK, States
<1>12. OneHeld' BY <1>2, <1>6 DEF DlqInv, OneHeld
<1>13. SentOnly'
  <2>1. ASSUME NEW c \in Copy, Live(c)' PROVE c.id \in sent
    <3>1. CASE Has(main', c)
      <4>1. CASE Has(main, c) BY <1>1, <4>1 DEF SentOnly, Live
      <4>2. CASE ~Has(main, c)
        <5>1. c = new BY <1>6, <3>1, <4>2
        <5> QED BY <1>0, <1>4, <5>1
      <4> QED BY <4>1, <4>2
    <3>2. CASE ~Has(main', c) BY <1>1, <1>2, <2>1, <3>2 DEF SentOnly, Live
    <3> QED BY <3>1, <3>2
  <2>2. \A x \in Msg : status'[x] = "dead" => status[x] = "dead" BY <1>9
  <2> QED BY <1>1, <1>2, <2>1, <2>2 DEF SentOnly
<1>14. Shown'
  <2>1. \A x \in Msg : status'[x] # "none" => status[x] # "none" BY <1>1, <1>9
  <2> QED BY <1>2, <2>1 DEF DlqInv, Shown, Tracked
<1>15. Counting'
  <2>1. \A x : Open(x)' <=> Open(x) BY <1>2 DEF Open
  <2>2. \A x \in Msg : status'[x] = "dead" => status[x] = "dead" BY <1>9
  <2>3. \A x \in Msg : Open(x) => attempts'[x] = attempts[x] BY <1>4, <1>9
  <2>4. \A c \in Copy : c.id \in Msg BY DEF Copy
  <2>5. \A s \in DOMAIN running : running[s].copy.id \in Msg BY <1>1, <2>4 DEF TypeOK, Handler
  <2>6. ASSUME NEW c \in Copy, Open(c.id), Has(main', c) \/ retry'[c] > 0
        PROVE  Bounded(c.n) <= attempts'[c.id]
    <3>1. c # new BY <1>0, <1>4, <2>6
    <3>2. Has(main, c) \/ retry[c] > 0 BY <1>2, <1>6, <2>6, <3>1
    <3>3. Bounded(c.n) <= attempts[c.id] BY <1>1, <2>6, <3>2 DEF Counting
    <3> QED BY <2>3, <2>4, <2>6, <3>3
  <2>7. \A s \in DOMAIN running : Open(running[s].copy.id) =>
          /\ Bounded(running[s].copy.n + 1) <= running[s].attempt
          /\ running[s].attempt <= attempts'[running[s].copy.id]
    BY <1>1, <2>3, <2>5 DEF Counting
  <2>8. \A x \in Msg : status[x] = "dead" => ~Open(x) BY <1>1 DEF Counting
  <2> QED BY <1>2, <2>1, <2>2, <2>6, <2>7, <2>8 DEF Counting
<1>16. Single'
  <2>1. ASSUME ~overlapped, NEW x \in refused' PROVE ~Alive(x)' /\ status'[x] # "dead"
    <3>1. x \in Msg BY <1>6
    <3>2. CASE x = m
      <4>1. channel # "up" BY <1>5, <1>6, <2>1, <3>2
      <4>2. ~Alive(x)' BY <1>5, <1>6, <2>1, <3>2, <4>1
      <4> QED BY <1>9, <3>1, <3>2, <4>2
    <3>3. CASE x # m
      <4>1. x \in refused BY <1>6, <3>3
      <4>2. ~Alive(x) /\ status[x] # "dead" BY <1>1, <2>1, <4>1 DEF Single
      <4>3. status'[x] # "dead" BY <1>9, <3>1, <3>3, <4>2
      <4> QED BY <1>6, <3>3, <4>2, <4>3
    <3> QED BY <3>2, <3>3
  <2> QED BY <1>2, <1>7, <2>1 DEF Single
<1>17. NotLost' BY <1>2, <1>6 DEF DlqInv, NotLost
<1>18. FirstNRecovers' BY <1>2 DEF DlqInv, FirstNRecovers
<1>19. KnownSubscription' BY <1>2 DEF DlqInv, KnownSubscription
<1>20. RowsTellTruth'
  <2> SUFFICES ASSUME ~overlapped, NEW x \in Msg \ refused'
               PROVE  /\ status'[x] \in {"dead", "completed"} => ~Alive(x)'
                      /\ status'[x] \in {"processing", "retry"} => Alive(x)'
    BY <1>2 DEF RowsTellTruth
  <2>1. CASE x = m
    <3>1. channel = "up" /\ Alive(m)' BY <1>6, <2>1
    <3>2. status'[x] = "processing" BY <1>9, <2>1
    <3> QED BY <2>1, <3>1, <3>2
  <2>2. CASE x # m
    <3>1. x \in Msg \ refused BY <1>6
    <3>2. status'[x] = status[x] BY <1>9, <2>2
    <3>3. Alive(x)' <=> Alive(x) BY <1>6, <2>2
    <3> QED BY <3>1, <3>2, <3>3 DEF DlqInv, RowsTellTruth
  <2> QED BY <2>1, <2>2
<1> QED BY <1>11, <1>12, <1>13, <1>14, <1>15, <1>16, <1>17, <1>18, <1>19, <1>20 DEF DlqInv

-----------------------------------------------------------------------------
(* The consumer's and the broker's actions keep it.                        *)

\* The first half of the callback: the head of the queue is held by s.
LEMMA DeliverKeeps ==
  ASSUME DlqInv, NEW s \in Slot, Deliver(s)
  PROVE  DlqInv'
<1> DEFINE c == Head(main)
           a == Bounded(attempts[c.id] + 1)
<1>1. /\ TypeOK /\ Single /\ Counting /\ SentOnly /\ OneHeld /\ Shown
      /\ channel = "up" /\ subscribed /\ Held = {} /\ main # <<>> /\ s \notin DOMAIN running
  BY DEF Deliver, DlqInv
<1>2. /\ attempts' = [attempts EXCEPT ![c.id] = a]
      /\ status' = Mark(c.id, "processing")
      /\ running' = [x \in DOMAIN running \cup {s} |->
                      IF x = s THEN [copy |-> c, attempt |-> a, hold |-> "held"] ELSE running[x]]
      /\ main' = Tail(main)
      /\ UNCHANGED <<config, consuming, rows, channel, subscribed, retry, history>>
  BY DEF Deliver
<1>3. /\ main' \in Seq(Copy) /\ c \in Copy /\ Has(main, c)
      /\ \A d : Has(main', d) => Has(main, d)
      /\ \A d : Has(main, d) => d = c \/ Has(main', d)
      /\ Once(main) => Once(main') /\ \A d : Has(main', d) => d.id # c.id
  <2>1. main \in Seq(Copy) BY <1>1 DEF TypeOK
  <2> HIDE DEF c
  <2>2. /\ Tail(main) \in Seq(Copy) /\ c \in Copy /\ Has(main, c)
        /\ \A d : Has(Tail(main), d) => Has(main, d)
        /\ \A d : Has(main, d) => d = c \/ Has(Tail(main), d)
        /\ Once(main) => Once(Tail(main)) /\ \A d : Has(Tail(main), d) => d.id # c.id
    BY <1>1, <2>1, Left DEF c
  <2> QED BY <1>2, <2>2
<1> HIDE DEF c
<1>4. c.id \in Msg /\ c.n \in Nat BY <1>3, DlqAssumption DEF Copy
<1>m. PICK m \in Msg : m = c.id BY <1>4
<1>5. attempts[m] \in 0..(FailCount + 1) BY <1>1, <1>4, <1>m DEF TypeOK
<1>6. a \in 1..(FailCount + 1) /\ attempts[m] <= a /\ a \in 0..(FailCount + 1)
  <2>1. attempts[m] <= Bounded(attempts[m] + 1) /\ Bounded(attempts[m] + 1) \in 1..(FailCount + 1)
    BY <1>5, <1>m, BoundedFacts
  <2>2. FailCount \in Nat BY DlqAssumption
  <2> QED BY <2>1, <2>2, <1>m
<1>7. Bounded(c.n) <= attempts[m] => Bounded(c.n + 1) <= a BY <1>4, <1>m, <1>5, BoundedFacts
<1> HIDE DEF a
<1>8. /\ attempts' \in [Msg -> 0..(FailCount + 1)] /\ attempts'[m] = a
      /\ \A x \in Msg : x # m => attempts'[x] = attempts[x]
  BY <1>1, <1>2, <1>m, <1>6 DEF TypeOK
<1>9. /\ DOMAIN running' = DOMAIN running \cup {s}
      /\ running'[s] = [copy |-> c, attempt |-> a, hold |-> "held"] /\ running'[s] \in Handler
      /\ \A x \in DOMAIN running : running'[x] = running[x]
  <2>1. [copy |-> c, attempt |-> a, hold |-> "held"] \in Handler BY <1>3, <1>6 DEF Handler
  <2> QED BY <1>1, <1>2, <2>1
<1>10. Held' = {s} /\ running'[s].copy = c /\ running'[s].attempt = a /\ running'[s].hold = "held"
  <2>1. \A x \in DOMAIN running : running[x].hold # "held" BY <1>1 DEF Held
  <2> QED BY <1>9, <2>1 DEF Held
<1>11. \A x \in Msg : status'[x] = IF x = m /\ Tracked(m) THEN "processing" ELSE status[x]
  <2>1. status \in [Msg -> {"none", "processing", "retry", "completed", "dead"}] BY <1>1 DEF TypeOK
  <2>2. \A x \in Msg : Mark(m, "processing")[x] = IF x = m /\ Tracked(m) THEN "processing" ELSE status[x]
    BY <1>4, <1>m, <2>1, MarkFacts
  <2> QED BY <1>2, <1>m, <2>2
<1>12. status' \in [Msg -> States]
  BY <1>1, <1>2, <1>m DEF Mark, TypeOK, States
<1>13. /\ \A x : Working(x)' <=> x = m
       /\ \A x : ~Working(x)
       /\ \A x : Waiting(x)' <=> Waiting(x)
  BY <1>1, <1>2, <1>4, <1>m, <1>10 DEF Working, Waiting
<1>14. /\ \A x : Queued(x)' => Queued(x)
       /\ \A x : Queued(x) => Queued(x)' \/ x = m
       /\ Queued(m)
       /\ Once(main) => ~Queued(m)'
  <2>1. \A x : Queued(x)' <=> \E d : Has(main', d) /\ d.id = x BY QueuedNext
  <2>2. \A x : Queued(x) <=> \E d : Has(main, d) /\ d.id = x BY HasId DEF Queued
  <2>3. \A x : Queued(x)' => Queued(x) BY <1>3, <2>1, <2>2
  <2>4. \A x : Queued(x) => Queued(x)' \/ x = m
    <3> SUFFICES ASSUME NEW x, Queued(x), x # m PROVE Queued(x)' OBVIOUS
    <3>1. PICK d : Has(main, d) /\ d.id = x BY <2>2
    <3>2. Has(main', d) BY <1>3, <1>4, <1>m, <3>1
    <3> QED BY <2>1, <3>1, <3>2
  <2>5. Queued(m) BY <1>3, <1>4, <1>m, <2>2
  <2>6. ASSUME Once(main) PROVE ~Queued(m)'
    <3>1. \A d : Has(main', d) => d.id # m BY <1>3, <1>m, <2>6
    <3> QED BY <2>1, <3>1
  <2> QED BY <2>3, <2>4, <2>5, <2>6
<1>15. \A x : Alive(x)' <=> Alive(x) BY <1>13, <1>14 DEF Alive
<1>16. \A d : Live(d)' => Live(d)
  BY <1>2, <1>3, <1>9, <1>10 DEF Live
<1>17. UNCHANGED <<sent, done, dead, refused, mixed, misacked, overlapped, faults>>
  BY <1>2, <1>m DEF history
<1>20. TypeOK'
  <2>1. DOMAIN running' \subseteq Slot /\ \A x \in DOMAIN running' : running'[x] \in Handler
    BY <1>1, <1>9 DEF TypeOK
  <2>2. Cardinality(Held') <= 1
    <3>1. Cardinality({s}) = 1 BY FS_Singleton
    <3> QED BY <1>10, <3>1
  <2> QED BY <1>1, <1>2, <1>3, <1>8, <1>12, <1>17, <2>1, <2>2 DEF TypeOK, States
<1>21. OneHeld' BY <1>1, <1>2, <1>10 DEF OneHeld
<1>22. SentOnly'
  <2>1. \A x \in Msg : status'[x] = "dead" => status[x] = "dead" BY <1>11
  <2> QED BY <1>1, <1>16, <1>17, <2>1 DEF SentOnly
<1>23. Shown'
  <2>1. \A x \in Msg : status'[x] # "none" => status[x] # "none" \/ Tracked(x) BY <1>11
  <2> QED BY <1>1, <1>2, <2>1 DEF Shown, Tracked
<1>24. Counting'
  <2>1. \A x : Open(x)' <=> Open(x) BY <1>17 DEF Open
  <2>2. \A x \in Msg : status'[x] = "dead" => status[x] = "dead" BY <1>11
  <2>3. \A x \in Msg : attempts[x] \in Nat /\ attempts'[x] \in Nat /\ attempts[x] <= attempts'[x]
    <3>1. \A x \in Msg : attempts[x] \in 0..(FailCount + 1) /\ attempts'[x] \in 0..(FailCount + 1)
      BY <1>1, <1>8 DEF TypeOK
    <3>2. FailCount \in Nat BY DlqAssumption
    <3>3. \A x \in Msg : attempts[x] \in Nat /\ attempts'[x] \in Nat BY <3>1, <3>2
    <3> QED BY <1>m, <1>6, <1>8, <3>3
  <2>4. ASSUME NEW d \in Copy, Open(d.id), Has(main', d) \/ retry'[d] > 0
        PROVE  Bounded(d.n) <= attempts'[d.id]
    <3>1. Has(main, d) \/ retry[d] > 0 BY <1>2, <1>3, <2>4
    <3>2. Bounded(d.n) <= attempts[d.id] BY <1>1, <2>4, <3>1 DEF Counting
    <3>3. d.id \in Msg /\ d.n \in Nat BY DlqAssumption DEF Copy
    <3>4. Bounded(d.n) \in Nat
      <4>1. Bounded(d.n) \in 0..(FailCount + 1) BY <3>3, BoundedFacts
      <4> QED BY <4>1, DlqAssumption
    <3> QED BY <2>3, <3>2, <3>3, <3>4
  <2>5. ASSUME NEW x \in DOMAIN running', Open(running'[x].copy.id)
        PROVE  /\ Bounded(running'[x].copy.n + 1) <= running'[x].attempt
               /\ running'[x].attempt <= attempts'[running'[x].copy.id]
    <3>1. CASE x = s
      <4>1. Bounded(c.n) <= attempts[m] BY <1>1, <1>3, <1>4, <1>m, <1>10, <2>5, <3>1 DEF Counting
      <4>2. a \in Nat BY <1>6, DlqAssumption
      <4> QED BY <1>4, <1>m, <1>7, <1>8, <1>10, <3>1, <4>1, <4>2
    <3>2. CASE x # s
      <4>1. x \in DOMAIN running /\ running'[x] = running[x] BY <1>9, <3>2
      <4>2. running[x] \in Handler BY <1>1, <4>1 DEF TypeOK
      <4>3. running[x].copy.id \in Msg /\ running[x].attempt \in Nat
        BY <4>2, DlqAssumption DEF Handler, Copy
      <4>4. /\ Bounded(running[x].copy.n + 1) <= running[x].attempt
            /\ running[x].attempt <= attempts[running[x].copy.id]
        BY <1>1, <2>5, <4>1 DEF Counting
      <4> QED BY <2>3, <4>1, <4>3, <4>4
    <3> QED BY <3>1, <3>2
  <2>6. \A x \in Msg : status[x] = "dead" => ~Open(x) BY <1>1 DEF Counting
  <2> QED BY <2>1, <2>2, <2>4, <2>5, <2>6 DEF Counting
<1>25. Single'
  <2> SUFFICES ASSUME ~overlapped
               PROVE  /\ \A x \in DOMAIN running' : running'[x].hold = "held"
                      /\ Once(main')
                      /\ \A x, d \in Copy : retry'[x] > 0 /\ retry'[d] > 0 /\ x.id = d.id => x = d /\ retry'[x] = 1
                      /\ \A x \in Msg : Queued(x)' => ~Waiting(x)' /\ ~Working(x)'
                      /\ \A x \in Msg : Waiting(x)' => ~Working(x)'
                      /\ \A x \in refused' : ~Alive(x)' /\ status'[x] # "dead"
    BY <1>17 DEF Single
  <2>1. Once(main) /\ Once(main') /\ ~Queued(m)' BY <1>1, <1>3, <1>14 DEF Single
  <2>2. \A x \in DOMAIN running' : running'[x].hold = "held"
    BY <1>1, <1>9, <1>10 DEF Single
  <2>3. \A x \in Msg : Queued(x)' => ~Waiting(x)' /\ ~Working(x)'
    BY <1>1, <1>13, <1>14, <2>1 DEF Single
  <2>4. \A x \in Msg : Waiting(x)' => ~Working(x)'
    BY <1>1, <1>4, <1>m, <1>13, <1>14 DEF Single
  <2>5. \A x \in refused' : ~Alive(x)' /\ status'[x] # "dead"
    <3>1. \A x \in refused : ~Alive(x) /\ status[x] # "dead" BY <1>1 DEF Single
    <3>2. refused \subseteq Msg BY <1>1 DEF TypeOK
    <3> QED BY <1>11, <1>15, <1>17, <3>1, <3>2
  <2> QED BY <1>1, <1>2, <2>1, <2>2, <2>3, <2>4, <2>5 DEF Single
<1>26. NotLost' BY <1>15, <1>17 DEF DlqInv, NotLost
<1>27. FirstNRecovers' BY <1>17 DEF DlqInv, FirstNRecovers
<1>28. KnownSubscription' BY <1>2, <1>m DEF DlqInv, KnownSubscription
<1>29. RowsTellTruth'
  <2> SUFFICES ASSUME ~overlapped, NEW x \in Msg \ refused
               PROVE  /\ status'[x] \in {"dead", "completed"} => ~Alive(x)'
                      /\ status'[x] \in {"processing", "retry"} => Alive(x)'
    BY <1>17 DEF RowsTellTruth
  <2>1. CASE x = m
    <3>1. Alive(m)' BY <1>13 DEF Alive
    <3>2. status'[m] = "processing" \/ status'[m] = "none" BY <1>1, <1>4, <1>m, <1>11 DEF Shown
    <3> QED BY <2>1, <3>1, <3>2
  <2>2. CASE x # m
    <3>1. status'[x] = status[x] BY <1>11, <2>2
    <3> QED BY <1>15, <3>1 DEF DlqInv, RowsTellTruth
  <2> QED BY <2>1, <2>2
<1> QED BY <1>20, <1>21, <1>22, <1>23, <1>24, <1>25, <1>26, <1>27, <1>28, <1>29 DEF DlqInv

LEMMA HandlerFacts ==
  ASSUME TypeOK, NEW s \in DOMAIN running
  PROVE  /\ running[s].copy \in Copy /\ running[s].attempt \in 1..(FailCount + 1)
         /\ running[s].copy.id \in Msg /\ running[s].copy.n \in Nat
BY DlqAssumption DEF TypeOK, Handler, Copy

\* A copy under way has been tried once more than its header says.
LEMMA RunningCounts ==
  ASSUME TypeOK, Counting, NEW x \in DOMAIN running, Open(running[x].copy.id)
  PROVE  /\ Bounded(running[x].copy.n + 1) <= running[x].attempt
         /\ running[x].attempt <= attempts[running[x].copy.id]
         /\ Bounded(running[x].copy.n) <= attempts[running[x].copy.id]
         /\ running[x].copy.id \in Msg
<1>1. running[x] \in Handler BY DEF TypeOK
<1> DEFINE d == running[x].copy
           a == running[x].attempt
<1>2. d \in Copy /\ a \in 1..(FailCount + 1) BY <1>1 DEF Handler
<1>3. Bounded(d.n + 1) <= a /\ a <= attempts[d.id] BY DEF Counting
<1> HIDE DEF d, a
<1>4. d.n \in Nat /\ d.id \in Msg /\ attempts[d.id] \in 0..(FailCount + 1)
  BY <1>2, DlqAssumption DEF Copy, TypeOK
<1>5. Bounded(d.n) <= Bounded(d.n + 1) /\ Bounded(d.n) \in 0..(FailCount + 1) BY <1>4, BoundedFacts
<1>6. Bounded(d.n + 1) \in 0..(FailCount + 1)
  <2>1. d.n + 1 \in Nat BY <1>4
  <2> QED BY <2>1, BoundedFacts
<1>7. FailCount \in Nat BY DlqAssumption
<1>8. Bounded(d.n) <= attempts[d.id] BY <1>2, <1>3, <1>4, <1>5, <1>6, <1>7
<1> QED BY <1>3, <1>4, <1>8 DEF d, a

\* The second half of the callback, whatever its outcome: the copy c of s is
\* acknowledged, and its row says st.
LEMMA Settled ==
  ASSUME DlqInv, channel = "up", NEW s \in DOMAIN running, NEW t \in Target(s), Acknowledge(s, t),
         NEW c \in Copy, c = running[s].copy, NEW st \in {"completed", "retry", "dead"},
         status' = Mark(c.id, st), UNCHANGED <<config, consuming, rows, faults, sent, refused>>,
         retry' \in [Copy -> Nat], attempts' \in [Msg -> 0..(FailCount + 1)],
         done' \subseteq Msg, dead' \subseteq Msg, mixed' \subseteq Msg,
         done \subseteq done', dead \subseteq dead', mixed \subseteq mixed',
         \A d \in Copy : d.id # c.id => retry'[d] = retry[d],
         \A d \in Copy : retry[d] > 0 => retry'[d] > 0,
         st = "retry" => Waiting(c.id)',
         st # "retry" => retry' = retry,
         ~Waiting(c.id) => \A d, e \in Copy : retry'[d] > 0 /\ retry'[e] > 0 /\ d.id = c.id /\ e.id = c.id
                                                => d = e /\ retry'[d] = 1,
         ~misacked' /\ s \in Held => Waiting(c.id)' \/ c.id \in done' \/ c.id \in dead',
         st = "dead" => ~Open(c.id)',
         \A x \in Msg : Open(x)' => attempts'[x] = attempts[x],
         \A d \in Copy : Open(c.id)' /\ retry'[d] > 0 /\ d.id = c.id =>
           retry[d] > 0 \/ Bounded(d.n) <= attempts[c.id],
         FirstNRecovers'
  PROVE  DlqInv'
<1>1. /\ TypeOK /\ Single /\ Counting /\ SentOnly /\ OneHeld /\ Shown BY DEF DlqInv
<1>2. /\ DOMAIN running' = DOMAIN running \ {s}
      /\ \A x \in DOMAIN running' : /\ running'[x] \in Handler
                                    /\ running'[x].copy = running[x].copy
                                    /\ running'[x].attempt = running[x].attempt
      /\ Held' = {}
      /\ main' \in Seq(Copy)
      /\ \A d : Has(main, d) => Has(main', d)
      /\ \A d : Has(main', d) => Has(main, d) \/ \E x \in DOMAIN running : running[x].copy = d
      /\ channel' \in {"up", "broken"} /\ (subscribed' => subscribed /\ channel' = "up")
      /\ subscribed' \in BOOLEAN
      /\ misacked' \in BOOLEAN /\ overlapped' \in BOOLEAN
      /\ ~misacked' => /\ ~misacked
                       /\ \A x \in Held \ {s} : Has(main', running[x].copy)
                       /\ t \in {s, None}
      /\ t = s => s \in Held
      /\ ~overlapped' => /\ ~overlapped /\ t = s /\ s \in Held /\ main' = main
                         /\ \A x \in DOMAIN running' : running'[x] = running[x]
  BY <1>1, Acknowledged
<1>3. c.id \in Msg /\ c.n \in Nat BY DlqAssumption DEF Copy
<1>4. \A x \in Msg : status'[x] = IF x = c.id /\ Tracked(c.id) THEN st ELSE status[x]
  <2>1. status \in [Msg -> {"none", "processing", "retry", "completed", "dead"}] BY <1>1 DEF TypeOK
  <2> QED BY <1>3, <2>1, MarkFacts
<1>5. status' \in [Msg -> States] BY <1>1, <1>3 DEF Mark, TypeOK, States
<1>6. \A x : ~Working(x)' BY <1>2 DEF Working
<1>7. /\ \A x : Waiting(x) => Waiting(x)'
      /\ \A x : x # c.id => (Waiting(x)' <=> Waiting(x))
  BY DEF Waiting
<1>8. /\ \A x : Queued(x)' <=> \E d : Has(main', d) /\ d.id = x
      /\ \A x : Queued(x) <=> \E d : Has(main, d) /\ d.id = x
  <2>1. \A x : Queued(x)' <=> \E d : Has(main', d) /\ d.id = x BY QueuedNext
  <2>2. \A x : Queued(x) <=> \E d : Has(main, d) /\ d.id = x BY HasId DEF Queued
  <2> QED BY <2>1, <2>2
<1>9. \A x : Queued(x) => Queued(x)' BY <1>2, <1>8
<1>10. Live(c) /\ c.id \in sent BY <1>1 DEF Live, SentOnly
<1>11. ASSUME ~overlapped'
       PROVE  /\ ~overlapped /\ Working(c.id) /\ ~Waiting(c.id) /\ ~Queued(c.id) /\ c.id \notin refused
              /\ \A x : x # c.id => ~Working(x)
              /\ \A x : Queued(x)' <=> Queued(x)
              /\ main' = main
  <2>1. ~overlapped /\ s \in Held /\ main' = main BY <1>2, <1>11
  <2>2. Working(c.id) BY <2>1 DEF Working
  <2>3. \A x : x # c.id => ~Working(x) BY <1>1, <2>1 DEF Working, OneHeld
  <2>4. ~Waiting(c.id) /\ ~Queued(c.id) BY <1>1, <1>3, <2>1, <2>2 DEF Single
  <2>5. c.id \notin refused BY <1>1, <2>1, <2>2 DEF Single, Alive
  <2>6. \A x : Queued(x)' <=> Queued(x) BY <1>8, <2>1
  <2> QED BY <2>1, <2>2, <2>3, <2>4, <2>5, <2>6
<1>12. ASSUME ~overlapped', NEW x, x # c.id PROVE Alive(x)' <=> Alive(x)
  BY <1>6, <1>7, <1>11, <1>12 DEF Alive
<1>20. TypeOK'
  <2>1. Cardinality(Held') <= 1
    <3>1. Cardinality({}) = 0 BY FS_EmptySet
    <3> QED BY <1>2, <3>1
  <2>2. DOMAIN running' \subseteq Slot BY <1>1, <1>2 DEF TypeOK
  <2>3. channel' \in {"up", "closing", "broken"} BY <1>2
  <2>4. \A x \in DOMAIN running' : running'[x] \in Handler BY <1>2
  <2>5. main' \in Seq(Copy) /\ subscribed' \in BOOLEAN /\ misacked' \in BOOLEAN /\ overlapped' \in BOOLEAN
    BY <1>2
  <2> QED BY <1>1, <1>5, <2>1, <2>2, <2>3, <2>4, <2>5 DEF TypeOK, States
<1>21. OneHeld' BY <1>2 DEF OneHeld
<1>22. SentOnly'
  <2>1. ASSUME NEW d \in Copy, Live(d)' PROVE d.id \in sent
    <3>1. CASE Has(main', d)
      <4>1. Has(main, d) \/ \E x \in DOMAIN running : running[x].copy = d BY <1>2, <3>1
      <4> QED BY <1>1, <4>1 DEF SentOnly, Live
    <3>2. CASE retry'[d] > 0
      <4>1. CASE d.id = c.id BY <1>10, <4>1
      <4>2. CASE d.id # c.id
        <5>1. retry[d] > 0 BY <3>2, <4>2
        <5> QED BY <1>1, <5>1 DEF SentOnly, Live
      <4> QED BY <4>1, <4>2
    <3>3. CASE \E x \in DOMAIN running' : running'[x].copy = d
      BY <1>1, <1>2, <3>3 DEF SentOnly, Live
    <3> QED BY <2>1, <3>1, <3>2, <3>3 DEF Live
  <2>2. \A x \in Msg : status'[x] = "dead" => status[x] = "dead" \/ x = c.id BY <1>4
  <2>3. \A x \in Msg : status[x] = "dead" => x \in sent BY <1>1 DEF SentOnly
  <2> QED BY <1>10, <2>1, <2>2, <2>3 DEF SentOnly
<1>23. Shown'
  <2>1. \A x \in Msg : status'[x] # "none" => status[x] # "none" \/ Tracked(x) BY <1>4
  <2> QED BY <1>1, <2>1 DEF Shown, Tracked
<1>24. Counting'
  <2>1. \A x : Open(x)' => Open(x) BY DEF Open
  <2>2. \A x \in Msg : status'[x] = "dead" => ~Open(x)'
    BY <1>1, <1>4, <2>1 DEF Counting
  <2>3. ASSUME NEW x \in DOMAIN running, Open(running[x].copy.id)
        PROVE  /\ Bounded(running[x].copy.n + 1) <= running[x].attempt
               /\ running[x].attempt <= attempts[running[x].copy.id]
               /\ Bounded(running[x].copy.n) <= attempts[running[x].copy.id]
               /\ running[x].copy.id \in Msg
    BY <1>1, <2>3, RunningCounts
  <2>4. ASSUME NEW d \in Copy, Open(d.id)', Has(main', d) \/ retry'[d] > 0
        PROVE  Bounded(d.n) <= attempts'[d.id]
    <3>1. d.id \in Msg /\ Open(d.id) BY <2>1, <2>4 DEF Copy
    <3>2. attempts'[d.id] = attempts[d.id] BY <2>4, <3>1
    <3>3. Has(main, d) \/ retry[d] > 0 => Bounded(d.n) <= attempts[d.id]
      BY <1>1, <3>1 DEF Counting
    <3>4. CASE Has(main', d)
      <4>1. CASE Has(main, d) BY <3>2, <3>3, <4>1
      <4>2. CASE ~Has(main, d)
        <5>1. PICK x \in DOMAIN running : running[x].copy = d BY <1>2, <3>4, <4>2
        <5> QED BY <2>3, <3>1, <3>2, <5>1
      <4> QED BY <4>1, <4>2
    <3>5. CASE retry'[d] > 0
      <4>1. CASE d.id = c.id BY <2>4, <3>2, <3>3, <3>5, <4>1
      <4>2. CASE d.id # c.id BY <3>2, <3>3, <3>5, <4>2
      <4> QED BY <4>1, <4>2
    <3> QED BY <2>4, <3>4, <3>5
  <2>5. ASSUME NEW x \in DOMAIN running', running'[x].copy.id \notin mixed' \cup done'
        PROVE  /\ Bounded(running'[x].copy.n + 1) <= running'[x].attempt
               /\ running'[x].attempt <= attempts'[running'[x].copy.id]
    <3>1. x \in DOMAIN running /\ running'[x].copy = running[x].copy /\ running'[x].attempt = running[x].attempt
      BY <1>2
    <3>2. running[x].copy.id \notin mixed' /\ running[x].copy.id \notin done' BY <2>5, <3>1
    <3>3. Open(running[x].copy.id) BY <3>2 DEF Open
    <3>4. \A y \in Msg : y \notin mixed' /\ y \notin done' => attempts'[y] = attempts[y] BY DEF Open
    <3> QED BY <2>3, <3>1, <3>2, <3>3, <3>4
  <2> QED BY <2>2, <2>4, <2>5 DEF Counting, Open
<1>25. Single'
  <2> SUFFICES ASSUME ~overlapped'
               PROVE  /\ \A x \in DOMAIN running' : running'[x].hold = "held"
                      /\ Once(main')
                      /\ \A d, e \in Copy : retry'[d] > 0 /\ retry'[e] > 0 /\ d.id = e.id => d = e /\ retry'[d] = 1
                      /\ \A x \in Msg : Queued(x)' => ~Waiting(x)' /\ ~Working(x)'
                      /\ \A x \in Msg : Waiting(x)' => ~Working(x)'
                      /\ \A x \in refused' : ~Alive(x)' /\ status'[x] # "dead"
    BY DEF Single
  <2>1. ~overlapped /\ main' = main BY <1>11
  <2>2. \A x \in DOMAIN running' : running'[x].hold = "held" BY <1>1, <1>2, <2>1 DEF Single
  <2>3. Once(main') BY <1>1, <2>1 DEF Single
  <2>4. \A d, e \in Copy : retry'[d] > 0 /\ retry'[e] > 0 /\ d.id = e.id => d = e /\ retry'[d] = 1
    <3> SUFFICES ASSUME NEW d \in Copy, NEW e \in Copy, retry'[d] > 0, retry'[e] > 0, d.id = e.id
                 PROVE  d = e /\ retry'[d] = 1
      OBVIOUS
    <3>1. CASE d.id = c.id BY <1>11, <3>1
    <3>2. CASE d.id # c.id
      <4>1. retry[d] = retry'[d] /\ retry[e] = retry'[e] BY <3>2
      <4> QED BY <1>1, <2>1, <4>1 DEF Single
    <3> QED BY <3>1, <3>2
  <2>5. \A x \in Msg : Queued(x)' => ~Waiting(x)' /\ ~Working(x)'
    <3> SUFFICES ASSUME NEW x \in Msg, Queued(x)' PROVE ~Waiting(x)' BY <1>6
    <3>1. Queued(x) /\ x # c.id BY <1>11
    <3>2. ~Waiting(x) BY <1>1, <2>1, <3>1 DEF Single
    <3> QED BY <1>7, <3>1, <3>2
  <2>6. \A x \in refused' : ~Alive(x)' /\ status'[x] # "dead"
    <3> SUFFICES ASSUME NEW x \in refused PROVE ~Alive(x)' /\ status'[x] # "dead" OBVIOUS
    <3>1. x # c.id /\ x \in Msg BY <1>1, <1>11 DEF TypeOK
    <3>2. ~Alive(x) /\ status[x] # "dead" BY <1>1, <2>1 DEF Single
    <3> QED BY <1>4, <1>12, <3>1, <3>2
  <2> QED BY <1>6, <2>2, <2>3, <2>4, <2>5, <2>6
<1>26. NotLost'
  <2> SUFFICES ASSUME ~misacked', NEW x \in sent PROVE Alive(x)' \/ x \in done' \/ x \in dead'
    BY DEF NotLost
  <2>1. CASE x = c.id /\ s \in Held BY <2>1 DEF Alive
  <2>2. CASE x # c.id \/ s \notin Held
    <3>1. Alive(x) \/ x \in done \/ x \in dead BY <1>2 DEF DlqInv, NotLost
    <3>2. ASSUME Working(x) PROVE Queued(x)'
      <4>1. PICK y \in Held : running[y].copy.id = x BY <3>2 DEF Working
      <4>2. y # s BY <2>2, <4>1
      <4>3. Has(main', running[y].copy) BY <1>2, <4>1, <4>2
      <4> QED BY <1>8, <4>1, <4>3
    <3> QED BY <1>7, <1>9, <3>1, <3>2 DEF Alive
  <2> QED BY <2>1, <2>2
<1>28. KnownSubscription' BY <1>2 DEF DlqInv, KnownSubscription
<1>29. RowsTellTruth'
  <2> SUFFICES ASSUME ~overlapped', NEW x \in Msg \ refused
               PROVE  /\ status'[x] \in {"dead", "completed"} => ~Alive(x)'
                      /\ status'[x] \in {"processing", "retry"} => Alive(x)'
    BY DEF RowsTellTruth
  <2>1. CASE x = c.id
    <3>1. status'[x] = st \/ status'[x] = "none" BY <1>1, <1>4, <2>1 DEF Shown
    <3>2. CASE st = "retry" BY <2>1, <3>1, <3>2 DEF Alive
    <3>3. CASE st # "retry"
      <4>1. ~Waiting(x)' BY <1>11, <2>1, <3>3 DEF Waiting
      <4>2. ~Alive(x)' BY <1>6, <1>11, <2>1, <4>1 DEF Alive
      <4> QED BY <3>1, <3>3, <4>2
    <3> QED BY <3>2, <3>3
  <2>2. CASE x # c.id
    <3>1. status'[x] = status[x] BY <1>4, <2>2
    <3> QED BY <1>11, <1>12, <2>2, <3>1 DEF DlqInv, RowsTellTruth
  <2> QED BY <2>1, <2>2
<1> QED BY <1>20, <1>21, <1>22, <1>23, <1>24, <1>25, <1>26, <1>28, <1>29 DEF DlqInv

LEMMA MisackedStays ==
  ASSUME NEW s, NEW t, Acknowledge(s, t), misacked
  PROVE  misacked'
BY DEF Acknowledge

LEMMA CompleteKeeps ==
  ASSUME DlqInv, NEW s \in DOMAIN running, channel = "up", NEW t \in Target(s), Complete(s, t),
         UNCHANGED <<config, consuming, rows, faults>>
  PROVE  DlqInv'
<1>0. TypeOK BY DEF DlqInv
<1>1. PICK c \in Copy : c = running[s].copy BY <1>0, HandlerFacts
<1>2. c.id \in Msg BY <1>0, <1>1, HandlerFacts
<1>3. /\ Acknowledge(s, t) /\ status' = Mark(c.id, "completed")
      /\ attempts' = [attempts EXCEPT ![c.id] = 0] /\ done' = done \cup {c.id}
      /\ UNCHANGED <<retry, sent, dead, refused, mixed>>
  BY <1>1 DEF Complete
<1>4. /\ attempts' \in [Msg -> 0..(FailCount + 1)]
      /\ \A x \in Msg : x # c.id => attempts'[x] = attempts[x]
  <2>1. attempts \in [Msg -> 0..(FailCount + 1)] /\ 0 \in 0..(FailCount + 1)
    BY <1>0, DlqAssumption DEF TypeOK
  <2> QED BY <1>3, <2>1
<1>5. /\ retry' \in [Copy -> Nat] /\ done' \subseteq Msg /\ dead' \subseteq Msg /\ mixed' \subseteq Msg
  BY <1>0, <1>2, <1>3 DEF TypeOK
<1>6. ~Open(c.id)' BY <1>3 DEF Open
<1>7. \A x \in Msg : Open(x)' => attempts'[x] = attempts[x] BY <1>3, <1>4 DEF Open
<1>8. FirstNRecovers' BY <1>3, MisackedStays DEF DlqInv, FirstNRecovers
<1>9. ~Waiting(c.id) => \A d, e \in Copy : retry'[d] > 0 /\ retry'[e] > 0 /\ d.id = c.id /\ e.id = c.id
                                             => d = e /\ retry'[d] = 1
  BY <1>3 DEF Waiting
<1>10. c.id \in done' BY <1>3
<1>11. \A d \in Copy : retry'[d] = retry[d] BY <1>3
<1> DEFINE st == "completed"
<1>12. st \in {"completed", "retry", "dead"} /\ st # "retry" /\ st # "dead" /\ status' = Mark(c.id, st)
  BY <1>3
<1> HIDE DEF st
<1> QED BY <1>1, <1>3, <1>4, <1>5, <1>6, <1>7, <1>8, <1>9, <1>10, <1>11, <1>12, Settled

\* A sufficient first_n fails no attempt beyond FailCount, and the last retry is one.
LEMMA RetryKeeps ==
  ASSUME DlqInv, NEW s \in DOMAIN running, channel = "up", NEW t \in Target(s), Retry(s, t),
         UNCHANGED <<config, consuming, rows, faults>>
  PROVE  DlqInv'
<1>0. TypeOK /\ Counting BY DEF DlqInv
<1>1. PICK c \in Copy : c = running[s].copy BY <1>0, HandlerFacts
<1>2. c.id \in Msg /\ c.n \in Nat BY <1>0, <1>1, HandlerFacts
<1>3. PICK next \in Copy : next = [c EXCEPT !.n = @ + 1] /\ next.id = c.id /\ next.n = c.n + 1
  <2>1. c.n < config.maxRetries BY <1>1 DEF Retry
  <2>2. config \in Configs \cup {DefaultConfig} BY <1>0 DEF TypeOK
  <2>3. config.maxRetries <= MostRetries /\ config.maxRetries \in Nat /\ MostRetries \in Nat
    BY <2>2, DlqAssumption DEF ConfigType, DefaultConfig
  <2>4. c.n + 1 \in 0..MostRetries BY <1>2, <2>1, <2>3
  <2> DEFINE next == [c EXCEPT !.n = @ + 1]
  <2>5. next \in Copy /\ next.id = c.id /\ next.n = c.n + 1 BY <2>4 DEF Copy
  <2> HIDE DEF next
  <2>6. \E x \in Copy : x = next BY <2>5
  <2> QED BY <2>5, <2>6 DEF next
<1>4. /\ Acknowledge(s, t) /\ status' = Mark(c.id, "retry")
      /\ retry' = [retry EXCEPT ![next] = @ + 1]
      /\ mixed' = (IF Sufficient THEN mixed ELSE mixed \cup {c.id})
      /\ UNCHANGED <<attempts, sent, done, dead, refused>>
  BY <1>1, <1>3 DEF Retry
<1>5. /\ retry \in [Copy -> Nat] /\ retry' \in [Copy -> Nat] /\ retry'[next] = retry[next] + 1
      /\ \A d \in Copy : d # next => retry'[d] = retry[d]
      /\ \A d \in Copy : retry[d] > 0 => retry'[d] > 0
  <2>1. retry \in [Copy -> Nat] BY <1>0 DEF TypeOK
  <2>2. retry[next] \in Nat BY <2>1
  <2>3. /\ retry' \in [Copy -> Nat] /\ retry'[next] = retry[next] + 1
        /\ \A d \in Copy : d # next => retry'[d] = retry[d]
    BY <1>4, <2>1, <2>2
  <2> QED BY <2>1, <2>2, <2>3
<1>6. /\ attempts' \in [Msg -> 0..(FailCount + 1)]
      /\ done' \subseteq Msg /\ dead' \subseteq Msg /\ mixed' \subseteq Msg /\ mixed \subseteq mixed'
  BY <1>0, <1>2, <1>4 DEF TypeOK
<1>7. \A d \in Copy : d.id # c.id => retry'[d] = retry[d] BY <1>3, <1>5
<1>8. Waiting(c.id)'
  <2>1. retry'[next] > 0 BY <1>5
  <2> QED BY <1>3, <2>1 DEF Waiting
<1>9. ~Waiting(c.id) => \A d, e \in Copy : retry'[d] > 0 /\ retry'[e] > 0 /\ d.id = c.id /\ e.id = c.id
                                             => d = e /\ retry'[d] = 1
  <2> SUFFICES ASSUME ~Waiting(c.id), NEW d \in Copy, NEW e \in Copy, retry'[d] > 0, retry'[e] > 0,
                      d.id = c.id, e.id = c.id
               PROVE  d = e /\ retry'[d] = 1
    OBVIOUS
  <2>1. \A f \in Copy : f.id = c.id => ~(retry[f] > 0) BY DEF Waiting
  <2>2. d = next /\ e = next BY <1>5, <2>1
  <2>3. retry[next] \in Nat /\ ~(retry[next] > 0) BY <1>3, <1>5, <2>1
  <2> QED BY <1>5, <2>2, <2>3
<1>10. \A d \in Copy : Open(c.id)' /\ retry'[d] > 0 /\ d.id = c.id =>
         retry[d] > 0 \/ Bounded(d.n) <= attempts[c.id]
  <2> SUFFICES ASSUME NEW d \in Copy, Open(c.id)', retry'[d] > 0, ~(retry[d] > 0)
               PROVE  Bounded(d.n) <= attempts[c.id]
    OBVIOUS
  <2>1. d = next BY <1>5
  <2>2. Open(c.id) BY <1>4, <1>6 DEF Open
  <2>3. Bounded(c.n + 1) <= running[s].attempt /\ running[s].attempt <= attempts[c.id]
    BY <1>0, <1>1, <2>2 DEF Counting
  <2>4. Bounded(c.n + 1) \in 0..(FailCount + 1)
    <3>1. c.n + 1 \in Nat BY <1>2
    <3> QED BY <3>1, BoundedFacts
  <2>5. running[s].attempt \in 1..(FailCount + 1) BY <1>0, HandlerFacts
  <2>6. attempts[c.id] \in 0..(FailCount + 1) BY <1>0, <1>2 DEF TypeOK
  <2>7. FailCount \in Nat BY DlqAssumption
  <2> QED BY <1>3, <2>1, <2>3, <2>4, <2>5, <2>6, <2>7
<1>11. FirstNRecovers' BY <1>4, <1>6, MisackedStays DEF DlqInv, FirstNRecovers
<1> DEFINE st == "retry"
<1>12. st \in {"completed", "retry", "dead"} /\ st = "retry" /\ st # "dead" /\ status' = Mark(c.id, st)
  BY <1>4
<1>13. /\ \A x \in Msg : attempts'[x] = attempts[x]
       /\ done \subseteq done' /\ dead \subseteq dead' /\ UNCHANGED <<sent, refused>>
  BY <1>4
<1> HIDE DEF st
<1> QED BY <1>1, <1>4, <1>5, <1>6, <1>7, <1>8, <1>9, <1>10, <1>11, <1>12, <1>13, Settled

\* What a sufficient first_n gives up has been tried more often than it says, or
\* was set apart before.
LEMMA DeadLetterKeeps ==
  ASSUME DlqInv, NEW s \in DOMAIN running, channel = "up", NEW t \in Target(s), DeadLetter(s, t),
         UNCHANGED <<config, consuming, rows, faults>>
  PROVE  DlqInv'
<1>0. TypeOK /\ Counting /\ OneHeld BY DEF DlqInv
<1>1. PICK c \in Copy : c = running[s].copy BY <1>0, HandlerFacts
<1>2. c.id \in Msg /\ c.n \in Nat BY <1>0, <1>1, HandlerFacts
<1>3. /\ Acknowledge(s, t) /\ status' = Mark(c.id, "dead")
      /\ TRUE \in ShouldFail(running[s].attempt) /\ c.n >= config.maxRetries
      /\ dead' = (IF t = None THEN dead ELSE dead \cup {running[t].copy.id})
      /\ mixed' = (IF Sufficient THEN mixed ELSE mixed \cup {c.id})
      /\ UNCHANGED <<retry, attempts, sent, done, refused>>
  BY <1>1 DEF DeadLetter
<1>4. t = None \/ t \in DOMAIN running
  <2>1. running[s].hold \in {"held", "freed", "old"} BY <1>0 DEF TypeOK, Handler
  <2> QED BY <2>1 DEF Target, Held
<1>5. t # None => running[t].copy.id \in Msg BY <1>0, <1>4, HandlerFacts
<1>6. /\ retry' \in [Copy -> Nat] /\ attempts' \in [Msg -> 0..(FailCount + 1)]
      /\ done' \subseteq Msg /\ dead' \subseteq Msg /\ mixed' \subseteq Msg
      /\ mixed \subseteq mixed' /\ dead \subseteq dead'
  BY <1>0, <1>2, <1>3, <1>5 DEF TypeOK
<1>7. c.id \in mixed' \cup done'
  <2> SUFFICES ASSUME Sufficient, Open(c.id) PROVE FALSE BY <1>3 DEF Open
  <2>1. Bounded(c.n + 1) <= running[s].attempt BY <1>0, <1>1 DEF Counting
  <2>2. config.mode = "first_n" /\ FailCount <= config.maxRetries BY DEF Sufficient
  <2>3. running[s].attempt <= FailCount BY <1>3, <2>2 DEF ShouldFail
  <2>4. config.maxRetries \in Nat
    <3>1. config \in Configs \cup {DefaultConfig} BY <1>0 DEF TypeOK
    <3> QED BY <3>1, DlqAssumption DEF ConfigType, DefaultConfig
  <2>5. FailCount \in Nat BY DlqAssumption
  <2>6. c.n + 1 > FailCount BY <1>2, <1>3, <2>2, <2>4, <2>5
  <2>7. Bounded(c.n + 1) = FailCount + 1 BY <2>6 DEF Bounded
  <2>8. running[s].attempt \in 1..(FailCount + 1) BY <1>0, HandlerFacts
  <2> QED BY <2>1, <2>3, <2>5, <2>7, <2>8
<1>8. ~Open(c.id)' BY <1>7 DEF Open
<1>9. ~misacked' /\ s \in Held => c.id \in dead'
  <2> SUFFICES ASSUME s \in Held PROVE c.id \in dead' OBVIOUS
  <2>1. running[s].hold = "held" BY DEF Held
  <2>2. t = s BY <2>1 DEF Target
  <2>3. s # None BY <1>0 DEF TypeOK, Slot, None
  <2> QED BY <1>1, <1>3, <2>2, <2>3
<1>10. FirstNRecovers'
  <2> SUFFICES ASSUME ~misacked' PROVE dead' \subseteq mixed' \cup done' BY DEF FirstNRecovers
  <2>1. dead \subseteq mixed \cup done BY MisackedStays, <1>3 DEF DlqInv, FirstNRecovers
  <2>2. t \in {s, None} BY <1>3 DEF Acknowledge
  <2>3. dead' \subseteq dead \cup {c.id} BY <1>1, <1>3, <2>2
  <2> QED BY <1>3, <1>6, <1>7, <2>1, <2>3
<1>11. ~Waiting(c.id) => \A d, e \in Copy : retry'[d] > 0 /\ retry'[e] > 0 /\ d.id = c.id /\ e.id = c.id
                                             => d = e /\ retry'[d] = 1
  BY <1>3 DEF Waiting
<1>12. /\ \A d \in Copy : retry'[d] = retry[d]
       /\ \A x \in Msg : attempts'[x] = attempts[x]
       /\ done \subseteq done' /\ UNCHANGED <<retry, sent, refused>>
  BY <1>3
<1> DEFINE st == "dead"
<1>13. st \in {"completed", "retry", "dead"} /\ st # "retry" /\ st = "dead" /\ status' = Mark(c.id, st)
  BY <1>3
<1> HIDE DEF st
<1> QED BY <1>1, <1>3, <1>6, <1>8, <1>9, <1>10, <1>11, <1>12, <1>13, Settled

LEMMA FinishKeeps ==
  ASSUME DlqInv, NEW s \in Slot, Finish(s)
  PROVE  DlqInv'
<1>1. s \in DOMAIN running /\ channel = "up" /\ UNCHANGED <<config, consuming, rows, faults>>
  BY DEF Finish
<1>2. PICK t \in Target(s) : Complete(s, t) \/ Retry(s, t) \/ DeadLetter(s, t) BY DEF Finish
<1> QED BY <1>1, <1>2, CompleteKeeps, RetryKeeps, DeadLetterKeeps

\* Without a channel the callback throws: nothing was held any more.
LEMMA ThrowKeeps ==
  ASSUME DlqInv, NEW s \in Slot, FinishThrows(s)
  PROVE  DlqInv'
<1>1. /\ TypeOK /\ Single /\ Counting /\ SentOnly /\ OneHeld BY DEF DlqInv
<1>2. /\ s \in DOMAIN running /\ channel # "up" /\ running' = Without(s)
      /\ UNCHANGED <<memory, broker, history>>
  BY DEF FinishThrows
<1>3. UNCHANGED <<config, consuming, rows, status, attempts, channel, subscribed, main, retry,
                  sent, done, dead, refused, mixed, misacked, overlapped, faults>>
  BY <1>2 DEF memory, broker, history
<1>4. /\ DOMAIN running' = DOMAIN running \ {s}
      /\ \A x \in DOMAIN running' : running'[x] = running[x]
  BY <1>2 DEF Without, Restrict
<1>5. Held = {} BY <1>1, <1>2 DEF OneHeld
<1>6. Held' = {} BY <1>4, <1>5 DEF Held
<1>7. \A x : Alive(x)' <=> Alive(x)
  BY <1>3, <1>5, <1>6 DEF Alive, Queued, Waiting, Working
<1>8. \A d : Live(d)' => Live(d) BY <1>3, <1>4 DEF Live
<1>9. overlapped BY <1>1, <1>2, <1>5 DEF Single, Held
<1>10. TypeOK'
  <2>1. Cardinality(Held') <= 1
    <3>1. Cardinality({}) = 0 BY FS_EmptySet
    <3> QED BY <1>6, <3>1
  <2>2. DOMAIN running' \subseteq Slot /\ \A x \in DOMAIN running' : running'[x] \in Handler
    BY <1>1, <1>4 DEF TypeOK
  <2> QED BY <1>1, <1>3, <2>1, <2>2 DEF TypeOK
<1>11. OneHeld' BY <1>6 DEF OneHeld
<1>12. SentOnly' BY <1>1, <1>3, <1>8 DEF SentOnly
<1>13. Shown' BY <1>3 DEF DlqInv, Shown, Tracked
<1>14. Counting' BY <1>1, <1>3, <1>4 DEF Counting, Open
<1>15. Single' BY <1>3, <1>9 DEF Single
<1>16. NotLost' BY <1>3, <1>7 DEF DlqInv, NotLost
<1>17. FirstNRecovers' BY <1>3 DEF DlqInv, FirstNRecovers
<1>18. KnownSubscription' BY <1>3 DEF DlqInv, KnownSubscription
<1>19. RowsTellTruth' BY <1>3, <1>9 DEF RowsTellTruth
<1> QED BY <1>10, <1>11, <1>12, <1>13, <1>14, <1>15, <1>16, <1>17, <1>18, <1>19 DEF DlqInv

\* A copy goes from its retry queue to the main queue.
LEMMA DueKeeps ==
  ASSUME DlqInv, NEW c \in Copy, RetryDue(c)
  PROVE  DlqInv'
<1>1. /\ TypeOK /\ Single /\ Counting /\ SentOnly /\ OneHeld BY DEF DlqInv
<1>2. /\ retry[c] > 0 /\ retry' = [retry EXCEPT ![c] = @ - 1] /\ main' = Append(main, c)
      /\ UNCHANGED <<memory, channel, subscribed, running, history>>
  BY DEF RetryDue
<1>3. UNCHANGED <<config, consuming, rows, status, attempts, channel, subscribed, running,
                  sent, done, dead, refused, mixed, misacked, overlapped, faults>>
  BY <1>2 DEF memory, history
<1>4. /\ retry' \in [Copy -> Nat] /\ retry[c] \in Nat /\ retry'[c] = retry[c] - 1
      /\ \A d \in Copy : d # c => retry'[d] = retry[d]
      /\ \A d \in Copy : retry'[d] > 0 => retry[d] > 0
  <2>1. retry \in [Copy -> Nat] /\ retry[c] \in Nat BY <1>1 DEF TypeOK
  <2>2. retry[c] - 1 \in Nat BY <1>2, <2>1
  <2>3. /\ retry' \in [Copy -> Nat] /\ retry'[c] = retry[c] - 1
        /\ \A d \in Copy : d # c => retry'[d] = retry[d]
    BY <1>2, <2>1, <2>2
  <2> QED BY <1>2, <2>1, <2>2, <2>3
<1>5. /\ main' \in Seq(Copy) /\ Held' = Held
      /\ \A d : Has(main', d) <=> Has(main, d) \/ d = c
      /\ \A x : Queued(x)' <=> Queued(x) \/ x = c.id
      /\ \A x : Working(x)' <=> Working(x)
      /\ Once(main) /\ ~Queued(c.id) => Once(main')
  BY <1>1, <1>2, <1>3, ArrivedFacts
<1>6. /\ \A x : Waiting(x)' => Waiting(x)
      /\ \A x : x # c.id => (Waiting(x)' <=> Waiting(x))
      /\ Waiting(c.id) /\ c.id \in Msg
  <2>1. \A x : Waiting(x)' => Waiting(x) BY <1>4 DEF Waiting
  <2>2. ASSUME NEW x, x # c.id, Waiting(x) PROVE Waiting(x)'
    <3>1. PICK d \in Copy : d.id = x /\ retry[d] > 0 BY <2>2 DEF Waiting
    <3>2. retry'[d] > 0 BY <1>4, <2>2, <3>1
    <3> QED BY <3>1, <3>2 DEF Waiting
  <2>3. Waiting(c.id) /\ c.id \in Msg BY <1>2 DEF Waiting, Copy
  <2> QED BY <2>1, <2>2, <2>3
<1>7. \A x : Alive(x)' <=> Alive(x)
  <2>1. Alive(c.id) /\ Alive(c.id)' BY <1>5, <1>6 DEF Alive
  <2>2. ASSUME NEW x, x # c.id PROVE Alive(x)' <=> Alive(x) BY <1>5, <1>6, <2>2 DEF Alive
  <2> QED BY <2>1, <2>2
<1>8. \A d \in Copy : Live(d)' => Live(d) BY <1>2, <1>3, <1>4, <1>5 DEF Live
<1>10. TypeOK' BY <1>1, <1>3, <1>4, <1>5 DEF TypeOK
<1>11. OneHeld' BY <1>1, <1>3, <1>5 DEF OneHeld
<1>12. SentOnly' BY <1>1, <1>3, <1>8 DEF SentOnly
<1>13. Shown' BY <1>3 DEF DlqInv, Shown, Tracked
<1>14. Counting'
  <2>1. \A d \in Copy : Has(main', d) \/ retry'[d] > 0 => Has(main, d) \/ retry[d] > 0
    BY <1>2, <1>4, <1>5
  <2> QED BY <1>1, <1>3, <2>1 DEF Counting, Open
<1>15. Single'
  <2> SUFFICES ASSUME ~overlapped
               PROVE  /\ \A x \in DOMAIN running' : running'[x].hold = "held"
                      /\ Once(main')
                      /\ \A d, e \in Copy : retry'[d] > 0 /\ retry'[e] > 0 /\ d.id = e.id => d = e /\ retry'[d] = 1
                      /\ \A x \in Msg : Queued(x)' => ~Waiting(x)' /\ ~Working(x)'
                      /\ \A x \in Msg : Waiting(x)' => ~Working(x)'
                      /\ \A x \in refused' : ~Alive(x)' /\ status'[x] # "dead"
    BY <1>3 DEF Single
  <2>1. ~Queued(c.id) /\ ~Working(c.id) BY <1>1, <1>6 DEF Single
  <2>2. Once(main') BY <1>1, <1>5, <2>1 DEF Single
  <2>3. retry[c] = 1 BY <1>1, <1>2 DEF Single
  <2>4. ~Waiting(c.id)'
    <3> SUFFICES ASSUME NEW d \in Copy, d.id = c.id, retry'[d] > 0 PROVE FALSE BY DEF Waiting
    <3>1. retry[d] > 0 BY <1>4
    <3>2. d = c BY <1>1, <1>2, <3>1 DEF Single
    <3> QED BY <1>4, <2>3, <3>2
  <2>5. \A d, e \in Copy : retry'[d] > 0 /\ retry'[e] > 0 /\ d.id = e.id => d = e /\ retry'[d] = 1
    <3> SUFFICES ASSUME NEW d \in Copy, NEW e \in Copy, retry'[d] > 0, retry'[e] > 0, d.id = e.id
                 PROVE  d = e /\ retry'[d] = 1
      OBVIOUS
    <3>1. d # c /\ e # c BY <1>4, <2>3
    <3> QED BY <1>1, <1>4, <3>1 DEF Single
  <2>6. \A x \in Msg : Queued(x)' => ~Waiting(x)' /\ ~Working(x)'
    BY <1>1, <1>5, <1>6, <2>1, <2>4 DEF Single
  <2>7. \A x \in Msg : Waiting(x)' => ~Working(x)' BY <1>1, <1>5, <1>6 DEF Single
  <2>8. \A x \in refused' : ~Alive(x)' /\ status'[x] # "dead" BY <1>1, <1>3, <1>7 DEF Single
  <2> QED BY <1>1, <1>3, <2>2, <2>5, <2>6, <2>7, <2>8 DEF Single
<1>16. NotLost' BY <1>3, <1>7 DEF DlqInv, NotLost
<1>17. FirstNRecovers' BY <1>3 DEF DlqInv, FirstNRecovers
<1>18. KnownSubscription' BY <1>3 DEF DlqInv, KnownSubscription
<1>19. RowsTellTruth' BY <1>3, <1>7 DEF DlqInv, RowsTellTruth
<1> QED BY <1>10, <1>11, <1>12, <1>13, <1>14, <1>15, <1>16, <1>17, <1>18, <1>19 DEF DlqInv

\* The channel goes, and the broker takes back what it held; perhaps the process
\* goes too, and with it the rows and counts.
LEMMA ChannelGone ==
  ASSUME DlqInv, main' = TakenBack(Held), Held' = {},
         DOMAIN running' \subseteq DOMAIN running,
         \A x \in DOMAIN running' : /\ running'[x] \in Handler
                                    /\ running'[x].copy = running[x].copy
                                    /\ running'[x].attempt = running[x].attempt,
         overlapped' = (overlapped \/ running # <<>>),
         subscribed' = FALSE, channel' \in {"up", "closing", "broken"},
         config' \in Configs \cup {DefaultConfig}, consuming' \in BOOLEAN,
         retry' \in [Copy -> Nat], running = <<>> => retry' = retry,
         \A d \in Copy : retry[d] > 0 => retry'[d] > 0,
         \A d \in Copy : retry'[d] > 0 =>
           retry[d] > 0 \/ (d.id \in mixed' /\ \E x \in Held : d.id = running[x].copy.id),
         mixed \subseteq mixed', mixed' \subseteq Msg, faults' \in 0..MaxFaults,
         UNCHANGED <<sent, done, dead, refused, misacked>>,
         \/ UNCHANGED <<rows, status, attempts>>
         \/ /\ rows' = <<>> /\ status' = [m \in Msg |-> "none"] /\ attempts' = [m \in Msg |-> 0]
            /\ mixed' = mixed \cup sent
  PROVE  DlqInv'
<1>1. /\ TypeOK /\ Single /\ Counting /\ SentOnly /\ OneHeld /\ Shown BY DEF DlqInv
<1>2. /\ main' \in Seq(Copy)
      /\ \A d : Has(main', d) <=> Has(main, d) \/ \E s \in Held : running[s].copy = d
      /\ Held = {} => main' = main
  BY <1>1, TakenBackFacts
<1>3. \A x : Queued(x)' <=> Queued(x) \/ Working(x)
  <2>1. \A x : Queued(x)' <=> \E d : Has(main', d) /\ d.id = x BY QueuedNext
  <2>2. \A x : Queued(x) <=> \E d : Has(main, d) /\ d.id = x BY HasId DEF Queued
  <2>3. \A x : Working(x) <=> \E d : (\E s \in Held : running[s].copy = d) /\ d.id = x BY DEF Working
  <2> QED BY <1>2, <2>1, <2>2, <2>3
<1>4. \A x : ~Working(x)' BY DEF Working
<1>5. \A x : Waiting(x) => Waiting(x)' BY DEF Waiting
<1>6. \A x : Alive(x) => Alive(x)' BY <1>3, <1>5 DEF Alive
<1>7. ASSUME ~overlapped'
      PROVE  /\ ~overlapped /\ DOMAIN running = {} /\ DOMAIN running' = {} /\ main' = main /\ retry' = retry
             /\ \A x : /\ Queued(x)' <=> Queued(x)
                       /\ Waiting(x)' <=> Waiting(x)
                       /\ Alive(x)' <=> Alive(x)
  <2>1. ~overlapped /\ running = <<>> BY <1>1, <1>7 DEF TypeOK
  <2>2. DOMAIN running = {} BY <2>1
  <2>3. Held = {} BY <2>2 DEF Held
  <2>4. main' = main /\ retry' = retry BY <1>2, <2>1, <2>3
  <2>5. \A x : ~Working(x) BY <2>3 DEF Working
  <2>6. \A x : Waiting(x)' <=> Waiting(x) BY <2>4 DEF Waiting
  <2>7. \A x : Queued(x)' <=> Queued(x) BY <1>3, <2>5
  <2>8. \A x : Alive(x)' <=> Alive(x) BY <1>4, <2>5, <2>6, <2>7 DEF Alive
  <2> QED BY <2>1, <2>2, <2>4, <2>6, <2>7, <2>8
<1>8. \A x \in Held : running[x].copy \in Copy /\ Live(running[x].copy)
  BY <1>1 DEF Held, TypeOK, Handler, Live
<1>9. \A d \in Copy : Live(d)' => d.id \in sent
  <2> SUFFICES ASSUME NEW d \in Copy, Live(d)' PROVE d.id \in sent OBVIOUS
  <2>1. CASE Has(main', d) BY <1>1, <1>2, <1>8, <2>1 DEF SentOnly, Live
  <2>2. CASE retry'[d] > 0
    <3>1. CASE retry[d] > 0 BY <1>1, <3>1 DEF SentOnly, Live
    <3>2. CASE ~(retry[d] > 0)
      <4>1. PICK x \in Held : d.id = running[x].copy.id BY <2>2, <3>2
      <4> QED BY <1>1, <1>8, <4>1 DEF SentOnly
    <3> QED BY <3>1, <3>2
  <2>3. CASE \E x \in DOMAIN running' : running'[x].copy = d
    <3>1. \E x \in DOMAIN running : running[x].copy = d BY <2>3
    <3> QED BY <1>1, <3>1 DEF SentOnly, Live
  <2> QED BY <2>1, <2>2, <2>3 DEF Live
<1>10. TypeOK'
  <2>1. Cardinality(Held') <= 1
    <3>1. Cardinality({}) = 0 BY FS_EmptySet
    <3> QED BY <3>1
  <2>2. DOMAIN running' \subseteq Slot BY <1>1 DEF TypeOK
  <2>3. /\ rows' \in Seq(Msg) /\ Len(rows') <= RowCap
        /\ status' \in [Msg -> {"none", "processing", "retry", "completed", "dead"}]
        /\ attempts' \in [Msg -> 0..(FailCount + 1)]
    <3>1. CASE UNCHANGED <<rows, status, attempts>> BY <1>1, <3>1 DEF TypeOK
    <3>2. CASE rows' = <<>> /\ status' = [m \in Msg |-> "none"] /\ attempts' = [m \in Msg |-> 0]
      <4>1. <<>> \in Seq(Msg) /\ Len(<<>>) = 0 OBVIOUS
      <4> QED BY <3>2, <4>1, DlqAssumption
    <3> QED BY <3>1, <3>2
  <2>4. overlapped' \in BOOLEAN BY <1>1 DEF TypeOK
  <2> QED BY <1>1, <1>2, <2>1, <2>2, <2>3, <2>4 DEF TypeOK
<1>11. OneHeld' BY DEF OneHeld
<1>12. SentOnly'
  <2>1. \A x \in Msg : status'[x] = "dead" => x \in sent BY <1>1 DEF SentOnly
  <2> QED BY <1>9, <2>1 DEF SentOnly
<1>13. Shown'
  <2>1. CASE UNCHANGED <<rows, status>> BY <1>1, <2>1 DEF Shown, Tracked
  <2>2. CASE status' = [m \in Msg |-> "none"] BY <2>2 DEF Shown
  <2> QED BY <2>1, <2>2
<1>14. Counting'
  <2>1. ASSUME UNCHANGED <<rows, status, attempts>> PROVE Counting'
    <3>1. \A x : Open(x)' => Open(x) BY DEF Open
    <3>2. \A x \in Msg : status'[x] = "dead" => ~Open(x)' BY <1>1, <2>1, <3>1 DEF Counting
    <3>3. ASSUME NEW x \in DOMAIN running, Open(running[x].copy.id)
          PROVE  /\ Bounded(running[x].copy.n + 1) <= running[x].attempt
                 /\ running[x].attempt <= attempts[running[x].copy.id]
                 /\ Bounded(running[x].copy.n) <= attempts[running[x].copy.id]
      BY <1>1, <3>3, RunningCounts
    <3>4. ASSUME NEW d \in Copy, Open(d.id)', Has(main', d) \/ retry'[d] > 0
          PROVE  Bounded(d.n) <= attempts'[d.id]
      <4>1. Open(d.id) BY <3>1, <3>4
      <4>2. CASE Has(main, d) \/ retry[d] > 0 BY <1>1, <2>1, <4>1, <4>2 DEF Counting
      <4>3. CASE ~(Has(main, d) \/ retry[d] > 0)
        <5>1. ~(retry'[d] > 0) BY <3>4, <4>3 DEF Open
        <5>2. PICK x \in Held : running[x].copy = d BY <1>2, <3>4, <4>3, <5>1
        <5>3. x \in DOMAIN running BY <5>2 DEF Held
        <5> QED BY <2>1, <3>3, <4>1, <5>2, <5>3
      <4> QED BY <4>2, <4>3
    <3>5. ASSUME NEW x \in DOMAIN running', running'[x].copy.id \notin mixed' \cup done'
          PROVE  /\ Bounded(running'[x].copy.n + 1) <= running'[x].attempt
                 /\ running'[x].attempt <= attempts'[running'[x].copy.id]
      <4>1. x \in DOMAIN running /\ running'[x].copy = running[x].copy /\ running'[x].attempt = running[x].attempt
        OBVIOUS
      <4>2. Open(running[x].copy.id) BY <3>5, <4>1 DEF Open
      <4> QED BY <2>1, <3>3, <4>1, <4>2
    <3> QED BY <3>2, <3>4, <3>5 DEF Counting, Open
  <2>2. ASSUME status' = [m \in Msg |-> "none"], mixed' = mixed \cup sent PROVE Counting'
    <3>1. \A x \in Msg : status'[x] # "dead" BY <2>2
    <3>2. \A d \in Copy : Live(d)' => ~Open(d.id)' BY <1>9, <2>2 DEF Open
    <3>3. \A d \in Copy : Has(main', d) \/ retry'[d] > 0 => ~Open(d.id)' BY <3>2 DEF Live
    <3>4. \A x \in DOMAIN running' : running'[x].copy.id \in mixed'
      <4> SUFFICES ASSUME NEW x \in DOMAIN running' PROVE running'[x].copy.id \in mixed' OBVIOUS
      <4>1. x \in DOMAIN running /\ running'[x].copy = running[x].copy OBVIOUS
      <4>2. running[x].copy \in Copy /\ Live(running[x].copy) BY <1>1, <4>1, HandlerFacts DEF Live
      <4> QED BY <1>1, <2>2, <4>1, <4>2 DEF SentOnly
    <3> QED BY <3>1, <3>3, <3>4 DEF Counting, Open
  <2> QED BY <2>1, <2>2
<1>15. Single'
  <2> SUFFICES ASSUME ~overlapped'
               PROVE  /\ \A x \in DOMAIN running' : running'[x].hold = "held"
                      /\ Once(main')
                      /\ \A d, e \in Copy : retry'[d] > 0 /\ retry'[e] > 0 /\ d.id = e.id => d = e /\ retry'[d] = 1
                      /\ \A x \in Msg : Queued(x)' => ~Waiting(x)' /\ ~Working(x)'
                      /\ \A x \in Msg : Waiting(x)' => ~Working(x)'
                      /\ \A x \in refused' : ~Alive(x)' /\ status'[x] # "dead"
    BY DEF Single
  <2>1. \A x \in DOMAIN running' : running'[x].hold = "held" BY <1>7
  <2>2. Once(main') BY <1>1, <1>7 DEF Single
  <2>3. \A d, e \in Copy : retry'[d] > 0 /\ retry'[e] > 0 /\ d.id = e.id => d = e /\ retry'[d] = 1
    BY <1>1, <1>7 DEF Single
  <2>4. \A x \in Msg : Queued(x)' => ~Waiting(x)' BY <1>1, <1>7 DEF Single
  <2>5. \A x \in refused' : ~Alive(x)' /\ status'[x] # "dead"
    <3> SUFFICES ASSUME NEW x \in refused PROVE ~Alive(x)' /\ status'[x] # "dead" OBVIOUS
    <3>1. ~Alive(x) /\ status[x] # "dead" /\ x \in Msg BY <1>1, <1>7 DEF Single, TypeOK
    <3>2. status'[x] # "dead" BY <3>1
    <3> QED BY <1>7, <3>1, <3>2
  <2> QED BY <1>4, <2>1, <2>2, <2>3, <2>4, <2>5
<1>16. NotLost' BY <1>6 DEF DlqInv, NotLost
<1>17. FirstNRecovers' BY DEF DlqInv, FirstNRecovers
<1>18. KnownSubscription' BY DEF KnownSubscription
<1>19. RowsTellTruth'
  <2>1. ASSUME UNCHANGED <<rows, status, attempts>> PROVE RowsTellTruth'
    BY <1>7, <2>1 DEF DlqInv, RowsTellTruth
  <2>2. ASSUME status' = [m \in Msg |-> "none"] PROVE RowsTellTruth' BY <2>2 DEF RowsTellTruth
  <2> QED BY <2>1, <2>2
<1> QED BY <1>10, <1>11, <1>12, <1>13, <1>14, <1>15, <1>16, <1>17, <1>18, <1>19 DEF DlqInv

\* What is left of the handlers when their deliveries are taken back.
LEMMA OrphanedFacts ==
  ASSUME TypeOK, NEW A, running' = Orphaned(Restrict(running, DOMAIN running \ A))
  PROVE  /\ Held' = {} /\ DOMAIN running' \subseteq DOMAIN running
         /\ \A x \in DOMAIN running' : /\ running'[x] \in Handler
                                       /\ running'[x].copy = running[x].copy
                                       /\ running'[x].attempt = running[x].attempt
<1>1. running' = [x \in DOMAIN running \ A |-> [running[x] EXCEPT !.hold = "old"]]
  BY DEF Orphaned, Restrict
<1>2. \A h \in Handler : LET g == [h EXCEPT !.hold = "old"] IN
        g \in Handler /\ g.copy = h.copy /\ g.attempt = h.attempt /\ g.hold = "old"
  BY DEF Handler
<1>3. \A x \in DOMAIN running : running[x] \in Handler BY DEF TypeOK
<1>4. /\ DOMAIN running' = DOMAIN running \ A
      /\ \A x \in DOMAIN running' : /\ running'[x] \in Handler
                                    /\ running'[x].copy = running[x].copy
                                    /\ running'[x].attempt = running[x].attempt
                                    /\ running'[x].hold = "old"
  <2>1. DOMAIN running' = DOMAIN running \ A BY <1>1
  <2>2. ASSUME NEW x \in DOMAIN running'
        PROVE  /\ running'[x] \in Handler
               /\ running'[x].copy = running[x].copy
               /\ running'[x].attempt = running[x].attempt
               /\ running'[x].hold = "old"
    <3>1. x \in DOMAIN running \ A BY <2>1
    <3>2. running'[x] = [running[x] EXCEPT !.hold = "old"] BY <1>1, <3>1
    <3>3. running[x] \in Handler BY <1>3, <3>1
    <3> QED BY <1>2, <3>2, <3>3
  <2> QED BY <2>1, <2>2
<1>5. Held' = {} BY <1>4 DEF Held
<1> QED BY <1>4, <1>5

LEMMA FaultCounts == ASSUME TypeOK, faults < MaxFaults, faults' = faults + 1 PROVE faults' \in 0..MaxFaults
BY DlqAssumption DEF TypeOK

LEMMA StopKeeps ==
  ASSUME DlqInv, StopConsuming
  PROVE  DlqInv'
<1>1. TypeOK BY DEF DlqInv
<1>2. /\ faults < MaxFaults /\ faults' = faults + 1
      /\ consuming' = FALSE /\ channel' = "closing" /\ subscribed' = FALSE
      /\ main' = TakenBack(Held) /\ running' = Orphaned(running)
      /\ overlapped' = (overlapped \/ running # <<>>)
      /\ UNCHANGED <<config, rows, status, attempts, retry, sent, done, dead, refused, mixed, misacked>>
  BY DEF StopConsuming
<1>3. running' = Orphaned(Restrict(running, DOMAIN running \ {})) BY <1>2 DEF Orphaned, Restrict
<1>4. /\ Held' = {} /\ DOMAIN running' \subseteq DOMAIN running
      /\ \A x \in DOMAIN running' : /\ running'[x] \in Handler
                                    /\ running'[x].copy = running[x].copy
                                    /\ running'[x].attempt = running[x].attempt
  BY <1>1, <1>3, OrphanedFacts
<1>5. /\ channel' \in {"up", "closing", "broken"} /\ consuming' \in BOOLEAN
      /\ config' \in Configs \cup {DefaultConfig} /\ retry' \in [Copy -> Nat]
      /\ mixed \subseteq mixed' /\ mixed' \subseteq Msg /\ faults' \in 0..MaxFaults
  BY <1>1, <1>2, FaultCounts DEF TypeOK
<1>6. \A d \in Copy : retry'[d] = retry[d] BY <1>2
<1> QED BY <1>2, <1>4, <1>5, <1>6, ChannelGone

LEMMA CutKeeps ==
  ASSUME DlqInv, NEW arrived \in SUBSET Slot, ConnectionCut(arrived)
  PROVE  DlqInv'
<1>1. TypeOK /\ OneHeld BY DEF DlqInv
<1>2. /\ faults < MaxFaults /\ faults' = faults + 1 /\ arrived \subseteq Held
      /\ retry' = [c \in Copy |-> IF \E s \in arrived : c = [running[s].copy EXCEPT !.n = @ + 1]
                                  THEN retry[c] + 1 ELSE retry[c]]
      /\ main' = TakenBack(Held) /\ running' = Orphaned(Restrict(running, DOMAIN running \ arrived))
      /\ channel' = "broken" /\ subscribed' = FALSE
      /\ overlapped' = (overlapped \/ running # <<>>)
      /\ mixed' = mixed \cup {running[s].copy.id : s \in arrived}
      /\ UNCHANGED <<memory, sent, done, dead, refused, misacked>>
  BY DEF ConnectionCut
<1>3. UNCHANGED <<config, consuming, rows, status, attempts, sent, done, dead, refused, misacked>>
  BY <1>2 DEF memory
<1>4. /\ Held' = {} /\ DOMAIN running' \subseteq DOMAIN running
      /\ \A x \in DOMAIN running' : /\ running'[x] \in Handler
                                    /\ running'[x].copy = running[x].copy
                                    /\ running'[x].attempt = running[x].attempt
  BY <1>1, <1>2, OrphanedFacts
<1>5. \A s \in arrived : running[s].copy \in Copy /\ running[s].copy.id \in Msg
  <2>1. arrived \subseteq DOMAIN running BY <1>2 DEF Held
  <2> QED BY <1>1, <2>1, HandlerFacts
<1>6. /\ channel' \in {"up", "closing", "broken"} /\ consuming' \in BOOLEAN
      /\ config' \in Configs \cup {DefaultConfig}
      /\ mixed \subseteq mixed' /\ mixed' \subseteq Msg /\ faults' \in 0..MaxFaults
  BY <1>1, <1>2, <1>3, <1>5, FaultCounts DEF TypeOK
<1>7. \A d \in Copy : /\ retry[d] \in Nat /\ retry'[d] \in {retry[d], retry[d] + 1}
                      /\ retry'[d] # retry[d] => \E s \in arrived : d = [running[s].copy EXCEPT !.n = @ + 1]
  BY <1>1, <1>2 DEF TypeOK
<1>8. retry' \in [Copy -> Nat]
  <2>1. \A d \in Copy : (IF \E s \in arrived : d = [running[s].copy EXCEPT !.n = @ + 1]
                         THEN retry[d] + 1 ELSE retry[d]) \in Nat
    BY <1>7
  <2> QED BY <1>2, <2>1
<1>9. \A d \in Copy : retry[d] > 0 => retry'[d] > 0 BY <1>7
<1>10. ASSUME NEW d \in Copy, retry'[d] > 0, ~(retry[d] > 0)
       PROVE  d.id \in mixed' /\ \E x \in Held : d.id = running[x].copy.id
  <2>1. PICK s \in arrived : d = [running[s].copy EXCEPT !.n = @ + 1] BY <1>7, <1>10
  <2>2. d.id = running[s].copy.id BY <1>5, <2>1 DEF Copy
  <2> QED BY <1>2, <2>1, <2>2
<1>11. running = <<>> => retry' = retry
  <2> SUFFICES ASSUME running = <<>> PROVE retry' = retry OBVIOUS
  <2>1. DOMAIN running = {} OBVIOUS
  <2>2. arrived = {} BY <1>2, <2>1 DEF Held
  <2>3. \A d \in Copy : retry'[d] = retry[d] BY <1>7, <2>2
  <2> QED BY <1>1, <1>8, <2>3 DEF TypeOK
<1> QED BY <1>2, <1>3, <1>4, <1>6, <1>8, <1>9, <1>10, <1>11, ChannelGone

LEMMA RestartKeeps ==
  ASSUME DlqInv, Restart
  PROVE  DlqInv'
<1>1. TypeOK BY DEF DlqInv
<1>2. /\ faults < MaxFaults /\ faults' = faults + 1
      /\ config' = DefaultConfig /\ consuming' = FALSE
      /\ rows' = <<>> /\ status' = [m \in Msg |-> "none"] /\ attempts' = [m \in Msg |-> 0]
      /\ channel' \in {"up", "broken"} /\ subscribed' = FALSE
      /\ main' = TakenBack(Held) /\ running' = <<>>
      /\ overlapped' = (overlapped \/ running # <<>>)
      /\ mixed' = mixed \cup sent
      /\ UNCHANGED <<retry, sent, done, dead, refused, misacked>>
  BY DEF Restart
<1>3. DOMAIN running' = {} BY <1>2
<1>4. Held' = {} BY <1>3 DEF Held
<1>5. /\ channel' \in {"up", "closing", "broken"} /\ consuming' \in BOOLEAN
      /\ config' \in Configs \cup {DefaultConfig} /\ retry' \in [Copy -> Nat]
      /\ mixed \subseteq mixed' /\ mixed' \subseteq Msg /\ faults' \in 0..MaxFaults
  BY <1>1, <1>2, FaultCounts DEF TypeOK
<1>6. \A d \in Copy : retry'[d] = retry[d] BY <1>2
<1> QED BY <1>2, <1>3, <1>4, <1>5, <1>6, ChannelGone

-----------------------------------------------------------------------------
(* The theorems.                                                           *)

LEMMA InitOK == Init => DlqInv
<1> SUFFICES ASSUME Init PROVE DlqInv OBVIOUS
<1>1. /\ config = DefaultConfig /\ consuming = FALSE
      /\ rows = <<>> /\ status = [m \in Msg |-> "none"] /\ attempts = [m \in Msg |-> 0]
      /\ channel \in {"up", "broken"} /\ subscribed = FALSE
      /\ main = <<>> /\ retry = [c \in Copy |-> 0] /\ running = <<>>
      /\ sent = {} /\ done = {} /\ dead = {} /\ refused = {} /\ mixed = {}
      /\ misacked = FALSE /\ overlapped = FALSE /\ faults = 0
  BY DEF Init
<1>2. DOMAIN running = {} /\ DOMAIN main = {} BY <1>1
<1>3. Held = {} BY <1>2 DEF Held
<1>4. \A x : ~Queued(x) /\ ~Waiting(x) /\ ~Working(x) /\ ~Alive(x)
  BY <1>1, <1>2, <1>3 DEF Queued, Waiting, Working, Alive
<1>5. \A d \in Copy : ~Has(main, d) /\ ~(retry[d] > 0) /\ ~Live(d) BY <1>1, <1>2 DEF Has, Live
<1>6. TypeOK
  <2>1. Cardinality(Held) <= 1
    <3>1. Cardinality({}) = 0 BY FS_EmptySet
    <3> QED BY <1>3, <3>1
  <2>2. <<>> \in Seq(Msg) /\ <<>> \in Seq(Copy) /\ Len(<<>>) = 0 OBVIOUS
  <2>3. rows \in Seq(Msg) /\ Len(rows) <= RowCap /\ main \in Seq(Copy)
    BY <1>1, <2>2, DlqAssumption
  <2>4. /\ status \in [Msg -> {"none", "processing", "retry", "completed", "dead"}]
        /\ attempts \in [Msg -> 0..(FailCount + 1)] /\ retry \in [Copy -> Nat]
    BY <1>1, DlqAssumption
  <2>5. /\ config \in Configs \cup {DefaultConfig} /\ consuming \in BOOLEAN
        /\ channel \in {"up", "closing", "broken"} /\ subscribed \in BOOLEAN
        /\ sent \subseteq Msg /\ done \subseteq Msg /\ dead \subseteq Msg
        /\ refused \subseteq Msg /\ mixed \subseteq Msg
        /\ misacked \in BOOLEAN /\ overlapped \in BOOLEAN
    BY <1>1
  <2>6. faults \in 0..MaxFaults BY <1>1, DlqAssumption
  <2> QED BY <1>2, <2>1, <2>3, <2>4, <2>5, <2>6 DEF TypeOK
<1>7. OneHeld BY <1>3 DEF OneHeld
<1>8. SentOnly BY <1>1, <1>5 DEF SentOnly
<1>9. Shown BY <1>1 DEF Shown
<1>10. Counting BY <1>1, <1>2, <1>5 DEF Counting
<1>11. Single
  <2>1. Once(main) BY <1>2 DEF Once
  <2> QED BY <1>1, <1>2, <1>4, <1>5, <2>1 DEF Single
<1>12. NotLost /\ FirstNRecovers /\ KnownSubscription BY <1>1 DEF NotLost, FirstNRecovers, KnownSubscription
<1>13. RowsTellTruth BY <1>1 DEF RowsTellTruth
<1> QED BY <1>6, <1>7, <1>8, <1>9, <1>10, <1>11, <1>12, <1>13 DEF DlqInv

LEMMA StutterKeeps == DlqInv /\ UNCHANGED vars => DlqInv'
<1> SUFFICES ASSUME DlqInv, UNCHANGED vars PROVE DlqInv' OBVIOUS
<1>1. UNCHANGED <<config, consuming, rows, status, attempts, channel, subscribed, main, retry, running,
                  sent, done, dead, refused, mixed, misacked, overlapped, faults>>
  BY DEF vars, memory, broker, history
<1>2. /\ Held' = Held
      /\ \A m : Queued(m)' <=> Queued(m)
      /\ \A m : Waiting(m)' <=> Waiting(m)
      /\ \A m : Working(m)' <=> Working(m)
      /\ \A m : Alive(m)' <=> Alive(m)
      /\ \A d : Live(d)' <=> Live(d)
  BY <1>1, Unmoved
<1>3. TypeOK' BY <1>1, <1>2 DEF DlqInv, TypeOK
<1>4. OneHeld' BY <1>1, <1>2 DEF DlqInv, OneHeld
<1>5. SentOnly' BY <1>1, <1>2 DEF DlqInv, SentOnly
<1>6. Shown' BY <1>1 DEF DlqInv, Shown, Tracked
<1>7. Counting' BY <1>1 DEF DlqInv, Counting, Open
<1>8. Single' BY <1>1, <1>2 DEF DlqInv, Single
<1>9. NotLost' BY <1>1, <1>2 DEF DlqInv, NotLost
<1>10. FirstNRecovers' /\ KnownSubscription' BY <1>1 DEF DlqInv, FirstNRecovers, KnownSubscription
<1>11. RowsTellTruth' BY <1>1, <1>2 DEF DlqInv, RowsTellTruth
<1> QED BY <1>3, <1>4, <1>5, <1>6, <1>7, <1>8, <1>9, <1>10, <1>11 DEF DlqInv

LEMMA Inductive == Spec => []DlqInv
<1>1. DlqInv /\ [Next]_vars => DlqInv'
  <2> SUFFICES ASSUME DlqInv, [Next]_vars PROVE DlqInv' OBVIOUS
  <2>1. CASE \E c \in Configs : StartConsuming(c) BY <2>1, SwitchKeeps
  <2>2. CASE StopRefused \/ StopReopened BY <2>2, SwitchKeeps
  <2>3. CASE StopConsuming BY <2>3, StopKeeps
  <2>4. CASE \E m \in Msg : SendMessage(m) BY <2>4, SendKeeps
  <2>5. CASE \E m \in Msg : RetryDeadMessage(m) BY <2>5, ResendKeeps
  <2>6. CASE \E m \in Msg : DiscardDeadMessage(m)
    <3>1. PICK m \in Msg : DiscardDead({m}, TRUE) BY <2>6 DEF DiscardDeadMessage
    <3>2. {m} \in SUBSET Msg /\ TRUE \in BOOLEAN OBVIOUS
    <3> QED BY <3>1, <3>2, DiscardKeeps
  <2>7. CASE DiscardAllDead
    <3>1. {m \in Msg : status[m] = "dead"} \in SUBSET Msg /\ FALSE \in BOOLEAN OBVIOUS
    <3> QED BY <2>7, <3>1, DiscardKeeps DEF DiscardAllDead
  <2>8. CASE ClearAll BY <2>8, ClearKeeps
  <2>9. CASE \E s \in Slot : Deliver(s) BY <2>9, DeliverKeeps
  <2>10. CASE \E s \in Slot : Finish(s) BY <2>10, FinishKeeps
  <2>11. CASE \E s \in Slot : FinishThrows(s) BY <2>11, ThrowKeeps
  <2>12. CASE \E c \in Copy : RetryDue(c) BY <2>12, DueKeeps
  <2>13. CASE \E arrived \in SUBSET Slot : ConnectionCut(arrived) BY <2>13, CutKeeps
  <2>14. CASE Restart BY <2>14, RestartKeeps
  <2>15. CASE UNCHANGED vars BY <2>15, StutterKeeps
  <2> QED BY <2>1, <2>2, <2>3, <2>4, <2>5, <2>6, <2>7, <2>8, <2>9, <2>10, <2>11, <2>12, <2>13,
             <2>14, <2>15 DEF Next
<1> QED BY <1>1, InitOK, PTL DEF Spec

\* What the broker has taken stays with it until it was processed or dead-lettered,
\* unless an old tag hit another delivery; a sufficient first_n gives nothing up; and
\* only a service that knows of it is subscribed.
THEOREM PromisesKept == Spec => []DlqPromises
<1>1. DlqInv => DlqPromises BY DEF DlqInv, DlqPromises
<1> QED BY <1>1, Inductive, PTL

\* What the operator is shown as dead or completed is in no queue, and what is shown
\* as under way is in one, until a delivery is taken back from a running handler.
THEOREM RowsTrue == Spec => []RowsTellTruth
<1>1. DlqInv => RowsTellTruth BY DEF DlqInv
<1> QED BY <1>1, Inductive, PTL
=============================================================================
