---------------------------- MODULE ScreensProofs ---------------------------
(***************************************************************************)
(* Proofs about what the screens show while their loads are on the way: the *)
(* thread lists (ThreadList), the thread itself with what is written to it  *)
(* (ThreadView), and the pictures in it (Images).  Each part has an         *)
(* inductive invariant, one lemma per action and the theorems at its end.   *)
(***************************************************************************)
EXTENDS ThreadList, ThreadView, Images, FiniteSetTheorems, WellFoundedInduction, TLAPS

-----------------------------------------------------------------------------
(***************************************************************************)
(* ThreadList.  Every list on the stack is a window of the forum's pages,   *)
(* and every request on its way would give its list the page after or      *)
(* before that window; two lists never wait for one request (ListInv).     *)
(***************************************************************************)

\* A finite set of positions has a last one.
LEMMA HasGreatest ==
  ASSUME NEW n \in Nat, NEW S \in SUBSET (1..n), S # {}
  PROVE  \E i \in S : \A j \in S : j <= i
<1> DEFINE T == {n - i : i \in S}
<1>1. T \subseteq Nat /\ T # {}
  <2>1. PICK i \in S : TRUE
    OBVIOUS
  <2>2. n - i \in T
    OBVIOUS
  <2>3. ASSUME NEW x \in T PROVE x \in Nat
    <3>1. PICK k \in S : x = n - k
      OBVIOUS
    <3>2. k \in 1..n
      OBVIOUS
    <3> QED BY <3>1, <3>2
  <2> QED BY <2>2, <2>3
<1>2. \E x \in T : \A y \in T : <<y, x>> \notin OpToRel(<, Nat)
  <2> HIDE DEF T
  <2> QED BY <1>1, WFMin, NatLessThanWellFounded
<1>3. \A x, y \in T : y < x => <<y, x>> \in OpToRel(<, Nat)
  <2> HIDE DEF T
  <2>1. TAKE x, y \in T
  <2>2. x \in Nat /\ y \in Nat
    BY <1>1
  <2> QED BY <2>2 DEF OpToRel
<1>4. PICK x \in T : \A y \in T : ~(y < x)
  BY <1>2, <1>3
<1>5. PICK i \in S : x = n - i
  OBVIOUS
<1>6. ASSUME NEW j \in S PROVE j <= i
  BY <1>4, <1>5
<1> QED BY <1>6

\* Nothing in a list is of a load that has not begun.
Aged(l, next) ==
  /\ l \in ThreadListState /\ l.seq < next
  /\ \A k \in DOMAIN l.held : l.held[k].seq < next

\* What a list is whichever load it waits for.
Shaped(l, next) ==
  /\ Aged(l, next)
  /\ l.page + l.loaded <= MaxPage + 1
  /\ l.held = <<>> => l.loaded <= 1
  /\ l.held # <<>> => l.seq # 0

Window(l) ==
  (l.held # <<>> /\ Head(l.held).seq = l.seq) =>
    l.held = [k \in 1..l.loaded |->
               [seq |-> l.seq, node |-> l.node, page |-> l.page + k - 1]]

\* What a list is for the load it waits for: a fill is only asked for when
\* there are rows to extend.
Extends(l, others) ==
  /\ \A r \in others : (r.append /\ r.seq = l.seq) => l.held # <<>>
  /\ Window(l)

\* No two lists wait for the same load.
Apart(s) ==
  \A i, j \in DOMAIN s : (s[i].list.seq = s[j].list.seq /\ i # j) => s[i].list.seq = 0

FlightOK(others, next) ==
  /\ IsFiniteSet(others) /\ Cardinality(others) <= MaxFlight
  /\ \A r \in others : r.seq < next

ListInv ==
  /\ ListTypeOK /\ Apart(stack) /\ FlightOK(flight, nextSeq)
  /\ \A i \in DOMAIN stack :
       Shaped(stack[i].list, nextSeq) /\ Extends(stack[i].list, flight)
----------------------------------------------------------------------------
LEMMA UppermostIsIn ==
  ASSUME NEW n \in Nat, NEW S \in SUBSET (1..n), S # {}
  PROVE  Uppermost(S) \in S /\ \A j \in S : j <= Uppermost(S)
BY HasGreatest DEF Uppermost

\* While there is room, a request finds an id.
LEMMA FreeId ==
  ASSUME NEW others, IsFiniteSet(others), Cardinality(others) < MaxFlight
  PROVE  \E n \in 1..MaxFlight : \A r \in others : r.id # n
<1> USE ThreadListAssumption
<1> SUFFICES ASSUME \A n \in 1..MaxFlight : \E r \in others : r.id = n
             PROVE  FALSE
  OBVIOUS
<1> DEFINE f == [n \in 1..MaxFlight |-> CHOOSE r \in others : r.id = n]
<1>1. \A n \in 1..MaxFlight : f[n] \in others /\ f[n].id = n
  OBVIOUS
<1>2. f \in [1..MaxFlight -> others]
  BY <1>1
<1>3. IsFiniteSet(1..MaxFlight) /\ Cardinality(1..MaxFlight) = MaxFlight
  <2>1. MaxFlight \in Nat /\ Cardinality(others) \in Nat
    BY FS_CardinalityType
  <2>2. IsFiniteSet(1..MaxFlight) /\ Cardinality(1..MaxFlight) =
          IF 1 > MaxFlight THEN 0 ELSE MaxFlight - 1 + 1
    <3> HIDE DEF f
    <3>1. 1 \in Int /\ MaxFlight \in Int
      BY <2>1
    <3> HIDE ThreadListAssumption
    <3> QED BY ONLY <3>1, FS_Interval
  <2> QED BY <2>1, <2>2
<1> HIDE DEF f
<1>4. PICK x, y \in 1..MaxFlight : x # y /\ f[x] = f[y]
  BY <1>2, <1>3, FS_PigeonHole
<1> QED BY <1>1, <1>4

LEMMA SentFacts ==
  ASSUME NEW others \in SUBSET Request, NEW next, FlightOK(others, next),
         Cardinality(others) < MaxFlight,
         NEW node \in Nodes, NEW page \in 0..MaxPage, NEW append \in BOOLEAN,
         NEW seq \in 1..MaxSeq, seq < next
  PROVE  LET sent == SentBesides(others, node, page, append, seq)
         IN  /\ sent \subseteq Request /\ FlightOK(sent, next)
             /\ \A r \in sent : r \in others \/ (r.append = append /\ r.seq = seq)
<1> USE ThreadListAssumption
<1> DEFINE id == CHOOSE n \in 1..MaxFlight : \A r \in others : r.id # n
           new == [node |-> node, page |-> page, append |-> append,
                   seq |-> seq, id |-> id]
<1>1. id \in 1..MaxFlight
  BY FreeId DEF FlightOK
<1>2. SentBesides(others, node, page, append, seq) = others \cup {new}
  BY DEF SentBesides
<1> HIDE DEF id
<1>3. new \in Request /\ new.append = append /\ new.seq = seq
  BY <1>1 DEF Request
<1> HIDE DEF new
<1>4. IsFiniteSet(others \cup {new}) /\ Cardinality(others \cup {new}) <= MaxFlight
  <2>1. IsFiniteSet(others) /\ Cardinality(others) \in Nat /\ MaxFlight \in Nat
    BY FS_CardinalityType DEF FlightOK
  <2>2. /\ IsFiniteSet(others \cup {new})
        /\ Cardinality(others \cup {new}) =
             IF new \in others THEN Cardinality(others) ELSE Cardinality(others) + 1
    BY <2>1, FS_AddElement
  <2>3. CASE new \in others
    BY <2>1, <2>2, <2>3
  <2>4. CASE new \notin others
    BY <2>1, <2>2, <2>4
  <2> QED BY <2>3, <2>4
<1> QED BY <1>2, <1>3, <1>4 DEF FlightOK

LEMMA SentFill ==
  ASSUME NEW others \in SUBSET Request, NEW next, FlightOK(others, next),
         Cardinality(others) < MaxFlight,
         NEW node \in Nodes, NEW page \in 0..MaxPage,
         NEW seq \in 1..MaxSeq, seq < next
  PROVE  LET sent == SentBesides(others, node, page, TRUE, seq)
         IN  /\ sent \subseteq Request /\ FlightOK(sent, next)
             /\ \A r \in sent : r \in others \/ r.seq = seq
<1>1. \A a \in BOOLEAN :
        LET sent == SentBesides(others, node, page, a, seq)
        IN  /\ sent \subseteq Request /\ FlightOK(sent, next)
            /\ \A r \in sent : r \in others \/ r.seq = seq
  BY SentFacts
<1> QED BY <1>1

LEMMA OneLess ==
  ASSUME NEW others, NEW next, FlightOK(others, next), NEW r \in others
  PROVE  FlightOK(others \ {r}, next) /\ Cardinality(others \ {r}) < MaxFlight
<1>1. /\ IsFiniteSet(others) /\ Cardinality(others) \in Nat
      /\ Cardinality(others) <= MaxFlight
  BY FS_CardinalityType DEF FlightOK
<1>2. IsFiniteSet(others \ {r}) /\ Cardinality(others \ {r}) = Cardinality(others) - 1
  BY <1>1, FS_RemoveElement
<1> QED BY <1>1, <1>2, ThreadListAssumption DEF FlightOK

LEMMA Later ==
  ASSUME NEW l, NEW next \in Nat, Shaped(l, next)
  PROVE  Shaped(l, next + 1)
<1>1. l.seq \in Nat /\ l.held \in Seq(Block)
  BY ThreadListAssumption DEF Shaped, Aged, ThreadListState
<1>2. \A k \in DOMAIN l.held : l.held[k] \in Block
  BY <1>1
<1>3. \A k \in DOMAIN l.held : l.held[k].seq \in Nat
  BY <1>2, ThreadListAssumption DEF Block
<1>4. \A k \in DOMAIN l.held : l.held[k].seq < next + 1
  BY <1>3 DEF Shaped, Aged
<1> QED BY <1>1, <1>4 DEF Shaped, Aged

Screens == [kind: {"home", "list", "other"}, list: ThreadListState]
HomeFirst(s) == \A i \in DOMAIN s : s[i].kind = "home" <=> i = 1

\* The list a forum is shown in.
LEMMA ShownIn ==
  ASSUME NEW s \in Seq(Screens), NEW node
  PROVE  LET i == ListShowing(s, node)
         IN  \/ i = 0
             \/ /\ i \in DOMAIN s /\ HasList(s[i]) /\ s[i].list.node = node
                /\ \A j \in DOMAIN s : (HasList(s[j]) /\ s[j].list.node = node)
                                         => j <= i
<1> DEFINE S == {i \in DOMAIN s : HasList(s[i]) /\ s[i].list.node = node}
<1>1. S \in SUBSET (1..Len(s)) /\ Len(s) \in Nat
  OBVIOUS
<1>2. ListShowing(s, node) = IF S = {} THEN 0 ELSE Uppermost(S)
  BY DEF ListShowing
<1>3. S # {} => Uppermost(S) \in S /\ \A j \in S : j <= Uppermost(S)
  <2> HIDE DEF S
  <2> QED BY <1>1, UppermostIsIn
<1> QED BY <1>2, <1>3

\* A load begun on the screens s: the list that waits for it starts over,
\* whatever it was before.
LEMMA LoadForumKeeps ==
  ASSUME ListTypeOK, FlightOK(flight, nextSeq),
         NEW s \in Seq(Screens), s # <<>>, HomeFirst(s), Apart(s),
         NEW node \in Nodes, NEW page \in 0..MaxPage, LoadForum(s, node, page),
         \A i \in DOMAIN s :
           /\ Aged(s[i].list, nextSeq)
           /\ \/ i = ListShowing(s, node)
              \/ Shaped(s[i].list, nextSeq) /\ Extends(s[i].list, flight)
  PROVE  ListInv'
<1> USE ThreadListAssumption
<1> DEFINE h == ListShowing(s, node)
           l == [s[h].list EXCEPT !.seq = nextSeq, !.loaded = 1,
                                  !.budget = FillBudget]
<1>1. /\ Cardinality(flight) < MaxFlight /\ nextSeq <= MaxSeq
      /\ stack' = IF h = 0 THEN s ELSE [s EXCEPT ![h].list = l]
      /\ flight' = SentBesides(flight, node, page, FALSE, nextSeq)
      /\ nextSeq' = nextSeq + 1
  BY DEF LoadForum, CanSend
<1>2. /\ nextSeq \in 1..MaxSeq /\ nextSeq' \in 1..(MaxSeq + 1) /\ nextSeq \in Nat
      /\ flight \in SUBSET Request
  BY <1>1 DEF ListTypeOK
<1>3. /\ flight' \subseteq Request /\ FlightOK(flight', nextSeq')
      /\ \A r \in flight' : r \in flight \/ (r.append = FALSE /\ r.seq = nextSeq)
  <2>1. FlightOK(flight, nextSeq + 1)
    <3>1. \A r \in flight : r.seq \in Nat
      BY <1>2 DEF Request
    <3>2. \A r \in flight : r.seq < nextSeq + 1
      BY <1>2, <3>1 DEF FlightOK
    <3> QED BY <3>2 DEF FlightOK
  <2>2. nextSeq < nextSeq + 1 /\ FALSE \in BOOLEAN
    BY <1>2
  <2> DEFINE sent == SentBesides(flight, node, page, FALSE, nextSeq)
  <2>3. /\ sent \subseteq Request /\ FlightOK(sent, nextSeq + 1)
        /\ \A r \in sent : r \in flight \/ (r.append = FALSE /\ r.seq = nextSeq)
    <3>1. Cardinality(flight) < MaxFlight
      BY <1>1
    <3>2. /\ flight \in SUBSET Request /\ nextSeq \in 1..MaxSeq
          /\ nextSeq < nextSeq + 1 /\ FlightOK(flight, nextSeq + 1)
      BY <1>2, <2>1, <2>2
    <3> DEFINE then == nextSeq + 1
    <3>3. nextSeq < then /\ FlightOK(flight, then)
      BY <3>2
    <3> HIDE DEF then
    <3>4. ASSUME NEW a \in BOOLEAN, a = FALSE
          PROVE  LET more == SentBesides(flight, node, page, a, nextSeq)
                 IN  /\ more \subseteq Request /\ FlightOK(more, then)
                     /\ \A r \in more : r \in flight \/ (r.append = a /\ r.seq = nextSeq)
      BY <3>1, <3>2, <3>3, SentFacts
    <3> QED BY <3>4 DEF then
  <2> HIDE DEF sent
  <2>4. flight' = sent /\ nextSeq' = nextSeq + 1
    BY <1>1 DEF sent
  <2> QED BY <2>3, <2>4
<1>4. DOMAIN s = 1..Len(s) /\ Len(s) \in Nat /\ \A i \in 1..Len(s) : s[i] \in Screens
  OBVIOUS
<1>5. ASSUME NEW x, Extends(x, flight), Shaped(x, nextSeq)
      PROVE  Extends(x, flight')
  <2>1. \A r \in flight' : (r.append /\ r.seq = x.seq) => r \in flight
    BY <1>3
  <2> QED BY <1>5, <2>1 DEF Extends
<1>6. \A i \in DOMAIN s : i # h => Shaped(s[i].list, nextSeq')
  BY <1>1, <1>2, Later
<1>7. CASE h = 0
  <2>1. stack' = s
    BY <1>1, <1>7
  <2>2. \A i \in DOMAIN s : Extends(s[i].list, flight') /\ Shaped(s[i].list, nextSeq')
    BY <1>4, <1>5, <1>6, <1>7
  <2> QED BY <1>2, <1>1, <1>3, <1>6, <2>1, <2>2 DEF ListInv, ListTypeOK, Screens, HomeFirst
<1>8. CASE h # 0
  <2>1. h \in 1..Len(s) /\ s[h] \in Screens /\ Aged(s[h].list, nextSeq)
    BY <1>4, <1>8, ShownIn
  <2>2. /\ l \in ThreadListState /\ l.seq = nextSeq /\ l.loaded = 1
        /\ l.held = s[h].list.held /\ l.page = s[h].list.page
    <3> DEFINE was == s[h].list
    <3>1. was \in ThreadListState
      BY <2>1 DEF Screens
    <3>2. nextSeq \in 0..MaxSeq /\ 1 \in 0..(MaxPage + 1) /\ FillBudget \in 0..FillBudget
      BY <1>2
    <3> HIDE DEF was
    <3> DEFINE n == [was EXCEPT !.seq = nextSeq, !.loaded = 1, !.budget = FillBudget]
    <3>3. n \in ThreadListState /\ n.seq = nextSeq /\ n.loaded = 1
          /\ n.held = was.held /\ n.page = was.page
      BY <3>1, <3>2 DEF ThreadListState
    <3>4. l = n
      BY DEF was
    <3> HIDE DEF n, l
    <3> QED BY <3>3, <3>4 DEF was
  <2> DEFINE c == [s[h] EXCEPT !.list = l]
  <2>3. stack' = [s EXCEPT ![h] = c]
    BY <1>1, <1>8
  <2> HIDE DEF l
  <2>4. c \in Screens /\ c.kind = s[h].kind /\ c.list = l
    BY <2>1, <2>2 DEF Screens
  <2> HIDE DEF c, h
  <2>5. /\ stack' \in Seq(Screens) /\ Len(stack') = Len(s)
        /\ DOMAIN stack' = 1..Len(s)
        /\ stack'[h] = c /\ \A i \in 1..Len(s) : i # h => stack'[i] = s[i]
    BY <1>4, <2>1, <2>3, <2>4
  <2>6. Shaped(l, nextSeq') /\ Extends(l, flight')
    <3>1. l.held \in Seq(Block) /\ l.page \in 0..MaxPage
      BY <2>2 DEF ThreadListState
    <3>2. \A k \in DOMAIN l.held : l.held[k].seq < nextSeq /\ l.held[k].seq \in Nat
      <4>1. \A k \in DOMAIN l.held : l.held[k] \in Block
        BY <3>1
      <4> QED BY <2>1, <2>2, <4>1 DEF Aged, Block
    <3>3. Shaped(l, nextSeq')
      <4>1. l.seq < nextSeq' /\ \A k \in DOMAIN l.held : l.held[k].seq < nextSeq'
        <5>1. nextSeq \in Nat /\ nextSeq' = nextSeq + 1 /\ l.seq = nextSeq
          BY <1>1, <1>2, <2>2
        <5>2. \A n \in Nat : n < nextSeq => n < nextSeq'
          BY <5>1
        <5> QED BY <5>1, <5>2, <3>2
      <4>2. l.page + l.loaded <= MaxPage + 1
        BY <2>2, <3>1
      <4>3. l.loaded <= 1 /\ l.seq # 0
        BY <1>2, <2>2
      <4> QED BY <2>2, <4>1, <4>2, <4>3 DEF Shaped, Aged
    <3>5. Window(l)
      <4>1. l.held # <<>> => Head(l.held).seq # l.seq
        <5>1. SUFFICES ASSUME l.held # <<>> PROVE Head(l.held).seq # l.seq
          OBVIOUS
        <5>2. Head(l.held) = l.held[1] /\ 1 \in DOMAIN l.held
          BY <3>1, <5>1
        <5>3. l.held[1].seq < nextSeq /\ l.held[1].seq \in Nat
          BY <3>2, <5>2
        <5> QED BY <1>2, <2>2, <5>2, <5>3
      <4> QED BY <4>1 DEF Window
    <3>6. \A r \in flight' : ~(r.append /\ r.seq = l.seq)
      <4>1. \A r \in flight : r.seq < nextSeq /\ r.seq \in Nat
        BY <1>2 DEF FlightOK, Request
      <4> QED BY <1>2, <1>3, <2>2, <4>1
    <3> QED BY <3>3, <3>5, <3>6 DEF Extends
  <2>7. \A i \in 1..Len(s) : /\ Shaped(stack'[i].list, nextSeq')
                             /\ Extends(stack'[i].list, flight')
    <3> TAKE i \in 1..Len(s)
    <3>1. CASE i = h
      BY <2>4, <2>5, <2>6, <3>1
    <3>2. CASE i # h
      <4>1. Shaped(s[i].list, nextSeq) /\ Extends(s[i].list, flight)
        BY <1>4, <3>2 DEF h
      <4> QED BY <1>4, <1>5, <1>6, <2>5, <3>2, <4>1
    <3> QED BY <3>1, <3>2
  <2>8. Apart(stack')
    <3>1. \A i \in 1..Len(s) : s[i].list.seq < nextSeq /\ s[i].list.seq \in Nat
      BY <1>4 DEF Aged, ThreadListState
    <3>2. stack'[h].list.seq = nextSeq
      BY <2>2, <2>4, <2>5
    <3>3. \A i \in 1..Len(s) : i # h => stack'[i].list.seq # nextSeq
      BY <1>2, <2>5, <3>1
    <3>4. \A i \in 1..Len(s) : i # h => stack'[i].list.seq = s[i].list.seq
      BY <2>5
    <3>5. SUFFICES ASSUME NEW i \in 1..Len(s), NEW j \in 1..Len(s), i # j,
                          stack'[i].list.seq = stack'[j].list.seq
                   PROVE  stack'[i].list.seq = 0
      BY <2>5 DEF Apart
    <3>6. i # h /\ j # h
      BY <3>2, <3>3, <3>5
    <3> QED BY <1>4, <3>4, <3>5, <3>6 DEF Apart
  <2>9. HomeFirst(stack')
    BY <1>4, <2>4, <2>5 DEF HomeFirst
  <2>10. stack' # <<>>
    BY <1>4, <2>1, <2>5
  <2> QED BY <1>1, <1>2, <1>3, <2>5, <2>7, <2>8, <2>9, <2>10
          DEF ListInv, ListTypeOK, Screens, HomeFirst
<1> QED BY <1>7, <1>8

LEMMA ListStackFacts ==
  ASSUME ListTypeOK
  PROVE  /\ stack \in Seq(Screens) /\ HomeFirst(stack)
         /\ Top \in Nat /\ Top >= 1 /\ DOMAIN stack = 1..Top
         /\ \A i \in 1..Top : stack[i] \in Screens /\ stack[i].list \in ThreadListState
<1>1. stack \in Seq(Screens) /\ HomeFirst(stack) /\ stack # <<>>
  BY DEF ListTypeOK, Screens, HomeFirst
<1>2. Top \in Nat /\ Top >= 1 /\ DOMAIN stack = 1..Top
      /\ \A i \in 1..Top : stack[i] \in Screens
  BY <1>1 DEF Top
<1> QED BY <1>1, <1>2 DEF Screens

\* One screen is replaced by another of its kind.
LEMMA OneChanged ==
  ASSUME NEW s \in Seq(Screens), HomeFirst(s), NEW i \in DOMAIN s,
         NEW c \in Screens, c.kind = s[i].kind
  PROVE  LET t == [s EXCEPT ![i] = c]
         IN  /\ t \in Seq(Screens) /\ t # <<>> /\ HomeFirst(t)
             /\ Len(t) = Len(s) /\ DOMAIN t = DOMAIN s
             /\ t[i] = c /\ \A j \in DOMAIN s : j # i => t[j] = s[j]
<1> DEFINE t == [s EXCEPT ![i] = c]
<1>1. /\ t \in Seq(Screens) /\ Len(t) = Len(s) /\ DOMAIN t = DOMAIN s
      /\ t[i] = c /\ \A j \in DOMAIN s : j # i => t[j] = s[j]
  OBVIOUS
<1>2. DOMAIN s = 1..Len(s)
  OBVIOUS
<1>3. HomeFirst(t)
  <2> HIDE DEF t
  <2> QED BY <1>1 DEF HomeFirst
<1>4. t # <<>>
  <2> HIDE DEF t
  <2> QED BY <1>1
<1> QED BY <1>1, <1>3, <1>4

\* ... and is left waiting for what it waited for.
LEMMA StillApart ==
  ASSUME NEW s, NEW t, DOMAIN t = DOMAIN s, Apart(s),
         \A j \in DOMAIN s : t[j].list.seq = s[j].list.seq
  PROVE  Apart(t)
BY DEF Apart

\* A screen opened on top.
LEMMA OnTop ==
  ASSUME NEW s \in Seq(Screens), s # <<>>, HomeFirst(s), Apart(s),
         NEW c \in Screens, c.kind # "home", c.list.seq = 0
  PROVE  LET t == Append(s, c)
         IN  /\ t \in Seq(Screens) /\ t # <<>> /\ HomeFirst(t) /\ Apart(t)
             /\ Len(t) = Len(s) + 1 /\ DOMAIN t = 1..(Len(s) + 1)
             /\ t[Len(s) + 1] = c /\ \A j \in DOMAIN s : t[j] = s[j]
<1> DEFINE t == Append(s, c)
<1>1. Len(s) \in Nat /\ Len(s) >= 1 /\ DOMAIN s = 1..Len(s)
  OBVIOUS
<1>2. /\ t \in Seq(Screens) /\ Len(t) = Len(s) + 1
      /\ t[Len(s) + 1] = c /\ \A j \in DOMAIN s : t[j] = s[j]
  OBVIOUS
<1> HIDE DEF t
<1>3. DOMAIN t = 1..(Len(s) + 1) /\ t # <<>>
  BY <1>1, <1>2
<1>4. \A j \in DOMAIN t : j \in DOMAIN s \/ (j = Len(s) + 1 /\ j # 1)
  BY <1>1, <1>3
<1>5. HomeFirst(t)
  BY <1>2, <1>3, <1>4 DEF HomeFirst
<1>6. Apart(t)
  BY <1>2, <1>3, <1>4 DEF Apart
<1> QED BY <1>2, <1>3, <1>5, <1>6 DEF t

\* A list with nothing in it.
LEMMA Nothing ==
  /\ EmptyList \in ThreadListState /\ Home \in Screens /\ Other \in Screens
  /\ \A next \in Nat \ {0} : Shaped(EmptyList, next)
  /\ \A others \in SUBSET Request : Extends(EmptyList, others)
<1> USE ThreadListAssumption
<1>1. EmptyList \in ThreadListState
  BY DEF EmptyList, ThreadListState
<1>2. Home \in Screens /\ Other \in Screens
  BY <1>1 DEF Home, Other, Screens
<1>3. ASSUME NEW next \in Nat \ {0} PROVE Shaped(EmptyList, next)
  BY <1>1 DEF Shaped, Aged, EmptyList
<1>4. ASSUME NEW others \in SUBSET Request PROVE Extends(EmptyList, others)
  <2>1. \A r \in others : r.seq # EmptyList.seq
    BY DEF Request, EmptyList
  <2>2. Window(EmptyList)
    BY DEF Window, EmptyList
  <2> QED BY <2>1, <2>2 DEF Extends
<1> QED BY <1>1, <1>2, <1>3, <1>4

LEMMA ListInvFacts ==
  ASSUME ListInv
  PROVE  /\ ListTypeOK /\ Apart(stack) /\ FlightOK(flight, nextSeq)
         /\ stack \in Seq(Screens) /\ HomeFirst(stack) /\ stack # <<>>
         /\ Top \in Nat /\ Top >= 1 /\ DOMAIN stack = 1..Top
         /\ \A i \in 1..Top : stack[i] \in Screens /\ stack[i].list \in ThreadListState
         /\ \A i \in 1..Top : /\ Aged(stack[i].list, nextSeq)
                              /\ Shaped(stack[i].list, nextSeq)
                              /\ Extends(stack[i].list, flight)
<1>1. /\ ListTypeOK /\ Apart(stack) /\ FlightOK(flight, nextSeq)
      /\ \A i \in DOMAIN stack :
           Shaped(stack[i].list, nextSeq) /\ Extends(stack[i].list, flight)
  BY DEF ListInv
<1>2. stack # <<>>
  BY <1>1 DEF ListTypeOK
<1>3. \A i \in DOMAIN stack : Aged(stack[i].list, nextSeq)
  BY <1>1 DEF Shaped
<1> QED BY <1>1, <1>2, <1>3, ListStackFacts

\* A load begun after one screen's list was made into m.
LEMMA LoadInto ==
  ASSUME ListInv, NEW i \in 1..Top, NEW m, NEW node \in Nodes, NEW page \in 0..MaxPage,
         LET s == [stack EXCEPT ![i].list = m]
         IN  /\ LoadForum(s, node, page)
             /\ \/ i = ListShowing(s, node)
                \/ Shaped(m, nextSeq) /\ Extends(m, flight),
         Aged(m, nextSeq), m.seq = stack[i].list.seq
  PROVE  ListInv'
<1> DEFINE c == [stack[i] EXCEPT !.list = m]
           s == [stack EXCEPT ![i] = c]
<1>1. s = [stack EXCEPT ![i].list = m]
  OBVIOUS
<1>2. c \in Screens /\ c.kind = stack[i].kind /\ c.list = m
  BY ListInvFacts DEF Screens, Aged
<1> HIDE DEF c
<1>3. /\ s \in Seq(Screens) /\ s # <<>> /\ HomeFirst(s) /\ DOMAIN s = 1..Top
      /\ s[i] = c /\ \A j \in 1..Top : j # i => s[j] = stack[j]
  BY <1>2, ListInvFacts, OneChanged
<1> HIDE DEF s
<1>4. LoadForum(s, node, page)
      /\ (i = ListShowing(s, node) \/ (Shaped(m, nextSeq) /\ Extends(m, flight)))
  BY <1>1
<1>5. Apart(s)
  <2>1. \A j \in 1..Top : s[j].list.seq = stack[j].list.seq
    BY <1>2, <1>3
  <2> QED BY <1>3, <2>1, ListInvFacts, StillApart
<1>6. \A j \in DOMAIN s :
        /\ Aged(s[j].list, nextSeq)
        /\ \/ j = ListShowing(s, node)
           \/ Shaped(s[j].list, nextSeq) /\ Extends(s[j].list, flight)
  <2> TAKE j \in DOMAIN s
  <2>1. CASE j = i
    BY <1>2, <1>3, <1>4, <2>1
  <2>2. CASE j # i
    BY <1>3, <2>2, ListInvFacts
  <2> QED BY <2>1, <2>2
<1>7. ListTypeOK /\ FlightOK(flight, nextSeq)
  BY ListInvFacts
<1> QED BY <1>3, <1>4, <1>5, <1>6, <1>7, LoadForumKeeps

\* One screen's list becomes m, and the requests become others.
LEMMA ListBecomes ==
  ASSUME ListInv, NEW i \in 1..Top, NEW m,
         stack' = [stack EXCEPT ![i].list = m], nextSeq' = nextSeq,
         Shaped(m, nextSeq), Extends(m, flight'), m.seq = stack[i].list.seq,
         flight' \subseteq Request, FlightOK(flight', nextSeq),
         \A j \in 1..Top : j # i => Extends(stack[j].list, flight')
  PROVE  ListInv'
<1> DEFINE c == [stack[i] EXCEPT !.list = m]
<1>1. stack' = [stack EXCEPT ![i] = c]
  OBVIOUS
<1>2. c \in Screens /\ c.kind = stack[i].kind /\ c.list = m
  BY ListInvFacts DEF Screens, Shaped, Aged
<1> HIDE DEF c
<1>3. /\ stack' \in Seq(Screens) /\ stack' # <<>> /\ HomeFirst(stack')
      /\ DOMAIN stack' = 1..Top
      /\ stack'[i] = c /\ \A j \in 1..Top : j # i => stack'[j] = stack[j]
  <2> DEFINE t == [stack EXCEPT ![i] = c]
  <2>1. /\ t \in Seq(Screens) /\ t # <<>> /\ HomeFirst(t) /\ DOMAIN t = 1..Top
        /\ t[i] = c /\ \A j \in 1..Top : j # i => t[j] = stack[j]
    BY <1>2, ListInvFacts, OneChanged
  <2>2. stack' = t
    BY <1>1
  <2> HIDE DEF t
  <2> QED BY <2>1, <2>2
<1>4. Apart(stack')
  <2>1. \A j \in 1..Top : stack'[j].list.seq = stack[j].list.seq
    BY <1>2, <1>3
  <2> QED BY <1>3, <2>1, ListInvFacts, StillApart
<1>5. \A j \in 1..Top : Shaped(stack'[j].list, nextSeq) /\ Extends(stack'[j].list, flight')
  BY <1>2, <1>3, ListInvFacts
<1>6. nextSeq \in 1..(MaxSeq + 1)
  BY ListInvFacts DEF ListTypeOK
<1> QED BY <1>3, <1>4, <1>5, <1>6 DEF ListInv, ListTypeOK, Screens, HomeFirst

LEMMA PrimeHomeListKeeps ==
  ASSUME ListInv, PrimeHomeList
  PROVE  ListInv'
<1> USE ThreadListAssumption
<1> DEFINE l == stack[1].list
           m == [l EXCEPT !.page = 1, !.loading = TRUE]
<1>1. l.held = <<>> /\ LoadForum([stack EXCEPT ![1].list = m], 0, 1)
  BY DEF PrimeHomeList
<1>2. l \in ThreadListState /\ Shaped(l, nextSeq) /\ Extends(l, flight) /\ 1 \in 1..Top
  BY ListInvFacts
<1> HIDE DEF l
<1>3. /\ m \in ThreadListState /\ m.seq = l.seq /\ m.held = <<>>
      /\ m.page = 1 /\ m.loaded = l.loaded
  <2>1. 1 \in 0..MaxPage
    OBVIOUS
  <2> QED BY <1>1, <1>2, <2>1 DEF ThreadListState
<1> HIDE DEF m
<1>4. Shaped(m, nextSeq) /\ Aged(m, nextSeq)
  <2>1. m.loaded \in 0..(MaxPage + 1) /\ m.loaded <= 1 /\ MaxPage >= 1
    BY <1>1, <1>2, <1>3 DEF Shaped, ThreadListState
  <2>2. m.page + m.loaded <= MaxPage + 1
    BY <1>3, <2>1
  <2>3. Aged(m, nextSeq)
    BY <1>2, <1>3 DEF Shaped, Aged
  <2> QED BY <1>3, <2>1, <2>2, <2>3 DEF Shaped
<1>5. Extends(m, flight)
  BY <1>1, <1>2, <1>3 DEF Extends, Window
<1>6. 0 \in Nodes /\ 1 \in 0..MaxPage /\ m.seq = stack[1].list.seq
  BY <1>3 DEF l
<1> QED BY <1>1, <1>2, <1>4, <1>5, <1>6, LoadInto

LEMMA PageKeyKeeps ==
  ASSUME ListInv, NEW page \in 0..MaxPage, PageKey(page)
  PROVE  ListInv'
<1> DEFINE l == stack[Top].list
           m == [l EXCEPT !.loading = TRUE]
<1>1. LoadForum([stack EXCEPT ![Top].list.loading = TRUE], l.node, page)
  BY DEF PageKey
<1>2. [stack EXCEPT ![Top].list.loading = TRUE] = [stack EXCEPT ![Top].list = m]
  OBVIOUS
<1>3. l \in ThreadListState /\ Shaped(l, nextSeq) /\ Extends(l, flight) /\ Top \in 1..Top
  BY ListInvFacts
<1> HIDE DEF l
<1>4. /\ m \in ThreadListState /\ m.seq = l.seq /\ m.held = l.held
      /\ m.page = l.page /\ m.loaded = l.loaded /\ l.node \in Nodes
  BY <1>3 DEF ThreadListState
<1> HIDE DEF m
<1>5. Shaped(m, nextSeq) /\ Aged(m, nextSeq)
  BY <1>3, <1>4 DEF Shaped, Aged
<1>6. Extends(m, flight)
  <2>1. m.node = l.node
    BY <1>3 DEF m, ThreadListState
  <2> QED BY <1>3, <1>4, <2>1 DEF Extends, Window
<1>7. m.seq = stack[Top].list.seq
  BY <1>4 DEF l
<1>8. LoadForum([stack EXCEPT ![Top].list = m], l.node, page)
  BY <1>1, <1>2
<1> QED BY <1>3, <1>4, <1>5, <1>6, <1>7, <1>8, LoadInto

\* The list shown is the topmost one that shows the forum.
LEMMA ShownAt ==
  ASSUME NEW s \in Seq(Screens), NEW node, NEW i \in DOMAIN s,
         HasList(s[i]), s[i].list.node = node,
         \A j \in DOMAIN s : (HasList(s[j]) /\ s[j].list.node = node) => j <= i
  PROVE  ListShowing(s, node) = i
<1> DEFINE h == ListShowing(s, node)
<1>1. h # 0
  <2>1. i \in {j \in DOMAIN s : HasList(s[j]) /\ s[j].list.node = node}
    OBVIOUS
  <2> DEFINE S == {j \in DOMAIN s : HasList(s[j]) /\ s[j].list.node = node}
  <2>2. S \in SUBSET (1..Len(s)) /\ Len(s) \in Nat /\ S # {}
    BY <2>1
  <2>3. h = Uppermost(S)
    BY <2>2 DEF ListShowing
  <2>4. h \in S
    <3> HIDE DEF S, h
    <3> QED BY <2>2, <2>3, UppermostIsIn
  <2> QED BY <2>4
<1>2. /\ h \in DOMAIN s /\ HasList(s[h]) /\ s[h].list.node = node
      /\ \A j \in DOMAIN s : (HasList(s[j]) /\ s[j].list.node = node) => j <= h
  BY <1>1, ShownIn
<1> HIDE DEF h
<1>3. h <= i /\ i <= h /\ i \in Nat /\ h \in Nat
  <2>1. DOMAIN s = 1..Len(s) /\ Len(s) \in Nat
    OBVIOUS
  <2> QED BY <1>2, <2>1
<1> QED BY <1>3 DEF h

LEMMA OpenInPaneKeeps ==
  ASSUME ListInv, NEW node \in Nodes, OpenInPane(node)
  PROVE  ListInv'
<1> USE ThreadListAssumption
<1> DEFINE l == stack[1].list
           m == [l EXCEPT !.node = node, !.page = 1, !.last = 1,
                          !.held = <<>>, !.loaded = 1, !.visible = 0,
                          !.error = FALSE, !.loading = TRUE]
           s == [stack EXCEPT ![1].list = m]
<1>1. Top = 1 /\ LoadForum(s, node, 1)
  BY DEF OpenInPane
<1>2. l \in ThreadListState /\ Aged(l, nextSeq) /\ 1 \in 1..Top /\ stack[1] \in Screens
  BY ListInvFacts
<1>3. stack \in Seq(Screens) /\ HomeFirst(stack) /\ DOMAIN stack = 1..1
  BY <1>1, ListInvFacts
<1>4. 1 \in 0..MaxPage /\ 1 \in 0..(MaxPage + 1) /\ <<>> \in Seq(Block) /\ 0 \in {0, Height}
  OBVIOUS
<1>5. m \in ThreadListState /\ m.seq = l.seq /\ m.held = <<>> /\ m.node = node
  <2> HIDE DEF l
  <2> QED BY <1>2, <1>4 DEF ThreadListState
<1>6. Aged(m, nextSeq)
  <2> HIDE DEF l, m
  <2> QED BY <1>2, <1>5 DEF Aged
<1>7. 1 = ListShowing(s, node)
  <2> DEFINE c == [stack[1] EXCEPT !.list = m]
  <2>1. s = [stack EXCEPT ![1] = c]
    OBVIOUS
  <2>2. c \in Screens /\ c.kind = stack[1].kind /\ c.list = m
    <3> HIDE DEF m
    <3> QED BY <1>2, <1>5 DEF Screens
  <2>3. c.kind = "home"
    BY <1>3, <2>2 DEF HomeFirst
  <2> HIDE DEF c, s
  <2>4. s \in Seq(Screens) /\ DOMAIN s = 1..1 /\ s[1] = c
    BY <1>3, <2>1, <2>2, OneChanged
  <2>5. HasList(s[1]) /\ s[1].list.node = node /\ 1 \in DOMAIN s
    <3> HIDE DEF m, l
    <3> QED BY <1>5, <2>2, <2>3, <2>4 DEF HasList
  <2>6. \A j \in DOMAIN s : j <= 1
    BY <2>4
  <2> QED BY <2>4, <2>5, <2>6, ShownAt
<1>8. m.seq = stack[1].list.seq
  BY <1>5
<1> HIDE DEF m, l
<1> QED BY <1>1, <1>2, <1>4, <1>6, <1>7, <1>8, LoadInto

LEMMA ThreadCreatedKeeps ==
  ASSUME ListInv, NEW node \in Nodes, ThreadCreated(node)
  PROVE  ListInv'
<1> USE ThreadListAssumption
<1> DEFINE i == Uppermost(Lists)
           l == stack[i].list
           m == [l EXCEPT !.node = node, !.page = 1]
           s == [stack EXCEPT ![i].list = m]
<1>1. LoadForum(IF l.node = node THEN stack ELSE s, node, 1)
  BY DEF ThreadCreated
<1>2. /\ stack \in Seq(Screens) /\ HomeFirst(stack) /\ stack # <<>> /\ Apart(stack)
      /\ Top \in Nat /\ Top >= 1 /\ DOMAIN stack = 1..Top
      /\ ListTypeOK /\ FlightOK(flight, nextSeq)
  BY ListInvFacts
<1>3. 1 \in 0..MaxPage
  OBVIOUS
<1>4. /\ i \in 1..Top /\ HasList(stack[i])
      /\ \A j \in 1..Top : HasList(stack[j]) => j <= i
  <2>1. 1 \in Lists /\ Lists \in SUBSET (1..Top)
    BY <1>2 DEF Lists, HasList, HomeFirst
  <2>2. i \in Lists /\ \A j \in Lists : j <= i
    BY <1>2, <2>1, UppermostIsIn
  <2> QED BY <1>2, <2>1, <2>2 DEF Lists
<1> HIDE DEF i
<1>5. CASE l.node = node
  <2>1. LoadForum(stack, node, 1)
    BY <1>1, <1>5
  <2>2. \A j \in DOMAIN stack :
          /\ Aged(stack[j].list, nextSeq)
          /\ \/ j = ListShowing(stack, node)
             \/ Shaped(stack[j].list, nextSeq) /\ Extends(stack[j].list, flight)
    BY ListInvFacts
  <2> QED BY <1>2, <1>3, <2>1, <2>2, LoadForumKeeps
<1>6. CASE l.node # node
  <2>1. l \in ThreadListState /\ Aged(l, nextSeq) /\ stack[i] \in Screens
    BY <1>4, ListInvFacts
  <2>2. m \in ThreadListState /\ m.seq = l.seq /\ m.held = l.held /\ m.node = node
    <3> HIDE DEF l
    <3> QED BY <1>3, <2>1 DEF ThreadListState
  <2>3. Aged(m, nextSeq)
    <3> HIDE DEF l, m
    <3> QED BY <2>1, <2>2 DEF Aged
  <2>4. LoadForum(s, node, 1)
    BY <1>1, <1>6
  <2>5. i = ListShowing(s, node)
    <3> DEFINE c == [stack[i] EXCEPT !.list = m]
    <3>1. s = [stack EXCEPT ![i] = c]
      OBVIOUS
    <3>2. c \in Screens /\ c.kind = stack[i].kind /\ c.list = m
      <4> HIDE DEF m
      <4> QED BY <2>1, <2>2 DEF Screens
    <3> HIDE DEF c, s
    <3>3. /\ s \in Seq(Screens) /\ DOMAIN s = 1..Top /\ s[i] = c
          /\ \A j \in 1..Top : j # i => s[j] = stack[j]
      BY <1>2, <1>4, <3>1, <3>2, OneChanged
    <3>4. HasList(s[i]) /\ s[i].list.node = node
      BY <1>4, <2>2, <3>2, <3>3 DEF HasList
    <3>5. \A j \in DOMAIN s : HasList(s[j]) => j <= i
      BY <1>4, <3>2, <3>3 DEF HasList
    <3> QED BY <1>4, <3>3, <3>4, <3>5, ShownAt
  <2>6. m.seq = stack[i].list.seq
    BY <2>2
  <2> HIDE DEF m, l
  <2> QED BY <1>3, <1>4, <2>3, <2>4, <2>5, <2>6, LoadInto
<1> QED BY <1>5, <1>6

LEMMA OpenPushedKeeps ==
  ASSUME ListInv, NEW node \in Nodes, OpenPushed(node)
  PROVE  ListInv'
<1> USE ThreadListAssumption
<1> DEFINE l == [EmptyList EXCEPT !.node = node, !.page = 1, !.loaded = 1,
                                  !.budget = FillBudget, !.loading = TRUE]
           c == [kind |-> "list", list |-> l]
           s == Append(stack, c)
<1>1. LoadForum(s, node, 1)
  BY DEF OpenPushed
<1>2. /\ stack \in Seq(Screens) /\ HomeFirst(stack) /\ stack # <<>> /\ Apart(stack)
      /\ Top \in Nat /\ Top >= 1 /\ DOMAIN stack = 1..Top
      /\ ListTypeOK /\ FlightOK(flight, nextSeq)
  BY ListInvFacts
<1>3. 1 \in 0..MaxPage /\ 1 \in 0..(MaxPage + 1) /\ FillBudget \in 0..FillBudget
      /\ nextSeq \in Nat \ {0}
  BY <1>2 DEF ListTypeOK
<1>4. l \in ThreadListState /\ l.seq = 0 /\ l.held = <<>> /\ l.node = node
  BY <1>3, Nothing DEF ThreadListState, EmptyList
<1>5. Aged(l, nextSeq)
  <2> HIDE DEF l
  <2> QED BY <1>3, <1>4 DEF Aged
<1> HIDE DEF l
<1>6. c \in Screens /\ c.kind # "home" /\ c.list = l /\ HasList(c)
  BY <1>4 DEF Screens, HasList
<1> HIDE DEF c
<1>7. /\ s \in Seq(Screens) /\ s # <<>> /\ HomeFirst(s) /\ Apart(s)
      /\ Len(s) = Top + 1 /\ DOMAIN s = 1..(Top + 1)
      /\ s[Top + 1] = c /\ \A j \in DOMAIN stack : s[j] = stack[j]
  BY <1>2, <1>4, <1>6, OnTop DEF Top
<1> HIDE DEF s
<1>8. ListShowing(s, node) = Top + 1
  <2>1. Top + 1 \in DOMAIN s /\ \A j \in DOMAIN s : j <= Top + 1
    BY <1>2, <1>7
  <2> QED BY <1>4, <1>6, <1>7, <2>1, ShownAt
<1>9. \A j \in DOMAIN s :
        /\ Aged(s[j].list, nextSeq)
        /\ \/ j = ListShowing(s, node)
           \/ Shaped(s[j].list, nextSeq) /\ Extends(s[j].list, flight)
  <2> TAKE j \in DOMAIN s
  <2>1. CASE j = Top + 1
    BY <1>5, <1>6, <1>7, <1>8, <2>1
  <2>2. CASE j # Top + 1
    <3>1. j \in 1..Top
      BY <1>2, <1>7, <2>2
    <3> QED BY <1>2, <1>7, <3>1, ListInvFacts
  <2> QED BY <2>1, <2>2
<1> QED BY <1>1, <1>2, <1>3, <1>7, <1>9, LoadForumKeeps

\* The steps that send nothing.
LEMMA OpenOtherKeeps ==
  ASSUME ListInv, OpenOther
  PROVE  ListInv'
<1>1. stack' = Append(stack, Other) /\ flight' = flight /\ nextSeq' = nextSeq
  BY DEF OpenOther
<1>2. /\ stack \in Seq(Screens) /\ HomeFirst(stack) /\ stack # <<>> /\ Apart(stack)
      /\ Top \in Nat /\ Top >= 1 /\ DOMAIN stack = 1..Top
      /\ ListTypeOK /\ FlightOK(flight, nextSeq)
  BY ListInvFacts
<1>3. Other \in Screens /\ Other.kind # "home" /\ Other.list = EmptyList
      /\ Other.list.seq = 0
  BY Nothing DEF Other, EmptyList
<1>4. /\ stack' \in Seq(Screens) /\ stack' # <<>> /\ HomeFirst(stack') /\ Apart(stack')
      /\ DOMAIN stack' = 1..(Top + 1)
      /\ stack'[Top + 1] = Other /\ \A j \in 1..Top : stack'[j] = stack[j]
  <2> DEFINE t == Append(stack, Other)
  <2>1. /\ t \in Seq(Screens) /\ t # <<>> /\ HomeFirst(t) /\ Apart(t)
        /\ DOMAIN t = 1..(Top + 1)
        /\ t[Top + 1] = Other /\ \A j \in 1..Top : t[j] = stack[j]
    BY <1>2, <1>3, OnTop DEF Top
  <2>2. stack' = t
    BY <1>1
  <2> HIDE DEF t
  <2> QED BY <2>1, <2>2
<1>5. nextSeq \in Nat \ {0} /\ flight \subseteq Request /\ nextSeq \in 1..(MaxSeq + 1)
  BY <1>2 DEF ListTypeOK
<1>6. Shaped(EmptyList, nextSeq) /\ Extends(EmptyList, flight)
  BY <1>5, Nothing
<1>7. \A j \in 1..(Top + 1) : Shaped(stack'[j].list, nextSeq) /\ Extends(stack'[j].list, flight)
  <2> TAKE j \in 1..(Top + 1)
  <2>1. CASE j = Top + 1
    BY <1>3, <1>4, <1>6, <2>1
  <2>2. CASE j # Top + 1
    <3>1. j \in 1..Top
      BY <1>2, <2>2
    <3> QED BY <1>4, <3>1, ListInvFacts
  <2> QED BY <2>1, <2>2
<1> QED BY <1>1, <1>2, <1>4, <1>5, <1>7 DEF ListInv, ListTypeOK, Screens, HomeFirst

LEMMA LeaveKeeps ==
  ASSUME ListInv, Leave
  PROVE  ListInv'
<1>1. Top > 1 /\ stack' = SubSeq(stack, 1, Top - 1) /\ flight' = flight /\ nextSeq' = nextSeq
  BY DEF Leave
<1>2. /\ stack \in Seq(Screens) /\ HomeFirst(stack) /\ stack # <<>> /\ Apart(stack)
      /\ Top \in Nat /\ DOMAIN stack = 1..Top
      /\ ListTypeOK /\ FlightOK(flight, nextSeq)
  BY ListInvFacts
<1>3. /\ stack' \in Seq(Screens) /\ Len(stack') = Top - 1 /\ DOMAIN stack' = 1..(Top - 1)
      /\ \A j \in 1..(Top - 1) : stack'[j] = stack[j]
  <2>1. \A j \in 1..(Top - 1) : j \in 1..Top /\ stack[j] \in Screens
    BY <1>2
  <2> QED BY <1>1, <1>2, <2>1 DEF Top
<1>4. stack' # <<>>
  BY <1>1, <1>2, <1>3
<1>5. \A j \in 1..(Top - 1) : j \in 1..Top
  BY <1>2
<1>6. HomeFirst(stack') /\ Apart(stack')
  BY <1>2, <1>3, <1>5 DEF HomeFirst, Apart
<1>7. \A j \in 1..(Top - 1) : Shaped(stack'[j].list, nextSeq) /\ Extends(stack'[j].list, flight)
  BY <1>3, <1>5, ListInvFacts
<1>8. flight \subseteq Request /\ nextSeq \in 1..(MaxSeq + 1)
  BY <1>2 DEF ListTypeOK
<1> QED BY <1>1, <1>2, <1>3, <1>4, <1>6, <1>7, <1>8 DEF ListInv, ListTypeOK, Screens, HomeFirst

LEMMA RenderKeeps ==
  ASSUME ListInv, Render
  PROVE  ListInv'
<1> DEFINE l == stack[Top].list
           m == [l EXCEPT !.visible = Height]
<1>1. stack' = [stack EXCEPT ![Top].list = m] /\ flight' = flight /\ nextSeq' = nextSeq
  BY DEF Render
<1>2. l \in ThreadListState /\ Shaped(l, nextSeq) /\ Extends(l, flight) /\ Top \in 1..Top
  BY ListInvFacts
<1>3. /\ m \in ThreadListState /\ m.seq = l.seq /\ m.held = l.held /\ m.node = l.node
      /\ m.page = l.page /\ m.loaded = l.loaded
  <2> HIDE DEF l
  <2> QED BY <1>2 DEF ThreadListState
<1>4. m.seq = stack[Top].list.seq
  BY <1>3
<1> HIDE DEF l, m
<1>5. Shaped(m, nextSeq) /\ Extends(m, flight)
  BY <1>2, <1>3 DEF Shaped, Aged, Extends, Window
<1>6. flight \subseteq Request /\ FlightOK(flight, nextSeq)
  BY ListInvFacts DEF ListTypeOK
<1> QED BY <1>1, <1>2, <1>4, <1>5, <1>6, ListInvFacts, ListBecomes

\* Lists that wait for the same load are one list.
LEMMA OneWaits ==
  ASSUME ListInv, NEW i \in 1..Top, NEW j \in 1..Top, i # j,
         stack[i].list.seq # 0
  PROVE  stack[j].list.seq # stack[i].list.seq
BY ListInvFacts DEF Apart

LEMMA AutoloadMoreKeeps ==
  ASSUME ListInv, AutoloadMore
  PROVE  ListInv'
<1> USE ThreadListAssumption
<1> DEFINE l == stack[Top].list
           m == [l EXCEPT !.loading = TRUE]
<1>1. /\ NextPage(l) <= l.last /\ l.held # <<>> /\ Cardinality(flight) < MaxFlight
      /\ flight' = SentBesides(flight, l.node, NextPage(l), TRUE, l.seq)
      /\ nextSeq' = nextSeq
  BY DEF AutoloadMore, CanSend
<1>2. stack' = [stack EXCEPT ![Top].list = m]
  BY DEF AutoloadMore
<1>3. l \in ThreadListState /\ Shaped(l, nextSeq) /\ Extends(l, flight) /\ Top \in 1..Top
  BY ListInvFacts
<1>4. /\ m \in ThreadListState /\ m.seq = l.seq /\ m.held = l.held /\ m.node = l.node
      /\ m.page = l.page /\ m.loaded = l.loaded
  <2> HIDE DEF l
  <2> QED BY <1>3 DEF ThreadListState
<1>5. m.seq = stack[Top].list.seq
  BY <1>4
<1> HIDE DEF m
<1>6. l.seq \in 1..MaxSeq /\ l.seq < nextSeq /\ l.node \in Nodes /\ NextPage(l) \in 0..MaxPage
  <2> HIDE DEF l
  <2>1. l.seq \in 0..MaxSeq /\ l.seq # 0 /\ l.seq < nextSeq /\ l.node \in Nodes
    BY <1>1, <1>3 DEF Shaped, Aged, ThreadListState
  <2>2. l.page \in 0..MaxPage /\ l.loaded \in 0..(MaxPage + 1) /\ l.last \in 0..MaxPage
    BY <1>3 DEF ThreadListState
  <2>3. NextPage(l) \in Nat
    BY <2>2 DEF NextPage, AtLeastOne
  <2> QED BY <1>1, <2>1, <2>2, <2>3
<1> DEFINE page == NextPage(l)
<1>7. /\ flight' \subseteq Request /\ FlightOK(flight', nextSeq)
      /\ \A r \in flight' : r \in flight \/ r.seq = l.seq
  <2> DEFINE seq == l.seq  node == l.node
  <2>1. /\ flight \in SUBSET Request /\ FlightOK(flight, nextSeq) /\ Cardinality(flight) < MaxFlight
        /\ seq \in 1..MaxSeq /\ seq < nextSeq /\ node \in Nodes /\ page \in 0..MaxPage
    BY <1>1, <1>6, ListInvFacts DEF ListTypeOK
  <2>2. flight' = SentBesides(flight, node, page, TRUE, seq)
    BY <1>1
  <2> HIDE DEF seq, node, page
  <2> DEFINE sent == SentBesides(flight, node, page, TRUE, seq)
  <2>4. /\ sent \subseteq Request /\ FlightOK(sent, nextSeq)
        /\ \A r \in sent : r \in flight \/ r.seq = seq
    BY <2>1, SentFill
  <2> HIDE DEF sent
  <2>5. flight' = sent
    BY <2>2 DEF sent
  <2> QED BY <2>4, <2>5 DEF seq
<1> HIDE DEF page
<1>8. Shaped(m, nextSeq) /\ Extends(m, flight')
  <2> HIDE DEF l
  <2>1. Shaped(m, nextSeq)
    BY <1>3, <1>4 DEF Shaped, Aged
  <2>2. Window(m)
    BY <1>3, <1>4 DEF Extends, Window
  <2> QED BY <1>1, <1>4, <2>1, <2>2 DEF Extends
<1>9. ASSUME NEW j \in 1..Top, j # Top PROVE Extends(stack[j].list, flight')
  <2>1. stack[j].list.seq # l.seq
    <3>1. stack[Top].list.seq # 0
      BY <1>6
    <3> QED BY <1>3, <1>9, <3>1, OneWaits
  <2>2. Extends(stack[j].list, flight)
    BY ListInvFacts
  <2> HIDE DEF l
  <2> QED BY <1>7, <2>1, <2>2 DEF Extends
<1> HIDE DEF l
<1> QED BY <1>1, <1>2, <1>3, <1>5, <1>7, <1>8, <1>9, ListBecomes

\* Who a reply is for: the topmost list of its forum, if it waits for that load.
LEMMA AwaitingFacts ==
  ASSUME ListInv, NEW r \in flight
  PROVE  \/ Awaiting(r) = {}
         \/ \E i \in 1..Top : /\ Awaiting(r) = {i}
                              /\ stack[i].list.node = r.node /\ stack[i].list.seq = r.seq
<1>1. stack \in Seq(Screens) /\ DOMAIN stack = 1..Top
  BY ListInvFacts
<1> DEFINE i == ListShowing(stack, r.node)
<1>2. i = 0 \/ (i \in 1..Top /\ stack[i].list.node = r.node)
  BY <1>1, ShownIn
<1> QED BY <1>2 DEF Awaiting

LEMMA Appended ==
  ASSUME NEW T, NEW s \in Seq(T), NEW e \in T
  PROVE  LET t == Append(s, e)
         IN  /\ t \in Seq(T) /\ Len(t) = Len(s) + 1 /\ t # <<>>
             /\ Len(s) \in Nat /\ DOMAIN t = 1..(Len(s) + 1)
             /\ DOMAIN s = 1..Len(s)
             /\ t[Len(s) + 1] = e
             /\ \A k \in 1..Len(s) : t[k] = s[k]
             /\ s # <<>> => Head(t) = Head(s)
             /\ t = [k \in 1..(Len(s) + 1) |-> t[k]]
<1> DEFINE t == Append(s, e)
<1>1. /\ t \in Seq(T) /\ Len(t) = Len(s) + 1 /\ Len(s) \in Nat
      /\ DOMAIN s = 1..Len(s) /\ t[Len(s) + 1] = e
      /\ \A k \in 1..Len(s) : t[k] = s[k]
  OBVIOUS
<1> HIDE DEF t
<1>2. DOMAIN t = 1..(Len(s) + 1) /\ t # <<>>
  BY <1>1
<1>3. s # <<>> => Head(t) = Head(s)
  <2>1. s # <<>> => 1 \in 1..Len(s) /\ Head(s) = s[1]
    BY <1>1
  <2>2. Head(t) = t[1]
    BY <1>1, <1>2
  <2> QED BY <1>1, <2>1, <2>2
<1>4. t = [k \in 1..(Len(s) + 1) |-> t[k]]
  BY <1>1, <1>2
<1> QED BY <1>1, <1>2, <1>3, <1>4 DEF t

\* What the reply makes of that list.
LEMMA AdoptedFacts ==
  ASSUME NEW l \in ThreadListState, NEW r \in Request, NEW last \in Pages,
         NEW next \in Nat, NEW others \in SUBSET Request, r \in others,
         Shaped(l, next), Extends(l, others), l.node = r.node, l.seq = r.seq
  PROVE  LET m == Adopted(l, r, last)
         IN  /\ m \in ThreadListState /\ m.seq = l.seq /\ m.held # <<>>
             /\ m.last = last /\ m.node = l.node /\ m.budget = l.budget
             /\ Shaped(m, next) /\ Window(m)
<1> USE ThreadListAssumption
<1> DEFINE m == Adopted(l, r, last)
           b == BlockOf(r)
<1>1. /\ l.held \in Seq(Block) /\ l.page \in 0..MaxPage /\ l.loaded \in 0..(MaxPage + 1)
      /\ l.seq \in 0..MaxSeq /\ last \in 0..MaxPage /\ r.page \in 0..MaxPage
      /\ r.seq \in 1..MaxSeq /\ r.node \in Nodes /\ r.append \in BOOLEAN
  BY DEF ThreadListState, Pages, Request
<1>2. b \in Block /\ b.seq = l.seq /\ b.node = l.node /\ b.page = r.page
  BY <1>1 DEF BlockOf, Block
<1>3. l.seq < next /\ l.seq # 0 /\ \A k \in DOMAIN l.held : l.held[k].seq < next
  BY <1>1 DEF Shaped, Aged
<1> HIDE DEF b
<1>4. CASE r.append /\ r.page = l.page + l.loaded
  <2> DEFINE held == Append(l.held, b)
             n == [l EXCEPT !.held = held, !.loaded = l.loaded + 1, !.last = last,
                            !.loading = FALSE, !.error = FALSE]
  <2>1. m = n
    BY <1>4 DEF Adopted, b, ThreadListState
  <2>2. l.held # <<>>
    BY <1>4 DEF Extends
  <2>3. /\ held \in Seq(Block) /\ Len(held) = Len(l.held) + 1 /\ held # <<>>
        /\ Len(l.held) \in Nat /\ DOMAIN held = 1..(Len(l.held) + 1)
        /\ held[Len(l.held) + 1] = b
        /\ \A k \in 1..Len(l.held) : held[k] = l.held[k]
        /\ l.held # <<>> => Head(held) = Head(l.held)
        /\ held = [k \in 1..(Len(l.held) + 1) |-> held[k]]
        /\ DOMAIN l.held = 1..Len(l.held)
    <3> DEFINE was == l.held
    <3>1. was \in Seq(Block) /\ b \in Block
      BY <1>1, <1>2
    <3> HIDE DEF was
    <3> DEFINE then == Append(was, b)
    <3>2. /\ then \in Seq(Block) /\ Len(then) = Len(was) + 1 /\ then # <<>>
          /\ Len(was) \in Nat /\ DOMAIN then = 1..(Len(was) + 1)
          /\ DOMAIN was = 1..Len(was)
          /\ then[Len(was) + 1] = b
          /\ \A k \in 1..Len(was) : then[k] = was[k]
          /\ was # <<>> => Head(then) = Head(was)
          /\ then = [k \in 1..(Len(was) + 1) |-> then[k]]
      BY <3>1, Appended
    <3>3. held = then
      BY DEF was
    <3> HIDE DEF then, held
    <3> QED BY <3>2, <3>3 DEF was
  <2>4. l.loaded + 1 \in 0..(MaxPage + 1) /\ l.page + (l.loaded + 1) <= MaxPage + 1
    <3> DEFINE p == l.page  n1 == l.loaded
    <3>1. p \in Nat /\ n1 \in Nat /\ p + n1 <= MaxPage /\ MaxPage \in Nat
      BY <1>1, <1>4
    <3> HIDE DEF p, n1
    <3>2. n1 + 1 \in 0..(MaxPage + 1) /\ p + (n1 + 1) <= MaxPage + 1
      BY <3>1
    <3> QED BY <3>2 DEF p, n1
  <2> HIDE DEF held
  <2>5. /\ n \in ThreadListState /\ n.seq = l.seq /\ n.held = held /\ n.node = l.node
        /\ n.loaded = l.loaded + 1 /\ n.last = last /\ n.page = l.page
        /\ n.budget = l.budget
    BY <1>1, <2>3, <2>4 DEF ThreadListState
  <2> HIDE DEF n
  <2>6. Shaped(n, next)
    <3>1. \A k \in DOMAIN held : held[k].seq < next
      <4> TAKE k \in DOMAIN held
      <4>1. CASE k = Len(l.held) + 1
        BY <1>2, <1>3, <2>3, <4>1
      <4>2. CASE k # Len(l.held) + 1
        <5>1. k \in 1..Len(l.held) /\ DOMAIN l.held = 1..Len(l.held)
          BY <1>1, <2>3, <4>2
        <5> QED BY <1>3, <2>3, <5>1
      <4> QED BY <4>1, <4>2
    <3> QED BY <1>3, <2>3, <2>4, <2>5, <3>1 DEF Shaped, Aged
  <2>7. Window(n)
    <3>1. SUFFICES ASSUME Head(held).seq = n.seq
                   PROVE  held = [k \in 1..n.loaded |->
                            [seq |-> n.seq, node |-> n.node, page |-> n.page + k - 1]]
      BY <2>5 DEF Window
    <3>2. Head(held) = Head(l.held)
      BY <2>2, <2>3
    <3>3. l.held = [k \in 1..l.loaded |->
                     [seq |-> l.seq, node |-> l.node, page |-> l.page + k - 1]]
      BY <2>2, <2>5, <3>1, <3>2 DEF Extends, Window
    <3>4. Len(l.held) = l.loaded
      <4>1. DOMAIN l.held = 1..l.loaded /\ l.loaded \in Nat
        BY <1>1, <3>3
      <4>2. DOMAIN l.held = 1..Len(l.held) /\ Len(l.held) \in Nat
        BY <1>1
      <4> QED BY <4>1, <4>2
    <3>5. \A k \in 1..n.loaded :
            held[k] = [seq |-> n.seq, node |-> n.node, page |-> n.page + k - 1]
      <4> TAKE k \in 1..n.loaded
      <4>1. CASE k = l.loaded + 1
        <5>1. b = [seq |-> l.seq, node |-> l.node, page |-> r.page]
          BY <1>2 DEF Block
        <5>2. r.page = l.page + k - 1
          BY <1>1, <1>4, <4>1
        <5> QED BY <2>3, <2>5, <3>4, <4>1, <5>1, <5>2
      <4>2. CASE k # l.loaded + 1
        <5>1. k \in 1..l.loaded
          BY <1>1, <2>5, <4>2
        <5>2. l.held[k] = [seq |-> l.seq, node |-> l.node, page |-> l.page + k - 1]
          BY <3>3, <5>1
        <5>3. held[k] = l.held[k]
          BY <2>3, <3>4, <5>1
        <5> QED BY <2>5, <5>2, <5>3
      <4> QED BY <4>1, <4>2
    <3>7. held = [k \in 1..n.loaded |-> held[k]]
      BY <2>3, <2>5, <3>4
    <3> QED BY <3>5, <3>7
  <2> QED BY <2>1, <2>3, <2>5, <2>6, <2>7
<1>5. CASE ~(r.append /\ r.page = l.page + l.loaded)
  <2> DEFINE held == <<b>>
             n == [l EXCEPT !.held = held, !.page = r.page, !.loaded = 1, !.last = last,
                            !.loading = FALSE, !.error = FALSE]
  <2>1. m = n
    BY <1>5 DEF Adopted, b, ThreadListState
  <2>2. /\ held \in Seq(Block) /\ held # <<>> /\ DOMAIN held = 1..1 /\ held[1] = b
        /\ Head(held) = b
    BY <1>2
  <2> HIDE DEF held
  <2>3. 1 \in 0..(MaxPage + 1) /\ r.page + 1 <= MaxPage + 1
    BY <1>1
  <2>4. /\ n \in ThreadListState /\ n.seq = l.seq /\ n.held = held /\ n.node = l.node
        /\ n.loaded = 1 /\ n.last = last /\ n.page = r.page /\ n.budget = l.budget
    BY <1>1, <2>2, <2>3 DEF ThreadListState
  <2> HIDE DEF n
  <2>5. Shaped(n, next)
    BY <1>2, <1>3, <2>2, <2>3, <2>4 DEF Shaped, Aged
  <2>6. Window(n)
    <3>1. b = [seq |-> n.seq, node |-> n.node, page |-> n.page]
      BY <1>2, <2>4 DEF Block
    <3>2. \A k \in 1..1 : n.page + k - 1 = n.page
      BY <1>1, <2>4
    <3>3. held = [k \in 1..1 |-> held[k]]
      BY <2>2
    <3>4. \A k \in 1..1 :
            held[k] = [seq |-> n.seq, node |-> n.node, page |-> n.page + k - 1]
      BY <2>2, <3>1, <3>2
    <3> QED BY <2>4, <3>3, <3>4 DEF Window
  <2> QED BY <2>1, <2>2, <2>4, <2>5, <2>6
<1> QED BY <1>4, <1>5

LEMMA FewerAwaited ==
  ASSUME NEW l, NEW others, NEW fewer \in SUBSET others, Extends(l, others)
  PROVE  Extends(l, fewer)
BY DEF Extends

LEMMA ForumLoadedKeeps ==
  ASSUME ListInv, NEW r \in flight, NEW last \in Pages, ForumLoaded(r, last)
  PROVE  ListInv'
<1> USE ThreadListAssumption
<1> DEFINE rest == flight \ {r}
<1>1. /\ ListTypeOK /\ flight \in SUBSET Request /\ r \in Request
      /\ FlightOK(flight, nextSeq) /\ nextSeq \in Nat
      /\ nextSeq' = nextSeq
  <2>1. ListTypeOK /\ FlightOK(flight, nextSeq)
    BY ListInvFacts
  <2>2. nextSeq \in Nat /\ flight \in SUBSET Request
    BY <2>1 DEF ListTypeOK
  <2>3. nextSeq' = nextSeq
    BY DEF ForumLoaded
  <2> QED BY <2>1, <2>2, <2>3
<1>2. /\ FlightOK(rest, nextSeq) /\ Cardinality(rest) < MaxFlight
      /\ rest \in SUBSET Request /\ rest \in SUBSET flight
  BY <1>1, OneLess
<1>3. \A j \in 1..Top : Extends(stack[j].list, rest)
  BY <1>2, ListInvFacts, FewerAwaited
<1> HIDE DEF rest
<1>4. CASE Awaiting(r) = {}
  <2>1. stack' = stack /\ flight' = rest
    BY <1>4 DEF ForumLoaded, rest
  <2>2. /\ stack # <<>> /\ stack \in Seq(Screens) /\ HomeFirst(stack) /\ Apart(stack)
        /\ DOMAIN stack = 1..Top /\ nextSeq \in 1..(MaxSeq + 1)
        /\ \A j \in 1..Top : Shaped(stack[j].list, nextSeq)
    BY ListInvFacts DEF ListTypeOK
  <2> QED BY <1>1, <1>2, <1>3, <2>1, <2>2 DEF ListInv, ListTypeOK, Screens, HomeFirst
<1>5. ASSUME NEW i \in 1..Top, Awaiting(r) = {i},
             stack[i].list.node = r.node, stack[i].list.seq = r.seq
      PROVE  ListInv'
  <2> DEFINE was == stack[i].list
             l == Adopted(was, r, last)
             m == [l EXCEPT !.budget = @ - 1, !.loading = TRUE]
  <2>1. IF WantsFill(l)
        THEN /\ stack' = [stack EXCEPT ![i].list = m]
             /\ flight' = SentBesides(rest, l.node, l.page + l.loaded, TRUE, r.seq)
        ELSE /\ stack' = [stack EXCEPT ![i].list = l]
             /\ flight' = rest
    BY <1>5 DEF ForumLoaded, rest
  <2>2. /\ was \in ThreadListState /\ Shaped(was, nextSeq) /\ Extends(was, flight)
        /\ was.node = r.node /\ was.seq = r.seq
    BY <1>5, ListInvFacts
  <2>3. \A j \in 1..Top : j # i => stack[j].list.seq # r.seq
    <3>1. stack[i].list.seq # 0
      BY <1>1, <1>5 DEF Request
    <3> QED BY <1>5, <3>1, OneWaits
  <2>4. stack[i].list.seq = was.seq
    OBVIOUS
  <2> HIDE DEF was
  <2>5. /\ l \in ThreadListState /\ l.seq = was.seq /\ l.held # <<>>
        /\ l.last = last /\ l.node = was.node /\ l.budget = was.budget
        /\ Shaped(l, nextSeq) /\ Window(l)
    BY <1>1, <2>2, AdoptedFacts
  <2> HIDE DEF l
  <2>6. CASE ~WantsFill(l)
    <3>1. stack' = [stack EXCEPT ![i].list = l] /\ flight' = rest
      BY <2>1, <2>6
    <3>2. Extends(l, rest) /\ l.seq = stack[i].list.seq
      BY <2>4, <2>5 DEF Extends
    <3>3. /\ flight' \subseteq Request /\ FlightOK(flight', nextSeq)
          /\ Extends(l, flight') /\ Shaped(l, nextSeq)
          /\ \A j \in 1..Top : j # i => Extends(stack[j].list, flight')
      BY <1>2, <1>3, <2>5, <3>1, <3>2
    <3> QED BY <1>1, <1>5, <3>1, <3>2, <3>3, ListBecomes
  <2>7. CASE WantsFill(l)
    <3>1. /\ stack' = [stack EXCEPT ![i].list = m]
          /\ flight' = SentBesides(rest, l.node, l.page + l.loaded, TRUE, r.seq)
      BY <2>1, <2>7
    <3>2. /\ l.budget \in 0..FillBudget /\ l.budget > 0 /\ l.node \in Nodes
          /\ l.page + l.loaded <= l.last /\ l.page \in 0..MaxPage
          /\ l.loaded \in 0..(MaxPage + 1) /\ l.last \in 0..MaxPage
      BY <2>5, <2>7 DEF WantsFill, ThreadListState
    <3>3. l.budget - 1 \in 0..FillBudget /\ l.page + l.loaded \in 0..MaxPage
      <4> DEFINE x == l.budget  y == l.page  z == l.loaded  w == l.last
      <4>1. /\ x \in 0..FillBudget /\ x > 0 /\ y + z <= w /\ y \in 0..MaxPage
            /\ z \in 0..(MaxPage + 1) /\ w \in 0..MaxPage /\ FillBudget \in Nat
            /\ MaxPage \in Nat
        BY <3>2
      <4> HIDE DEF x, y, z, w
      <4>2. x - 1 \in 0..FillBudget /\ y + z \in 0..MaxPage
        BY <4>1
      <4> QED BY <4>2 DEF x, y, z
    <3>4. /\ m \in ThreadListState /\ m.seq = l.seq /\ m.held = l.held /\ m.node = l.node
          /\ m.page = l.page /\ m.loaded = l.loaded
      BY <2>5, <3>3 DEF ThreadListState
    <3> HIDE DEF m
    <3>5. Shaped(m, nextSeq) /\ Window(m) /\ m.held # <<>>
      BY <2>5, <3>4 DEF Shaped, Aged, Window
    <3>6. /\ flight' \subseteq Request /\ FlightOK(flight', nextSeq)
          /\ \A q \in flight' : q \in rest \/ q.seq = r.seq
      <4> DEFINE page == l.page + l.loaded  seq == r.seq  node == l.node
                 sent == SentBesides(rest, node, page, TRUE, seq)
      <4>1. /\ seq \in 1..MaxSeq /\ seq < nextSeq /\ node \in Nodes /\ page \in 0..MaxPage
        BY <1>1, <3>2, <3>3 DEF FlightOK, Request
      <4>2. flight' = sent
        BY <3>1
      <4> HIDE DEF page, seq, node
      <4>3. /\ sent \subseteq Request /\ FlightOK(sent, nextSeq)
            /\ \A q \in sent : q \in rest \/ q.seq = seq
        BY <1>2, <4>1, SentFill
      <4> HIDE DEF sent
      <4> QED BY <4>2, <4>3 DEF seq
    <3>7. Extends(m, flight')
      BY <3>5 DEF Extends
    <3>8. ASSUME NEW j \in 1..Top, j # i PROVE Extends(stack[j].list, flight')
      <4>1. stack[j].list.seq # r.seq /\ Extends(stack[j].list, rest)
        BY <1>3, <2>3, <3>8
      <4> QED BY <3>6, <4>1 DEF Extends
    <3>9. m.seq = stack[i].list.seq
      BY <2>4, <2>5, <3>4
    <3> QED BY <1>1, <1>5, <3>1, <3>5, <3>6, <3>7, <3>8, <3>9, ListBecomes
  <2> QED BY <2>6, <2>7
<1> QED BY <1>4, <1>5, AwaitingFacts

LEMMA ForumFailedKeeps ==
  ASSUME ListInv, NEW r \in flight, ForumFailed(r)
  PROVE  ListInv'
<1> DEFINE rest == flight \ {r}
<1>1. /\ ListTypeOK /\ flight \in SUBSET Request /\ FlightOK(flight, nextSeq)
      /\ nextSeq' = nextSeq /\ flight' = rest
  <2>1. ListTypeOK /\ FlightOK(flight, nextSeq)
    BY ListInvFacts
  <2> QED BY <2>1 DEF ListTypeOK, ForumFailed
<1>2. FlightOK(rest, nextSeq) /\ rest \in SUBSET Request /\ rest \in SUBSET flight
  BY <1>1, OneLess
<1>3. \A j \in 1..Top : Extends(stack[j].list, rest)
  BY <1>2, ListInvFacts, FewerAwaited
<1> HIDE DEF rest
<1>4. /\ stack # <<>> /\ stack \in Seq(Screens) /\ HomeFirst(stack) /\ Apart(stack)
      /\ DOMAIN stack = 1..Top /\ Top \in Nat /\ nextSeq \in 1..(MaxSeq + 1)
      /\ \A j \in 1..Top : Shaped(stack[j].list, nextSeq) /\ stack[j] \in Screens
  BY ListInvFacts DEF ListTypeOK
<1>6. CASE Awaiting(r) = {}
  <2>1. stack' = stack
    BY <1>6 DEF ForumFailed
  <2> QED BY <1>1, <1>2, <1>3, <1>4, <2>1 DEF ListInv, ListTypeOK, Screens, HomeFirst
<1>7. ASSUME NEW i \in 1..Top, Awaiting(r) = {i} PROVE ListInv'
  <2> DEFINE l == stack[i].list
             error == l.error \/ ~r.append
             m == [l EXCEPT !.loading = FALSE, !.error = error]
  <2>1. stack' = [stack EXCEPT ![i].list = m]
    BY <1>7 DEF ForumFailed
  <2>2. l \in ThreadListState /\ Shaped(l, nextSeq) /\ Extends(l, rest)
    BY <1>3, ListInvFacts
  <2>3. l.seq = stack[i].list.seq
    OBVIOUS
  <2> HIDE DEF l
  <2>4. error \in BOOLEAN
    OBVIOUS
  <2> HIDE DEF error
  <2>5. /\ m \in ThreadListState /\ m.seq = l.seq /\ m.held = l.held /\ m.node = l.node
        /\ m.page = l.page /\ m.loaded = l.loaded
    BY <2>2, <2>4 DEF ThreadListState
  <2> HIDE DEF m
  <2>6. Shaped(m, nextSeq) /\ Extends(m, rest)
    BY <2>2, <2>5 DEF Shaped, Aged, Extends, Window
  <2>7. /\ flight' \subseteq Request /\ FlightOK(flight', nextSeq) /\ Extends(m, flight')
        /\ Shaped(m, nextSeq) /\ m.seq = stack[i].list.seq
        /\ \A j \in 1..Top : j # i => Extends(stack[j].list, flight')
    BY <1>1, <1>2, <1>3, <2>3, <2>5, <2>6
  <2> QED BY <1>1, <1>7, <2>1, <2>7, ListBecomes
<1> QED BY <1>6, <1>7, AwaitingFacts
----------------------------------------------------------------------------
\* Whatever the keys, the answers and their order, every list is a window of
\* its forum, was loaded under a number of its own, and is extended only
\* where it has rows (load_forum, ForumLoaded, autoload_more).
THEOREM ListInvariance == ListSpec => []ListInv
<1> USE ThreadListAssumption
<1>1. ListInit => ListInv
  <2> SUFFICES ASSUME ListInit PROVE ListInv
    OBVIOUS
  <2>1. stack = <<Home>> /\ flight = {} /\ nextSeq = 1
    BY DEF ListInit
  <2>2. /\ Home \in Screens /\ Home.kind = "home" /\ Home.list = EmptyList
        /\ Shaped(EmptyList, 1) /\ Extends(EmptyList, {})
    <3>1. 1 \in Nat \ {0} /\ {} \subseteq Request
      OBVIOUS
    <3>2. Home.kind = "home" /\ Home.list = EmptyList
      BY DEF Home
    <3> QED BY <3>1, <3>2, Nothing
  <2> HIDE DEF Home
  <2>3. /\ stack \in Seq(Screens) /\ stack # <<>> /\ DOMAIN stack = {1} /\ stack[1] = Home
    BY <2>1, <2>2
  <2>4. HomeFirst(stack) /\ Apart(stack)
    BY <2>2, <2>3 DEF HomeFirst, Apart
  <2>5. FlightOK({}, 1)
    <3>1. IsFiniteSet({}) /\ Cardinality({}) = 0
      BY FS_EmptySet
    <3> QED BY <3>1 DEF FlightOK
  <2>6. 1 \in 1..(MaxSeq + 1)
    OBVIOUS
  <2> QED BY <2>1, <2>2, <2>3, <2>4, <2>5, <2>6 DEF ListInv, ListTypeOK, Screens, HomeFirst
<1>2. ListInv /\ [ListNext]_listVars => ListInv'
  <2> SUFFICES ASSUME ListInv, [ListNext]_listVars PROVE ListInv'
    OBVIOUS
  <2>1. CASE UNCHANGED listVars
    BY <2>1 DEF listVars, ListInv, ListTypeOK
  <2>2. CASE PrimeHomeList
    BY <2>2, PrimeHomeListKeeps
  <2>3. CASE OpenOther
    BY <2>3, OpenOtherKeeps
  <2>4. CASE Leave
    BY <2>4, LeaveKeeps
  <2>5. CASE Render
    BY <2>5, RenderKeeps
  <2>6. CASE AutoloadMore
    BY <2>6, AutoloadMoreKeeps
  <2>7. ASSUME NEW node \in Nodes, OpenInPane(node) \/ OpenPushed(node) \/ ThreadCreated(node)
        PROVE  ListInv'
    BY <2>7, OpenInPaneKeeps, OpenPushedKeeps, ThreadCreatedKeeps
  <2>8. ASSUME NEW page \in 0..MaxPage, PageKey(page) PROVE ListInv'
    BY <2>8, PageKeyKeeps
  <2>9. ASSUME NEW r \in flight, ForumFailed(r) PROVE ListInv'
    BY <2>9, ForumFailedKeeps
  <2>10. ASSUME NEW r \in flight, NEW last \in Pages, ForumLoaded(r, last) PROVE ListInv'
    BY <2>10, ForumLoadedKeeps
  <2> QED BY <2>1, <2>2, <2>3, <2>4, <2>5, <2>6, <2>7, <2>8, <2>9, <2>10 DEF ListNext
<1> QED BY <1>1, <1>2, PTL DEF ListSpec

\* Once the first page of its load has arrived, a list holds exactly the
\* consecutive pages of that load, each once and in order, for every number
\* of forums, pages, loads and screens (ForumLoaded, autoload_more).
THEOREM RowsAreAlwaysTheWindow == ListSpec => []RowsAreTheWindow
<1>1. ListInv => RowsAreTheWindow
  BY DEF ListInv, RowsAreTheWindow, Extends, Window, Lists
<1> QED BY <1>1, ListInvariance, PTL
-----------------------------------------------------------------------------
(***************************************************************************)
(* ThreadView.  A thread stands on the stack where the member left it, each *)
(* request on its way is known by its id to the one screen that waits for   *)
(* it, and what is sent is still held by the composer on top (ViewInv).    *)
(***************************************************************************)

Settled(v, ls) ==
  v.kind = "view" =>
    IF v.loading
    THEN \E r \in ls : r.thread = v.thread /\ r.id = v.load
    ELSE v.error \/ (v.shows = v.load /\ v.page \in 1..v.last)

\* A thread is open once, a composer lies above the view it was opened from,
\* a view that shows nothing yet is at its top, and both have a thread.
Arranged(s) ==
  /\ \A i, j \in DOMAIN s :
       (s[i].kind = "view" /\ s[j].kind = "view" /\ s[i].thread = s[j].thread)
         => i = j
  /\ \A i \in DOMAIN s :
       s[i].kind \in {"reply", "edit"} =>
         \E j \in DOMAIN s :
           j < i /\ s[j].kind = "view" /\ s[j].thread = s[i].thread
  /\ \A i \in DOMAIN s : s[i].shows = 0 => s[i].place = 0
  /\ \A i \in DOMAIN s : s[i].kind # "other" => s[i].thread \in Threads

\* What is being sent is sent from the screen on top.
SentFromTop(s, ws) ==
  \A w \in ws :
    w.what \in {"reply", "edit"} =>
      /\ s # <<>> /\ s[Len(s)].kind = w.what /\ s[Len(s)].thread = w.thread
      /\ s[Len(s)].busy

\* A place other than the top is kept for a view that is open and was read.
KeptForReader(s, k) ==
  k.place # 0 =>
    \E i \in DOMAIN s :
      s[i].kind = "view" /\ s[i].thread = k.thread /\ s[i].shows # 0

Numbered(ls) == \A r \in ls : r.id # 0

ViewInv ==
  /\ ViewTypeOK /\ Arranged(views) /\ Numbered(loads)
  /\ \A i \in DOMAIN views : Settled(views[i], loads)
  /\ SentFromTop(views, writes) /\ KeptForReader(views, keep)
----------------------------------------------------------------------------

LEMMA HighestIsIn ==
  ASSUME NEW n \in Nat, NEW S \in SUBSET (1..n), S # {}
  PROVE  Highest(S) \in S /\ \A j \in S : j <= Highest(S)
BY HasGreatest DEF Highest

\* A stack is again the stack it was, but for what its views load.
AsBefore(s, t) ==
  /\ t \in Seq(View) /\ Len(t) = Len(s)
  /\ \A i \in DOMAIN s :
       /\ t[i].kind = s[i].kind /\ t[i].thread = s[i].thread
       /\ t[i].busy = s[i].busy /\ t[i].shows = s[i].shows
       /\ t[i].place = s[i].place

LEMMA AsBeforeKeeps ==
  ASSUME NEW s \in Seq(View), NEW t, AsBefore(s, t), NEW ws, NEW k,
         Arranged(s), SentFromTop(s, ws), KeptForReader(s, k)
  PROVE  Arranged(t) /\ SentFromTop(t, ws) /\ KeptForReader(t, k)
<1>1. DOMAIN s = 1..Len(s) /\ DOMAIN t = 1..Len(s) /\ Len(t) = Len(s) /\ Len(s) \in Nat
  BY DEF AsBefore
<1>2. \A i \in 1..Len(s) :
        /\ t[i].kind = s[i].kind /\ t[i].thread = s[i].thread
        /\ t[i].busy = s[i].busy /\ t[i].shows = s[i].shows
        /\ t[i].place = s[i].place
  BY <1>1 DEF AsBefore
<1>3. Arranged(t)
  BY <1>1, <1>2 DEF Arranged
<1>4. SentFromTop(t, ws)
  <2>1. s # <<>> => Len(s) \in 1..Len(s)
    OBVIOUS
  <2>2. t # <<>> <=> s # <<>>
    BY <1>1 DEF AsBefore
  <2> QED BY <1>1, <1>2, <2>1, <2>2 DEF SentFromTop
<1>5. KeptForReader(t, k)
  BY <1>1, <1>2 DEF KeptForReader
<1> QED BY <1>3, <1>4, <1>5

\* A load begun: the one view of the thread waits for it.
LEMMA LoadThreadFacts ==
  ASSUME ViewTypeOK, NEW s \in Seq(View), NEW others \in SUBSET Load,
         NEW t \in Threads, NEW page \in Page, Arranged(s), Numbered(others),
         LoadThread(s, others, t, page)
  PROVE  /\ AsBefore(s, views')
         /\ loads' \subseteq Load /\ Numbered(loads') /\ nextLoad' \in 1..(MaxLoad + 1)
         /\ \A i \in DOMAIN s :
              \/ s[i].kind = "view" /\ s[i].thread = t
              \/ Settled(s[i], others)
              => Settled(views'[i], loads')
<1> USE ThreadViewAssumption
<1> DEFINE S == ViewsOf(s, t)
           new == [thread |-> t, page |-> page, id |-> nextLoad]
<1>1. /\ nextLoad <= MaxLoad /\ nextLoad' = nextLoad + 1
      /\ loads' = others \cup {new}
      /\ views' = IF S = {} THEN s
                  ELSE [s EXCEPT ![Highest(S)] =
                         [@ EXCEPT !.load = nextLoad, !.loading = TRUE]]
  BY DEF LoadThread
<1>2. nextLoad \in 1..(MaxLoad + 1) /\ nextLoad \in LoadIds
  BY <1>1 DEF ViewTypeOK, LoadIds
<1>3. new \in Load /\ nextLoad' \in 1..(MaxLoad + 1) /\ Numbered(loads')
  BY <1>1, <1>2 DEF Load, Numbered
<1>4. DOMAIN s = 1..Len(s) /\ Len(s) \in Nat /\ \A i \in 1..Len(s) : s[i] \in View
  OBVIOUS
<1>5. S \in SUBSET (1..Len(s)) /\ \A i \in S : \A j \in S : i = j
  BY <1>4 DEF ViewsOf, Arranged
<1>6. CASE S = {}
  <2>1. \A i \in DOMAIN s : ~(s[i].kind = "view" /\ s[i].thread = t)
    BY <1>6 DEF ViewsOf
  <2>2. views' = s
    BY <1>1, <1>6
  <2>3. AsBefore(s, views')
    BY <2>2 DEF AsBefore
  <2>4. \A i \in DOMAIN s : Settled(s[i], others) => Settled(s[i], loads')
    BY <1>1 DEF Settled
  <2> QED BY <1>1, <1>3, <2>1, <2>2, <2>3, <2>4
<1>7. CASE S # {}
  <2> DEFINE h == Highest(S)
  <2>1. h \in S /\ h \in 1..Len(s)
    BY <1>4, <1>5, <1>7, HighestIsIn
  <2>2. s[h].kind = "view" /\ s[h].thread = t /\ s[h] \in View
    BY <1>4, <2>1 DEF ViewsOf
  <2>3. views' = [s EXCEPT ![h] = [s[h] EXCEPT !.load = nextLoad, !.loading = TRUE]]
    BY <1>1, <1>7
  <2> DEFINE v == [s[h] EXCEPT !.load = nextLoad, !.loading = TRUE]
  <2>4. v \in View
    BY <1>2, <2>2 DEF View
  <2>5. /\ v.kind = "view" /\ v.thread = t /\ v.load = nextLoad /\ v.loading = TRUE
        /\ v.busy = s[h].busy /\ v.shows = s[h].shows /\ v.place = s[h].place
    BY <2>2 DEF View
  <2> HIDE DEF v, h
  <2>6. /\ views' \in Seq(View) /\ Len(views') = Len(s)
        /\ views'[h] = v /\ \A i \in 1..Len(s) : i # h => views'[i] = s[i]
    BY <1>4, <2>1, <2>3, <2>4 DEF v
  <2>7. AsBefore(s, views')
    BY <1>4, <2>2, <2>5, <2>6 DEF AsBefore
  <2>8. ASSUME NEW i \in 1..Len(s),
               \/ s[i].kind = "view" /\ s[i].thread = t
               \/ Settled(s[i], others)
        PROVE  Settled(views'[i], loads')
    <3>1. CASE i = h
      <4>1. new \in loads' /\ new.thread = t /\ new.id = nextLoad
        BY <1>1
      <4> QED BY <2>5, <2>6, <3>1, <4>1 DEF Settled
    <3>2. CASE i # h
      <4>1. ~(s[i].kind = "view" /\ s[i].thread = t)
        BY <1>4, <1>5, <2>1, <3>2 DEF ViewsOf
      <4>2. Settled(s[i], others)
        BY <2>8, <4>1
      <4> QED BY <1>1, <2>6, <3>2, <4>2 DEF Settled
    <3> QED BY <3>1, <3>2
  <2> QED BY <1>1, <1>3, <1>4, <2>7, <2>8
<1> QED BY <1>6, <1>7

FromTop(s, t) ==
  \A i \in DOMAIN s :
    (i \in DOMAIN t /\ s[i].shows = 0 /\ t[i].shows # 0 /\ t[i].kind = "view")
      => t[i].place = 0

LEMMA AsBeforeIsFresh ==
  ASSUME NEW s \in Seq(View), NEW t, AsBefore(s, t)
  PROVE  FromTop(s, t)
BY DEF AsBefore, FromTop

LEMMA ViewStackFacts ==
  ASSUME ViewTypeOK
  PROVE  /\ views \in Seq(View) /\ Front \in Nat /\ DOMAIN views = 1..Front
         /\ Front <= MaxViews /\ \A i \in 1..Front : views[i] \in View
BY DEF ViewTypeOK, Front

\* While a composer sends, nothing else happens on the stack.
LEMMA NothingSentWhileIdle ==
  ASSUME ViewTypeOK, SentFromTop(views, writes), MayLeave \/ Reading
  PROVE  \A w \in writes : w.what \notin {"reply", "edit"}
<1>1. views # <<>> => Front \in DOMAIN views
  BY ViewStackFacts
<1> QED BY <1>1 DEF SentFromTop, MayLeave, Reading, Front

LEMMA NothingSent ==
  ASSUME NEW s, NEW ws, \A w \in ws : w.what \notin {"reply", "edit"}
  PROVE  SentFromTop(s, ws)
BY DEF SentFromTop

\* A screen is put on top.
LEMMA PutOnTop ==
  ASSUME NEW s \in Seq(View), NEW v \in View, Arranged(s), NEW k,
         KeptForReader(s, k), v.place = 0, v.kind # "other" => v.thread \in Threads,
         v.kind = "view" => ViewsOf(s, v.thread) = {},
         v.kind \in {"reply", "edit"} => ViewsOf(s, v.thread) # {}
  PROVE  /\ Append(s, v) \in Seq(View) /\ Len(Append(s, v)) = Len(s) + 1
         /\ DOMAIN Append(s, v) = 1..(Len(s) + 1)
         /\ \A i \in 1..Len(s) : Append(s, v)[i] = s[i]
         /\ Append(s, v)[Len(s) + 1] = v
         /\ Arranged(Append(s, v)) /\ KeptForReader(Append(s, v), k)
         /\ FromTop(s, Append(s, v))
<1> DEFINE t == Append(s, v)
<1>1. /\ t \in Seq(View) /\ Len(t) = Len(s) + 1 /\ Len(s) \in Nat
      /\ DOMAIN t = 1..(Len(s) + 1) /\ DOMAIN s = 1..Len(s)
      /\ \A i \in 1..Len(s) : t[i] = s[i]
      /\ t[Len(s) + 1] = v
  OBVIOUS
<1> HIDE DEF t
<1>2. \A i, j \in DOMAIN t :
        (t[i].kind = "view" /\ t[j].kind = "view" /\ t[i].thread = t[j].thread)
          => i = j
  <2> SUFFICES ASSUME NEW i \in DOMAIN t, NEW j \in DOMAIN t,
                      t[i].kind = "view", t[j].kind = "view",
                      t[i].thread = t[j].thread, i # j
               PROVE  FALSE
    OBVIOUS
  <2>1. CASE i \in 1..Len(s) /\ j \in 1..Len(s)
    BY <1>1, <2>1 DEF Arranged
  <2>2. CASE i = Len(s) + 1
    BY <1>1, <2>2 DEF ViewsOf
  <2>3. CASE j = Len(s) + 1
    BY <1>1, <2>3 DEF ViewsOf
  <2> QED BY <1>1, <2>1, <2>2, <2>3
<1>3. ASSUME NEW i \in DOMAIN t, t[i].kind \in {"reply", "edit"}
      PROVE  \E j \in DOMAIN t :
               j < i /\ t[j].kind = "view" /\ t[j].thread = t[i].thread
  <2>1. CASE i \in 1..Len(s)
    <3>1. PICK j \in DOMAIN s : j < i /\ s[j].kind = "view" /\ s[j].thread = s[i].thread
      BY <1>1, <1>3, <2>1 DEF Arranged
    <3> QED BY <1>1, <2>1, <3>1
  <2>2. CASE i = Len(s) + 1
    <3>1. PICK j \in DOMAIN s : s[j].kind = "view" /\ s[j].thread = v.thread
      BY <1>1, <1>3, <2>2 DEF ViewsOf
    <3> QED BY <1>1, <2>2, <3>1
  <2> QED BY <1>1, <2>1, <2>2
<1>4. \A i \in DOMAIN t : t[i].shows = 0 => t[i].place = 0
  BY <1>1 DEF Arranged
<1>5. Arranged(t)
  <2>1. \A i \in DOMAIN t : t[i].kind # "other" => t[i].thread \in Threads
    BY <1>1 DEF Arranged
  <2> QED BY <1>2, <1>3, <1>4, <2>1 DEF Arranged
<1>6. KeptForReader(t, k)
  BY <1>1 DEF KeptForReader
<1>7. FromTop(s, t)
  BY <1>1 DEF FromTop
<1> QED BY <1>1, <1>5, <1>6, <1>7 DEF t

\* The screen on top is taken away.
LEMMA TakenFromTop ==
  ASSUME NEW s \in Seq(View), s # <<>>, Arranged(s), NEW t \in Seq(View),
         Len(t) = Len(s) - 1, \A i \in 1..(Len(s) - 1) : t[i] = s[i]
  PROVE  /\ Arranged(t) /\ FromTop(s, t)
         /\ \A k : (KeptForReader(s, k) /\ s[Len(s)].kind # "view")
                     => KeptForReader(t, k)
<1>1. /\ Len(s) \in Nat \ {0} /\ DOMAIN s = 1..Len(s)
      /\ DOMAIN t = 1..(Len(s) - 1)
  OBVIOUS
<1>2. Arranged(t)
  BY <1>1 DEF Arranged
<1>3. FromTop(s, t)
  BY <1>1 DEF FromTop
<1>4. ASSUME NEW k, KeptForReader(s, k), s[Len(s)].kind # "view"
      PROVE  KeptForReader(t, k)
  BY <1>1, <1>4 DEF KeptForReader
<1> QED BY <1>2, <1>3, <1>4

\* A step that begins a load on a stack s, which the screens now became.
LEMMA LoadStep ==
  ASSUME ViewInv, NEW s \in Seq(View), Len(s) <= MaxViews, Arranged(s),
         NEW others \in SUBSET Load, NEW t \in Threads, NEW page \in Page,
         LoadThread(s, others, t, page), Numbered(others),
         \A i \in DOMAIN s :
           (s[i].kind = "view" /\ s[i].thread = t) \/ Settled(s[i], others),
         FromTop(views, s),
         keep' \in KeptPlace, writes' \subseteq Write,
         SentFromTop(s, writes'), KeptForReader(s, keep')
  PROVE  ViewInv' /\ FromTop(views, views')
<1>1. /\ AsBefore(s, views') /\ loads' \subseteq Load /\ Numbered(loads')
      /\ nextLoad' \in 1..(MaxLoad + 1)
      /\ \A i \in DOMAIN s : Settled(views'[i], loads')
  BY LoadThreadFacts DEF ViewInv
<1>2. Arranged(views') /\ SentFromTop(views', writes') /\ KeptForReader(views', keep')
  BY <1>1, AsBeforeKeeps
<1>3. /\ views' \in Seq(View) /\ Len(views') = Len(s) /\ DOMAIN views' = DOMAIN s
  BY <1>1 DEF AsBefore
<1>4. FromTop(views, views')
  BY <1>1, <1>3 DEF AsBefore, FromTop
<1> QED BY <1>1, <1>2, <1>3, <1>4 DEF ViewInv, ViewTypeOK

LEMMA OpenThreadStep ==
  ASSUME ViewInv, ~Twins, NEW t \in Threads, OpenThread(t)
  PROVE  ViewInv' /\ FromTop(views, views')
<1> USE ThreadViewAssumption
<1> DEFINE v == [Blank("view", t) EXCEPT !.loading = TRUE]
           s == Append(views, v)
<1>1. /\ MayLeave /\ Front < MaxViews /\ ViewsOf(views, t) = {}
      /\ LoadThread(s, loads, t, 1)
      /\ keep' = keep /\ writes' = writes
  BY DEF OpenThread
<1>2. /\ v \in View /\ v.kind = "view" /\ v.thread = t /\ v.place = 0
  <2> DEFINE b == Blank("view", t)
  <2>1. 1 \in Page /\ 0 \in Page /\ 0 \in LoadIds /\ t \in Threads \cup {NoThread}
    BY DEF Page, LoadIds
  <2>2. b \in View /\ b.kind = "view" /\ b.thread = t /\ b.place = 0
    BY <2>1 DEF Blank, View
  <2> HIDE DEF b
  <2>3. v = [b EXCEPT !.loading = TRUE]
    BY DEF b
  <2> QED BY <2>2, <2>3 DEF View
<1>3. /\ views \in Seq(View) /\ Len(views) \in Nat /\ DOMAIN views = 1..Len(views)
      /\ Arranged(views) /\ KeptForReader(views, keep)
  BY ViewStackFacts DEF ViewInv, Front
<1> HIDE DEF v
<1>4. /\ s \in Seq(View) /\ Len(s) = Len(views) + 1 /\ DOMAIN s = 1..(Len(views) + 1)
      /\ \A i \in 1..Len(views) : s[i] = views[i]
      /\ s[Len(views) + 1] = v
      /\ Arranged(s) /\ KeptForReader(s, keep) /\ FromTop(views, s)
  BY <1>1, <1>2, <1>3, PutOnTop
<1> HIDE DEF s
<1>5. SentFromTop(s, writes)
  BY <1>1, NothingSentWhileIdle, NothingSent DEF ViewInv
<1>6. \A i \in DOMAIN s :
        (s[i].kind = "view" /\ s[i].thread = t) \/ Settled(s[i], loads)
  BY <1>2, <1>3, <1>4 DEF ViewInv
<1>7. /\ Len(s) <= MaxViews /\ loads \subseteq Load /\ 1 \in Page /\ Numbered(loads)
      /\ keep \in KeptPlace /\ writes \subseteq Write
  BY <1>1, <1>3, <1>4 DEF ViewInv, ViewTypeOK, Front, Page
<1> QED BY <1>1, <1>4, <1>5, <1>6, <1>7, LoadStep

\* A step that only puts a screen without a view on top.
LEMMA PutStep ==
  ASSUME ViewInv, MayLeave, Front < MaxViews,
         NEW kind \in {"reply", "edit", "other"}, NEW t \in Threads \cup {NoThread},
         kind # "other" => t \in Threads /\ ViewsOf(views, t) # {},
         views' = Append(views, Blank(kind, t)),
         UNCHANGED <<loads, nextLoad, keep, writes>>
  PROVE  ViewInv' /\ FromTop(views, views')
<1> USE ThreadViewAssumption
<1> DEFINE v == Blank(kind, t)
<1>1. v \in View /\ v.kind = kind /\ v.thread = t /\ v.place = 0
  BY DEF View, Blank, Page, LoadIds
<1> HIDE DEF v
<1>2. /\ views \in Seq(View) /\ Len(views) \in Nat /\ DOMAIN views = 1..Len(views)
      /\ Arranged(views) /\ KeptForReader(views, keep)
  BY ViewStackFacts DEF ViewInv, Front
<1>3. /\ views' \in Seq(View) /\ Len(views') = Len(views) + 1
      /\ DOMAIN views' = 1..(Len(views) + 1)
      /\ \A i \in 1..Len(views) : views'[i] = views[i]
      /\ views'[Len(views) + 1] = v
      /\ Arranged(views') /\ KeptForReader(views', keep) /\ FromTop(views, views')
  <2>1. views' = Append(views, v)
    BY DEF v
  <2>2. /\ v.kind # "view" /\ (v.kind # "other" => v.thread \in Threads)
        /\ v.kind \in {"reply", "edit"} => ViewsOf(views, v.thread) # {}
    BY <1>1
  <2> DEFINE s == Append(views, v)
  <2>3. /\ s \in Seq(View) /\ Len(s) = Len(views) + 1
        /\ DOMAIN s = 1..(Len(views) + 1)
        /\ \A i \in 1..Len(views) : s[i] = views[i]
        /\ s[Len(views) + 1] = v
        /\ Arranged(s) /\ KeptForReader(s, keep) /\ FromTop(views, s)
    BY <1>1, <1>2, <2>2, PutOnTop
  <2>4. views' = s
    BY <2>1
  <2> HIDE DEF s
  <2> QED BY <2>3, <2>4
<1>4. SentFromTop(views', writes)
  BY NothingSentWhileIdle, NothingSent DEF ViewInv
<1>5. \A i \in DOMAIN views' : Settled(views'[i], loads)
  <2>1. Settled(v, loads)
    BY <1>1 DEF Settled
  <2> QED BY <1>2, <1>3, <2>1 DEF ViewInv
<1>6. Len(views') <= MaxViews
  BY <1>2, <1>3 DEF ViewInv, ViewTypeOK, Front
<1> QED BY <1>3, <1>4, <1>5, <1>6 DEF ViewInv, ViewTypeOK

LEMMA OpenAnotherStep ==
  ASSUME ViewInv, OpenAnother
  PROVE  ViewInv' /\ FromTop(views, views')
BY PutStep DEF OpenAnother

LEMMA ComposeStep ==
  ASSUME ViewInv, NEW kind \in {"reply", "edit"}, Compose(kind)
  PROVE  ViewInv' /\ FromTop(views, views')
<1> DEFINE t == views[Front].thread
           S == ComposersOf(kind, t)
<1>1. /\ views \in Seq(View) /\ Front \in Nat /\ DOMAIN views = 1..Front
      /\ Arranged(views) /\ \A i \in 1..Front : views[i] \in View
  BY ViewStackFacts DEF ViewInv
<1>2. /\ MayLeave /\ Front > 0 /\ views[Front].kind = "view" /\ views[Front].shows # 0
  BY DEF Compose, Reading
<1>3. Front \in ViewsOf(views, t) /\ t \in Threads
  <2>1. Front \in 1..Front /\ views[Front] \in View
    BY <1>1, <1>2
  <2> QED BY <1>1, <1>2, <2>1 DEF ViewsOf, Arranged
<1>4. S = {}
  <2> SUFFICES ASSUME NEW i \in S PROVE FALSE
    OBVIOUS
  <2>1. i \in 1..Front /\ views[i].kind = kind /\ views[i].thread = t
    BY <1>1 DEF ComposersOf
  <2>2. PICK j \in 1..Front : j < i /\ views[j].kind = "view" /\ views[j].thread = t
    BY <1>1, <2>1 DEF Arranged
  <2>3. j = Front
    BY <1>1, <1>2, <2>2 DEF Arranged
  <2> QED BY <1>1, <2>1, <2>2, <2>3
<1>5. /\ Front < MaxViews /\ views' = Append(views, Blank(kind, t))
      /\ UNCHANGED <<loads, nextLoad, keep, writes>>
  BY <1>4 DEF Compose, Front
<1> QED BY <1>2, <1>3, <1>5, PutStep

LEMMA PopViewStep ==
  ASSUME ViewInv, PopView
  PROVE  ViewInv' /\ FromTop(views, views')
<1> USE ThreadViewAssumption
<1>1. /\ views \in Seq(View) /\ Front \in Nat /\ DOMAIN views = 1..Front
      /\ Arranged(views) /\ Front = Len(views) /\ Front <= MaxViews
  BY ViewStackFacts DEF ViewInv, Front
<1>2. /\ MayLeave /\ Front > 0 /\ views' = SubSeq(views, 1, Front - 1)
      /\ UNCHANGED <<loads, nextLoad, writes>>
  BY DEF PopView
<1>3. /\ views' \in Seq(View) /\ Len(views') = Front - 1
      /\ DOMAIN views' = 1..(Front - 1)
      /\ \A i \in 1..(Front - 1) : views'[i] = views[i]
  BY <1>1, <1>2
<1>4. Arranged(views') /\ FromTop(views, views') /\
      \A k : (KeptForReader(views, k) /\ views[Front].kind # "view")
               => KeptForReader(views', k)
  <2>1. views # <<>> /\ views[Len(views)].kind = views[Front].kind
    BY <1>1, <1>2
  <2>2. Len(views') = Len(views) - 1 /\ \A i \in 1..(Len(views) - 1) : views'[i] = views[i]
    BY <1>1, <1>3
  <2> QED BY <1>1, <1>3, <2>1, <2>2, TakenFromTop
<1>5. SentFromTop(views', writes')
  BY <1>2, NothingSentWhileIdle, NothingSent DEF ViewInv
<1>6. keep' \in KeptPlace /\ KeptForReader(views', keep')
  <2>1. CASE /\ views[Front].kind = "view" /\ keep.thread = views[Front].thread
             /\ ViewsOf(views', keep.thread) = {}
    <3>1. keep' = NothingKept
      BY <2>1 DEF PopView
    <3> QED BY <3>1 DEF NothingKept, KeptPlace, KeptForReader, Page
  <2>2. CASE ~(/\ views[Front].kind = "view" /\ keep.thread = views[Front].thread
               /\ ViewsOf(views', keep.thread) = {})
    <3>1. keep' = keep
      BY <2>2 DEF PopView
    <3>2. ASSUME keep.place # 0
          PROVE  \E i \in DOMAIN views' : views'[i].kind = "view"
                   /\ views'[i].thread = keep.thread /\ views'[i].shows # 0
      <4>1. PICK i \in 1..Front : views[i].kind = "view"
                   /\ views[i].thread = keep.thread /\ views[i].shows # 0
        BY <1>1, <3>2 DEF ViewInv, KeptForReader
      <4>2. CASE i = Front
        <5>1. PICK j \in ViewsOf(views', keep.thread) : TRUE
          BY <2>2, <4>1, <4>2
        <5>2. j \in 1..(Front - 1) /\ views[j].kind = "view" /\ views[j].thread = keep.thread
          BY <1>3, <5>1 DEF ViewsOf
        <5>3. j = i
          BY <1>1, <4>1, <5>2 DEF Arranged
        <5> QED BY <1>1, <4>2, <5>2, <5>3
      <4>3. CASE i # Front
        <5>1. Front \in Nat
          BY <1>1
        <5>2. i \in 1..(Front - 1)
          <6> HIDE ThreadViewAssumption
          <6> QED BY <4>3, <5>1
        <5> QED BY <1>3, <4>1, <5>2
      <4> QED BY <4>2, <4>3
    <3> QED BY <3>1, <3>2 DEF ViewInv, ViewTypeOK, KeptForReader
  <2> QED BY <2>1, <2>2
<1>7. \A i \in DOMAIN views' : Settled(views'[i], loads')
  BY <1>1, <1>2, <1>3 DEF ViewInv
<1> QED BY <1>1, <1>2, <1>3, <1>4, <1>5, <1>6, <1>7 DEF ViewInv, ViewTypeOK

\* A load begun on the stack as it is.
LEMMA LoadHere ==
  ASSUME ViewInv, NEW others \in SUBSET Load, NEW t \in Threads, NEW page \in Page,
         LoadThread(views, others, t, page), Numbered(others),
         \A i \in DOMAIN views :
           \/ views[i].kind = "view" /\ views[i].thread = t
           \/ Settled(views[i], others),
         keep' \in KeptPlace, KeptForReader(views, keep'), writes' \subseteq writes
  PROVE  ViewInv' /\ FromTop(views, views')
<1>1. /\ views \in Seq(View) /\ Len(views) <= MaxViews /\ Arranged(views)
      /\ writes' \subseteq Write
  BY ViewStackFacts DEF ViewInv, ViewTypeOK, Front
<1>2. FromTop(views, views)
  BY DEF FromTop
<1>3. SentFromTop(views, writes')
  BY DEF ViewInv, SentFromTop
<1> QED BY <1>1, <1>2, <1>3, LoadStep

LEMMA TurnToStep ==
  ASSUME ViewInv, NEW page \in Page, TurnTo(page)
  PROVE  ViewInv' /\ FromTop(views, views')
<1> USE ThreadViewAssumption
<1> DEFINE t == views[Front].thread
<1>1. /\ Reading /\ LoadThread(views, loads, t, page)
      /\ keep' = keep /\ writes' = writes
  BY DEF TurnTo
<1>2. t \in Threads
  BY <1>1, ViewStackFacts DEF ViewInv, Arranged, Reading
<1> QED BY <1>1, <1>2, LoadHere DEF ViewInv, ViewTypeOK

\* The fields of one screen change, but for what the arrangement is about.
LEMMA OneScreen ==
  ASSUME ViewInv, NEW i \in DOMAIN views, NEW v \in View,
         views' = [views EXCEPT ![i] = v],
         v.kind = views[i].kind, v.thread = views[i].thread,
         v.shows = 0 => v.place = 0,
         views[i].shows # 0 => v.shows # 0
  PROVE  /\ views' \in Seq(View) /\ Len(views') = Len(views)
         /\ DOMAIN views' = DOMAIN views
         /\ views'[i] = v /\ \A j \in DOMAIN views : j # i => views'[j] = views[j]
         /\ Arranged(views')
         /\ \A k : KeptForReader(views, k) => KeptForReader(views', k)
<1>1. /\ views \in Seq(View) /\ DOMAIN views = 1..Len(views)
      /\ Len(views) \in Nat /\ Arranged(views)
  BY ViewStackFacts DEF ViewInv, Front
<1>2. /\ views' \in Seq(View) /\ Len(views') = Len(views)
      /\ DOMAIN views' = 1..Len(views) /\ views'[i] = v
      /\ \A j \in 1..Len(views) : j # i => views'[j] = views[j]
  BY <1>1
<1>3. \A j \in 1..Len(views) :
        views'[j].kind = views[j].kind /\ views'[j].thread = views[j].thread
  BY <1>2
<1>4. \A j \in 1..Len(views) : views'[j].shows = 0 => views'[j].place = 0
  BY <1>1, <1>2 DEF Arranged
<1>5. Arranged(views')
  <2>1. \A j \in 1..Len(views) : views'[j].kind # "other" => views'[j].thread \in Threads
    BY <1>1, <1>3 DEF Arranged
  <2> QED BY <1>1, <1>2, <1>3, <1>4, <2>1 DEF Arranged
<1>6. \A k : KeptForReader(views, k) => KeptForReader(views', k)
  BY <1>1, <1>2, <1>3 DEF KeptForReader
<1> QED BY <1>1, <1>2, <1>5, <1>6

\* A screen that is no composer about to send may change, whatever is sent.
LEMMA StillSent ==
  ASSUME ViewInv, NEW i \in DOMAIN views, NEW s, DOMAIN s = DOMAIN views,
         Len(s) = Len(views), s # <<>>,
         \A j \in DOMAIN views : j # i => s[j] = views[j],
         views[i].kind = "view" \/ s[i] = views[i],
         NEW ws \in SUBSET writes
  PROVE  SentFromTop(s, ws)
<1>1. /\ DOMAIN views = 1..Len(views) /\ Len(views) \in Nat /\ Len(views) # 0
      /\ SentFromTop(views, writes)
  BY ViewStackFacts DEF ViewInv, Front
<1>2. Len(views) \in DOMAIN views
  BY <1>1
<1> QED BY <1>1, <1>2 DEF SentFromTop

LEMMA MoveToStep ==
  ASSUME ViewInv, NEW place \in Spots, MoveTo(place)
  PROVE  ViewInv' /\ FromTop(views, views')
<1> DEFINE v == [views[Front] EXCEPT !.place = place]
<1>1. /\ Front > 0 /\ views[Front].kind = "view" /\ views[Front].shows # 0
      /\ views' = [views EXCEPT ![Front] = v]
      /\ UNCHANGED <<loads, nextLoad, keep, writes>>
  BY DEF MoveTo, Reading
<1>2. Front \in DOMAIN views /\ views[Front] \in View /\ Front = Len(views)
  BY <1>1, ViewStackFacts DEF ViewInv, Front
<1>3. /\ v \in View /\ v.kind = "view" /\ v.thread = views[Front].thread
      /\ v.shows = views[Front].shows /\ v.loading = views[Front].loading
      /\ v.load = views[Front].load /\ v.error = views[Front].error
      /\ v.page = views[Front].page /\ v.last = views[Front].last
  BY <1>1, <1>2 DEF View
<1> HIDE DEF v
<1>4. /\ views' \in Seq(View) /\ Len(views') = Len(views)
      /\ DOMAIN views' = DOMAIN views /\ views'[Front] = v
      /\ \A j \in DOMAIN views : j # Front => views'[j] = views[j]
      /\ Arranged(views') /\ KeptForReader(views', keep')
  BY <1>1, <1>2, <1>3, OneScreen DEF ViewInv
<1>5. \A i \in DOMAIN views' : Settled(views'[i], loads')
  <2>1. Settled(views[Front], loads)
    BY <1>2 DEF ViewInv
  <2>2. Settled(v, loads)
    BY <1>1, <1>3, <2>1 DEF Settled
  <2> QED BY <1>1, <1>4, <2>2 DEF ViewInv
<1>6. SentFromTop(views', writes')
  BY <1>1, NothingSentWhileIdle, NothingSent DEF ViewInv, MoveTo
<1>7. FromTop(views, views')
  BY <1>1, <1>4 DEF FromTop
<1> QED BY <1>1, <1>2, <1>4, <1>5, <1>6, <1>7 DEF ViewInv, ViewTypeOK

LEMMA ActStep ==
  ASSUME ViewInv, NEW what \in {"toggle", "delete"}, Act(what)
  PROVE  ViewInv' /\ FromTop(views, views')
<1> DEFINE w == [what |-> what, thread |-> views[Front].thread]
<1>1. /\ Reading /\ views[Front].shows # 0 /\ writes' = writes \cup {w}
      /\ UNCHANGED <<views, loads, nextLoad, keep>>
  BY DEF Act
<1>2. views[Front].thread \in Threads
  BY <1>1, ViewStackFacts DEF ViewInv, Arranged, Reading
<1>3. w \in Write
  BY <1>2 DEF Write
<1>4. SentFromTop(views', writes')
  BY <1>1 DEF ViewInv, SentFromTop
<1>5. FromTop(views, views')
  BY <1>1 DEF FromTop
<1> QED BY <1>1, <1>3, <1>4, <1>5 DEF ViewInv, ViewTypeOK

LEMMA SendStep ==
  ASSUME ViewInv, Send
  PROVE  ViewInv' /\ FromTop(views, views')
<1> DEFINE v == [views[Front] EXCEPT !.busy = TRUE]
           w == [what |-> views[Front].kind, thread |-> views[Front].thread]
<1>1. /\ Front > 0 /\ views[Front].kind \in {"reply", "edit"}
      /\ ~views[Front].busy
      /\ views' = [views EXCEPT ![Front] = v]
      /\ writes' = writes \cup {w}
      /\ UNCHANGED <<loads, nextLoad, keep>>
  BY DEF Send
<1>2. /\ Front \in DOMAIN views /\ views[Front] \in View /\ Front = Len(views)
      /\ Front \in Nat /\ Arranged(views)
  BY <1>1, ViewStackFacts DEF ViewInv, Front
<1>3. /\ v \in View /\ v.kind = views[Front].kind /\ v.thread = views[Front].thread
      /\ v.shows = views[Front].shows /\ v.place = views[Front].place /\ v.busy
  BY <1>2 DEF View
<1>4. v.shows = 0 => v.place = 0
  BY <1>2, <1>3 DEF Arranged
<1>5. w \in Write /\ w.what = views[Front].kind /\ w.thread = views[Front].thread
  BY <1>1, <1>2 DEF Arranged, Write
<1> HIDE DEF v, w
<1>6. /\ views' \in Seq(View) /\ Len(views') = Len(views)
      /\ DOMAIN views' = DOMAIN views /\ views'[Front] = v
      /\ \A j \in DOMAIN views : j # Front => views'[j] = views[j]
      /\ Arranged(views') /\ KeptForReader(views', keep')
  BY <1>1, <1>2, <1>3, <1>4, OneScreen DEF ViewInv
<1>7. \A i \in DOMAIN views' : Settled(views'[i], loads')
  <2>1. Settled(v, loads)
    BY <1>1, <1>3 DEF Settled
  <2> QED BY <1>1, <1>6, <2>1 DEF ViewInv
<1>8. SentFromTop(views', writes')
  <2>1. views' # <<>> /\ views # <<>> /\ Len(views') = Front
    BY <1>1, <1>2, <1>6
  <2>2. \A x \in writes : x.what \notin {"reply", "edit"}
    BY <1>1, <1>2 DEF ViewInv, SentFromTop
  <2> QED BY <1>1, <1>2, <1>3, <1>5, <1>6, <2>1, <2>2 DEF SentFromTop
<1>9. FromTop(views, views')
  BY <1>1, <1>3, <1>6 DEF FromTop
<1> QED BY <1>1, <1>2, <1>5, <1>6, <1>7, <1>8, <1>9 DEF ViewInv, ViewTypeOK

LEMMA NobodyWaitsStep ==
  ASSUME ViewInv, NEW r \in loads, NobodyWaits(r)
  PROVE  ViewInv' /\ FromTop(views, views')
<1>1. /\ WaitsFor(r) = {} /\ loads' = loads \ {r}
      /\ UNCHANGED <<views, nextLoad, keep, writes>>
  BY DEF NobodyWaits
<1>2. ASSUME NEW i \in DOMAIN views PROVE Settled(views[i], loads')
  <2>1. Settled(views[i], loads)
    BY DEF ViewInv
  <2>2. views[i].kind = "view" =>
          ~(r.thread = views[i].thread /\ r.id = views[i].load)
    BY <1>1 DEF WaitsFor
  <2> QED BY <1>1, <2>1, <2>2 DEF Settled
<1>3. FromTop(views, views')
  BY <1>1 DEF FromTop
<1> QED BY <1>1, <1>2, <1>3 DEF ViewInv, ViewTypeOK, Numbered

\* The view that waits for a load is the one view of its thread.
LEMMA WaiterFacts ==
  ASSUME ViewInv, NEW r \in loads, NEW i \in WaitsFor(r)
  PROVE  /\ i \in DOMAIN views /\ views[i] \in View /\ views[i].kind = "view"
         /\ views[i].thread = r.thread /\ views[i].load = r.id
         /\ r.thread \in Threads /\ r.page \in Page /\ r.id \in LoadIds \ {0}
         /\ \A j \in DOMAIN views : j # i => Settled(views[j], loads \ {r})
<1>1. /\ i \in DOMAIN views /\ views[i] \in View /\ views[i].kind = "view"
      /\ views[i].thread = r.thread /\ views[i].load = r.id
  BY ViewStackFacts DEF ViewInv, WaitsFor
<1>2. r.thread \in Threads /\ r.page \in Page /\ r.id \in LoadIds \ {0}
  BY DEF ViewInv, ViewTypeOK, Load, Numbered
<1>3. ASSUME NEW j \in DOMAIN views, j # i PROVE Settled(views[j], loads \ {r})
  <2>1. ~(views[j].kind = "view" /\ views[j].thread = r.thread)
    BY <1>1, <1>3 DEF ViewInv, Arranged
  <2>2. Settled(views[j], loads)
    BY DEF ViewInv
  <2> QED BY <2>1, <2>2 DEF Settled
<1> QED BY <1>1, <1>2, <1>3

LEMMA NothingIsKept == \A s : NothingKept \in KeptPlace /\ KeptForReader(s, NothingKept)
BY ThreadViewAssumption DEF NothingKept, KeptPlace, KeptForReader, Page

LEMMA ThreadLoadedStep ==
  ASSUME ViewInv, NEW r \in loads, NEW last \in 1..LastPage, ThreadLoaded(r, last)
  PROVE  ViewInv' /\ FromTop(views, views')
<1> USE ThreadViewAssumption
<1>1. PICK i \in WaitsFor(r) :
        views' = [views EXCEPT ![i] =
                   [@ EXCEPT !.page = r.page, !.last = last, !.shows = r.id,
                             !.loading = FALSE, !.error = FALSE,
                             !.place = IF KeptFor(r) THEN keep.place ELSE 0]]
  BY DEF ThreadLoaded
<1>2. /\ r.page \in 1..last /\ keep' = NothingKept /\ loads' = loads \ {r}
      /\ UNCHANGED <<nextLoad, writes>>
  BY DEF ThreadLoaded
<1>3. /\ i \in DOMAIN views /\ views[i] \in View /\ views[i].kind = "view"
      /\ views[i].thread = r.thread /\ views[i].load = r.id
      /\ r.thread \in Threads /\ r.page \in Page /\ r.id \in LoadIds \ {0}
      /\ \A j \in DOMAIN views : j # i => Settled(views[j], loads \ {r})
  BY WaiterFacts
<1> DEFINE place == IF KeptFor(r) THEN keep.place ELSE 0
           v == [views[i] EXCEPT !.page = r.page, !.last = last, !.shows = r.id,
                                 !.loading = FALSE, !.error = FALSE,
                                 !.place = place]
<1>4. place \in Spots
  BY DEF ViewInv, ViewTypeOK, KeptPlace
<1>5. place # 0 => views[i].shows # 0
  <2> SUFFICES ASSUME place # 0 PROVE views[i].shows # 0
    OBVIOUS
  <2>1. KeptFor(r) /\ keep.place # 0
    OBVIOUS
  <2>2. PICK j \in DOMAIN views : views[j].kind = "view"
                   /\ views[j].thread = keep.thread /\ views[j].shows # 0
    BY <2>1 DEF ViewInv, KeptForReader
  <2>3. j = i
    BY <1>3, <2>1, <2>2 DEF ViewInv, Arranged, KeptFor
  <2> QED BY <2>2, <2>3
<1> HIDE DEF place
<1>6. last \in Page
  BY DEF Page
<1>7. /\ v \in View /\ v.kind = "view" /\ v.thread = views[i].thread
      /\ v.shows = r.id /\ v.load = r.id /\ v.place = place /\ v.page = r.page
      /\ v.last = last /\ v.loading = FALSE
  BY <1>3, <1>4, <1>6 DEF View
<1>8. views' = [views EXCEPT ![i] = v]
  BY <1>1, <1>3 DEF place
<1> HIDE DEF v
<1>9. /\ views' \in Seq(View) /\ Len(views') = Len(views)
      /\ DOMAIN views' = DOMAIN views /\ views'[i] = v
      /\ \A j \in DOMAIN views : j # i => views'[j] = views[j]
      /\ Arranged(views')
  BY <1>3, <1>7, <1>8, OneScreen
<1>10. ASSUME NEW j \in DOMAIN views' PROVE Settled(views'[j], loads')
  <2>1. CASE j = i
    BY <1>2, <1>7, <1>9, <2>1 DEF Settled
  <2>2. CASE j # i
    BY <1>2, <1>3, <1>9, <2>2
  <2> QED BY <2>1, <2>2
<1>11. SentFromTop(views', writes')
  <2>1. views' # <<>> /\ writes' \in SUBSET writes
    BY <1>2, <1>3, <1>9
  <2> QED BY <1>3, <1>9, <2>1, StillSent
<1>12. FromTop(views, views')
  <2>1. views[i].shows = 0 => v.place = 0
    BY <1>5, <1>7
  <2> QED BY <1>9, <2>1 DEF FromTop
<1>13. KeptForReader(views', keep') /\ keep' \in KeptPlace
  BY <1>2, NothingIsKept
<1> QED BY <1>2, <1>9, <1>10, <1>11, <1>12, <1>13 DEF ViewInv, ViewTypeOK, Numbered

LEMMA ThreadRefusedStep ==
  ASSUME ViewInv, NEW r \in loads, NEW max \in 0..LastPage, ThreadRefused(r, max)
  PROVE  ViewInv' /\ FromTop(views, views')
<1> USE ThreadViewAssumption
<1> DEFINE Again(i) == [views EXCEPT ![i] = [@ EXCEPT !.last = max, !.loading = TRUE]]
           Failed(i) == [views EXCEPT ![i] = [@ EXCEPT !.loading = FALSE, !.error = TRUE]]
<1>1. PICK i \in WaitsFor(r) :
        IF max >= 1 /\ max # r.page
        THEN LoadThread(Again(i), loads \ {r}, r.thread, max)
        ELSE views' = Failed(i) /\ loads' = loads \ {r} /\ UNCHANGED nextLoad
  BY DEF ThreadRefused
<1>2. keep' = NothingKept /\ writes' = writes
  BY DEF ThreadRefused
<1>3. /\ i \in DOMAIN views /\ views[i] \in View /\ views[i].kind = "view"
      /\ views[i].thread = r.thread /\ views[i].load = r.id
      /\ r.thread \in Threads /\ r.page \in Page /\ r.id \in LoadIds \ {0}
      /\ \A j \in DOMAIN views : j # i => Settled(views[j], loads \ {r})
  BY WaiterFacts
<1>4. /\ views \in Seq(View) /\ Len(views) <= MaxViews
      /\ views[i].shows = 0 => views[i].place = 0
  BY <1>3, ViewStackFacts DEF ViewInv, ViewTypeOK, Arranged
<1>5. keep' \in KeptPlace /\ \A s : KeptForReader(s, keep')
  BY <1>2, NothingIsKept
<1>6. /\ loads \ {r} \in SUBSET Load /\ Numbered(loads \ {r}) /\ max \in Page
      /\ nextLoad \in 1..(MaxLoad + 1) /\ writes' \subseteq Write
  BY <1>2 DEF ViewInv, ViewTypeOK, Numbered, Page
\* Either way the stack is what it was, but for what this view says.
<1>7. ASSUME NEW v \in View, v.kind = "view", v.thread = r.thread,
             v.shows = views[i].shows, v.place = views[i].place,
             NEW s, s = [views EXCEPT ![i] = v]
      PROVE  /\ s \in Seq(View) /\ Len(s) = Len(views) /\ DOMAIN s = DOMAIN views
             /\ s[i] = v /\ \A j \in DOMAIN views : j # i => s[j] = views[j]
             /\ Arranged(s) /\ FromTop(views, s) /\ SentFromTop(s, writes')
  <2>1. /\ s \in Seq(View) /\ Len(s) = Len(views) /\ DOMAIN s = DOMAIN views
        /\ s[i] = v /\ \A j \in DOMAIN views : j # i => s[j] = views[j]
    BY <1>3, <1>4, <1>7
  <2>3. Arranged(s)
    <3>1. \A j \in DOMAIN views : /\ s[j].kind = views[j].kind
                                  /\ s[j].thread = views[j].thread
                                  /\ s[j].shows = views[j].shows
                                  /\ s[j].place = views[j].place
      BY <1>3, <1>7, <2>1
    <3> QED BY <2>1, <3>1 DEF ViewInv, Arranged
  <2>4. FromTop(views, s)
    BY <1>3, <1>7, <2>1 DEF FromTop
  <2>5. SentFromTop(s, writes')
    <3>1. s # <<>> /\ writes' \in SUBSET writes
      BY <1>2, <1>3, <2>1
    <3> QED BY <1>3, <2>1, <3>1, StillSent
  <2> QED BY <2>1, <2>3, <2>4, <2>5
<1>8. CASE max >= 1 /\ max # r.page
  <2> DEFINE v == [views[i] EXCEPT !.last = max, !.loading = TRUE]
             s == [views EXCEPT ![i] = v]
  <2>1. LoadThread(s, loads \ {r}, r.thread, max)
    BY <1>1, <1>8
  <2>2. /\ v \in View /\ v.kind = "view" /\ v.thread = r.thread
        /\ v.shows = views[i].shows /\ v.place = views[i].place
    BY <1>3, <1>6 DEF View
  <2> HIDE DEF v
  <2>3. /\ s \in Seq(View) /\ Len(s) = Len(views) /\ DOMAIN s = DOMAIN views
        /\ s[i] = v /\ \A j \in DOMAIN views : j # i => s[j] = views[j]
        /\ Arranged(s) /\ FromTop(views, s) /\ SentFromTop(s, writes')
    BY <1>7, <2>2
  <2> HIDE DEF s
  <2>4. \A j \in DOMAIN s : \/ s[j].kind = "view" /\ s[j].thread = r.thread
                            \/ Settled(s[j], loads \ {r})
    BY <1>3, <2>2, <2>3
  <2>5. Len(s) <= MaxViews
    BY <1>4, <2>3
  <2> QED BY <1>3, <1>5, <1>6, <2>1, <2>3, <2>4, <2>5, LoadStep
<1>9. CASE ~(max >= 1 /\ max # r.page)
  <2> DEFINE v == [views[i] EXCEPT !.loading = FALSE, !.error = TRUE]
  <2>1. /\ views' = [views EXCEPT ![i] = v]
        /\ loads' = loads \ {r} /\ UNCHANGED nextLoad
    BY <1>1, <1>9
  <2>2. /\ v \in View /\ v.kind = "view" /\ v.thread = r.thread
        /\ v.shows = views[i].shows /\ v.place = views[i].place
        /\ v.loading = FALSE /\ v.error = TRUE
    BY <1>3 DEF View
  <2> HIDE DEF v
  <2>3. /\ views' \in Seq(View) /\ Len(views') = Len(views)
        /\ DOMAIN views' = DOMAIN views
        /\ views'[i] = v /\ \A j \in DOMAIN views : j # i => views'[j] = views[j]
        /\ Arranged(views') /\ FromTop(views, views') /\ SentFromTop(views', writes')
    BY <1>7, <2>1, <2>2
  <2>4. \A j \in DOMAIN views' : Settled(views'[j], loads')
    <3>1. Settled(v, loads')
      BY <2>2 DEF Settled
    <3> QED BY <1>3, <2>1, <2>3, <3>1
  <2> QED BY <1>4, <1>5, <1>6, <2>1, <2>3, <2>4 DEF ViewInv, ViewTypeOK
<1> QED BY <1>8, <1>9

LEMMA ToggledStep ==
  ASSUME ViewInv, Toggled
  PROVE  ViewInv' /\ FromTop(views, views')
<1> USE ThreadViewAssumption
<1> DEFINE S == {i \in DOMAIN views : views[i].kind = "view"}
           h == Highest(S)
           v == views[h]
<1>1. writes' \subseteq writes
  BY DEF Toggled
<1>2. CASE S = {}
  <2>1. UNCHANGED <<views, loads, nextLoad, keep>>
    BY <1>2 DEF Toggled
  <2> QED BY <1>1, <2>1 DEF ViewInv, ViewTypeOK, SentFromTop, FromTop
<1>3. CASE S # {}
  <2>1. /\ keep' = [thread |-> v.thread, page |-> Least(v.page), place |-> v.place]
        /\ LoadThread(views, loads, v.thread, Least(v.page))
    BY <1>3 DEF Toggled
  <2>2. h \in S
    <3>1. S \in SUBSET (1..Front) /\ Front \in Nat
      BY ViewStackFacts DEF ViewInv
    <3> HIDE DEF S
    <3> QED BY <1>3, <3>1, HighestIsIn
  <2> HIDE DEF h
  <2>3. /\ h \in DOMAIN views /\ v \in View /\ v.kind = "view" /\ v.thread \in Threads
        /\ v.shows = 0 => v.place = 0
    BY <2>2, ViewStackFacts DEF ViewInv, Arranged
  <2>4. Least(v.page) \in Page
    BY <2>3 DEF View, Page, Least
  <2>5. keep' \in KeptPlace /\ KeptForReader(views, keep')
    BY <2>1, <2>3, <2>4 DEF KeptPlace, KeptForReader, View
  <2>6. loads \in SUBSET Load /\ Numbered(loads) /\ \A i \in DOMAIN views : Settled(views[i], loads)
    BY DEF ViewInv, ViewTypeOK
  <2> QED BY <1>1, <2>1, <2>3, <2>4, <2>5, <2>6, LoadHere
<1> QED BY <1>2, <1>3

LEMMA ReloadAtTopFacts ==
  ASSUME ViewTypeOK, NEW s \in Seq(View), NEW t \in Threads, ReloadAtTop(s, t)
  PROVE  \E page \in Page : /\ LoadThread(s, loads, t, page)
                            /\ keep' \in KeptPlace /\ KeptForReader(s, keep')
<1> USE ThreadViewAssumption
<1> DEFINE S == ViewsOf(s, t)
           page == IF S = {} THEN 1 ELSE Least(s[Highest(S)].page)
<1>1. LoadThread(s, loads, t, page) /\ keep' = [thread |-> t, page |-> page, place |-> 0]
  BY DEF ReloadAtTop
<1>2. page \in Page
  <2>1. S \in SUBSET (1..Len(s)) /\ Len(s) \in Nat
    BY DEF ViewsOf
  <2>2. CASE S = {}
    BY <2>2 DEF Page
  <2>3. CASE S # {}
    <3>1. Highest(S) \in 1..Len(s)
      BY <2>1, <2>3, HighestIsIn
    <3>2. s[Highest(S)] \in View
      BY <3>1
    <3> QED BY <2>3, <3>2 DEF View, Page, Least
  <2> QED BY <2>2, <2>3
<1> HIDE DEF page
<1> QED BY <1>1, <1>2 DEF KeptPlace, KeptForReader

LEMMA DeletedStep ==
  ASSUME ViewInv, Deleted
  PROVE  ViewInv' /\ FromTop(views, views')
<1>1. PICK w \in writes : writes' = writes \ {w} /\ ReloadAtTop(views, w.thread)
  BY DEF Deleted
<1>2. w.thread \in Threads /\ views \in Seq(View) /\ ViewTypeOK
  BY DEF ViewInv, ViewTypeOK, Write
<1>3. PICK page \in Page : /\ LoadThread(views, loads, w.thread, page)
                           /\ keep' \in KeptPlace /\ KeptForReader(views, keep')
  BY <1>1, <1>2, ReloadAtTopFacts
<1>4. /\ loads \in SUBSET Load /\ Numbered(loads)
      /\ \A i \in DOMAIN views : Settled(views[i], loads)
  BY DEF ViewInv, ViewTypeOK
<1> QED BY <1>1, <1>2, <1>3, <1>4, LoadHere

\* The composer a write came from is on top, and the only one that sends.
LEMMA SentComposer ==
  ASSUME ViewInv, NEW w \in writes, w.what \in {"reply", "edit"}
  PROVE  /\ Front \in ComposersOf(w.what, w.thread)
         /\ Highest(ComposersOf(w.what, w.thread)) = Front
         /\ Front > 0 /\ views[Front].kind = w.what
         /\ \A x \in writes \ {w} : x.what \notin {"reply", "edit"}
<1> DEFINE C == ComposersOf(w.what, w.thread)
<1>1. /\ views \in Seq(View) /\ Front \in Nat /\ DOMAIN views = 1..Front
      /\ SentFromTop(views, writes) /\ Front = Len(views)
  BY ViewStackFacts DEF ViewInv, Front
<1>2. /\ views # <<>> /\ views[Front].kind = w.what
      /\ views[Front].thread = w.thread
  BY <1>1 DEF SentFromTop
<1>3. Front > 0 /\ Front \in C
  BY <1>1, <1>2 DEF ComposersOf
<1>4. C \in SUBSET (1..Front)
  BY <1>1 DEF ComposersOf
<1>5. Highest(C) = Front
  <2> HIDE DEF C
  <2>1. Highest(C) \in C /\ \A j \in C : j <= Highest(C)
    BY <1>1, <1>3, <1>4, HighestIsIn
  <2>2. Highest(C) \in 1..Front /\ Front <= Highest(C)
    BY <1>3, <1>4, <2>1
  <2> QED BY <1>1, <2>2
<1>6. ASSUME NEW x \in writes \ {w} PROVE x.what \notin {"reply", "edit"}
  <2>1. x.what \in {"reply", "edit"} => x.what = w.what /\ x.thread = w.thread
    BY <1>1, <1>2 DEF SentFromTop
  <2>2. x \in Write /\ w \in Write
    BY DEF ViewInv, ViewTypeOK
  <2> QED BY <2>1, <2>2 DEF Write
<1> QED BY <1>2, <1>3, <1>5, <1>6

\* The composer that sent is closed.
LEMMA ComposerCloses ==
  ASSUME ViewInv, NEW w \in writes, w.what \in {"reply", "edit"}, NEW s,
         s = Without(Highest(ComposersOf(w.what, w.thread)))
  PROVE  /\ s \in Seq(View) /\ Len(s) <= MaxViews /\ Arranged(s)
         /\ FromTop(views, s) /\ SentFromTop(s, writes \ {w})
         /\ KeptForReader(s, keep)
         /\ \A i \in DOMAIN s : Settled(s[i], loads)
<1>1. /\ views \in Seq(View) /\ Front \in Nat /\ DOMAIN views = 1..Front
      /\ Front = Len(views) /\ Front <= MaxViews /\ Arranged(views)
      /\ \A i \in 1..Front : views[i] \in View
  BY ViewStackFacts DEF ViewInv, Front
<1>2. /\ Highest(ComposersOf(w.what, w.thread)) = Front /\ Front > 0
      /\ views[Front].kind = w.what
      /\ \A x \in writes \ {w} : x.what \notin {"reply", "edit"}
  BY SentComposer
<1>3. s = [k \in 1..(Front - 1) |-> IF k < Front THEN views[k] ELSE views[k + 1]]
  BY <1>2 DEF Without
<1>4. /\ s \in Seq(View) /\ Len(s) = Front - 1 /\ DOMAIN s = 1..(Front - 1)
      /\ \A i \in 1..(Front - 1) : s[i] = views[i]
  <2>1. s = [k \in 1..(Front - 1) |-> views[k]]
    BY <1>1, <1>3
  <2>2. \A k \in 1..(Front - 1) : views[k] \in View
    BY <1>1
  <2>3. Front - 1 \in Nat
    BY <1>1, <1>2
  <2> QED BY <2>1, <2>2, <2>3
<1>5. /\ Arranged(s) /\ FromTop(views, s) /\ KeptForReader(s, keep)
  <2>1. views # <<>> /\ views[Len(views)].kind # "view"
    BY <1>1, <1>2
  <2>2. /\ Len(s) = Len(views) - 1
        /\ \A i \in 1..(Len(views) - 1) : s[i] = views[i]
    BY <1>1, <1>4
  <2> QED BY <1>1, <1>4, <2>1, <2>2, TakenFromTop DEF ViewInv
<1>6. SentFromTop(s, writes \ {w})
  BY <1>2, NothingSent
<1>7. \A i \in DOMAIN s : Settled(s[i], loads)
  BY <1>1, <1>2, <1>4 DEF ViewInv
<1>8. Len(s) <= MaxViews
  BY <1>1, <1>4, ThreadViewAssumption
<1> QED BY <1>4, <1>5, <1>6, <1>7, <1>8

LEMMA SentStays ==
  ASSUME ViewInv, writes' \subseteq writes, UNCHANGED <<views, loads, nextLoad, keep>>
  PROVE  ViewInv' /\ FromTop(views, views')
BY DEF ViewInv, ViewTypeOK, SentFromTop, FromTop

LEMMA EditedStep ==
  ASSUME ViewInv, Edited
  PROVE  ViewInv' /\ FromTop(views, views')
<1> DEFINE Rest(w) == Without(Highest(ComposersOf("edit", w.thread)))
<1>1. PICK w \in writes :
        /\ w.what = "edit" /\ writes' = writes \ {w}
        /\ IF ComposersOf("edit", w.thread) = {}
           THEN UNCHANGED <<views, loads, nextLoad, keep>>
           ELSE ReloadAtTop(Rest(w), w.thread)
  BY DEF Edited
<1>2. CASE ComposersOf("edit", w.thread) = {}
  BY <1>1, <1>2, SentStays
<1>3. CASE ComposersOf("edit", w.thread) # {}
  <2> DEFINE s == Rest(w)
  <2>1. /\ s \in Seq(View) /\ Len(s) <= MaxViews /\ Arranged(s)
        /\ FromTop(views, s) /\ SentFromTop(s, writes')
        /\ \A i \in DOMAIN s : Settled(s[i], loads)
    BY <1>1, ComposerCloses
  <2>2. ReloadAtTop(s, w.thread)
    BY <1>1, <1>3
  <2> HIDE DEF s
  <2>3. w.thread \in Threads /\ ViewTypeOK /\ writes' \subseteq Write
    BY <1>1 DEF ViewInv, ViewTypeOK, Write
  <2>4. PICK page \in Page : /\ LoadThread(s, loads, w.thread, page)
                             /\ keep' \in KeptPlace /\ KeptForReader(s, keep')
    BY <2>1, <2>2, <2>3, ReloadAtTopFacts
  <2>5. loads \in SUBSET Load /\ Numbered(loads)
    BY DEF ViewInv, ViewTypeOK
  <2> QED BY <2>1, <2>3, <2>4, <2>5, LoadStep
<1> QED BY <1>2, <1>3

LEMMA RepliedStep ==
  ASSUME ViewInv, Replied
  PROVE  ViewInv' /\ FromTop(views, views')
<1> USE ThreadViewAssumption
<1> DEFINE Rest(w) == Without(Highest(ComposersOf("reply", w.thread)))
           S(w) == ViewsOf(views, w.thread)
           known(w) == IF S(w) = {} THEN 1 ELSE Least(views[Highest(S(w))].last)
<1>1. keep' = keep
  BY DEF Replied
<1>2. PICK w \in writes :
        /\ w.what = "reply" /\ writes' = writes \ {w}
        /\ IF ComposersOf("reply", w.thread) = {}
           THEN UNCHANGED <<views, loads, nextLoad>>
           ELSE /\ known(w) <= LastPage
                /\ LoadThread(Rest(w), loads, w.thread, known(w) + 1)
  BY DEF Replied
<1>3. CASE ComposersOf("reply", w.thread) = {}
  BY <1>1, <1>2, <1>3, SentStays
<1>4. CASE ComposersOf("reply", w.thread) # {}
  <2> DEFINE s == Rest(w)
             n == known(w)
  <2>1. /\ s \in Seq(View) /\ Len(s) <= MaxViews /\ Arranged(s)
        /\ FromTop(views, s) /\ SentFromTop(s, writes')
        /\ KeptForReader(s, keep)
        /\ \A i \in DOMAIN s : Settled(s[i], loads)
    BY <1>2, ComposerCloses
  <2>2. n <= LastPage /\ LoadThread(s, loads, w.thread, n + 1)
    BY <1>2, <1>4
  <2> HIDE DEF s
  <2>3. n \in Nat \ {0}
    <3>1. S(w) \in SUBSET (1..Front) /\ Front \in Nat
      BY ViewStackFacts DEF ViewInv, ViewsOf
    <3>2. CASE S(w) = {}
      BY <3>2
    <3>3. CASE S(w) # {}
      <4>1. Highest(S(w)) \in 1..Front
        BY <3>1, <3>3, HighestIsIn
      <4>2. views[Highest(S(w))] \in View
        BY <4>1, ViewStackFacts DEF ViewInv
      <4> QED BY <3>3, <4>2 DEF View, Page, Least
    <3> QED BY <3>2, <3>3
  <2> HIDE DEF n
  <2>4. n + 1 \in Page
    BY <2>2, <2>3 DEF Page
  <2>5. /\ w.thread \in Threads /\ writes' \subseteq Write /\ keep' \in KeptPlace
        /\ KeptForReader(s, keep')
    BY <1>1, <1>2, <2>1 DEF ViewInv, ViewTypeOK, Write
  <2>6. loads \in SUBSET Load /\ Numbered(loads)
    BY DEF ViewInv, ViewTypeOK
  <2> QED BY <2>1, <2>2, <2>4, <2>5, <2>6, LoadStep
<1> QED BY <1>3, <1>4

LEMMA WriteFailsStep ==
  ASSUME ViewInv, WriteFails
  PROVE  ViewInv' /\ FromTop(views, views')
<1> DEFINE C(w) == ComposersOf(w.what, w.thread)
<1>1. PICK w \in writes :
        /\ writes' = writes \ {w}
        /\ views' = IF C(w) = {} THEN views
                    ELSE [views EXCEPT ![Highest(C(w))].busy = FALSE]
  BY DEF WriteFails
<1>2. UNCHANGED <<loads, nextLoad, keep>>
  BY DEF WriteFails
<1>3. CASE C(w) = {}
  BY <1>1, <1>2, <1>3, SentStays
<1>4. CASE C(w) # {}
  <2>1. w.what \in {"reply", "edit"}
    <3>1. PICK i \in DOMAIN views : views[i].kind = w.what
      BY <1>4 DEF ComposersOf
    <3>2. views[i] \in View /\ w \in Write
      BY <3>1, ViewStackFacts DEF ViewInv, ViewTypeOK
    <3> QED BY <3>1, <3>2 DEF View, Write
  <2>2. /\ Highest(C(w)) = Front /\ Front > 0 /\ views[Front].kind = w.what
        /\ \A x \in writes \ {w} : x.what \notin {"reply", "edit"}
    BY <2>1, SentComposer
  <2> DEFINE v == [views[Front] EXCEPT !.busy = FALSE]
  <2>3. views' = [views EXCEPT ![Front] = v]
    BY <1>1, <1>4, <2>2
  <2>4. Front \in DOMAIN views /\ views[Front] \in View /\ Arranged(views)
    BY <2>2, ViewStackFacts DEF ViewInv
  <2>5. /\ v \in View /\ v.kind = views[Front].kind /\ v.thread = views[Front].thread
        /\ v.shows = views[Front].shows /\ v.place = views[Front].place
    BY <2>4 DEF View
  <2>6. v.shows = 0 => v.place = 0
    BY <2>4, <2>5 DEF Arranged
  <2> HIDE DEF v
  <2>7. /\ views' \in Seq(View) /\ Len(views') = Len(views)
        /\ DOMAIN views' = DOMAIN views /\ views'[Front] = v
        /\ \A j \in DOMAIN views : j # Front => views'[j] = views[j]
        /\ Arranged(views') /\ KeptForReader(views', keep')
    BY <1>2, <2>3, <2>4, <2>5, <2>6, OneScreen DEF ViewInv
  <2>8. \A i \in DOMAIN views' : Settled(views'[i], loads')
    <3>1. Settled(v, loads)
      BY <2>1, <2>2, <2>5 DEF Settled
    <3> QED BY <1>2, <2>7, <3>1 DEF ViewInv
  <2>9. SentFromTop(views', writes')
    BY <1>1, <2>2, NothingSent
  <2>10. FromTop(views, views')
    BY <2>5, <2>7 DEF FromTop
  <2> QED BY <1>1, <1>2, <2>7, <2>8, <2>9, <2>10 DEF ViewInv, ViewTypeOK
<1> QED BY <1>3, <1>4

LEMMA ArrangedAlike ==
  ASSUME NEW s, NEW t, DOMAIN t = DOMAIN s, Arranged(s),
         \A i \in DOMAIN s : /\ t[i].kind = s[i].kind /\ t[i].thread = s[i].thread
                             /\ t[i].shows = s[i].shows /\ t[i].place = s[i].place
  PROVE  Arranged(t)
<1>1. \A i, j \in DOMAIN t :
        (t[i].kind = "view" /\ t[j].kind = "view" /\ t[i].thread = t[j].thread) => i = j
  BY DEF Arranged
<1>2. ASSUME NEW i \in DOMAIN t, t[i].kind \in {"reply", "edit"}
      PROVE  \E j \in DOMAIN t : j < i /\ t[j].kind = "view" /\ t[j].thread = t[i].thread
  <2>1. PICK j \in DOMAIN s : j < i /\ s[j].kind = "view" /\ s[j].thread = s[i].thread
    BY <1>2 DEF Arranged
  <2> QED BY <2>1
<1>3. \A i \in DOMAIN t : /\ t[i].shows = 0 => t[i].place = 0
                          /\ t[i].kind # "other" => t[i].thread \in Threads
  BY DEF Arranged
<1> QED BY <1>1, <1>2, <1>3 DEF Arranged

LEMMA RecheckedStep ==
  ASSUME ViewInv, Rechecked
  PROVE  ViewInv' /\ FromTop(views, views')
<1> DEFINE v(i) == [views[i] EXCEPT !.loading = FALSE, !.busy = FALSE,
                                    !.error = @ \/ views[i].loading]
<1>1. /\ views' = [i \in DOMAIN views |-> v(i)]
      /\ loads' = {} /\ writes' = {} /\ UNCHANGED <<nextLoad, keep>>
  BY DEF Rechecked
<1>2. /\ views \in Seq(View) /\ DOMAIN views = 1..Len(views) /\ Len(views) \in Nat
      /\ \A i \in 1..Len(views) : views[i] \in View
  BY ViewStackFacts DEF ViewInv, Front
<1>3. ASSUME NEW i \in 1..Len(views)
      PROVE  /\ v(i) \in View /\ v(i).kind = views[i].kind
             /\ v(i).thread = views[i].thread /\ v(i).shows = views[i].shows
             /\ v(i).place = views[i].place
             /\ v(i).loading = FALSE /\ v(i).error = (views[i].error \/ views[i].loading)
             /\ v(i).load = views[i].load /\ v(i).page = views[i].page
             /\ v(i).last = views[i].last
  BY <1>2 DEF View
<1> HIDE DEF v
<1>4. /\ views' \in Seq(View) /\ Len(views') = Len(views)
      /\ DOMAIN views' = 1..Len(views)
      /\ \A i \in 1..Len(views) : views'[i] = v(i)
  <2>1. views' = [i \in 1..Len(views) |-> v(i)]
    BY <1>1, <1>2
  <2>2. \A i \in 1..Len(views) : v(i) \in View
    BY <1>3
  <2> HIDE DEF ViewInv
  <2> QED BY <1>2, <2>1, <2>2
<1>5. \A i \in 1..Len(views) : /\ views'[i].kind = views[i].kind
                               /\ views'[i].thread = views[i].thread
                               /\ views'[i].shows = views[i].shows
                               /\ views'[i].place = views[i].place
  BY <1>3, <1>4
<1>6. Arranged(views')
  <2>1. Arranged(views) /\ DOMAIN views' = DOMAIN views
    BY <1>2, <1>4 DEF ViewInv
  <2> QED BY <1>2, <1>5, <2>1, ArrangedAlike
<1>7. KeptForReader(views', keep')
  BY <1>1, <1>2, <1>4, <1>5 DEF ViewInv, KeptForReader
<1>8. ASSUME NEW i \in DOMAIN views' PROVE Settled(views'[i], loads')
  <2>1. Settled(views[i], loads) /\ i \in 1..Len(views)
    BY <1>2, <1>4 DEF ViewInv
  <2>2. views[i].loading \in BOOLEAN
    BY <1>2, <2>1 DEF View
  <2> QED BY <1>3, <1>4, <2>1, <2>2 DEF Settled
<1>9. SentFromTop(views', writes') /\ Numbered(loads')
  BY <1>1 DEF SentFromTop, Numbered
<1>10. FromTop(views, views')
  BY <1>2, <1>4, <1>5 DEF FromTop
<1> QED BY <1>1, <1>4, <1>6, <1>7, <1>8, <1>9, <1>10 DEF ViewInv, ViewTypeOK

LEMMA SessionEndsStep ==
  ASSUME ViewInv, SessionEnds
  PROVE  ViewInv' /\ FromTop(views, views')
<1>1. /\ views' = <<>> /\ loads' = {} /\ writes' = {} /\ keep' = NothingKept
      /\ nextLoad' = nextLoad
  BY DEF SessionEnds
<1>2. /\ views' \in Seq(View) /\ Len(views') = 0 /\ DOMAIN views' = {}
  BY <1>1
<1>3. Arranged(views') /\ FromTop(views, views')
  BY <1>2 DEF Arranged, FromTop
<1>4. SentFromTop(views', writes') /\ Numbered(loads')
  BY <1>1 DEF SentFromTop, Numbered
<1>5. keep' \in KeptPlace /\ KeptForReader(views', keep')
  BY <1>1, NothingIsKept
<1> QED BY <1>1, <1>2, <1>3, <1>4, <1>5, ThreadViewAssumption DEF ViewInv, ViewTypeOK

LEMMA ViewInitially ==
  ASSUME ViewInit
  PROVE  ViewInv
<1>1. /\ views = <<>> /\ loads = {} /\ nextLoad = 1 /\ keep = NothingKept /\ writes = {}
  BY DEF ViewInit
<1>2. views \in Seq(View) /\ Len(views) = 0 /\ DOMAIN views = {}
  BY <1>1
<1>3. Arranged(views) /\ SentFromTop(views, writes) /\ Numbered(loads)
  BY <1>1, <1>2 DEF Arranged, SentFromTop, Numbered
<1>4. keep \in KeptPlace /\ KeptForReader(views, keep)
  BY <1>1, NothingIsKept
<1> QED BY <1>1, <1>2, <1>3, <1>4, ThreadViewAssumption DEF ViewInv, ViewTypeOK

LEMMA ViewNextStep ==
  ASSUME ~Twins, ViewInv, [ViewNext]_viewVars
  PROVE  ViewInv' /\ FromTop(views, views')
<1>1. CASE UNCHANGED viewVars
  BY <1>1, SentStays DEF viewVars
<1>2. ASSUME NEW t \in Threads, OpenThread(t) PROVE ViewInv' /\ FromTop(views, views')
  BY <1>2, OpenThreadStep
<1>3. CASE OpenAnother \/ PopView \/ Send \/ Rechecked \/ SessionEnds
  BY <1>3, OpenAnotherStep, PopViewStep, SendStep, RecheckedStep, SessionEndsStep
<1>4. ASSUME NEW page \in Page, TurnTo(page) PROVE ViewInv' /\ FromTop(views, views')
  BY <1>4, TurnToStep
<1>5. ASSUME NEW place \in Spots, MoveTo(place) PROVE ViewInv' /\ FromTop(views, views')
  BY <1>5, MoveToStep
<1>6. ASSUME NEW what \in {"toggle", "delete"}, Act(what)
      PROVE  ViewInv' /\ FromTop(views, views')
  BY <1>6, ActStep
<1>7. ASSUME NEW kind \in {"reply", "edit"}, Compose(kind)
      PROVE  ViewInv' /\ FromTop(views, views')
  BY <1>7, ComposeStep
<1>8. ASSUME NEW r \in loads,
             \/ NobodyWaits(r)
             \/ \E last \in 1..LastPage : ThreadLoaded(r, last)
             \/ \E max \in 0..LastPage : ThreadRefused(r, max)
      PROVE  ViewInv' /\ FromTop(views, views')
  BY <1>8, NobodyWaitsStep, ThreadLoadedStep, ThreadRefusedStep
<1>9. CASE Toggled \/ Deleted \/ Edited \/ Replied \/ WriteFails
  BY <1>9, ToggledStep, DeletedStep, EditedStep, RepliedStep, WriteFailsStep
<1> QED BY <1>1, <1>2, <1>3, <1>4, <1>5, <1>6, <1>7, <1>8, <1>9 DEF ViewNext

\* As long as no thread is open in two views at once: every view that loads
\* has its request on its way, a composer lies over the thread it writes to,
\* what is being sent is sent from the screen on top, and a place is kept for
\* a view that is still there (load_thread, ThreadLoaded, pop_screen).
THEOREM ViewInvariance == ASSUME ~Twins PROVE ViewSpec => []ViewInv
<1>1. ViewInit => ViewInv
  BY ViewInitially
<1>2. ViewInv /\ [ViewNext]_viewVars => ViewInv'
  BY ViewNextStep
<1> QED BY <1>1, <1>2, PTL DEF ViewSpec

\* A view that says it is loading has its load on the way, and one that does
\* not shows the page it asked for last, or its error: for every number of
\* threads, pages, loads and screens, as long as no thread is open in two
\* views at once (ThreadLoaded, load_thread).
THEOREM LoadsAlwaysSettle == ASSUME ~Twins PROVE ViewSpec => []LoadsSettle
<1>1. ViewInv => LoadsSettle
  BY DEF ViewInv, LoadsSettle, Settled
<1> QED BY <1>1, ViewInvariance, PTL

\* A thread that is opened afresh is shown from its top, never from the place
\* kept for a view that is gone: for every number of threads, pages, loads
\* and screens, as long as no thread is open in two views at once
\* (pop_screen).
THEOREM FreshAlwaysOpensAtTop == ASSUME ~Twins PROVE ViewSpec => FreshOpensAtTop
<1> DEFINE A == \A i \in DOMAIN views :
       (i \in DOMAIN views' /\ views[i].shows = 0 /\ views'[i].shows # 0
         /\ views'[i].kind = "view") => views'[i].place = 0
<1>1. ViewInv /\ [ViewNext]_viewVars => [A]_viewVars
  BY ViewNextStep DEF FromTop
<1>2. ViewInv /\ [ViewNext]_viewVars => ViewInv'
  BY ViewNextStep
<1>3. ViewSpec => [][A]_viewVars
  <2> HIDE DEF A
  <2> QED BY <1>1, ViewInvariance, PTL DEF ViewSpec
<1> QED BY <1>3 DEF FreshOpensAtTop
-----------------------------------------------------------------------------
(***************************************************************************)
(* Images.  A picture that is waited for has one load of this session, or   *)
(* its answer, on its way; what a load carries was fetched with the right   *)
(* to see it; and the cache orders each picture it holds once (ImageInv).   *)
(***************************************************************************)

\* The loads of this session, and their answers.
LoadsOf(js, now) == {j \in js : j.session = now /\ ~j.aborted}
AnswersOf(ms, now) == {m \in ms : m.session = now}

\* No two of them are of one source.
OnePerSource(running, answers) ==
  /\ \A j, k \in running : j.key.source = k.key.source => j = k
  /\ \A m, n \in answers : m.key.source = n.key.source => m = n
  /\ \A j \in running, m \in answers : j.key.source # m.key.source

OnTheirWay(keys, running, answers) ==
  /\ keys = {j.key : j \in running} \cup {m.key : m \in answers}
  /\ OnePerSource(running, answers)

\* What failed would not be served from disk what made it fail.
NotJunk(s, d) == s \notin Private => d[s] # "junk"

\* What a load holds: a private picture never comes from disk, and what is
\* decoded was fetched under the session that asked, or kept by the disk.
LoadOK(j, d, now) ==
  /\ j.session <= now /\ (~j.aborted => j.session = now)
  /\ j.at = "decoding" =>
       \/ j.from = "network" /\ j.by = j.session /\ NotJunk(j.key.source, d)
       \/ j.from = "disk" /\ j.key.source \notin Private /\ j.bytes # "none"

AnswerOK(m, d, now) ==
  /\ m.session <= now
  /\ IF m.ok THEN m.key.source \in Private => m.by = m.session
     ELSE NotJunk(m.key.source, d)

OwnPictures(c, now) ==
  \A i \in DOMAIN c : c[i].source \in Private => c[i].by = now

ImageInv ==
  /\ ImageTypeOK /\ IsFiniteSet(jobs) /\ IsFiniteSet(arrived)
  /\ OnTheirWay(inflight, LoadsOf(jobs, session), AnswersOf(arrived, session))
  /\ \A j \in jobs : LoadOK(j, disk, session)
  /\ \A m \in arrived : AnswerOK(m, disk, session)
  /\ \A k \in failed : NotJunk(k.source, disk)
  /\ OwnPictures(cache, session)
----------------------------------------------------------------------------
\* The requests on their way are as many as the loads and the answers.
LEMMA OnePerLoad ==
  ASSUME NEW running, NEW answers, IsFiniteSet(running), IsFiniteSet(answers),
         OnePerSource(running, answers),
         NEW keys, keys = {j.key : j \in running} \cup {m.key : m \in answers}
  PROVE  Cardinality(SourcesOf(keys)) = Cardinality(running) + Cardinality(answers)
<1> DEFINE A == {j.key.source : j \in running}
           B == {m.key.source : m \in answers}
<1>1. SourcesOf(keys) = A \cup B
  BY DEF SourcesOf
<1>2. A \cap B = {}
  BY DEF OnePerSource
<1>3. IsFiniteSet(A) /\ Cardinality(A) = Cardinality(running)
  <2> DEFINE f == [j \in running |-> j.key.source]
  <2>1. f \in Bijection(running, A)
    BY DEF OnePerSource, Bijection, Injection, Surjection, IsInjective
  <2>2. ExistsBijection(running, A)
    BY <2>1 DEF ExistsBijection
  <2> HIDE DEF A
  <2> QED BY <2>2, FS_Bijection
<1>4. IsFiniteSet(B) /\ Cardinality(B) = Cardinality(answers)
  <2> DEFINE f == [m \in answers |-> m.key.source]
  <2>1. f \in Bijection(answers, B)
    BY DEF OnePerSource, Bijection, Injection, Surjection, IsInjective
  <2>2. ExistsBijection(answers, B)
    BY <2>1 DEF ExistsBijection
  <2> HIDE DEF B
  <2> QED BY <2>2, FS_Bijection
<1> HIDE DEF A, B
<1>5. Cardinality(A \cup B) = Cardinality(A) + Cardinality(B) - Cardinality(A \cap B)
  BY <1>3, <1>4, FS_Union
<1>6. Cardinality(A \cap B) = 0 /\ Cardinality(A) \in Nat /\ Cardinality(B) \in Nat
  BY <1>2, <1>3, <1>4, FS_EmptySet, FS_CardinalityType
<1>7. Cardinality(A \cup B) = Cardinality(A) + Cardinality(B)
  BY <1>5, <1>6
<1> QED BY <1>1, <1>3, <1>4, <1>7

\* What the invariant says.
LEMMA PicturesInv ==
  ASSUME ImageInv
  PROVE  PicturesCanCome /\ PrivateStaysPrivate
<1> DEFINE loading == {j \in jobs : j.session = session /\ ~j.aborted}
           coming == {m \in arrived : m.session = session}
<1>1. /\ IsFiniteSet(jobs) /\ IsFiniteSet(arrived)
      /\ OnTheirWay(inflight, loading, coming)
      /\ \A k \in failed : NotJunk(k.source, disk)
      /\ OwnPictures(cache, session)
  BY DEF ImageInv, LoadsOf, AnswersOf
<1>2. IsFiniteSet(loading) /\ IsFiniteSet(coming)
  <2>1. loading \subseteq jobs /\ coming \subseteq arrived
    OBVIOUS
  <2> HIDE DEF loading, coming
  <2> QED BY <1>1, <2>1, FS_Subset
<1>3. /\ inflight = {j.key : j \in loading} \cup {m.key : m \in coming}
      /\ OnePerSource(loading, coming)
  BY <1>1 DEF OnTheirWay
<1>4. Cardinality(SourcesOf(inflight)) = Cardinality(loading) + Cardinality(coming)
  <2> HIDE DEF loading, coming
  <2> QED BY <1>2, <1>3, OnePerLoad
<1>5. \A k \in failed : k.source \notin Private => disk[k.source] # "junk"
  BY <1>1 DEF NotJunk
<1>6. PrivateStaysPrivate
  BY <1>1 DEF OwnPictures, PrivateStaysPrivate
<1> QED BY <1>3, <1>4, <1>5, <1>6 DEF PicturesCanCome

----------------------------------------------------------------------------
LEMMA JobFields ==
  ASSUME ImageTypeOK, NEW j \in jobs
  PROVE  /\ j \in Job /\ j.key \in Keys /\ j.session \in 1..MaxSession
         /\ j.by \in 0..MaxSession /\ j.aborted \in BOOLEAN /\ j.bytes \in Bytes
         /\ j.key.source \in Sources
<1>1. j \in Job
  BY DEF ImageTypeOK
<1>2. j.key \in Keys /\ j.key.source \in Sources
  BY <1>1, ImagesAssumption DEF Job
<1> QED BY <1>1, <1>2 DEF Job

\* The disk only comes to hold junk no more.
LEMMA DiskGetsBetter ==
  ASSUME NEW d, NEW e, \A s \in Sources : NotJunk(s, d) => NotJunk(s, e),
         NEW now
  PROVE  /\ \A j : (LoadOK(j, d, now) /\ j.key.source \in Sources) => LoadOK(j, e, now)
         /\ \A m : (AnswerOK(m, d, now) /\ m.key.source \in Sources) => AnswerOK(m, e, now)
BY DEF LoadOK, AnswerOK

\* A load that goes on is still the load of its picture.
LEMMA LoadGoesOn ==
  ASSUME ImageInv, NEW j \in jobs, ~j.aborted, NEW k \in Job,
         k.key = j.key, k.session = j.session, k.aborted = j.aborted,
         LoadOK(k, disk, session), Becomes(j, k),
         UNCHANGED <<session, inflight, failed, cache, disk, arrived>>
  PROVE  ImageInv'
<1>1. jobs' = (jobs \ {j}) \cup {k}
  BY DEF Becomes
<1>2. /\ ImageTypeOK /\ IsFiniteSet(jobs) /\ IsFiniteSet(arrived)
      /\ OnTheirWay(inflight, LoadsOf(jobs, session), AnswersOf(arrived, session))
      /\ \A i \in jobs : LoadOK(i, disk, session)
      /\ \A m \in arrived : AnswerOK(m, disk, session)
      /\ \A i \in failed : NotJunk(i.source, disk)
      /\ OwnPictures(cache, session)
  BY DEF ImageInv
<1>3. IsFiniteSet(jobs')
  <2>1. IsFiniteSet(jobs \ {j})
    BY <1>2, FS_Subset
  <2> DEFINE rest == jobs \ {j}
  <2>2. IsFiniteSet(rest \cup {k})
    <3> HIDE DEF rest
    <3> QED BY <2>1, FS_AddElement DEF rest
  <2> QED BY <1>1, <2>2
<1>4. \A i \in jobs' : LoadOK(i, disk, session)
  BY <1>1, <1>2
<1>5. j \in LoadsOf(jobs, session)
  BY <1>2 DEF LoadsOf, LoadOK
<1> DEFINE running == LoadsOf(jobs, session)
           answers == AnswersOf(arrived, session)
<1>6. LoadsOf(jobs', session) = (running \ {j}) \cup {k}
  BY <1>1, <1>5 DEF LoadsOf
<1>7. OnTheirWay(inflight, (running \ {j}) \cup {k}, answers)
  <2>1. OnTheirWay(inflight, running, answers) /\ j \in running
    BY <1>2, <1>5
  <2> HIDE DEF running, answers
  <2> QED BY <2>1 DEF OnTheirWay, OnePerSource
<1>8. OnTheirWay(inflight, LoadsOf(jobs', session), answers)
  BY <1>6, <1>7
<1>9. jobs' \subseteq Job
  BY <1>1, <1>2 DEF ImageTypeOK
<1>10. ImageTypeOK'
  BY <1>2, <1>9 DEF ImageTypeOK
<1> QED BY <1>2, <1>3, <1>4, <1>8, <1>10 DEF ImageInv

LEMMA AcquireSlotKeeps ==
  ASSUME ImageInv, NEW j \in jobs, AcquireSlot(j)
  PROVE  ImageInv'
<1> DEFINE k == [j EXCEPT !.at = "loading"]
<1>1. j \in Job /\ LoadOK(j, disk, session)
  BY JobFields DEF ImageInv
<1>2. /\ k \in Job /\ k.key = j.key /\ k.session = j.session /\ k.aborted = j.aborted
      /\ k.at = "loading"
  BY <1>1 DEF Job
<1>3. ~j.aborted /\ Becomes(j, k) /\ UNCHANGED <<session, inflight, failed, cache, disk, arrived>>
  BY DEF AcquireSlot
<1> HIDE DEF k
<1>4. LoadOK(k, disk, session)
  BY <1>1, <1>2 DEF LoadOK
<1> QED BY <1>2, <1>3, <1>4, LoadGoesOn

LEMMA ReadDiskKeeps ==
  ASSUME ImageInv, NEW j \in jobs, ReadDisk(j)
  PROVE  ImageInv'
<1> DEFINE was == disk[j.key.source]
           k == [j EXCEPT !.at = "decoding", !.from = "disk", !.bytes = was]
<1>1. j \in Job /\ LoadOK(j, disk, session) /\ j.key.source \in Sources
  BY JobFields DEF ImageInv
<1>2. /\ ~j.aborted /\ j.key.source \notin Private /\ was # "none"
      /\ Becomes(j, k) /\ UNCHANGED <<session, inflight, failed, cache, disk, arrived>>
  BY DEF ReadDisk, Cacheable
<1>3. was \in Bytes
  BY <1>1 DEF ImageInv, ImageTypeOK
<1> HIDE DEF was
<1>4. /\ k \in Job /\ k.key = j.key /\ k.session = j.session /\ k.aborted = j.aborted
      /\ k.from = "disk" /\ k.bytes = was
  BY <1>1, <1>3 DEF Job
<1> HIDE DEF k
<1>5. LoadOK(k, disk, session)
  BY <1>1, <1>2, <1>4 DEF LoadOK
<1> QED BY <1>2, <1>4, <1>5, LoadGoesOn

LEMMA FetchKeeps ==
  ASSUME ImageInv, NEW j \in jobs, NEW bytes \in {"picture", "junk"}, Fetch(j, bytes)
  PROVE  ImageInv'
<1> DEFINE k == [j EXCEPT !.at = "decoding", !.from = "network",
                          !.bytes = bytes, !.by = j.session]
<1>1. j \in Job /\ LoadOK(j, disk, session) /\ j.session \in 0..MaxSession
  BY JobFields, ImagesAssumption DEF ImageInv
<1>2. /\ ~j.aborted /\ (j.key.source \notin Private => disk[j.key.source] = "none")
      /\ Becomes(j, k) /\ UNCHANGED <<session, inflight, failed, cache, disk, arrived>>
  BY DEF Fetch, Cacheable
<1>3. /\ k \in Job /\ k.key = j.key /\ k.session = j.session /\ k.aborted = j.aborted
      /\ k.from = "network" /\ k.by = j.session
  BY <1>1 DEF Job, Bytes
<1> HIDE DEF k
<1>4. LoadOK(k, disk, session)
  BY <1>1, <1>2, <1>3 DEF LoadOK, NotJunk
<1> QED BY <1>2, <1>3, <1>4, LoadGoesOn

LEMMA ImageInvFacts ==
  ASSUME ImageInv
  PROVE  /\ ImageTypeOK /\ IsFiniteSet(jobs) /\ IsFiniteSet(arrived)
         /\ OnTheirWay(inflight, LoadsOf(jobs, session), AnswersOf(arrived, session))
         /\ \A j \in jobs : LoadOK(j, disk, session)
         /\ \A m \in arrived : AnswerOK(m, disk, session)
         /\ \A k \in failed : NotJunk(k.source, disk)
         /\ OwnPictures(cache, session)
         /\ \A j \in jobs : j.key.source \in Sources
         /\ \A m \in arrived : m.key.source \in Sources
         /\ \A k \in failed : k.source \in Sources
<1>1. ImageTypeOK /\ \A j \in jobs : j.key.source \in Sources
  BY JobFields DEF ImageInv
<1>2. \A k \in Keys : k.source \in Sources
  BY ImagesAssumption
<1>3. (\A m \in arrived : m.key \in Keys) /\ failed \subseteq Keys
  BY <1>1 DEF ImageTypeOK, Arrival
<1> QED BY <1>1, <1>2, <1>3 DEF ImageInv

\* A load of this session ends, and its answer is on its way.
LEMMA LoadEnds ==
  ASSUME ImageInv, NEW j \in jobs, ~j.aborted, NEW ok \in BOOLEAN,
         jobs' = jobs \ {j}, Arrives(j, ok), disk' \in [Sources -> Bytes],
         \A s \in Sources : NotJunk(s, disk) => NotJunk(s, disk'),
         ok => (j.key.source \in Private => j.by = j.session),
         ~ok => NotJunk(j.key.source, disk'),
         UNCHANGED <<session, inflight, failed, cache>>
  PROVE  ImageInv'
<1> DEFINE m == [key |-> j.key, session |-> j.session, ok |-> ok, by |-> j.by]
<1>1. arrived' = arrived \cup {m}
  BY DEF Arrives
<1>2. /\ m \in Arrival /\ m.key = j.key /\ m.session = j.session /\ m.ok = ok
      /\ m.by = j.by
  BY JobFields, ImageInvFacts DEF Arrival
<1> HIDE DEF m
<1>3. j.session = session
  BY ImageInvFacts DEF LoadOK
<1>4. AnswerOK(m, disk', session)
  <2>1. session <= session
    BY ImageInvFacts DEF ImageTypeOK
  <2> QED BY <1>2, <1>3, <2>1 DEF AnswerOK
<1> DEFINE running == LoadsOf(jobs, session)
           answers == AnswersOf(arrived, session)
<1>5. /\ LoadsOf(jobs', session) = running \ {j}
      /\ AnswersOf(arrived', session) = answers \cup {m}
      /\ j \in running
  BY <1>1, <1>2, <1>3 DEF LoadsOf, AnswersOf
<1>6. OnTheirWay(inflight, running \ {j}, answers \cup {m})
  <2>1. OnTheirWay(inflight, running, answers)
    BY ImageInvFacts
  <2> HIDE DEF running, answers
  <2> QED BY <1>2, <1>5, <2>1 DEF OnTheirWay, OnePerSource
<1>7. IsFiniteSet(jobs') /\ IsFiniteSet(arrived')
  <2>1. IsFiniteSet(jobs \ {j})
    BY ImageInvFacts, FS_Subset
  <2>2. IsFiniteSet(arrived \cup {m})
    BY ImageInvFacts, FS_AddElement
  <2> QED BY <1>1, <2>1, <2>2
<1>8. \A i \in jobs' : LoadOK(i, disk', session)
  BY ImageInvFacts, DiskGetsBetter
<1>9. \A i \in arrived' : AnswerOK(i, disk', session)
  BY <1>1, <1>4, ImageInvFacts, DiskGetsBetter
<1>10. \A k \in failed : NotJunk(k.source, disk')
  BY ImageInvFacts
<1>11. ImageTypeOK'
  BY <1>1, <1>2, ImageInvFacts DEF ImageTypeOK
<1>12. OnTheirWay(inflight, LoadsOf(jobs', session), AnswersOf(arrived', session))
  BY <1>5, <1>6
<1> QED BY <1>7, <1>8, <1>9, <1>10, <1>11, <1>12, ImageInvFacts DEF ImageInv

LEMMA FetchFailsKeeps ==
  ASSUME ImageInv, NEW j \in jobs, FetchFails(j)
  PROVE  ImageInv'
<1>1. /\ ~j.aborted /\ (j.key.source \notin Private => disk[j.key.source] = "none")
      /\ jobs' = jobs \ {j} /\ Arrives(j, FALSE)
      /\ UNCHANGED <<session, inflight, failed, cache, disk>>
  BY DEF FetchFails, Cacheable
<1>2. NotJunk(j.key.source, disk')
  BY <1>1 DEF NotJunk
<1>3. disk' \in [Sources -> Bytes]
  BY <1>1, ImageInvFacts DEF ImageTypeOK
<1>4. \A s \in Sources : NotJunk(s, disk) => NotJunk(s, disk')
  BY <1>1
<1>5. FALSE \in BOOLEAN
  OBVIOUS
<1> QED BY <1>1, <1>2, <1>3, <1>4, <1>5, LoadEnds

LEMMA DecodeKeeps ==
  ASSUME ImageInv, NEW j \in jobs, Decode(j)
  PROVE  ImageInv'
<1> DEFINE s == j.key.source
           ok == j.bytes = "picture"
<1>1. /\ j.at = "decoding" /\ ~j.aborted /\ jobs' = jobs \ {j} /\ Arrives(j, ok)
      /\ UNCHANGED <<session, inflight, failed, cache>>
      /\ disk' = CASE j.bytes = "picture" /\ j.from = "network" /\ Cacheable(j) ->
                        [disk EXCEPT ![s] = "picture"]
                   [] j.bytes = "junk" /\ j.from = "disk" -> [disk EXCEPT ![s] = "none"]
                   [] OTHER -> disk
  BY DEF Decode
<1>2. /\ s \in Sources /\ disk \in [Sources -> Bytes] /\ LoadOK(j, disk, session)
      /\ j.bytes \in Bytes
  BY ImageInvFacts, JobFields DEF ImageTypeOK
<1>3. \/ j.from = "network" /\ j.by = j.session /\ NotJunk(s, disk)
      \/ j.from = "disk" /\ s \notin Private /\ j.bytes # "none"
  BY <1>1, <1>2 DEF LoadOK
<1>4. \/ disk' = disk /\ (ok \/ j.from = "network")
      \/ disk' = [disk EXCEPT ![s] = "picture"]
      \/ disk' = [disk EXCEPT ![s] = "none"]
  <2>1. j.bytes \in {"none", "picture", "junk"}
    BY <1>2 DEF Bytes
  <2>2. CASE j.bytes = "picture" /\ j.from = "network" /\ Cacheable(j)
    BY <1>1, <2>2
  <2>3. CASE j.bytes = "junk" /\ j.from = "disk"
    BY <1>1, <2>3
  <2>4. CASE ~(j.bytes = "picture" /\ j.from = "network" /\ Cacheable(j))
             /\ ~(j.bytes = "junk" /\ j.from = "disk")
    <3>1. disk' = disk
      BY <1>1, <2>4
    <3>2. ok \/ j.from = "network"
      BY <1>3, <2>1, <2>4
    <3> QED BY <3>1, <3>2
  <2> QED BY <2>2, <2>3, <2>4
<1> HIDE DEF ok
<1>5. disk' \in [Sources -> Bytes]
  BY <1>2, <1>4 DEF Bytes
<1>6. \A t \in Sources : NotJunk(t, disk) => NotJunk(t, disk')
  BY <1>2, <1>4 DEF NotJunk
<1>7. ~ok => NotJunk(s, disk')
  BY <1>2, <1>3, <1>4 DEF NotJunk
<1>8. s \in Private => j.by = j.session
  BY <1>3
<1>9. ok \in BOOLEAN
  BY DEF ok
<1>10. Arrives(j, ok)
  BY <1>1
<1> QED BY <1>1, <1>5, <1>6, <1>7, <1>8, <1>9, <1>10, LoadEnds

LEMMA DiskChangesKeeps ==
  ASSUME ImageInv, NEW s \in Sources, NEW bytes \in Bytes, DiskChanges(s, bytes)
  PROVE  ImageInv'
<1>1. /\ bytes # "junk" /\ disk' = [disk EXCEPT ![s] = bytes]
      /\ UNCHANGED <<session, inflight, failed, cache, jobs, arrived>>
  BY DEF DiskChanges
<1>2. disk' \in [Sources -> Bytes]
  BY <1>1, ImageInvFacts DEF ImageTypeOK
<1>3. \A t \in Sources : NotJunk(t, disk) => NotJunk(t, disk')
  BY <1>1, ImageInvFacts DEF NotJunk, ImageTypeOK
<1>4. /\ \A j \in jobs : LoadOK(j, disk', session)
      /\ \A m \in arrived : AnswerOK(m, disk', session)
      /\ \A k \in failed : NotJunk(k.source, disk')
  BY <1>3, ImageInvFacts, DiskGetsBetter
<1>5. ImageTypeOK'
  BY <1>1, <1>2, ImageInvFacts DEF ImageTypeOK
<1> QED BY <1>1, <1>4, <1>5, ImageInvFacts DEF ImageInv

LEMMA AbortedEndsKeeps ==
  ASSUME ImageInv, NEW j \in jobs, AbortedEnds(j)
  PROVE  ImageInv'
<1>1. /\ j.aborted /\ jobs' = jobs \ {j}
      /\ UNCHANGED <<session, inflight, failed, cache, disk, arrived>>
  BY DEF AbortedEnds
<1>2. LoadsOf(jobs', session) = LoadsOf(jobs, session)
  BY <1>1 DEF LoadsOf
<1>3. IsFiniteSet(jobs')
  BY <1>1, ImageInvFacts, FS_Subset
<1>4. ImageTypeOK'
  BY <1>1, ImageInvFacts DEF ImageTypeOK
<1>5. /\ OnTheirWay(inflight', LoadsOf(jobs', session'), AnswersOf(arrived', session'))
      /\ \A i \in jobs' : LoadOK(i, disk', session')
      /\ \A m \in arrived' : AnswerOK(m, disk', session')
      /\ \A k \in failed' : NotJunk(k.source, disk')
      /\ OwnPictures(cache', session') /\ IsFiniteSet(arrived')
  BY <1>1, <1>2, ImageInvFacts
<1> QED BY <1>3, <1>4, <1>5 DEF ImageInv

LEMMA RetryKeeps ==
  ASSUME ImageInv, NEW s \in Sources, Retry(s)
  PROVE  ImageInv'
<1>1. /\ failed' \subseteq failed
      /\ UNCHANGED <<session, inflight, cache, disk, jobs, arrived>>
  BY DEF Retry
<1>2. ImageTypeOK'
  BY <1>1, ImageInvFacts DEF ImageTypeOK
<1>3. \A k \in failed' : NotJunk(k.source, disk')
  BY <1>1, ImageInvFacts
<1> QED BY <1>1, <1>2, <1>3, ImageInvFacts DEF ImageInv

LEMMA ResetSessionKeeps ==
  ASSUME ImageInv, ResetSession
  PROVE  ImageInv'
<1> USE ImagesAssumption
<1>1. /\ session < MaxSession /\ session' = session + 1
      /\ jobs' = {[j EXCEPT !.aborted = TRUE] : j \in jobs}
      /\ inflight' = {} /\ failed' = {} /\ cache' = <<>>
      /\ UNCHANGED <<disk, arrived>>
  BY DEF ResetSession
<1>2. session \in Nat /\ session' \in 1..MaxSession /\ session < session'
  BY <1>1, ImageInvFacts DEF ImageTypeOK
<1>3. ASSUME NEW k \in jobs'
      PROVE  k \in Job /\ k.aborted = TRUE /\ LoadOK(k, disk, session')
  <2>1. PICK j \in jobs : k = [j EXCEPT !.aborted = TRUE]
    BY <1>1, <1>3
  <2>2. j \in Job /\ LoadOK(j, disk, session) /\ j.session \in Nat
    BY ImageInvFacts, JobFields
  <2>3. /\ k \in Job /\ k.aborted = TRUE /\ k.session = j.session /\ k.key = j.key
        /\ k.at = j.at /\ k.from = j.from /\ k.by = j.by /\ k.bytes = j.bytes
    BY <2>1, <2>2 DEF Job
  <2>4. k.session <= session'
    BY <1>2, <2>2, <2>3 DEF LoadOK
  <2>5. LoadOK(k, disk, session')
    BY <2>2, <2>3, <2>4 DEF LoadOK
  <2> QED BY <2>3, <2>5
<1>4. \A m \in arrived : m.session \in Nat /\ m.session <= session
  BY ImageInvFacts DEF AnswerOK, ImageTypeOK, Arrival
<1>5. LoadsOf(jobs', session') = {} /\ AnswersOf(arrived', session') = {}
  <2>1. LoadsOf(jobs', session') = {}
    BY <1>3 DEF LoadsOf
  <2>2. \A m \in arrived : m.session # session'
    BY <1>2, <1>4
  <2> QED BY <1>1, <2>1, <2>2 DEF AnswersOf
<1>6. \A m \in arrived : AnswerOK(m, disk, session')
  <2> TAKE m \in arrived
  <2>1. AnswerOK(m, disk, session) /\ m.session <= session'
    BY <1>2, <1>4, ImageInvFacts
  <2> QED BY <2>1 DEF AnswerOK
<1>7. IsFiniteSet(jobs')
  <2> DEFINE f == [j \in jobs |-> [j EXCEPT !.aborted = TRUE]]
  <2>1. jobs' = {f[j] : j \in jobs}
    BY <1>1
  <2>2. f \in Surjection(jobs, jobs')
    BY <2>1 DEF Surjection
  <2> HIDE DEF f
  <2> QED BY <2>2, ImageInvFacts, FS_Surjection
<1>8. OnTheirWay(inflight', LoadsOf(jobs', session'), AnswersOf(arrived', session'))
  BY <1>1, <1>5 DEF OnTheirWay, OnePerSource
<1>9. ImageTypeOK'
  <2>1. jobs' \subseteq Job
    BY <1>3
  <2>2. cache' \in Seq(Picture) /\ Len(cache') <= Kept
    BY <1>1
  <2> QED BY <1>1, <1>2, <2>1, <2>2, ImageInvFacts DEF ImageTypeOK
<1>10. OwnPictures(cache', session') /\ \A k \in failed' : NotJunk(k.source, disk')
  BY <1>1 DEF OwnPictures
<1> QED BY <1>1, <1>3, <1>6, <1>7, <1>8, <1>9, <1>10, ImageInvFacts DEF ImageInv

\* Painting keeps the pictures there are.
LEMMA UsedFacts ==
  ASSUME ImageInv, NEW shown, NEW to \in Used(shown)
  PROVE  to \in Seq(Picture) /\ Len(to) <= Kept /\ OwnPictures(to, session)
<1>1. PICK order \in [DOMAIN cache -> DOMAIN cache] :
        to = [i \in DOMAIN cache |-> cache[order[i]]]
  BY DEF Used
<1>2. /\ cache \in Seq(Picture) /\ Len(cache) <= Kept /\ OwnPictures(cache, session)
      /\ DOMAIN cache = 1..Len(cache) /\ Len(cache) \in Nat
  BY ImageInvFacts DEF ImageTypeOK
<1>3. \A i \in 1..Len(cache) : order[i] \in 1..Len(cache) /\ cache[order[i]] \in Picture
  BY <1>1, <1>2
<1>4. to = [i \in 1..Len(cache) |-> cache[order[i]]]
  BY <1>1, <1>2
<1>5. to \in Seq(Picture) /\ Len(to) = Len(cache) /\ DOMAIN to = 1..Len(cache)
  BY <1>2, <1>3, <1>4
<1>6. OwnPictures(to, session)
  <2> SUFFICES ASSUME NEW i \in 1..Len(cache), to[i].source \in Private
               PROVE  to[i].by = session
    BY <1>5 DEF OwnPictures
  <2>1. to[i] = cache[order[i]] /\ order[i] \in DOMAIN cache
    BY <1>2, <1>3, <1>4
  <2> QED BY <1>2, <2>1 DEF OwnPictures
<1> QED BY <1>2, <1>5, <1>6

LEMMA PaintKeeps ==
  ASSUME ImageInv, NEW shown \in SUBSET Keys, NEW chosen \in SUBSET Wanted(shown),
         Paint(shown, chosen)
  PROVE  ImageInv'
<1> DEFINE job(k) == [key |-> k, session |-> session, at |-> "waiting", aborted |-> FALSE,
                      from |-> "nowhere", bytes |-> "none", by |-> 0]
           more == {job(k) : k \in chosen}
<1>1. /\ cache' \in Used(shown) /\ Takes(chosen, shown)
      /\ inflight' = inflight \cup chosen /\ jobs' = jobs \cup more
      /\ UNCHANGED <<session, failed, disk, arrived>>
  BY DEF Paint
<1>2. chosen \subseteq Keys /\ IsFiniteSet(chosen) /\ session \in 1..MaxSession
  <2>1. chosen \subseteq Keys
    BY DEF Wanted
  <2> QED BY <2>1, ImagesAssumption, FS_Subset, ImageInvFacts DEF ImageTypeOK
<1>3. ASSUME NEW k \in chosen
      PROVE  /\ job(k) \in Job /\ job(k).key = k /\ job(k).session = session
             /\ job(k).aborted = FALSE /\ job(k).at = "waiting"
  BY <1>2, ImagesAssumption DEF Job, Bytes
<1> HIDE DEF job
<1>4. \A k \in chosen : LoadOK(job(k), disk, session)
  <2>1. session <= session
    BY <1>2, ImagesAssumption
  <2> QED BY <1>3, <2>1 DEF LoadOK
<1>5. IsFiniteSet(more)
  <2> DEFINE f == [k \in chosen |-> job(k)]
  <2>1. f \in Surjection(chosen, more)
    BY DEF Surjection
  <2> HIDE DEF f, more
  <2> QED BY <1>2, <2>1, FS_Surjection
<1>6. IsFiniteSet(jobs')
  <2> HIDE DEF more
  <2>1. IsFiniteSet(jobs \cup more)
    BY <1>5, ImageInvFacts, FS_Union
  <2> QED BY <1>1, <2>1
<1> DEFINE running == LoadsOf(jobs, session)
           answers == AnswersOf(arrived, session)
<1>7. LoadsOf(jobs', session) = running \cup more
  BY <1>1, <1>3 DEF LoadsOf
<1>8. OnTheirWay(inflight \cup chosen, running \cup more, answers)
  <2>1. OnTheirWay(inflight, running, answers)
    BY ImageInvFacts
  <2>2. /\ \A j, k \in chosen : j.source = k.source => j = k
        /\ \A k \in chosen, i \in inflight : k.source # i.source
    BY <1>1 DEF Takes, SourcesOf
  <2>3. \A n \in more : n.key \in chosen /\ n = job(n.key)
    BY <1>3
  <2>4. {n.key : n \in more} = chosen
    BY <1>3
  <2> HIDE DEF running, answers, more
  <2>5. (\A j \in running : j.key \in inflight) /\ (\A m \in answers : m.key \in inflight)
    BY <2>1 DEF OnTheirWay
  <2>6. inflight \cup chosen = {n.key : n \in running \cup more} \cup {m.key : m \in answers}
    BY <2>1, <2>4 DEF OnTheirWay
  <2>7. \A i, n \in running \cup more : i.key.source = n.key.source => i = n
    <3>1. \A i, n \in running : i.key.source = n.key.source => i = n
      BY <2>1 DEF OnTheirWay, OnePerSource
    <3>2. \A i, n \in more : i.key.source = n.key.source => i = n
      BY <2>2, <2>3
    <3>3. \A i \in running, n \in more : i.key.source # n.key.source
      BY <2>2, <2>3, <2>5
    <3> QED BY <3>1, <3>2, <3>3
  <2>8. \A i \in running \cup more, m \in answers : i.key.source # m.key.source
    BY <2>1, <2>2, <2>3, <2>5 DEF OnTheirWay, OnePerSource
  <2>9. \A m, n \in answers : m.key.source = n.key.source => m = n
    BY <2>1 DEF OnTheirWay, OnePerSource
  <2> QED BY <2>6, <2>7, <2>8, <2>9 DEF OnTheirWay, OnePerSource
<1>9. OnTheirWay(inflight', LoadsOf(jobs', session), AnswersOf(arrived, session))
  BY <1>1, <1>7, <1>8
<1>10. \A j \in jobs' : LoadOK(j, disk, session)
  BY <1>1, <1>4, ImageInvFacts
<1>11. cache' \in Seq(Picture) /\ Len(cache') <= Kept /\ OwnPictures(cache', session)
  BY <1>1, UsedFacts
<1>12. ImageTypeOK'
  BY <1>1, <1>2, <1>3, <1>11, ImageInvFacts DEF ImageTypeOK
<1> QED BY <1>1, <1>6, <1>9, <1>10, <1>11, <1>12, ImageInvFacts DEF ImageInv

\* What a list without one of its elements holds.
LEMMA WithoutOne ==
  ASSUME NEW T, NEW s \in Seq(T), NEW i \in 1..Len(s)
  PROVE  LET t == SubSeq(s, 1, i - 1) \o SubSeq(s, i + 1, Len(s))
         IN  /\ t \in Seq(T) /\ Len(t) = Len(s) - 1
             /\ \A k \in 1..Len(t) : \E n \in 1..Len(s) : t[k] = s[n]
<1> DEFINE a == SubSeq(s, 1, i - 1)
           b == SubSeq(s, i + 1, Len(s))
           t == a \o b
<1>1. Len(s) \in Nat /\ i \in Nat /\ i >= 1 /\ i <= Len(s)
  OBVIOUS
<1>2. \A k \in 1..Len(s) : s[k] \in T
  OBVIOUS
<1>3. /\ a \in Seq(T) /\ Len(a) = i - 1 /\ \A k \in 1..(i - 1) : a[k] = s[k]
  <2>1. \A k \in 1..(i - 1) : k \in 1..Len(s)
    BY <1>1
  <2> QED BY <1>1, <1>2, <2>1
<1>4. /\ b \in Seq(T) /\ Len(b) = Len(s) - i /\ \A k \in 1..(Len(s) - i) : b[k] = s[k + i]
  <2>1. \A k \in (i + 1)..Len(s) : k \in 1..Len(s)
    BY <1>1
  <2> QED BY <1>1, <1>2, <2>1
<1> HIDE DEF a, b
<1>5. /\ t \in Seq(T) /\ Len(t) = Len(a) + Len(b)
      /\ \A k \in 1..Len(t) : t[k] = IF k <= Len(a) THEN a[k] ELSE b[k - Len(a)]
  <2>1. a \in Seq(T) /\ b \in Seq(T)
    BY <1>3, <1>4
  <2>2. t \in Seq(T) /\ Len(t) = Len(a) + Len(b)
    BY <2>1
  <2>3. ASSUME NEW k \in 1..Len(t)
        PROVE  t[k] = IF k <= Len(a) THEN a[k] ELSE b[k - Len(a)]
    BY <2>1, <2>3
  <2> QED BY <2>2, <2>3
<1>6. Len(t) = Len(s) - 1
  BY <1>1, <1>3, <1>4, <1>5
<1> HIDE DEF t
<1>7. ASSUME NEW k \in 1..Len(t) PROVE \E n \in 1..Len(s) : t[k] = s[n]
  <2>1. CASE k <= i - 1
    <3>1. k \in 1..(i - 1) /\ k \in 1..Len(s)
      BY <1>1, <1>6, <2>1
    <3> QED BY <1>3, <1>5, <2>1, <3>1
  <2>2. CASE ~(k <= i - 1)
    <3>1. k - (i - 1) \in 1..(Len(s) - i) /\ k - (i - 1) + i \in 1..Len(s)
      BY <1>1, <1>6, <2>2
    <3>2. t[k] = b[k - (i - 1)]
      BY <1>3, <1>5, <2>2
    <3> QED BY <1>4, <3>1, <3>2
  <2> QED BY <2>1, <2>2
<1> QED BY <1>5, <1>6, <1>7 DEF t, a, b

LEMMA InsertedFacts ==
  ASSUME ImageInv, NEW picture \in Picture,
         picture.source \in Private => picture.by = session
  PROVE  /\ Inserted(picture) \in Seq(Picture) /\ Len(Inserted(picture)) <= Kept
         /\ OwnPictures(Inserted(picture), session)
<1> DEFINE S == {i \in DOMAIN cache : Holds(picture, cache[i])}
           i == CHOOSE i \in S : TRUE
           rest == IF S = {} THEN cache
                   ELSE SubSeq(cache, 1, i - 1) \o SubSeq(cache, i + 1, Len(cache))
           all == Append(rest, picture)
<1>1. Inserted(picture) = IF Len(all) > Kept THEN Tail(all) ELSE all
  BY DEF Inserted
<1>2. /\ cache \in Seq(Picture) /\ Len(cache) <= Kept /\ OwnPictures(cache, session)
      /\ DOMAIN cache = 1..Len(cache) /\ Len(cache) \in Nat /\ Kept \in Nat /\ Kept >= 1
  BY ImageInvFacts, ImagesAssumption DEF ImageTypeOK
<1>3. /\ rest \in Seq(Picture) /\ Len(rest) <= Kept
      /\ \A k \in 1..Len(rest) : \E n \in 1..Len(cache) : rest[k] = cache[n]
  <2>1. CASE S = {}
    BY <1>2, <2>1
  <2>2. CASE S # {}
    <3>1. i \in 1..Len(cache)
      BY <1>2, <2>2
    <3> HIDE DEF i
    <3> DEFINE t == SubSeq(cache, 1, i - 1) \o SubSeq(cache, i + 1, Len(cache))
    <3>2. /\ t \in Seq(Picture) /\ Len(t) = Len(cache) - 1
          /\ \A k \in 1..Len(t) : \E n \in 1..Len(cache) : t[k] = cache[n]
      BY <1>2, <3>1, WithoutOne
    <3>3. rest = t
      BY <2>2
    <3> HIDE DEF t, rest
    <3> QED BY <1>2, <3>2, <3>3
  <2> QED BY <2>1, <2>2
<1> HIDE DEF rest
<1>4. \A k \in 1..Len(rest) : rest[k].source \in Private => rest[k].by = session
  BY <1>2, <1>3 DEF OwnPictures
<1>5. /\ all \in Seq(Picture) /\ Len(all) = Len(rest) + 1 /\ DOMAIN all = 1..(Len(rest) + 1)
      /\ \A k \in 1..Len(rest) : all[k] = rest[k]
      /\ all[Len(rest) + 1] = picture /\ Len(rest) \in Nat
  BY <1>3
<1> HIDE DEF all
<1>6. \A k \in 1..Len(all) : all[k].source \in Private => all[k].by = session
  <2> TAKE k \in 1..Len(all)
  <2>1. k \in 1..Len(rest) \/ k = Len(rest) + 1
    BY <1>5
  <2> QED BY <1>4, <1>5, <2>1
<1>7. CASE Len(all) > Kept
  <2> DEFINE t == Tail(all)
  <2>1. /\ t \in Seq(Picture) /\ Len(t) = Len(all) - 1 /\ DOMAIN t = 1..(Len(all) - 1)
        /\ \A k \in 1..(Len(all) - 1) : t[k] = all[k + 1] /\ k + 1 \in 1..Len(all)
    <3>1. all # <<>> /\ Len(all) \in Nat
      BY <1>5
    <3> QED BY <1>5, <3>1
  <2>2. Len(t) <= Kept
    BY <1>2, <1>3, <1>5, <2>1
  <2>3. OwnPictures(t, session)
    <3> HIDE DEF t
    <3> QED BY <1>6, <2>1 DEF OwnPictures
  <2>4. Inserted(picture) = t
    BY <1>1, <1>7
  <2> HIDE DEF t
  <2> QED BY <2>1, <2>2, <2>3, <2>4
<1>8. CASE ~(Len(all) > Kept)
  <2>1. Inserted(picture) = all
    BY <1>1, <1>8
  <2>2. Len(all) <= Kept /\ DOMAIN all = 1..Len(all)
    BY <1>2, <1>5, <1>8
  <2> QED BY <1>5, <1>6, <2>1, <2>2 DEF OwnPictures
<1> QED BY <1>7, <1>8

LEMMA ImageLoadedKeeps ==
  ASSUME ImageInv, NEW m \in arrived, ImageLoaded(m)
  PROVE  ImageInv'
<1>1. arrived' = arrived \ {m} /\ UNCHANGED <<session, disk, jobs>>
  BY DEF ImageLoaded
<1>2. /\ m \in Arrival /\ AnswerOK(m, disk, session) /\ m.key \in Keys
      /\ m.key.source \in Sources
  BY ImageInvFacts DEF ImageTypeOK, Arrival
<1>3. IsFiniteSet(arrived')
  BY <1>1, ImageInvFacts, FS_Subset
<1> DEFINE running == LoadsOf(jobs, session)
           answers == AnswersOf(arrived, session)
<1>4. CASE m.session # session
  <2>1. UNCHANGED <<inflight, failed, cache>>
    BY <1>4 DEF ImageLoaded
  <2>2. AnswersOf(arrived', session) = answers
    BY <1>1, <1>4 DEF AnswersOf
  <2>3. ImageTypeOK'
    BY <1>1, <2>1, ImageInvFacts DEF ImageTypeOK
  <2> QED BY <1>1, <1>3, <2>1, <2>2, <2>3, ImageInvFacts DEF ImageInv
<1>5. CASE m.session = session
  <2> DEFINE picture == [source |-> m.key.source, size |-> m.key.size, by |-> m.by]
  <2>1. /\ inflight' = inflight \ {m.key}
        /\ failed' = IF m.ok THEN failed \ {m.key} ELSE failed \cup {m.key}
        /\ cache' = IF m.ok THEN Inserted(picture) ELSE cache
    BY <1>5 DEF ImageLoaded
  <2>2. cache' \in Seq(Picture) /\ Len(cache') <= Kept /\ OwnPictures(cache', session)
    <3>1. CASE m.ok
      <4>1. picture \in Picture /\ picture.source = m.key.source /\ picture.by = m.by
        <5>1. m.key.size \in Sizes /\ m.by \in 0..MaxSession
          BY <1>2, ImagesAssumption DEF Arrival
        <5> QED BY <1>2, <5>1 DEF Picture
      <4>2. picture.source \in Private => picture.by = session
        BY <1>2, <1>5, <3>1, <4>1 DEF AnswerOK
      <4>3. cache' = Inserted(picture)
        BY <2>1, <3>1
      <4> HIDE DEF picture
      <4> QED BY <4>1, <4>2, <4>3, InsertedFacts
    <3>2. CASE ~m.ok
      BY <2>1, <3>2, ImageInvFacts DEF ImageTypeOK
    <3> QED BY <3>1, <3>2
  <2>3. \A k \in failed' : NotJunk(k.source, disk) /\ k \in Keys
    <3>1. \A k \in failed : NotJunk(k.source, disk) /\ k \in Keys
      BY ImageInvFacts DEF ImageTypeOK
    <3>2. ~m.ok => NotJunk(m.key.source, disk)
      BY <1>2 DEF AnswerOK
    <3> QED BY <1>2, <2>1, <3>1, <3>2
  <2>4. AnswersOf(arrived', session) = answers \ {m} /\ m \in answers
    BY <1>1, <1>5 DEF AnswersOf
  <2>5. OnTheirWay(inflight \ {m.key}, running, answers \ {m})
    <3>1. OnTheirWay(inflight, running, answers) /\ m \in answers
      BY <2>4, ImageInvFacts
    <3> HIDE DEF running, answers
    <3>2. (\A j \in running : j.key # m.key) /\ \A n \in answers : n.key = m.key => n = m
      BY <3>1 DEF OnTheirWay, OnePerSource
    <3>3. inflight \ {m.key} = {j.key : j \in running} \cup {n.key : n \in answers \ {m}}
      BY <3>1, <3>2 DEF OnTheirWay
    <3> QED BY <3>1, <3>3 DEF OnTheirWay, OnePerSource
  <2>6. OnTheirWay(inflight', LoadsOf(jobs', session'), AnswersOf(arrived', session'))
    BY <1>1, <2>1, <2>4, <2>5
  <2>7. ImageTypeOK'
    <3>1. failed' \subseteq Keys /\ inflight' \subseteq Keys
      BY <2>1, <2>3, ImageInvFacts DEF ImageTypeOK
    <3> QED BY <1>1, <2>2, <3>1, ImageInvFacts DEF ImageTypeOK
  <2> QED BY <1>1, <1>3, <2>2, <2>3, <2>6, <2>7, ImageInvFacts DEF ImageInv
<1> QED BY <1>4, <1>5
----------------------------------------------------------------------------
\* Every picture that is waited for has one load of this session, or its
\* answer, on its way, and what a load carries was fetched under the session
\* that asked for it (spawn_image_load, on_loaded, reset_session).
THEOREM ImageInvariance == ImageSpec => []ImageInv
<1>1. ImageInit => ImageInv
  <2> SUFFICES ASSUME ImageInit PROVE ImageInv
    OBVIOUS
  <2> USE ImagesAssumption
  <2>1. /\ session = 1 /\ inflight = {} /\ failed = {} /\ cache = <<>>
        /\ disk \in [Sources -> Bytes] /\ jobs = {} /\ arrived = {}
    BY DEF ImageInit
  <2>2. ImageTypeOK
    BY <2>1 DEF ImageTypeOK
  <2>3. LoadsOf(jobs, session) = {} /\ AnswersOf(arrived, session) = {}
    BY <2>1 DEF LoadsOf, AnswersOf
  <2>4. OnTheirWay(inflight, {}, {})
    BY <2>1 DEF OnTheirWay, OnePerSource
  <2>5. OwnPictures(cache, session)
    BY <2>1 DEF OwnPictures
  <2> QED BY <2>1, <2>2, <2>3, <2>4, <2>5, FS_EmptySet DEF ImageInv
<1>2. ImageInv /\ [ImageNext]_imageVars => ImageInv'
  <2> SUFFICES ASSUME ImageInv, [ImageNext]_imageVars PROVE ImageInv'
    OBVIOUS
  <2>1. CASE UNCHANGED imageVars
    BY <2>1 DEF imageVars, ImageInv, ImageTypeOK
  <2>2. ASSUME NEW shown \in SUBSET Keys, NEW chosen \in SUBSET Wanted(shown),
               Paint(shown, chosen)
        PROVE  ImageInv'
    BY <2>2, PaintKeeps
  <2>3. ASSUME NEW s \in Sources, Retry(s) \/ \E b \in Bytes : DiskChanges(s, b)
        PROVE  ImageInv'
    BY <2>3, RetryKeeps, DiskChangesKeeps
  <2>4. ASSUME NEW j \in jobs,
               \/ AcquireSlot(j) \/ ReadDisk(j) \/ FetchFails(j) \/ Decode(j)
               \/ AbortedEnds(j)
               \/ \E bytes \in {"picture", "junk"} : Fetch(j, bytes)
        PROVE  ImageInv'
    BY <2>4, AcquireSlotKeeps, ReadDiskKeeps, FetchFailsKeeps, DecodeKeeps,
       AbortedEndsKeeps, FetchKeeps
  <2>5. ASSUME NEW m \in arrived, ImageLoaded(m) PROVE ImageInv'
    BY <2>5, ImageLoadedKeeps
  <2>6. CASE ResetSession
    BY <2>6, ResetSessionKeeps
  <2> QED BY <2>1, <2>2, <2>3, <2>4, <2>5, <2>6 DEF ImageNext
<1> QED BY <1>1, <1>2, PTL DEF ImageSpec

\* A picture the forum shows to its members only was fetched under the session
\* that looks at it, for every set of pictures, every size of the cache and
\* number of sessions (spawn_image_load, load, image_uses_bearer).
THEOREM PrivateAlwaysStaysPrivate == ImageSpec => []PrivateStaysPrivate
BY ImageInvariance, PicturesInv, PTL

\* A picture that is waited for is carried by one load of this session, or by
\* its answer, and one that failed would not fail again by what is on disk,
\* for every set of pictures, every size of the cache and number of sessions
\* (reset_session, on_loaded, load).
THEOREM PicturesCanAlwaysCome == ImageSpec => []PicturesCanCome
BY ImageInvariance, PicturesInv, PTL
=============================================================================
