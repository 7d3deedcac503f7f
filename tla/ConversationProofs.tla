-------------------------- MODULE ConversationProofs ------------------------
(***************************************************************************)
(* Proofs about the conversations a member has: with the assistant, in the   *)
(* chats of Ask AI, and with other members, in the Inbox.                    *)
(***************************************************************************)
EXTENDS AskAi, Inbox, FiniteSetTheorems, WellFoundedInduction, TLAPS

-----------------------------------------------------------------------------
(***************************************************************************)
(* Proofs about AskAi, for every number of questions, frames and screens.   *)
(*                                                                         *)
(* The inductive invariant follows an answer from the request that streams  *)
(* it to the turn that shows it: what a waiting chat has received and what  *)
(* is still in the channel make up, in order, what its request has sent.    *)
(***************************************************************************)

\* A finite set of positions has a last one.
LEMMA HasGreatest ==
  ASSUME NEW n \in Nat, NEW S \in SUBSET (1..n), S # {}
  PROVE  \E i \in S : \A j \in S : j <= i
<1> DEFINE T == {n - i : i \in S}
<1>1. T \subseteq Nat /\ T # {}
  <2>1. PICK i \in S : TRUE
    OBVIOUS
  <2>2. n - i \in T
    OBVIOUS
  <2>3. ASSUME NEW x \in T PROVE x \in Nat
    <3>1. PICK k \in S : x = n - k
      OBVIOUS
    <3>2. k \in 1..n
      OBVIOUS
    <3> QED BY <3>1, <3>2
  <2> QED BY <2>2, <2>3
<1>2. \E x \in T : \A y \in T : <<y, x>> \notin OpToRel(<, Nat)
  <2> HIDE DEF T
  <2> QED BY <1>1, WFMin, NatLessThanWellFounded
<1>3. \A x, y \in T : y < x => <<y, x>> \in OpToRel(<, Nat)
  <2> HIDE DEF T
  <2>1. TAKE x, y \in T
  <2>2. x \in Nat /\ y \in Nat
    BY <1>1
  <2> QED BY <2>2 DEF OpToRel
<1>4. PICK x \in T : \A y \in T : ~(y < x)
  BY <1>2, <1>3
<1>5. PICK i \in S : x = n - i
  OBVIOUS
<1>6. ASSUME NEW j \in S PROVE j <= i
  BY <1>4, <1>5
<1> QED BY <1>6

Ended == {"told", "over"}

\* Generations that are still to come.
Unused(now, tasks, qs) ==
  \A g \in Gens : g > now => /\ qs[g] = NoRequest
                             /\ tasks[g].at = "none" /\ tasks[g].sent = 0

\* A question is known by the request that asked it first, and one more may
\* ask it again.
Asked(qs) ==
  /\ \A g \in Gens : qs[g] # NoRequest => qs[g] <= g /\ qs[qs[g]] = qs[g]
  /\ \A g, h \in Gens :
       (qs[g] = qs[h] /\ qs[g] # NoRequest /\ g # qs[g] /\ h # qs[h]) => g = h

\* What stands under a question, whoever sent it.
TurnOK(t, tasks, qs) ==
  \E g \in Gens : \E n \in 0..tasks[g].sent :
    /\ qs[g] = t.question /\ t.answer = FramesOf(g, n)
    /\ t.state = "done" => n = tasks[g].sent /\ tasks[g].at \in Ended

\* The channel keeps the order each request sent in.
InOrder(fs, tasks) ==
  /\ \A k \in DOMAIN fs :
       IF fs[k].is = "delta" THEN fs[k].n \in 1..tasks[fs[k].turn].sent
       ELSE tasks[fs[k].turn].at \in Ended
  /\ \A j, k \in DOMAIN fs :
       (j < k /\ fs[j].turn = fs[k].turn /\ fs[k].is = "delta") =>
         fs[j].is = "delta" /\ fs[j].n < fs[k].n

\* The frames of answer text of a request that are on their way.
Deltas(fs, g) ==
  {m \in 1..MaxFrame : \E k \in DOMAIN fs :
     fs[k].turn = g /\ fs[k].is = "delta" /\ fs[k].n = m}

\* A chat that waits has what its request sent so far, or will have it.
Unrepeated(t, qs) == ~t.resent => \A h \in Gens : qs[h] = t.question => h = t.question

Receives(t, g, fs, tasks, qs) ==
  /\ t.state = "streaming" /\ t.question = qs[g] /\ t.question # NoRequest
  /\ Unrepeated(t, qs)
  /\ \E n \in 0..tasks[g].sent :
       t.answer = FramesOf(g, n) /\ Deltas(fs, g) = (n + 1)..tasks[g].sent

WaitsOK(a, fs, tasks, qs) ==
  a.seq \in Gens /\ a.turns # <<>> /\ Receives(LastTurn(a), a.seq, fs, tasks, qs)

ScreenOK(a, fs, tasks, now, qs) ==
  /\ a.seq <= now
  /\ ~a.chat => ~a.busy /\ a.seq = 0
  /\ a.busy => WaitsOK(a, fs, tasks, qs)
  /\ \A k \in DOMAIN a.turns : a.turns[k].question <= now /\ TurnOK(a.turns[k], tasks, qs)

\* No two turns ask the same question, no two chats wait for one request.
TurnsApart(s) ==
  /\ \A i, j \in DOMAIN s : (s[i].busy /\ s[i].seq = s[j].seq) => i = j
  /\ \A i, j \in DOMAIN s : \A k \in DOMAIN s[i].turns, l \in DOMAIN s[j].turns :
       s[i].turns[k].question = s[j].turns[l].question => i = j /\ k = l

AskInv ==
  /\ AskTypeOK /\ Unused(asking, task, asked) /\ Asked(asked)
  /\ InOrder(frames, task) /\ TurnsApart(screens)
  /\ \A i \in DOMAIN screens : ScreenOK(screens[i], frames, task, asking, asked)
  /\ ChatsAndStreamsAgree
----------------------------------------------------------------------------
LEMMA WithLastFacts ==
  ASSUME NEW a \in AskScreen, a.turns # <<>>, NEW t \in Turn
  PROVE  LET b == WithLast(a, t)
         IN  /\ b \in AskScreen /\ b.chat = a.chat /\ b.busy = a.busy /\ b.seq = a.seq
             /\ b.turns # <<>> /\ Len(b.turns) = Len(a.turns)
             /\ DOMAIN b.turns = DOMAIN a.turns
             /\ Len(a.turns) \in DOMAIN a.turns /\ LastTurn(b) = t
             /\ b.turns[Len(a.turns)] = t
             /\ \A k \in DOMAIN a.turns : k # Len(a.turns) => b.turns[k] = a.turns[k]
<1> DEFINE b == WithLast(a, t)
           s == a.turns
           r == [s EXCEPT ![Len(s)] = t]
<1>1. s \in Seq(Turn) /\ s # <<>>
  BY DEF AskScreen
<1>2. b = [a EXCEPT !.turns = r]
  BY DEF WithLast
<1> HIDE DEF s
<1>3. /\ r \in Seq(Turn) /\ Len(r) = Len(s) /\ DOMAIN r = DOMAIN s /\ r # <<>>
      /\ Len(s) \in DOMAIN s /\ r[Len(s)] = t
      /\ \A k \in DOMAIN s : k # Len(s) => r[k] = s[k]
  <2>1. Len(s) \in Nat /\ Len(s) \in DOMAIN s /\ DOMAIN s = 1..Len(s)
        /\ \A k \in 1..Len(s) : s[k] \in Turn
    BY <1>1
  <2>2. r \in Seq(Turn) /\ Len(r) = Len(s) /\ DOMAIN r = DOMAIN s
    BY <1>1, <2>1
  <2>3. r # <<>>
    <3> HIDE DEF r
    <3> QED BY <2>1, <2>2
  <2> QED BY <2>1, <2>2, <2>3
<1> HIDE DEF r
<1>4. /\ b \in AskScreen /\ b.chat = a.chat /\ b.busy = a.busy /\ b.seq = a.seq
      /\ b.turns = r
  BY <1>2, <1>3 DEF AskScreen
<1> QED BY <1>3, <1>4 DEF s, LastTurn

\* A request only ever sends more, and what has ended stays as it is.
GoesOn(tasks, later, qs, since) ==
  \A g \in Gens :
    /\ tasks[g].sent <= later[g].sent
    /\ tasks[g].at \in Ended => later[g].at \in Ended /\ later[g].sent = tasks[g].sent
    /\ qs[g] # NoRequest => since[g] = qs[g]

LEMMA TurnStaysOK ==
  ASSUME NEW tasks \in [Gens -> Task], NEW later \in [Gens -> Task], NEW qs, NEW since,
         GoesOn(tasks, later, qs, since), NEW t \in Turn, TurnOK(t, tasks, qs)
  PROVE  TurnOK(t, later, since)
<1> USE AskAssumption
<1>0. PICK g \in Gens : \E n \in 0..tasks[g].sent :
        /\ qs[g] = t.question /\ t.answer = FramesOf(g, n)
        /\ t.state = "done" => n = tasks[g].sent /\ tasks[g].at \in Ended
  BY DEF TurnOK
<1>1. PICK n \in 0..tasks[g].sent :
        /\ qs[g] = t.question /\ t.answer = FramesOf(g, n)
        /\ t.state = "done" => n = tasks[g].sent /\ tasks[g].at \in Ended
  BY <1>0
<1>2. t.question # NoRequest
  BY DEF Turn, NoRequest, Gens
<1>3. tasks[g].sent \in Nat /\ later[g].sent \in Nat /\ tasks[g].sent <= later[g].sent
  BY DEF Task, GoesOn
<1>4. n \in 0..later[g].sent
  BY <1>3
<1>5. since[g] = t.question
  BY <1>1, <1>2 DEF GoesOn
<1>6. t.state = "done" => n = later[g].sent /\ later[g].at \in Ended
  BY <1>1 DEF GoesOn
<1> QED BY <1>1, <1>4, <1>5, <1>6 DEF TurnOK

\* A turn that takes the place of another, and what it then says.
LEMMA TurnBecomes ==
  ASSUME NEW tasks \in [Gens -> Task], NEW qs, NEW t \in Turn, TurnOK(t, tasks, qs),
         NEW u, u.question = t.question, u.answer = t.answer, u.state # "done"
  PROVE  TurnOK(u, tasks, qs)
BY DEF TurnOK

\* Nothing that was settled is written to again.
Settled(s, later) ==
  \A i \in DOMAIN s, j \in DOMAIN later :
    \A k \in DOMAIN s[i].turns, l \in DOMAIN later[j].turns :
      (/\ s[i].turns[k].state # "streaming"
       /\ s[i].turns[k].question = later[j].turns[l].question) =>
        later[j].turns[l] = s[i].turns[k]

\* A screen whose request sends nothing new stays as good as it was.
LEMMA WaitsStays ==
  ASSUME NEW a, NEW fs, NEW gs, NEW tasks, NEW later, NEW qs, NEW since,
         WaitsOK(a, fs, tasks, qs),
         later[a.seq].sent = tasks[a.seq].sent, Deltas(gs, a.seq) = Deltas(fs, a.seq),
         since[a.seq] = qs[a.seq],
         \A h \in Gens : since[h] = qs[h] \/ since[h] # LastTurn(a).question
  PROVE  WaitsOK(a, gs, later, since)
BY DEF WaitsOK, Receives, Unrepeated

LEMMA WaitsOn ==
  ASSUME NEW a, NEW fs, NEW gs, NEW tasks, NEW later, NEW qs,
         WaitsOK(a, fs, tasks, qs),
         later[a.seq].sent = tasks[a.seq].sent, Deltas(gs, a.seq) = Deltas(fs, a.seq)
  PROVE  WaitsOK(a, gs, later, qs)
BY WaitsStays

LEMMA ScreenStays ==
  ASSUME NEW a \in AskScreen, NEW fs, NEW gs, NEW tasks \in [Gens -> Task],
         NEW later \in [Gens -> Task], NEW qs, NEW since, NEW now \in Nat, NEW next \in Nat,
         ScreenOK(a, fs, tasks, now, qs), GoesOn(tasks, later, qs, since), now <= next,
         a.busy => WaitsOK(a, gs, later, since)
  PROVE  ScreenOK(a, gs, later, next, since)
<1> USE AskAssumption
<1>1. a.seq \in Nat /\ a.turns \in Seq(Turn)
  BY DEF AskScreen
<1>2. a.seq <= next
  BY <1>1 DEF ScreenOK
<1>3. ASSUME NEW k \in DOMAIN a.turns
      PROVE  a.turns[k].question <= next /\ TurnOK(a.turns[k], later, since)
  <2>1. a.turns[k] \in Turn
    BY <1>1
  <2>2. a.turns[k].question \in Nat
    BY <2>1 DEF Turn, Gens
  <2>3. a.turns[k].question <= now /\ TurnOK(a.turns[k], tasks, qs)
    BY DEF ScreenOK
  <2> QED BY <2>1, <2>2, <2>3, TurnStaysOK
<1> QED BY <1>2, <1>3 DEF ScreenOK

\* The facts the steps start from.
LEMMA AskFacts ==
  ASSUME AskInv
  PROVE  /\ screens \in Seq(AskScreen) /\ screens # <<>>
         /\ DOMAIN screens = 1..Len(screens) /\ Len(screens) \in Nat /\ Len(screens) \in DOMAIN screens
         /\ \A i \in DOMAIN screens :
              /\ screens[i] \in AskScreen /\ screens[i].turns \in Seq(Turn)
              /\ screens[i].seq \in Nat
              /\ ScreenOK(screens[i], frames, task, asking, asked)
              /\ \A k \in DOMAIN screens[i].turns :
                   screens[i].turns[k] \in Turn /\ screens[i].turns[k].question \in Nat
         /\ asking \in Nat /\ asking <= MaxGen /\ MaxGen \in Nat /\ MaxFrame \in Nat
         /\ askTask \in Nat /\ askTask <= asking
         /\ task \in [Gens -> Task] /\ frames \in Seq(Event) /\ asked \in [Gens -> 0..MaxGen]
         /\ \A g \in Gens : g \in Nat /\ task[g] \in Task /\ task[g].sent \in Nat
                            /\ task[g].sent <= MaxFrame /\ asked[g] \in Nat
         /\ TurnsApart(screens) /\ Unused(asking, task, asked) /\ Asked(asked)
         /\ InOrder(frames, task) /\ ChatsAndStreamsAgree
<1> USE AskAssumption
<1>1. /\ screens \in Seq(AskScreen) /\ screens # <<>> /\ asking \in 0..MaxGen /\ askTask \in 0..asking
      /\ task \in [Gens -> Task] /\ frames \in Seq(Event) /\ asked \in [Gens -> 0..MaxGen]
      /\ TurnsApart(screens) /\ Unused(asking, task, asked) /\ Asked(asked)
      /\ InOrder(frames, task) /\ ChatsAndStreamsAgree
      /\ \A i \in DOMAIN screens : ScreenOK(screens[i], frames, task, asking, asked)
  BY DEF AskInv, AskTypeOK
<1>2. /\ DOMAIN screens = 1..Len(screens) /\ Len(screens) \in Nat /\ Len(screens) \in DOMAIN screens
      /\ \A i \in DOMAIN screens : screens[i] \in AskScreen
  BY <1>1
<1>3. \A i \in DOMAIN screens : screens[i].turns \in Seq(Turn) /\ screens[i].seq \in Nat
  BY <1>2 DEF AskScreen
<1>4. \A i \in DOMAIN screens : \A k \in DOMAIN screens[i].turns :
        screens[i].turns[k] \in Turn
  BY <1>3
<1>5. \A t \in Turn : t.question \in Nat
  BY DEF Turn, Gens
<1>6. \A g \in Gens : g \in Nat /\ task[g] \in Task /\ asked[g] \in Nat
  BY <1>1 DEF Gens
<1>7. \A t \in Task : t.sent \in Nat /\ t.sent <= MaxFrame
  BY DEF Task
<1> QED BY <1>1, <1>2, <1>3, <1>4, <1>5, <1>6, <1>7

LEMMA TaskGoesOn ==
  ASSUME NEW tasks \in [Gens -> Task], NEW qs
  PROVE  GoesOn(tasks, tasks, qs, qs)
<1>1. \A g \in Gens : tasks[g].sent \in Nat
  BY AskAssumption DEF Task
<1> QED BY <1>1 DEF GoesOn
----------------------------------------------------------------------------
(* A stack that keeps some screens of the one before it.                   *)
Taken(s, from) ==
  /\ s \in Seq(AskScreen) /\ s # <<>>
  /\ \A j \in DOMAIN s : \/ s[j] \in {Fresh, Elsewhere}
                         \/ j \in DOMAIN from /\ s[j] = from[j]

LEMMA ChatNewScreens ==
  /\ Fresh \in AskScreen /\ Elsewhere \in AskScreen
  /\ \A a \in {Fresh, Elsewhere} : a.turns = <<>> /\ ~a.busy /\ a.seq = 0
<1>1. <<>> \in Seq(Turn)
  OBVIOUS
<1>2. Fresh \in AskScreen /\ Fresh.turns = <<>> /\ ~Fresh.busy /\ Fresh.seq = 0
  BY <1>1, AskAssumption DEF Fresh, AskScreen
<1>3. Elsewhere \in AskScreen /\ Elsewhere.turns = <<>> /\ ~Elsewhere.busy /\ Elsewhere.seq = 0
  BY <1>2 DEF Elsewhere, AskScreen
<1> QED BY <1>2, <1>3

LEMMA NewScreenOK ==
  ASSUME NEW a \in {Fresh, Elsewhere}, NEW fs, NEW tasks, NEW now \in Nat, NEW qs
  PROVE  ScreenOK(a, fs, tasks, now, qs)
<1>1. a.turns = <<>> /\ ~a.busy /\ a.seq = 0
  BY ChatNewScreens
<1>2. DOMAIN a.turns = {}
  BY <1>1
<1> QED BY <1>1, <1>2 DEF ScreenOK

LEMMA TakenFacts ==
  ASSUME AskInv, NEW s, Taken(s, screens)
  PROVE  /\ TurnsApart(s) /\ Settled(screens, s)
         /\ \A i \in DOMAIN s : ScreenOK(s[i], frames, task, asking, asked)
<1>1. \A j \in DOMAIN s : \/ s[j].turns = <<>> /\ ~s[j].busy
                          \/ j \in DOMAIN screens /\ s[j] = screens[j]
  BY ChatNewScreens DEF Taken
<1>2. \A j \in DOMAIN s : \A k \in DOMAIN s[j].turns : j \in DOMAIN screens /\ s[j] = screens[j]
  BY <1>1
<1>3. \A i \in DOMAIN s : ScreenOK(s[i], frames, task, asking, asked)
  BY AskFacts, NewScreenOK DEF Taken
<1>4. \A i \in DOMAIN screens : \A k \in DOMAIN screens[i].turns :
      \A j \in DOMAIN screens : \A l \in DOMAIN screens[j].turns :
        screens[i].turns[k].question = screens[j].turns[l].question => i = j /\ k = l
  BY AskFacts DEF TurnsApart
<1>5. Settled(screens, s)
  BY <1>2, <1>4 DEF Settled
<1>6. ASSUME NEW i \in DOMAIN s, NEW j \in DOMAIN s, s[i].busy, s[i].seq = s[j].seq
      PROVE  i = j
  <2>1. i \in DOMAIN screens /\ s[i] = screens[i]
    BY <1>1, <1>6
  <2>2. s[i].seq # 0
    BY <1>3, <1>6 DEF ScreenOK, WaitsOK, Gens
  <2>3. j \in DOMAIN screens /\ s[j] = screens[j]
    BY <1>6, <2>2, ChatNewScreens DEF Taken
  <2> QED BY <1>6, <2>1, <2>3, AskFacts DEF TurnsApart
<1>7. \A i, j \in DOMAIN s : \A k \in DOMAIN s[i].turns, l \in DOMAIN s[j].turns :
       s[i].turns[k].question = s[j].turns[l].question => i = j /\ k = l
  BY <1>2, <1>4
<1> QED BY <1>3, <1>5, <1>6, <1>7 DEF TurnsApart

----------------------------------------------------------------------------
\* What a chat is that was stopped.
LEMMA StoppedFacts ==
  ASSUME NEW a \in AskScreen, NEW fs, NEW qs, asking < MaxGen, asking \in Nat,
         task \in [Gens -> Task], ScreenOK(a, fs, task, asking, qs)
  PROVE  LET b == Stopped(a)
         IN /\ b \in AskScreen /\ ~b.busy /\ (b.seq = a.seq \/ b.seq = asking + 1)
            /\ b.chat = a.chat /\ (~b.chat => b.seq = 0)
            /\ DOMAIN b.turns = DOMAIN a.turns
            /\ \A k \in DOMAIN a.turns :
                 /\ b.turns[k].question = a.turns[k].question
                 /\ b.turns[k] = a.turns[k] \/ a.turns[k].state = "streaming"
                 /\ TurnOK(b.turns[k], task, qs)
<1> USE AskAssumption
<1> DEFINE b == Stopped(a)
<1>0. \A k \in DOMAIN a.turns : TurnOK(a.turns[k], task, qs)
  BY DEF ScreenOK
<1>1. CASE ~a.busy
  <2>1. b = a
    BY <1>1 DEF Stopped
  <2> QED BY <1>0, <1>1, <2>1 DEF ScreenOK
<1>2. CASE a.busy
  <2> DEFINE c == [a EXCEPT !.busy = FALSE, !.seq = asking + 1]
             t == LastTurn(a)
             u == [t EXCEPT !.state = "cancelled"]
  <2>0. asking + 1 \in 0..MaxGen
    OBVIOUS
  <2>1. /\ c \in AskScreen /\ ~c.busy /\ c.seq = asking + 1 /\ c.chat = a.chat
        /\ c.turns = a.turns
    BY <2>0 DEF AskScreen
  <2>2. a.chat /\ a.turns # <<>> /\ t.state = "streaming"
    BY <1>2 DEF ScreenOK, WaitsOK, Receives
  <2>3. b = WithLast(c, u)
    BY <1>2, <2>2 DEF Stopped
  <2>4. t \in Turn /\ t = a.turns[Len(a.turns)] /\ Len(a.turns) \in DOMAIN a.turns
    <3>1. a.turns \in Seq(Turn)
      BY DEF AskScreen
    <3> QED BY <2>2, <3>1 DEF LastTurn
  <2> HIDE DEF t
  <2>5. /\ u \in Turn /\ u.question = t.question /\ u.answer = t.answer
        /\ u.state = "cancelled"
    BY <2>4 DEF Turn
  <2>6. TurnOK(u, task, qs)
    BY <1>0, <2>4, <2>5, TurnBecomes
  <2> HIDE DEF u, c, b
  <2>7. /\ b \in AskScreen /\ b.chat = c.chat /\ b.busy = c.busy /\ b.seq = c.seq
        /\ DOMAIN b.turns = DOMAIN c.turns /\ b.turns[Len(c.turns)] = u
        /\ \A k \in DOMAIN c.turns : k # Len(c.turns) => b.turns[k] = c.turns[k]
    <3>1. c.turns # <<>>
      BY <2>1, <2>2
    <3> QED BY <2>1, <2>3, <2>5, <3>1, WithLastFacts
  <2>8. ASSUME NEW k \in DOMAIN a.turns
        PROVE  /\ b.turns[k].question = a.turns[k].question
               /\ b.turns[k] = a.turns[k] \/ a.turns[k].state = "streaming"
               /\ TurnOK(b.turns[k], task, qs)
    <3>1. CASE k = Len(a.turns)
      BY <2>1, <2>2, <2>4, <2>5, <2>6, <2>7, <3>1
    <3>2. CASE k # Len(a.turns)
      BY <1>0, <2>1, <2>7, <3>2
    <3> QED BY <3>1, <3>2
  <2> QED BY <2>1, <2>2, <2>7, <2>8 DEF b
<1> QED BY <1>1, <1>2

\* Later tasks and a channel that is no fuller leave an idle stack as it was.
LEMMA IdleStack ==
  ASSUME AskInv, NEW s \in Seq(AskScreen), TurnsApart(s),
         NEW next \in Nat, asking <= next, NEW fs, NEW later \in [Gens -> Task],
         GoesOn(task, later, asked, asked),
         \A i \in DOMAIN s : ~s[i].busy /\ ScreenOK(s[i], frames, task, next, asked)
  PROVE  \A i \in DOMAIN s : ScreenOK(s[i], fs, later, next, asked)
<1>1. ASSUME NEW i \in DOMAIN s PROVE ScreenOK(s[i], fs, later, next, asked)
  <2>1. s[i] \in AskScreen /\ next <= next
    OBVIOUS
  <2> QED BY <1>1, <2>1, AskFacts, ScreenStays
<1> QED BY <1>1

\* stop_ask_task of any part of the stack.
LEMMA StopKeeps ==
  ASSUME AskInv, NEW s, Taken(s, screens), StopAskTask(s), asked' = asked,
         task' \in [Gens -> Task], GoesOn(task, task', asked, asked),
         frames' \in Seq(Event), InOrder(frames', task'),
         \A g \in Gens : task[g].at = "none" => task'[g] = task[g]
  PROVE  AskInv' /\ Settled(screens, screens')
<1> USE AskAssumption
<1> DEFINE r == [i \in DOMAIN s |-> Stopped(s[i])]
<1>1. /\ asking < MaxGen /\ asking' = asking + 1 /\ askTask' = NoRequest /\ screens' = r
      /\ asking \in Nat /\ asking' \in 0..MaxGen
  BY AskFacts DEF StopAskTask
<1>2. /\ s \in Seq(AskScreen) /\ s # <<>> /\ TurnsApart(s) /\ Settled(screens, s)
      /\ \A i \in DOMAIN s : s[i] \in AskScreen /\ ScreenOK(s[i], frames, task, asking, asked)
  BY TakenFacts DEF Taken
<1>3. DOMAIN r = DOMAIN s /\ \A i \in DOMAIN s : r[i] = Stopped(s[i])
  OBVIOUS
<1>4. \A i \in DOMAIN s :
        /\ r[i] \in AskScreen /\ ~r[i].busy /\ (r[i].seq = s[i].seq \/ r[i].seq = asking + 1)
        /\ (~r[i].chat => r[i].seq = 0) /\ DOMAIN r[i].turns = DOMAIN s[i].turns
        /\ \A k \in DOMAIN s[i].turns :
             /\ r[i].turns[k].question = s[i].turns[k].question
             /\ r[i].turns[k] = s[i].turns[k] \/ s[i].turns[k].state = "streaming"
             /\ TurnOK(r[i].turns[k], task, asked)
  <2>1. TAKE i \in DOMAIN s
  <2>2. s[i] \in AskScreen /\ ScreenOK(s[i], frames, task, asking, asked)
    BY <1>2
  <2>3. task \in [Gens -> Task]
    BY AskFacts
  <2> HIDE DEF r
  <2> QED BY <1>1, <1>3, <2>2, <2>3, StoppedFacts
<1>5. r \in Seq(AskScreen) /\ r # <<>>
  <2>1. DOMAIN s = 1..Len(s) /\ Len(s) \in Nat /\ Len(s) # 0
    BY <1>2
  <2>2. \A i \in 1..Len(s) : r[i] \in AskScreen
    BY <1>4, <2>1
  <2>3. r \in [1..Len(s) -> AskScreen]
    BY <2>1, <2>2
  <2>4. r \in Seq(AskScreen) /\ DOMAIN r = 1..Len(s)
    BY <2>1, <2>3
  <2> HIDE DEF r
  <2> QED BY <2>1, <2>4
<1> HIDE DEF r
<1>6. TurnsApart(r)
  <2>1. \A i, j \in DOMAIN s : \A k \in DOMAIN s[i].turns, l \in DOMAIN s[j].turns :
         s[i].turns[k].question = s[j].turns[l].question => i = j /\ k = l
    BY <1>2 DEF TurnsApart
  <2>2. \A i, j \in DOMAIN r : \A k \in DOMAIN r[i].turns, l \in DOMAIN r[j].turns :
         r[i].turns[k].question = r[j].turns[l].question => i = j /\ k = l
    BY <1>3, <1>4, <2>1
  <2> QED BY <1>3, <1>4, <2>2 DEF TurnsApart
<1>7. Settled(screens, r)
  <2>1. ASSUME NEW i \in DOMAIN screens, NEW j \in DOMAIN r,
               NEW k \in DOMAIN screens[i].turns, NEW l \in DOMAIN r[j].turns,
               screens[i].turns[k].state # "streaming",
               screens[i].turns[k].question = r[j].turns[l].question
        PROVE  r[j].turns[l] = screens[i].turns[k]
    <3>1. j \in DOMAIN s /\ l \in DOMAIN s[j].turns
          /\ r[j].turns[l].question = s[j].turns[l].question
          /\ (r[j].turns[l] = s[j].turns[l] \/ s[j].turns[l].state = "streaming")
      BY <1>3, <1>4
    <3>2. s[j].turns[l] = screens[i].turns[k]
      BY <1>2, <2>1, <3>1 DEF Settled
    <3> QED BY <2>1, <3>1, <3>2
  <2> QED BY <2>1 DEF Settled
<1>8. ASSUME NEW i \in DOMAIN r PROVE ScreenOK(r[i], frames, task, asking + 1, asked)
  <2>1. i \in DOMAIN s /\ s[i].seq <= asking /\ s[i].seq \in Nat
        /\ \A k \in DOMAIN s[i].turns : s[i].turns[k].question <= asking
    <3>1. i \in DOMAIN s /\ s[i] \in AskScreen /\ ScreenOK(s[i], frames, task, asking, asked)
      BY <1>2, <1>3
    <3> QED BY <3>1 DEF ScreenOK, AskScreen
  <2>2. \A k \in DOMAIN s[i].turns : s[i].turns[k].question \in Nat
    <3>1. s[i].turns \in Seq(Turn)
      BY <1>2, <2>1 DEF AskScreen
    <3>2. \A k \in DOMAIN s[i].turns : s[i].turns[k] \in Turn
      BY <3>1
    <3> QED BY <3>2 DEF Turn, Gens
  <2>3. r[i].seq <= asking + 1
    BY <1>1, <1>4, <2>1
  <2>4. \A k \in DOMAIN r[i].turns : r[i].turns[k].question <= asking + 1
    BY <1>1, <1>4, <2>1, <2>2
  <2> QED BY <1>4, <2>1, <2>3, <2>4 DEF ScreenOK
<1>9. \A i \in DOMAIN r : ScreenOK(r[i], frames', task', asking + 1, asked)
  <2>1. \A i \in DOMAIN r : ~r[i].busy
    BY <1>3, <1>4
  <2>2. asking + 1 \in Nat /\ asking <= asking + 1
    BY <1>1
  <2> HIDE DEF StopAskTask
  <2> QED BY <1>5, <1>6, <1>8, <2>1, <2>2, IdleStack
<1>10. AskTypeOK'
  <2>1. askTask' \in 0..asking'
    BY <1>1 DEF NoRequest
  <2>2. asked' \in [Gens -> 0..MaxGen]
    BY AskFacts
  <2> QED BY <1>1, <1>5, <2>1, <2>2 DEF AskTypeOK
<1>11. Unused(asking', task', asked')
  <2>1. ASSUME NEW g \in Gens, g > asking + 1
        PROVE  asked[g] = NoRequest /\ task'[g].at = "none" /\ task'[g].sent = 0
    <3>1. g > asking
      BY <1>1, <2>1 DEF Gens
    <3> QED BY <3>1, AskFacts DEF Unused
  <2> QED BY <1>1, <2>1 DEF Unused
<1>12. Asked(asked')
  BY AskFacts
<1>13. ChatsAndStreamsAgree'
  BY <1>1, <1>3, <1>4 DEF ChatsAndStreamsAgree, Streams
<1> QED BY <1>1, <1>5, <1>6, <1>7, <1>9, <1>10, <1>11, <1>12, <1>13 DEF AskInv

----------------------------------------------------------------------------
LEMMA SettledAnyway == AskInv => Settled(screens, screens)
BY AskFacts DEF TurnsApart, Settled

\* A step of one request, which leaves the screens alone.
LEMMA TaskStep ==
  ASSUME AskInv, UNCHANGED <<screens, asking, askTask, asked>>,
         NEW g \in Gens, NEW w \in Task, task' = [task EXCEPT ![g] = w],
         task[g].at # "none", task[g].sent <= w.sent,
         task[g].at \in Ended => w.at \in Ended /\ w.sent = task[g].sent,
         w.at \in {"sent", "streaming"} => task[g].at \in {"sent", "streaming"},
         frames' \in Seq(Event), InOrder(frames', task'),
         \A k \in DOMAIN frames : k \in DOMAIN frames' /\ frames'[k] = frames[k],
         (w.at \in {"none", "over"} /\ g = askTask) =>
           \E k \in DOMAIN frames' : frames'[k].turn = g /\ frames'[k].is # "delta",
         \A i \in DOMAIN screens :
           screens[i].busy => WaitsOK(screens[i], frames', task', asked)
  PROVE  AskInv' /\ Settled(screens, screens')
<1> USE AskAssumption
<1>1. /\ task' \in [Gens -> Task] /\ task'[g] = w
      /\ \A h \in Gens : h # g => task'[h] = task[h]
  BY AskFacts
<1>2. GoesOn(task, task', asked, asked)
  BY <1>1, AskFacts, TaskGoesOn DEF GoesOn
<1>3. AskTypeOK'
  BY <1>1 DEF AskInv, AskTypeOK
<1>4. g <= asking
  BY AskFacts DEF Unused
<1>5. Unused(asking', task', asked')
  BY <1>1, <1>4, AskFacts DEF Unused
<1>6. Asked(asked') /\ TurnsApart(screens') /\ Settled(screens, screens')
  BY AskFacts, SettledAnyway
<1>7. ASSUME NEW i \in DOMAIN screens
      PROVE  ScreenOK(screens[i], frames', task', asking, asked)
  <2>1. asking <= asking /\ screens[i] \in AskScreen /\ ScreenOK(screens[i], frames, task, asking, asked)
        /\ asking \in Nat /\ task \in [Gens -> Task]
    BY AskFacts
  <2> QED BY <1>1, <1>2, <2>1, ScreenStays
<1>8. ChatsAndStreamsAgree'
  <2>1. Streams' => Streams
    <3>1. ASSUME Streams' PROVE Streams
      <4>1. askTask # NoRequest /\ task'[askTask].at \in {"sent", "streaming"}
        BY <3>1 DEF Streams
      <4>2. askTask \in Gens
        BY <4>1, AskFacts DEF Gens, NoRequest
      <4> QED BY <1>1, <4>1, <4>2 DEF Streams
    <3> QED BY <3>1
  <2>2. ASSUME NEW i \in DOMAIN screens, screens[i].busy, screens[i].seq = asking
        PROVE  \/ askTask = asking /\ task'[asking].at \notin {"none", "over"}
               \/ \E k \in DOMAIN frames' : frames'[k].turn = asking /\ frames'[k].is # "delta"
    <3>1. \/ askTask = asking /\ task[asking].at \notin {"none", "over"}
          \/ \E k \in DOMAIN frames : frames[k].turn = asking /\ frames[k].is # "delta"
      BY <2>2, AskFacts DEF ChatsAndStreamsAgree, StillRuns
    <3>2. asking \in Gens
      BY <2>2, AskFacts DEF ScreenOK, WaitsOK
    <3>3. CASE \E k \in DOMAIN frames : frames[k].turn = asking /\ frames[k].is # "delta"
      BY <3>3
    <3>4. CASE askTask = asking /\ task[asking].at \notin {"none", "over"}
      BY <1>1, <3>2, <3>4
    <3> QED BY <3>1, <3>3, <3>4
  <2>3. Streams => \E i \in DOMAIN screens : screens[i].busy /\ screens[i].seq = askTask
    BY AskFacts DEF ChatsAndStreamsAgree
  <2> QED BY <2>1, <2>2, <2>3 DEF ChatsAndStreamsAgree, StillRuns
<1> QED BY <1>3, <1>5, <1>6, <1>7, <1>8 DEF AskInv

LEMMA EventFields ==
  ASSUME NEW s \in Seq(Event), NEW k \in DOMAIN s
  PROVE  s[k] \in Event /\ s[k].turn \in Gens /\ s[k].n \in 0..MaxFrame
<1>1. s[k] \in Event
  OBVIOUS
<1> QED BY <1>1 DEF Event

LEMMA AppendFacts ==
  ASSUME NEW s \in Seq(Event), NEW e \in Event
  PROVE  LET t == Append(s, e)
         IN /\ t \in Seq(Event) /\ Len(s) \in Nat /\ DOMAIN s = 1..Len(s)
            /\ DOMAIN t = 1..(Len(s) + 1) /\ t[Len(s) + 1] = e
            /\ \A k \in DOMAIN s : k \in DOMAIN t /\ t[k] = s[k]
            /\ \A k \in DOMAIN t : k \in DOMAIN s \/ k = Len(s) + 1
OBVIOUS

\* What a request sends last, and the step it takes with it.
LEMMA LastWords ==
  ASSUME AskInv, NEW g \in Gens, NEW at \in Ended, NEW is,
         is \in {"completed", "failed", "ok", "error", "history"},
         task[g].at \in {"sent", "streaming", "told"},
         task' = [task EXCEPT ![g].at = at], Sends(g, is, 0),
         UNCHANGED <<screens, asking, askTask, asked>>
  PROVE  AskInv' /\ Settled(screens, screens')
<1> USE AskAssumption
<1> DEFINE e == [turn |-> g, is |-> is, n |-> 0]
           w == [task[g] EXCEPT !.at = at]
<1>1. e \in Event /\ e.turn = g /\ e.is = is /\ is # "delta"
  BY DEF Event
<1>2. frames' = Append(frames, e) /\ frames \in Seq(Event)
  BY AskFacts DEF Sends
<1>3. task[g] \in Task /\ w \in Task /\ w.at = at /\ w.sent = task[g].sent
      /\ task[g].sent \in Nat /\ task' = [task EXCEPT ![g] = w]
  <2>1. task[g] \in Task
    BY AskFacts
  <2> QED BY <2>1 DEF Task, Ended
<1> HIDE DEF e, w
<1>4. /\ frames' \in Seq(Event) /\ Len(frames) \in Nat /\ DOMAIN frames = 1..Len(frames)
      /\ DOMAIN frames' = 1..(Len(frames) + 1) /\ frames'[Len(frames) + 1] = e
      /\ \A k \in DOMAIN frames : k \in DOMAIN frames' /\ frames'[k] = frames[k]
      /\ \A k \in DOMAIN frames' : k \in DOMAIN frames \/ k = Len(frames) + 1
  BY <1>1, <1>2, AppendFacts
<1>5. /\ task' \in [Gens -> Task] /\ task'[g] = w
      /\ \A h \in Gens : h # g => task'[h] = task[h]
  BY <1>3, AskFacts
<1>6. InOrder(frames', task')
  <2>1. ASSUME NEW k \in DOMAIN frames'
        PROVE  IF frames'[k].is = "delta" THEN frames'[k].n \in 1..task'[frames'[k].turn].sent
               ELSE task'[frames'[k].turn].at \in Ended
    <3>1. CASE k \in DOMAIN frames
      <4>1. frames[k].turn \in Gens /\ frames'[k] = frames[k]
        BY <1>2, <1>4, <3>1, EventFields
      <4>2. IF frames[k].is = "delta" THEN frames[k].n \in 1..task[frames[k].turn].sent
            ELSE task[frames[k].turn].at \in Ended
        BY <3>1, AskFacts DEF InOrder
      <4> QED BY <1>3, <1>5, <4>1, <4>2
    <3>2. CASE k = Len(frames) + 1
      BY <1>1, <1>3, <1>4, <1>5, <3>2
    <3> QED BY <1>4, <3>1, <3>2
  <2>2. ASSUME NEW j \in DOMAIN frames', NEW k \in DOMAIN frames', j < k,
               frames'[j].turn = frames'[k].turn, frames'[k].is = "delta"
        PROVE  frames'[j].is = "delta" /\ frames'[j].n < frames'[k].n
    <3>1. k \in DOMAIN frames
      BY <1>1, <1>4, <2>2
    <3>2. j \in DOMAIN frames
      BY <1>4, <2>2, <3>1
    <3> QED BY <1>4, <2>2, <3>1, <3>2, AskFacts DEF InOrder
  <2> QED BY <2>1, <2>2 DEF InOrder
<1>7. \A h \in Gens : Deltas(frames', h) = Deltas(frames, h)
  BY <1>1, <1>4 DEF Deltas
<1>8. ASSUME NEW i \in DOMAIN screens, screens[i].busy
      PROVE  WaitsOK(screens[i], frames', task', asked)
  <2>1. WaitsOK(screens[i], frames, task, asked) /\ screens[i].seq \in Gens
    BY <1>8, AskFacts DEF ScreenOK, WaitsOK
  <2>2. task'[screens[i].seq].sent = task[screens[i].seq].sent
    BY <1>3, <1>5, <2>1
  <2>3. Deltas(frames', screens[i].seq) = Deltas(frames, screens[i].seq)
    BY <1>7, <2>1
  <2>4. \A fs, gs, later : (/\ WaitsOK(screens[i], fs, task, asked)
                            /\ later[screens[i].seq].sent = task[screens[i].seq].sent
                            /\ Deltas(gs, screens[i].seq) = Deltas(fs, screens[i].seq))
                           => WaitsOK(screens[i], gs, later, asked)
    BY WaitsOn
  <2> QED BY <2>1, <2>2, <2>3, <2>4
<1>9. \E k \in DOMAIN frames' : frames'[k].turn = g /\ frames'[k].is # "delta"
  <2>1. Len(frames) + 1 \in DOMAIN frames'
    BY <1>4
  <2> QED BY <1>1, <1>4, <2>1
<1>10. task[g].at # "none" /\ task[g].sent <= w.sent /\ w.at \in Ended
       /\ w.at \notin {"sent", "streaming"}
  BY <1>3 DEF Ended
<1>11. UNCHANGED <<screens, asking, askTask, asked>>
  OBVIOUS
<1> QED BY <1>3, <1>4, <1>6, <1>8, <1>9, <1>10, <1>11, TaskStep

LEMMA ErrsKeeps ==
  ASSUME AskInv, NEW g \in Gens, NEW is \in {"history", "error"}, Errs(g, is)
  PROVE  AskInv' /\ Settled(screens, screens')
<1>1. is \in {"completed", "failed", "ok", "error", "history"} /\ "over" \in Ended
  BY DEF Ended
<1> QED BY <1>1, LastWords DEF Errs

LEMMA VerdictKeeps ==
  ASSUME AskInv, NEW g \in Gens, NEW is \in {"completed", "failed"}, Verdict(g, is)
  PROVE  AskInv' /\ Settled(screens, screens')
<1>1. is \in {"completed", "failed", "ok", "error", "history"} /\ "told" \in Ended
  BY DEF Ended
<1> QED BY <1>1, LastWords DEF Verdict

LEMMA FinishKeeps ==
  ASSUME AskInv, NEW g \in Gens, Finish(g)
  PROVE  AskInv' /\ Settled(screens, screens')
<1>1. \A is \in {"ok"} : is \in {"completed", "failed", "ok", "error", "history"}
  OBVIOUS
<1>2. "over" \in Ended
  BY DEF Ended
<1> QED BY <1>1, <1>2, LastWords DEF Finish

\* An aborted request sends nothing more, wherever it had got to.
LEMMA VanishKeeps ==
  ASSUME AskInv, NEW g \in Gens, Vanish(g)
  PROVE  AskInv' /\ Settled(screens, screens')
<1> USE AskAssumption
<1> DEFINE w == [task[g] EXCEPT !.at = "over"]
<1>1. task[g] \in Task /\ w \in Task /\ w.at = "over" /\ w.sent = task[g].sent
      /\ task[g].sent \in Nat /\ task' = [task EXCEPT ![g] = w]
  <2>1. task[g] \in Task
    BY AskFacts
  <2> QED BY <2>1 DEF Task, Vanish
<1> HIDE DEF w
<1>2. /\ task' \in [Gens -> Task] /\ task'[g] = w
      /\ \A h \in Gens : h # g => task'[h] = task[h]
  BY <1>1, AskFacts
<1>3. UNCHANGED <<screens, asking, askTask, frames, asked>> /\ g # askTask
      /\ task[g].at # "none"
  BY DEF Vanish, StillRuns
<1>4. frames \in Seq(Event) /\ InOrder(frames, task)
  BY AskFacts
<1>5. \A k \in DOMAIN frames : frames[k].turn \in Gens
  BY <1>4, EventFields
<1>6. InOrder(frames, task')
  <2>1. \A h \in Gens : task'[h].sent = task[h].sent /\ (task[h].at \in Ended => task'[h].at \in Ended)
    BY <1>1, <1>2 DEF Ended
  <2> QED BY <1>4, <1>5, <2>1 DEF InOrder
<1>7. ASSUME NEW i \in DOMAIN screens, screens[i].busy
      PROVE  WaitsOK(screens[i], frames, task', asked)
  <2>1. WaitsOK(screens[i], frames, task, asked) /\ screens[i].seq \in Gens
    BY <1>7, AskFacts DEF ScreenOK, WaitsOK
  <2>2. task'[screens[i].seq].sent = task[screens[i].seq].sent
    BY <1>1, <1>2, <2>1
  <2> QED BY <2>1, <2>2, WaitsOn
<1>8. task[g].sent <= w.sent /\ w.at \in Ended /\ w.at \notin {"sent", "streaming"}
  BY <1>1 DEF Ended
<1> QED BY <1>1, <1>3, <1>4, <1>6, <1>7, <1>8, TaskStep

----------------------------------------------------------------------------
LEMMA TakenStep ==
  ASSUME AskInv, Taken(screens', screens), UNCHANGED <<asking, task, askTask, frames, asked>>,
         \A i \in DOMAIN screens :
           screens[i].busy => i \in DOMAIN screens' /\ screens'[i] = screens[i]
  PROVE  AskInv' /\ Settled(screens, screens')
<1>1. /\ TurnsApart(screens') /\ Settled(screens, screens')
      /\ \A i \in DOMAIN screens' : ScreenOK(screens'[i], frames, task, asking, asked)
  BY TakenFacts
<1>2. AskTypeOK'
  BY DEF AskInv, AskTypeOK, Taken
<1>3. Streams' = Streams
  BY DEF Streams
<1>4. ASSUME NEW i \in DOMAIN screens', screens'[i].busy
      PROVE  i \in DOMAIN screens /\ screens'[i] = screens[i]
  BY <1>4, ChatNewScreens DEF Taken
<1>5. ChatsAndStreamsAgree'
  <2>1. Streams => \E i \in DOMAIN screens' : screens'[i].busy /\ screens'[i].seq = askTask
    BY AskFacts DEF ChatsAndStreamsAgree
  <2>2. \A i \in DOMAIN screens' :
          (screens'[i].busy /\ screens'[i].seq = asking) =>
            \/ askTask = asking /\ StillRuns(asking)
            \/ \E k \in DOMAIN frames :
                 frames[k].turn = asking /\ frames[k].is # "delta"
    BY <1>4, AskFacts DEF ChatsAndStreamsAgree
  <2> QED BY <1>3, <2>1, <2>2 DEF ChatsAndStreamsAgree, StillRuns
<1> QED BY <1>1, <1>2, <1>5, AskFacts DEF AskInv

LEMMA AsIsGoesOn == AskInv => GoesOn(task, task, asked, asked)
BY AskFacts, TaskGoesOn

\* Stopping what streams, with the requests and the channel left alone.
LEMMA StopStep ==
  ASSUME AskInv, NEW s, Taken(s, screens), StopAskTask(s), UNCHANGED <<task, frames, asked>>
  PROVE  AskInv' /\ Settled(screens, screens')
<1>1. task' \in [Gens -> Task] /\ frames' \in Seq(Event) /\ InOrder(frames', task')
      /\ asked' = asked
  BY AskFacts
<1>2. GoesOn(task, task', asked, asked)
  BY AsIsGoesOn
<1>3. \A g \in Gens : task[g].at = "none" => task'[g] = task[g]
  OBVIOUS
<1> QED BY <1>1, <1>2, <1>3, StopKeeps

LEMMA WholeStack == AskInv => Taken(screens, screens)
BY AskFacts DEF Taken

LEMMA StackFacts ==
  ASSUME NEW s \in Seq(AskScreen), s # <<>>, NEW a \in AskScreen
  PROVE  /\ Append(s, a) \in Seq(AskScreen) /\ Append(s, a) # <<>>
         /\ DOMAIN Append(s, a) = 1..(Len(s) + 1) /\ Append(s, a)[Len(s) + 1] = a
         /\ \A i \in 1..Len(s) : Append(s, a)[i] = s[i]
         /\ Len(s) > 1 =>
              /\ SubSeq(s, 1, Len(s) - 1) \in Seq(AskScreen)
              /\ SubSeq(s, 1, Len(s) - 1) # <<>>
              /\ DOMAIN SubSeq(s, 1, Len(s) - 1) = 1..(Len(s) - 1)
              /\ \A i \in 1..(Len(s) - 1) : SubSeq(s, 1, Len(s) - 1)[i] = s[i]
         /\ [s EXCEPT ![Len(s)] = a] \in Seq(AskScreen) /\ [s EXCEPT ![Len(s)] = a] # <<>>
<1>1. Len(s) \in Nat /\ Len(s) >= 1 /\ DOMAIN s = 1..Len(s) /\ Len(s) \in DOMAIN s
  OBVIOUS
<1>2. Append(s, a) \in Seq(AskScreen) /\ Len(Append(s, a)) = Len(s) + 1
      /\ DOMAIN Append(s, a) = 1..(Len(s) + 1) /\ Append(s, a)[Len(s) + 1] = a
      /\ \A i \in 1..Len(s) : Append(s, a)[i] = s[i]
  OBVIOUS
<1>3. ASSUME Len(s) > 1
      PROVE  LET r == SubSeq(s, 1, Len(s) - 1)
             IN r \in Seq(AskScreen) /\ Len(r) = Len(s) - 1 /\ DOMAIN r = 1..(Len(s) - 1)
                /\ \A i \in 1..(Len(s) - 1) : r[i] = s[i]
  BY <1>1, <1>3
<1>4. LET r == [s EXCEPT ![Len(s)] = a]
      IN r \in Seq(AskScreen) /\ Len(r) = Len(s)
  BY <1>1
<1>5. \A r \in Seq(AskScreen) : Len(r) > 0 => r # <<>>
  OBVIOUS
<1> QED BY <1>1, <1>2, <1>3, <1>4, <1>5

LEMMA OpenKeeps ==
  ASSUME AskInv, NEW screen \in {Fresh, Elsewhere}, Open(screen)
  PROVE  AskInv' /\ Settled(screens, screens')
<1>1. screens' = Append(screens, screen) /\ UNCHANGED <<asking, task, askTask, frames, asked>>
  BY DEF Open
<1>2. /\ screens \in Seq(AskScreen) /\ screens # <<>> /\ screen \in AskScreen
      /\ DOMAIN screens = 1..Len(screens) /\ Len(screens) \in Nat
  BY AskFacts, ChatNewScreens
<1>3. /\ screens' \in Seq(AskScreen) /\ screens' # <<>>
      /\ DOMAIN screens' = 1..(Len(screens) + 1) /\ screens'[Len(screens) + 1] = screen
      /\ \A i \in 1..Len(screens) : screens'[i] = screens[i]
  BY <1>1, <1>2, StackFacts
<1>4. Taken(screens', screens)
  <2>1. \A j \in DOMAIN screens' : j \in DOMAIN screens \/ j = Len(screens) + 1
    BY <1>2, <1>3
  <2> QED BY <1>2, <1>3, <2>1 DEF Taken
<1>5. \A i \in DOMAIN screens : i \in DOMAIN screens' /\ screens'[i] = screens[i]
  BY <1>2, <1>3
<1> QED BY <1>1, <1>4, <1>5, TakenStep

LEMMA PopScreenKeeps ==
  ASSUME AskInv, PopScreen
  PROVE  AskInv' /\ Settled(screens, screens')
<1> DEFINE rest == SubSeq(screens, 1, Len(screens) - 1)
<1>1. /\ screens \in Seq(AskScreen) /\ screens # <<>> /\ Len(screens) > 1
      /\ DOMAIN screens = 1..Len(screens) /\ Len(screens) \in Nat
  BY AskFacts DEF PopScreen, InFront
<1>2. /\ rest \in Seq(AskScreen) /\ rest # <<>> /\ DOMAIN rest = 1..(Len(screens) - 1)
      /\ \A i \in 1..(Len(screens) - 1) : rest[i] = screens[i]
  BY <1>1, ChatNewScreens, StackFacts
<1>3. /\ UNCHANGED <<task, frames, asked>>
      /\ IF screens[Len(screens)].busy THEN StopAskTask(rest)
         ELSE screens' = rest /\ UNCHANGED <<asking, askTask>>
  BY DEF PopScreen, InFront
<1> HIDE DEF rest
<1>4. Taken(rest, screens)
  BY <1>1, <1>2 DEF Taken
<1>5. CASE screens[Len(screens)].busy
  BY <1>3, <1>4, <1>5, StopStep
<1>6. CASE ~screens[Len(screens)].busy
  <2>1. \A i \in DOMAIN screens :
          screens[i].busy => i \in DOMAIN rest /\ rest[i] = screens[i]
    BY <1>1, <1>2, <1>6
  <2> QED BY <1>3, <1>4, <1>6, <2>1, TakenStep
<1> QED BY <1>5, <1>6

LEMMA CancelKeeps ==
  ASSUME AskInv, Cancel
  PROVE  AskInv' /\ Settled(screens, screens')
BY WholeStack, StopStep DEF Cancel

LEMMA NewChatKeeps ==
  ASSUME AskInv, NewChat
  PROVE  AskInv' /\ Settled(screens, screens')
<1> DEFINE s == [screens EXCEPT ![Len(screens)] = Fresh]
<1>1. /\ screens \in Seq(AskScreen) /\ screens # <<>> /\ Fresh \in AskScreen
      /\ Len(screens) \in DOMAIN screens
  BY AskFacts, ChatNewScreens
<1>2. s \in Seq(AskScreen) /\ s # <<>>
  BY <1>1, StackFacts
<1>3. \A i \in DOMAIN s : i \in DOMAIN screens /\ s[i] = IF i = Len(screens) THEN Fresh ELSE screens[i]
  BY <1>1
<1>4. StopAskTask(s) /\ UNCHANGED <<task, frames, asked>>
  BY DEF NewChat, InFront
<1> HIDE DEF s
<1>5. Taken(s, screens)
  BY <1>2, <1>3 DEF Taken
<1> QED BY <1>4, <1>5, StopStep

LEMMA NewSessionFacts ==
  ASSUME AskInv, NewSession
  PROVE  /\ task' \in [Gens -> Task] /\ GoesOn(task, task', asked, asked)
         /\ \A g \in Gens : task[g].at = "none" => task'[g] = task[g]
         /\ \A g \in Gens : task'[g].at \in {"none", "over"}
         /\ frames' = <<>> /\ frames' \in Seq(Event) /\ InOrder(frames', task')
<1> USE AskAssumption
<1>1. frames' = <<>> /\ task' = [g \in Gens |-> IF StillRuns(g) THEN [task[g] EXCEPT !.at = "over"]
                                                ELSE task[g]]
  BY DEF NewSession
<1>2. ASSUME NEW g \in Gens
      PROVE  /\ task'[g] \in Task /\ task'[g].at \in {"none", "over"}
             /\ task'[g].sent = task[g].sent /\ (task[g].at = "none" => task'[g] = task[g])
             /\ task[g].at \in Ended => task'[g].at \in Ended
  <2>1. task[g] \in Task /\ task'[g] = IF StillRuns(g) THEN [task[g] EXCEPT !.at = "over"] ELSE task[g]
    BY <1>1, AskFacts
  <2> QED BY <2>1 DEF Task, StillRuns, Ended
<1>3. task' \in [Gens -> Task]
  BY <1>1, <1>2
<1>4. GoesOn(task, task', asked, asked)
  BY <1>2, AskFacts DEF GoesOn
<1>5. frames' \in Seq(Event) /\ DOMAIN frames' = {}
  BY <1>1
<1>6. InOrder(frames', task')
  BY <1>5 DEF InOrder
<1> QED BY <1>1, <1>2, <1>3, <1>4, <1>5, <1>6

LEMMA RecheckSessionKeeps ==
  ASSUME AskInv, RecheckSession
  PROVE  AskInv' /\ Settled(screens, screens')
<1>1. StopAskTask(screens) /\ NewSession /\ asked' = asked
  BY DEF RecheckSession
<1> QED BY <1>1, WholeStack, NewSessionFacts, StopKeeps

LEMMA EndSessionKeeps ==
  ASSUME AskInv, EndSession
  PROVE  AskInv' /\ Settled(screens, screens')
<1> USE AskAssumption
<1> DEFINE s == <<Elsewhere>>
<1>1. NewSession /\ asked' = asked
      /\ IF \E i \in DOMAIN screens : screens[i].busy THEN StopAskTask(s)
         ELSE screens' = s /\ UNCHANGED <<asking, askTask>>
  BY DEF EndSession
<1>2. s \in Seq(AskScreen) /\ s # <<>> /\ DOMAIN s = {1} /\ s[1] = Elsewhere
  BY ChatNewScreens
<1> HIDE DEF s
<1>3. Taken(s, screens)
  BY <1>2 DEF Taken
<1>4. CASE \E i \in DOMAIN screens : screens[i].busy
  BY <1>1, <1>3, <1>4, NewSessionFacts, StopKeeps
<1>5. CASE ~\E i \in DOMAIN screens : screens[i].busy
  <2>1. screens' = s /\ UNCHANGED <<asking, askTask, asked>>
    BY <1>1, <1>5
  <2>2. /\ TurnsApart(s) /\ Settled(screens, s)
        /\ \A i \in DOMAIN s : ScreenOK(s[i], frames, task, asking, asked)
    BY <1>3, TakenFacts
  <2>3. \A i \in DOMAIN s : ~s[i].busy
    BY <1>2, ChatNewScreens
  <2>4. asking \in Nat /\ asking <= asking
    BY AskFacts
  <2>5. \A i \in DOMAIN s : ScreenOK(s[i], frames', task', asking, asked)
    BY <1>1, <1>2, <2>2, <2>3, <2>4, NewSessionFacts, IdleStack
  <2>6. AskTypeOK'
    BY <1>1, <1>2, <2>1, NewSessionFacts DEF AskInv, AskTypeOK
  <2>7. Unused(asking', task', asked')
    BY <1>1, <2>1, NewSessionFacts, AskFacts DEF Unused
  <2>8. ~Streams'
    <3>1. ASSUME Streams' PROVE FALSE
      <4>1. askTask # NoRequest /\ task'[askTask].at \in {"sent", "streaming"}
        BY <2>1, <3>1 DEF Streams
      <4>2. askTask \in Gens
        BY <4>1, AskFacts DEF Gens, NoRequest
      <4> QED BY <1>1, <4>1, <4>2, NewSessionFacts
    <3> QED BY <3>1
  <2>9. ChatsAndStreamsAgree'
    BY <2>1, <2>3, <2>8 DEF ChatsAndStreamsAgree
  <2> QED BY <1>1, <2>1, <2>2, <2>5, <2>6, <2>7, <2>9, NewSessionFacts, AskFacts DEF AskInv
<1> QED BY <1>4, <1>5

----------------------------------------------------------------------------
\* What a request sent so far, and one frame more.
LEMMA FramesGrow ==
  ASSUME NEW g, NEW n \in Nat
  PROVE  Append(FramesOf(g, n), [turn |-> g, n |-> n + 1]) = FramesOf(g, n + 1)
<1> DEFINE F(m) == [k \in 1..m |-> [turn |-> g, n |-> k]]
           Any == {[turn |-> g, n |-> k] : k \in Nat}
<1>1. \A m \in Nat : F(m) \in Seq(Any) /\ Len(F(m)) = m
  <2>1. TAKE m \in Nat
  <2>2. F(m) \in [1..m -> Any]
    OBVIOUS
  <2> HIDE DEF Any
  <2>3. F(m) \in Seq(Any) /\ DOMAIN F(m) = 1..m
    BY <2>2
  <2> HIDE DEF F
  <2> QED BY <2>3
<1>2. [turn |-> g, n |-> n + 1] \in Any
  OBVIOUS
<1> HIDE DEF Any
<1> DEFINE e == [turn |-> g, n |-> n + 1]
           s == Append(F(n), e)
<1>3. \A k \in 1..n : F(n)[k] = F(n + 1)[k]
  OBVIOUS
<1>4. F(n + 1)[n + 1] = e
  OBVIOUS
<1> HIDE DEF F, e
<1>5. s \in Seq(Any) /\ Len(s) = n + 1 /\ s[n + 1] = e /\ \A k \in 1..n : s[k] = F(n)[k]
  BY <1>1, <1>2 DEF e
<1>6. F(n + 1) \in Seq(Any) /\ Len(F(n + 1)) = n + 1
  BY <1>1
<1>7. \A k \in 1..(n + 1) : s[k] = F(n + 1)[k]
  BY <1>3, <1>4, <1>5
<1> HIDE DEF s
<1>8. s = F(n + 1)
  BY <1>5, <1>6, <1>7
<1> QED BY <1>8 DEF s, F, e, FramesOf

LEMMA NoFramesYet == ASSUME NEW g PROVE FramesOf(g, 0) = <<>>
<1>1. DOMAIN FramesOf(g, 0) = {} /\ FramesOf(g, 0) = [k \in {} |-> [turn |-> g, n |-> k]]
  BY DEF FramesOf
<1> QED BY <1>1

LEMMA DeltaKeeps ==
  ASSUME AskInv, NEW g \in Gens, Delta(g)
  PROVE  AskInv' /\ Settled(screens, screens')
<1> USE AskAssumption
<1> DEFINE m == task[g].sent + 1
           e == [turn |-> g, is |-> "delta", n |-> m]
           w == [at |-> "streaming", sent |-> m]
<1>1. /\ task[g].at \in {"sent", "streaming"} /\ task[g] \in Task /\ task[g].sent \in Nat
      /\ m \in 1..MaxFrame /\ w \in Task /\ w.at = "streaming" /\ w.sent = m
      /\ e \in Event /\ e.turn = g /\ e.is = "delta" /\ e.n = m
  <2>1. task[g] \in Task /\ task[g].sent \in Nat /\ task[g].sent < MaxFrame
        /\ task[g].at \in {"sent", "streaming"}
    BY AskFacts DEF Delta
  <2>2. m \in 1..MaxFrame /\ m \in 0..MaxFrame
    BY <2>1
  <2> QED BY <2>1, <2>2 DEF Event, Task
<1>2. task' = [task EXCEPT ![g] = w] /\ frames' = Append(frames, e)
      /\ UNCHANGED <<screens, asking, askTask, asked>> /\ frames \in Seq(Event)
  BY AskFacts DEF Delta, Sends
<1>3. m = task[g].sent + 1
  OBVIOUS
<1> HIDE DEF e, w, m
<1>4. /\ frames' \in Seq(Event) /\ Len(frames) \in Nat /\ DOMAIN frames = 1..Len(frames)
      /\ DOMAIN frames' = 1..(Len(frames) + 1) /\ frames'[Len(frames) + 1] = e
      /\ \A k \in DOMAIN frames : k \in DOMAIN frames' /\ frames'[k] = frames[k]
      /\ \A k \in DOMAIN frames' : k \in DOMAIN frames \/ k = Len(frames) + 1
  BY <1>1, <1>2, AppendFacts
<1>5. /\ task' \in [Gens -> Task] /\ task'[g] = w
      /\ \A h \in Gens : h # g => task'[h] = task[h]
  BY <1>1, <1>2, AskFacts
<1>6. \A k \in DOMAIN frames :
        /\ frames[k].turn \in Gens
        /\ IF frames[k].is = "delta" THEN frames[k].n \in 1..task[frames[k].turn].sent
           ELSE task[frames[k].turn].at \in Ended
  BY <1>2, EventFields, AskFacts DEF InOrder
<1>7. InOrder(frames', task')
  <2>1. ASSUME NEW k \in DOMAIN frames'
        PROVE  IF frames'[k].is = "delta" THEN frames'[k].n \in 1..task'[frames'[k].turn].sent
               ELSE task'[frames'[k].turn].at \in Ended
    <3>1. CASE k \in DOMAIN frames /\ frames[k].turn # g
      BY <1>4, <1>5, <1>6, <3>1
    <3>2. CASE k \in DOMAIN frames /\ frames[k].turn = g
      <4>1. frames[k].is = "delta" /\ frames[k].n \in 1..task[g].sent
        BY <1>1, <1>6, <3>2 DEF Ended
      <4> QED BY <1>1, <1>3, <1>4, <1>5, <3>2, <4>1
    <3>3. CASE k = Len(frames) + 1
      BY <1>1, <1>4, <1>5, <3>3
    <3> QED BY <1>4, <3>1, <3>2, <3>3
  <2>2. ASSUME NEW j \in DOMAIN frames', NEW k \in DOMAIN frames', j < k,
               frames'[j].turn = frames'[k].turn, frames'[k].is = "delta"
        PROVE  frames'[j].is = "delta" /\ frames'[j].n < frames'[k].n
    <3>1. j \in DOMAIN frames
      BY <1>4, <2>2
    <3>2. CASE k \in DOMAIN frames
      BY <1>4, <2>2, <3>1, <3>2, AskFacts DEF InOrder
    <3>3. CASE k = Len(frames) + 1
      <4>1. frames[j].turn = g
        BY <1>1, <1>4, <2>2, <3>1, <3>3
      <4>2. frames[j].is = "delta" /\ frames[j].n \in 1..task[g].sent
        BY <1>1, <1>6, <3>1, <4>1 DEF Ended
      <4> QED BY <1>1, <1>3, <1>4, <3>1, <3>3, <4>2
    <3> QED BY <1>4, <3>2, <3>3
  <2> QED BY <2>1, <2>2 DEF InOrder
<1>8. \A h \in Gens : h # g => Deltas(frames', h) = Deltas(frames, h)
  BY <1>1, <1>4 DEF Deltas
<1>9. Deltas(frames', g) = Deltas(frames, g) \cup {m}
  <2>1. \A x \in 1..MaxFrame :
          (\E k \in DOMAIN frames' : frames'[k].turn = g /\ frames'[k].is = "delta" /\ frames'[k].n = x)
          <=> (x = m \/ \E k \in DOMAIN frames : frames[k].turn = g /\ frames[k].is = "delta" /\ frames[k].n = x)
    <3>1. Len(frames) + 1 \in DOMAIN frames'
      BY <1>4
    <3> QED BY <1>1, <1>4, <3>1
  <2> QED BY <1>1, <2>1 DEF Deltas
<1>10. ASSUME NEW i \in DOMAIN screens, screens[i].busy
       PROVE  WaitsOK(screens[i], frames', task', asked)
  <2>1. WaitsOK(screens[i], frames, task, asked) /\ screens[i].seq \in Gens
    BY <1>10, AskFacts DEF ScreenOK, WaitsOK
  <2>2. CASE screens[i].seq # g
    <3>1. task'[screens[i].seq].sent = task[screens[i].seq].sent
          /\ Deltas(frames', screens[i].seq) = Deltas(frames, screens[i].seq)
      BY <1>5, <1>8, <2>1, <2>2
    <3>2. \A fs, gs, later : (/\ WaitsOK(screens[i], fs, task, asked)
                              /\ later[screens[i].seq].sent = task[screens[i].seq].sent
                              /\ Deltas(gs, screens[i].seq) = Deltas(fs, screens[i].seq))
                             => WaitsOK(screens[i], gs, later, asked)
      BY WaitsOn
    <3> QED BY <2>1, <3>1, <3>2
  <2>3. CASE screens[i].seq = g
    <3> DEFINE t == LastTurn(screens[i])
    <3>1. /\ screens[i].turns # <<>> /\ t.state = "streaming" /\ t.question = asked[g]
          /\ t.question # NoRequest /\ Unrepeated(t, asked)
      BY <2>1, <2>3 DEF WaitsOK, Receives
    <3>2. PICK n \in 0..task[g].sent :
            t.answer = FramesOf(g, n) /\ Deltas(frames, g) = (n + 1)..task[g].sent
      BY <2>1, <2>3 DEF WaitsOK, Receives
    <3> HIDE DEF t
    <3>3. n \in 0..m /\ Deltas(frames', g) = (n + 1)..m
      BY <1>1, <1>3, <1>9, <3>2
    <3>4. Receives(t, g, frames', task', asked)
      BY <1>1, <1>5, <3>1, <3>2, <3>3 DEF Receives
    <3> QED BY <2>1, <2>3, <3>1, <3>4 DEF t, WaitsOK
  <2> QED BY <2>2, <2>3
<1>11. /\ task[g].at # "none" /\ task[g].sent <= w.sent /\ task[g].at \notin Ended
       /\ w.at \notin {"none", "over"}
  BY <1>1, <1>3 DEF Ended
<1> QED BY <1>1, <1>2, <1>4, <1>7, <1>10, <1>11, TaskStep

----------------------------------------------------------------------------
\* A step that writes to one chat: its settled turns stay, and a turn it adds
\* asks what nobody asked before.
LEMMA OneChatChanges ==
  ASSUME AskInv, NEW i \in DOMAIN screens, NEW a \in AskScreen,
         screens' = [screens EXCEPT ![i] = a],
         \A j \in DOMAIN screens :
           (j # i /\ (a.busy \/ screens[j].busy)) => a.seq # screens[j].seq,
         \A k \in DOMAIN a.turns :
           \/ /\ k \in DOMAIN screens[i].turns
              /\ a.turns[k].question = screens[i].turns[k].question
              /\ a.turns[k] = screens[i].turns[k] \/ screens[i].turns[k].state = "streaming"
           \/ k = Len(a.turns) /\ a.turns[k].question > asking
  PROVE  /\ screens' \in Seq(AskScreen) /\ screens' # <<>>
         /\ DOMAIN screens' = DOMAIN screens /\ screens'[i] = a
         /\ \A j \in DOMAIN screens : j # i => screens'[j] = screens[j]
         /\ TurnsApart(screens') /\ Settled(screens, screens')
<1> DEFINE s == screens
<1>0. /\ s \in Seq(AskScreen) /\ s # <<>> /\ DOMAIN s = 1..Len(s) /\ Len(s) \in Nat
      /\ TurnsApart(s) /\ asking \in Nat
      /\ \A j \in DOMAIN s : \A k \in DOMAIN s[j].turns :
           s[j].turns[k].question \in Nat /\ s[j].turns[k].question <= asking
  BY AskFacts DEF ScreenOK
<1>1. screens' \in Seq(AskScreen) /\ Len(screens') = Len(s) /\ DOMAIN screens' = DOMAIN s
      /\ screens'[i] = a /\ \A j \in DOMAIN s : j # i => screens'[j] = s[j]
  BY <1>0
<1>2. screens' # <<>>
  BY <1>0, <1>1
<1>3. \A j, k \in DOMAIN s : (s[j].busy /\ s[j].seq = s[k].seq) => j = k
  BY <1>0 DEF TurnsApart
<1>4. \A h, j \in DOMAIN s : \A k \in DOMAIN s[h].turns, l \in DOMAIN s[j].turns :
        s[h].turns[k].question = s[j].turns[l].question => h = j /\ k = l
  BY <1>0 DEF TurnsApart
<1>5. \A k \in DOMAIN a.turns :
         a.turns[k].question \in Nat
  <2>1. TAKE k \in DOMAIN a.turns
  <2>2. a.turns \in Seq(Turn)
    BY DEF AskScreen
  <2>3. a.turns[k] \in Turn
    BY <2>2
  <2> QED BY <2>3 DEF Turn, Gens
<1> HIDE DEF s
<1>6. \A j, k \in DOMAIN screens' : (screens'[j].busy /\ screens'[j].seq = screens'[k].seq) => j = k
  <2>1. \A j \in DOMAIN s : (j # i /\ (a.busy \/ s[j].busy)) => a.seq # s[j].seq
    BY DEF s
  <2> QED BY <1>1, <1>3, <2>1
<1>7. \A k \in DOMAIN a.turns :
        \/ /\ k \in DOMAIN s[i].turns
           /\ a.turns[k].question = s[i].turns[k].question
           /\ a.turns[k] = s[i].turns[k] \/ s[i].turns[k].state = "streaming"
        \/ k = Len(a.turns) /\ a.turns[k].question > asking
  BY DEF s
<1>8. i \in DOMAIN s
  BY DEF s
<1>9. ASSUME NEW h \in DOMAIN s, NEW k \in DOMAIN s[h].turns, NEW l \in DOMAIN a.turns,
             s[h].turns[k].question = a.turns[l].question
      PROVE  /\ h = i /\ k = l
             /\ a.turns[l] = s[i].turns[l] \/ s[i].turns[l].state = "streaming"
  <2>1. l \in DOMAIN s[i].turns /\ a.turns[l].question = s[i].turns[l].question
        /\ (a.turns[l] = s[i].turns[l] \/ s[i].turns[l].state = "streaming")
    <3>1. s[h].turns[k].question <= asking /\ s[h].turns[k].question \in Nat
      BY <1>0
    <3>2. ~(a.turns[l].question > asking)
      BY <1>0, <1>9, <3>1
    <3> QED BY <1>7, <3>2
  <2> QED BY <1>4, <1>8, <1>9, <2>1
<1>10. ASSUME NEW h \in DOMAIN screens', NEW j \in DOMAIN screens',
              NEW k \in DOMAIN screens'[h].turns, NEW l \in DOMAIN screens'[j].turns,
              screens'[h].turns[k].question = screens'[j].turns[l].question
       PROVE  h = j /\ k = l
  <2>1. CASE h # i /\ j # i
    BY <1>1, <1>4, <1>10, <2>1
  <2>2. CASE h # i /\ j = i
    BY <1>1, <1>9, <1>10, <2>2
  <2>3. CASE h = i /\ j # i
    BY <1>1, <1>9, <1>10, <2>3
  <2>4. CASE h = i /\ j = i
    <3>1. k \in DOMAIN a.turns /\ l \in DOMAIN a.turns /\ a.turns[k].question = a.turns[l].question
      BY <1>1, <1>10, <2>4
    <3>2. CASE k \in DOMAIN s[i].turns /\ s[i].turns[k].question = a.turns[k].question
      BY <1>8, <1>9, <2>4, <3>1, <3>2
    <3>3. CASE l \in DOMAIN s[i].turns /\ s[i].turns[l].question = a.turns[l].question
      BY <1>8, <1>9, <2>4, <3>1, <3>3
    <3>4. CASE k = Len(a.turns) /\ l = Len(a.turns)
      BY <2>4, <3>4
    <3> QED BY <1>7, <3>1, <3>2, <3>3, <3>4
  <2> QED BY <2>1, <2>2, <2>3, <2>4
<1>11. ASSUME NEW h \in DOMAIN s, NEW j \in DOMAIN screens',
              NEW k \in DOMAIN s[h].turns, NEW l \in DOMAIN screens'[j].turns,
              s[h].turns[k].state # "streaming",
              s[h].turns[k].question = screens'[j].turns[l].question
       PROVE  screens'[j].turns[l] = s[h].turns[k]
  <2>1. CASE j = i
    BY <1>1, <1>9, <1>11, <2>1
  <2>2. CASE j # i
    BY <1>1, <1>4, <1>11, <2>2
  <2> QED BY <2>1, <2>2
<1>12. TurnsApart(screens')
  BY <1>6, <1>10 DEF TurnsApart
<1>13. Settled(s, screens')
  BY <1>11 DEF Settled
<1> QED BY <1>1, <1>2, <1>12, <1>13 DEF s

\* What a screen becomes by having its last turn written to.
LEMMA LastTurnFacts ==
  ASSUME NEW a \in AskScreen, a.turns # <<>>
  PROVE  /\ LastTurn(a) \in Turn /\ Len(a.turns) \in DOMAIN a.turns
         /\ LastTurn(a) = a.turns[Len(a.turns)] /\ a.turns \in Seq(Turn)
<1>1. a.turns \in Seq(Turn)
  BY DEF AskScreen
<1> QED BY <1>1 DEF LastTurn

LEMMA TurnsGrow ==
  ASSUME NEW s \in Seq(Turn), NEW t \in Turn
  PROVE  LET r == Append(s, t)
         IN /\ r \in Seq(Turn) /\ r # <<>> /\ Len(r) = Len(s) + 1 /\ r[Len(r)] = t
            /\ \A k \in DOMAIN r : k = Len(r) \/ (k \in DOMAIN s /\ r[k] = s[k])
<1> DEFINE r == Append(s, t)
<1>1. /\ r \in Seq(Turn) /\ Len(r) = Len(s) + 1 /\ r[Len(s) + 1] = t
      /\ Len(s) \in Nat /\ DOMAIN s = 1..Len(s) /\ DOMAIN r = 1..(Len(s) + 1)
      /\ \A k \in 1..Len(s) : r[k] = s[k]
  OBVIOUS
<1> HIDE DEF r
<1>2. r # <<>>
  BY <1>1
<1>3. \A k \in DOMAIN r : k = Len(r) \/ (k \in DOMAIN s /\ r[k] = s[k])
  BY <1>1
<1> QED BY <1>1, <1>2, <1>3 DEF r

LEMMA AskKeeps ==
  ASSUME AskInv, Ask
  PROVE  AskInv' /\ Settled(screens, screens')
<1> USE AskAssumption
<1> DEFINE g == asking + 1
           i == Len(screens)
           turn == [question |-> g, answer |-> <<>>, resent |-> FALSE, state |-> "streaming"]
           turns == Append(screens[i].turns, turn)
           a == [screens[i] EXCEPT !.busy = TRUE, !.seq = g, !.turns = turns]
           w == [at |-> "sent", sent |-> 0]
<1>1. /\ asking < MaxGen /\ asking' = g /\ screens' = [screens EXCEPT ![i] = a]
      /\ task' = [task EXCEPT ![g] = w] /\ askTask' = g /\ asked' = [asked EXCEPT ![g] = g]
      /\ frames' = frames /\ screens[i].chat /\ ~screens[i].busy
  BY DEF Ask, InFront, SpawnAsk
<1>2. /\ i \in DOMAIN screens /\ screens[i] \in AskScreen /\ screens[i].turns \in Seq(Turn)
      /\ asking \in Nat /\ g \in Gens /\ g \in Nat /\ g \in 0..MaxGen /\ asking < g /\ g # 0 /\ MaxGen \in Nat
  BY <1>1, AskFacts DEF Gens
<1>3. turn \in Turn /\ turn.question = g /\ turn.answer = <<>> /\ turn.state = "streaming" /\ ~turn.resent
  <2>1. <<>> \in Seq(Frame)
    OBVIOUS
  <2> QED BY <1>2, <2>1 DEF Turn
<1>4. w \in Task /\ w.at = "sent" /\ w.sent = 0
  BY DEF Task
<1> HIDE DEF turn, w, g
<1>5. /\ turns \in Seq(Turn) /\ turns # <<>> /\ Len(turns) = Len(screens[i].turns) + 1
      /\ turns[Len(turns)] = turn
      /\ \A k \in DOMAIN turns : k = Len(turns) \/ (k \in DOMAIN screens[i].turns /\ turns[k] = screens[i].turns[k])
  BY <1>2, <1>3, TurnsGrow
<1> HIDE DEF turns
<1>6. a \in AskScreen /\ a.busy /\ a.seq = g /\ a.turns = turns /\ a.chat
  BY <1>1, <1>2, <1>5 DEF AskScreen
<1> HIDE DEF a
<1>7. \A j \in DOMAIN screens : a.seq # screens[j].seq
  BY <1>2, <1>6, AskFacts DEF ScreenOK
<1>8. /\ screens' \in Seq(AskScreen) /\ screens' # <<>>
      /\ DOMAIN screens' = DOMAIN screens /\ screens'[i] = a
      /\ \A j \in DOMAIN screens : j # i => screens'[j] = screens[j]
      /\ TurnsApart(screens') /\ Settled(screens, screens')
  <2>1. \A k \in DOMAIN a.turns :
           \/ /\ k \in DOMAIN screens[i].turns
              /\ a.turns[k].question = screens[i].turns[k].question
              /\ a.turns[k] = screens[i].turns[k] \/ screens[i].turns[k].state = "streaming"
           \/ k = Len(a.turns) /\ a.turns[k].question > asking
    BY <1>2, <1>3, <1>5, <1>6
  <2> QED BY <1>1, <1>2, <1>6, <1>7, <2>1, OneChatChanges
<1> HIDE DEF i
<1>9. /\ task' \in [Gens -> Task] /\ task'[g] = w /\ asked' \in [Gens -> 0..MaxGen] /\ asked'[g] = g
      /\ \A h \in Gens : h # g => task'[h] = task[h] /\ asked'[h] = asked[h]
      /\ asked[g] = NoRequest /\ task[g].at = "none" /\ task[g].sent = 0
  <2>1. asked[g] = NoRequest /\ task[g].at = "none" /\ task[g].sent = 0
    BY <1>2, AskFacts DEF Unused
  <2> QED BY <1>1, <1>2, <1>4, <2>1, AskFacts
<1>10. GoesOn(task, task', asked, asked')
  BY <1>4, <1>9, AskFacts DEF GoesOn, Ended
<1>11. AskTypeOK'
  <2>1. askTask' \in 0..asking' /\ asking' \in 0..MaxGen
    BY <1>1, <1>2
  <2> QED BY <1>1, <1>8, <1>9, <2>1, AskFacts DEF AskTypeOK
<1>12. Unused(asking', task', asked')
  <2>1. ASSUME NEW h \in Gens, h > g
        PROVE  asked'[h] = NoRequest /\ task'[h].at = "none" /\ task'[h].sent = 0
    <3>1. h > asking /\ h # g
      BY <1>2, <2>1 DEF Gens
    <3> QED BY <1>9, <3>1, AskFacts DEF Unused
  <2> QED BY <1>1, <2>1 DEF Unused
<1>13. \A h \in Gens : asked[h] \in Nat /\ asked[h] # g
  <2>1. TAKE h \in Gens
  <2>2. CASE h > asking
    BY <1>2, <2>2, AskFacts DEF Unused, NoRequest
  <2>3. CASE ~(h > asking)
    BY <1>2, <2>3, AskFacts DEF Asked, NoRequest
  <2> QED BY <2>2, <2>3
<1>14. Asked(asked')
  <2>1. \A h \in Gens : asked[h] # NoRequest =>
           asked[h] <= h /\ asked[asked[h]] = asked[h] /\ asked[h] \in Gens
    <3>1. TAKE h \in Gens
    <3>2. asked[h] \in 0..MaxGen
      BY AskFacts
    <3> QED BY <3>2, AskFacts DEF Asked, NoRequest, Gens
  <2>2. \A h \in Gens : asked'[h] # NoRequest => asked'[h] <= h /\ asked'[asked'[h]] = asked'[h]
    BY <1>2, <1>9, <1>13, <2>1
  <2>3. \A h, k \in Gens : (asked[h] = asked[k] /\ asked[h] # NoRequest /\ h # asked[h] /\ k # asked[k])
                           => h = k
    BY AskFacts DEF Asked
  <2>4. \A h, k \in Gens : (asked'[h] = asked'[k] /\ asked'[h] # NoRequest /\ h # asked'[h] /\ k # asked'[k])
                           => h = k
    BY <1>9, <1>13, <2>3
  <2> QED BY <2>2, <2>4 DEF Asked
<1>15. \A k \in DOMAIN frames : frames[k].turn \in Gens /\ frames[k].turn # g
  <2>1. TAKE k \in DOMAIN frames
  <2>2. frames[k] \in Event /\ frames[k].turn \in Gens
    BY AskFacts, EventFields
  <2>3. ASSUME frames[k].turn = g PROVE FALSE
    <3>1. IF frames[k].is = "delta" THEN frames[k].n \in 1..task[g].sent ELSE task[g].at \in Ended
      BY <2>3, AskFacts DEF InOrder
    <3> QED BY <1>9, <3>1 DEF Ended
  <2> QED BY <2>2, <2>3
<1>16. InOrder(frames', task')
  <2>1. \A k \in DOMAIN frames : task'[frames[k].turn] = task[frames[k].turn]
    BY <1>9, <1>15
  <2> QED BY <1>1, <2>1, AskFacts DEF InOrder
<1>17. ASSUME NEW j \in DOMAIN screens, j # i
       PROVE  ScreenOK(screens[j], frames', task', g, asked')
  <2>1. /\ screens[j] \in AskScreen /\ ScreenOK(screens[j], frames, task, asking, asked)
        /\ asking <= g
    BY <1>2, AskFacts
  <2>2. ASSUME screens[j].busy PROVE WaitsOK(screens[j], frames, task', asked')
    <3>1. WaitsOK(screens[j], frames, task, asked) /\ screens[j].seq \in Gens /\ screens[j].seq # g
      BY <1>6, <1>7, <2>1, <2>2 DEF ScreenOK, WaitsOK
    <3>2. LastTurn(screens[j]).question # g
      <4>1. screens[j].turns # <<>>
        BY <3>1 DEF WaitsOK
      <4> QED BY <1>2, <2>1, <4>1, LastTurnFacts DEF ScreenOK
    <3>3. task'[screens[j].seq].sent = task[screens[j].seq].sent
          /\ asked'[screens[j].seq] = asked[screens[j].seq]
          /\ \A h \in Gens : asked'[h] = asked[h] \/ asked'[h] # LastTurn(screens[j]).question
      BY <1>9, <3>1, <3>2
    <3> QED BY <3>1, <3>3, WaitsStays
  <2>3. task \in [Gens -> Task] /\ frames' = frames
    BY <1>1, AskFacts
  <2> QED BY <1>2, <1>9, <1>10, <2>1, <2>2, <2>3, ScreenStays
<1>18. ScreenOK(a, frames', task', g, asked')
  <2>1. ASSUME NEW k \in DOMAIN turns
        PROVE  turns[k].question <= g /\ TurnOK(turns[k], task', asked')
    <3>1. CASE k # Len(turns)
      <4>1. turns[k] \in Turn /\ turns[k].question <= asking /\ TurnOK(turns[k], task, asked)
            /\ turns[k].question \in Nat
        BY <1>2, <1>5, <3>1, AskFacts DEF ScreenOK
      <4>2. task \in [Gens -> Task]
        BY AskFacts
      <4> QED BY <1>2, <1>9, <1>10, <4>1, <4>2, TurnStaysOK
    <3>2. CASE k = Len(turns)
      <4>1. turns[k] = turn
        BY <1>5, <3>2
      <4>2. 0 \in 0..task'[g].sent
        BY <1>4, <1>9
      <4> QED BY <1>2, <1>3, <1>9, <4>1, <4>2, NoFramesYet DEF TurnOK
    <3> QED BY <3>1, <3>2
  <2>2. Deltas(frames', g) = {}
    BY <1>1, <1>15 DEF Deltas
  <2>3. LastTurn(a) = turn
    BY <1>5, <1>6 DEF LastTurn
  <2>4. Unrepeated(turn, asked')
    BY <1>3, <1>9, <1>13 DEF Unrepeated
  <2>5. Receives(turn, g, frames', task', asked')
    <3>1. 0 \in 0..task'[g].sent /\ Deltas(frames', g) = (0 + 1)..task'[g].sent
      BY <1>4, <1>9, <2>2
    <3> QED BY <1>2, <1>3, <1>9, <2>4, <3>1, NoFramesYet DEF Receives, NoRequest
  <2>6. WaitsOK(a, frames', task', asked')
    BY <1>2, <1>5, <1>6, <2>3, <2>5 DEF WaitsOK
  <2> QED BY <1>2, <1>6, <2>1, <2>6 DEF ScreenOK
<1>19. ChatsAndStreamsAgree'
  <2>1. i \in DOMAIN screens' /\ screens'[i].busy /\ screens'[i].seq = askTask' /\ askTask' = asking'
    BY <1>1, <1>2, <1>6, <1>8 DEF i
  <2>2. StillRuns(asking)'
    BY <1>1, <1>4, <1>9 DEF StillRuns
  <2> QED BY <2>1, <2>2 DEF ChatsAndStreamsAgree
<1>20. \A j \in DOMAIN screens' : ScreenOK(screens'[j], frames', task', asking', asked')
  BY <1>1, <1>8, <1>17, <1>18
<1> QED BY <1>8, <1>11, <1>12, <1>14, <1>16, <1>19, <1>20 DEF AskInv

----------------------------------------------------------------------------
\* The next of the messages, and the others.
LEMMA TailFacts ==
  ASSUME NEW fs \in Seq(Event), fs # <<>>, NEW tasks, InOrder(fs, tasks)
  PROVE  LET e == Head(fs)
             rest == Tail(fs)
         IN /\ e \in Event /\ rest \in Seq(Event) /\ InOrder(rest, tasks)
            /\ \A k \in DOMAIN fs : fs[k] = e \/ \E j \in DOMAIN rest : rest[j] = fs[k]
            /\ \A h : (h # e.turn \/ e.is # "delta") => Deltas(rest, h) = Deltas(fs, h)
            /\ e.is = "delta" => /\ Deltas(rest, e.turn) = Deltas(fs, e.turn) \ {e.n}
                                 /\ e.n \in 1..tasks[e.turn].sent
                                 /\ \A m \in Deltas(fs, e.turn) : e.n <= m
            /\ e.is # "delta" => Deltas(fs, e.turn) = {} /\ tasks[e.turn].at \in Ended
<1> DEFINE e == Head(fs)
           rest == Tail(fs)
<1>1. /\ e = fs[1] /\ 1 \in DOMAIN fs /\ e \in Event /\ rest \in Seq(Event)
      /\ Len(fs) \in Nat /\ Len(fs) >= 1 /\ DOMAIN fs = 1..Len(fs) /\ DOMAIN rest = 1..(Len(fs) - 1)
      /\ \A j \in DOMAIN rest : rest[j] = fs[j + 1]
  OBVIOUS
<1> HIDE DEF e, rest
<1>2. /\ \A j \in DOMAIN rest : j + 1 \in DOMAIN fs /\ j + 1 > 1
      /\ \A k \in DOMAIN fs : k = 1 \/ (k - 1 \in DOMAIN rest /\ rest[k - 1] = fs[k])
  BY <1>1
<1>3. \A k \in DOMAIN fs :
        IF fs[k].is = "delta" THEN fs[k].n \in 1..tasks[fs[k].turn].sent
        ELSE tasks[fs[k].turn].at \in Ended
  BY DEF InOrder
<1>4. \A j, k \in DOMAIN fs :
        (j < k /\ fs[j].turn = fs[k].turn /\ fs[k].is = "delta") =>
          fs[j].is = "delta" /\ fs[j].n < fs[k].n
  BY DEF InOrder
<1>5. InOrder(rest, tasks)
  <2>1. ASSUME NEW j \in DOMAIN rest, NEW k \in DOMAIN rest, j < k,
               rest[j].turn = rest[k].turn, rest[k].is = "delta"
        PROVE  rest[j].is = "delta" /\ rest[j].n < rest[k].n
    <3>1. j + 1 \in DOMAIN fs /\ k + 1 \in DOMAIN fs /\ j + 1 < k + 1
      BY <1>1, <1>2, <2>1
    <3> QED BY <1>1, <1>4, <2>1, <3>1
  <2> QED BY <1>1, <1>2, <1>3, <2>1 DEF InOrder
<1>6. \A k \in DOMAIN fs : fs[k] = e \/ \E j \in DOMAIN rest : rest[j] = fs[k]
  BY <1>1, <1>2
<1>7. ASSUME NEW h, h # e.turn \/ e.is # "delta"
      PROVE  Deltas(rest, h) = Deltas(fs, h)
  BY <1>1, <1>2, <1>7 DEF Deltas
<1>8. ASSUME e.is = "delta"
      PROVE  /\ Deltas(rest, e.turn) = Deltas(fs, e.turn) \ {e.n}
             /\ e.n \in 1..tasks[e.turn].sent
             /\ \A m \in Deltas(fs, e.turn) : e.n <= m
  <2>1. \A k \in DOMAIN fs : (k # 1 /\ fs[k].turn = e.turn /\ fs[k].is = "delta") => e.n < fs[k].n
    <3>1. \A k \in DOMAIN fs : k # 1 => 1 < k
      BY <1>1
    <3> QED BY <1>1, <1>4, <3>1
  <2>2. e.n \in Nat
    BY <1>1 DEF Event
  <2>3. \A k \in DOMAIN fs : fs[k].n \in Nat
    <3>1. \A k \in DOMAIN fs : fs[k] \in Event
      OBVIOUS
    <3> QED BY <3>1 DEF Event
  <2>4. \A m \in 1..MaxFrame :
          (\E k \in DOMAIN rest : rest[k].turn = e.turn /\ rest[k].is = "delta" /\ rest[k].n = m)
          <=> (m # e.n /\ \E k \in DOMAIN fs : fs[k].turn = e.turn /\ fs[k].is = "delta" /\ fs[k].n = m)
    <3>1. TAKE m \in 1..MaxFrame
    <3>2. ASSUME NEW k \in DOMAIN rest, rest[k].turn = e.turn, rest[k].is = "delta", rest[k].n = m
          PROVE  m # e.n /\ \E l \in DOMAIN fs : fs[l].turn = e.turn /\ fs[l].is = "delta" /\ fs[l].n = m
      <4>1. k + 1 \in DOMAIN fs /\ k + 1 # 1 /\ rest[k] = fs[k + 1]
        BY <1>1, <1>2
      <4> QED BY <2>1, <2>2, <2>3, <3>2, <4>1
    <3>3. ASSUME m # e.n, NEW l \in DOMAIN fs, fs[l].turn = e.turn, fs[l].is = "delta", fs[l].n = m
          PROVE  \E k \in DOMAIN rest : rest[k].turn = e.turn /\ rest[k].is = "delta" /\ rest[k].n = m
      BY <1>1, <1>2, <3>3
    <3> QED BY <3>2, <3>3
  <2>5. Deltas(rest, e.turn) = Deltas(fs, e.turn) \ {e.n}
    BY <2>4 DEF Deltas
  <2>6. \A m \in Deltas(fs, e.turn) : e.n <= m
    BY <1>1, <2>1, <2>2, <2>3 DEF Deltas
  <2> QED BY <1>1, <1>3, <1>8, <2>5, <2>6
<1>9. ASSUME e.is # "delta"
      PROVE  Deltas(fs, e.turn) = {} /\ tasks[e.turn].at \in Ended
  <2>1. \A k \in DOMAIN fs : ~(fs[k].turn = e.turn /\ fs[k].is = "delta")
    <3>1. \A k \in DOMAIN fs : k # 1 => 1 < k
      BY <1>1
    <3> QED BY <1>1, <1>4, <1>9, <3>1
  <2> QED BY <1>1, <1>3, <1>9, <2>1 DEF Deltas
<1> QED BY <1>1, <1>5, <1>6, <1>7, <1>8, <1>9 DEF e, rest

\* The chat a message is for.
LEMMA WaiterFacts ==
  ASSUME AskInv, NEW e \in Event
  PROVE  /\ ~NothingToDo(e) =>
              LET i == Topmost(e.turn)
              IN /\ i \in DOMAIN screens /\ screens[i].busy /\ screens[i].seq = e.turn
                 /\ WaitsOK(screens[i], frames, task, asked)
                 /\ \A j \in DOMAIN screens : j # i => screens[j].seq # e.turn
         /\ NothingToDo(e) =>
              \A j \in DOMAIN screens : ~(screens[j].busy /\ screens[j].seq = e.turn)
<1> DEFINE W == Waiting(e.turn)
           i == Topmost(e.turn)
<1>1. ASSUME W # {}
      PROVE  i \in DOMAIN screens /\ screens[i].seq = e.turn
  <2>1. W \in SUBSET (1..Len(screens)) /\ Len(screens) \in Nat
    BY AskFacts DEF Waiting
  <2>2. \E x \in W : \A y \in W : y <= x
    <3> HIDE DEF W
    <3> QED BY <1>1, <2>1, HasGreatest
  <2>3. i \in W
    BY <2>2 DEF Topmost
  <2> QED BY <2>3 DEF Waiting
<1>2. ASSUME ~NothingToDo(e)
      PROVE  /\ i \in DOMAIN screens /\ screens[i].busy /\ screens[i].seq = e.turn
             /\ WaitsOK(screens[i], frames, task, asked)
             /\ \A j \in DOMAIN screens : j # i => screens[j].seq # e.turn
  <2>1. W # {} /\ screens[i].busy
    BY <1>2 DEF NothingToDo
  <2>2. i \in DOMAIN screens /\ screens[i].seq = e.turn
    BY <1>1, <2>1
  <2> HIDE DEF i
  <2> QED BY <2>1, <2>2, AskFacts DEF TurnsApart, ScreenOK
<1>3. ASSUME NothingToDo(e), NEW j \in DOMAIN screens, screens[j].busy, screens[j].seq = e.turn
      PROVE  FALSE
  <2>1. screens[j].chat
    BY <1>3, AskFacts DEF ScreenOK
  <2>2. j \in W
    BY <1>3, <2>1 DEF Waiting
  <2>3. i \in DOMAIN screens /\ screens[i].seq = e.turn /\ ~screens[i].busy
    BY <1>1, <1>3, <2>2 DEF NothingToDo
  <2> HIDE DEF i
  <2> QED BY <1>3, <2>3, AskFacts DEF TurnsApart
<1> QED BY <1>2, <1>3

\* A message for another chat, or for none, is no loss to one that waits.
LEMMA OthersWait ==
  ASSUME AskInv, frames # <<>>, NEW j \in DOMAIN screens,
         ~(screens[j].busy /\ screens[j].seq = Head(frames).turn)
  PROVE  ScreenOK(screens[j], Tail(frames), task, asking, asked)
<1>1. screens[j].busy => WaitsOK(screens[j], Tail(frames), task, asked)
  <2>1. ASSUME screens[j].busy PROVE WaitsOK(screens[j], Tail(frames), task, asked)
    <3>1. WaitsOK(screens[j], frames, task, asked)
      BY <2>1, AskFacts DEF ScreenOK
    <3>2. Deltas(Tail(frames), screens[j].seq) = Deltas(frames, screens[j].seq)
      BY <2>1, AskFacts, TailFacts
    <3>3. \A gs : (Deltas(gs, screens[j].seq) = Deltas(frames, screens[j].seq))
                  => WaitsOK(screens[j], gs, task, asked)
      BY <3>1, WaitsOn
    <3> QED BY <3>2, <3>3
  <2> QED BY <2>1
<1> QED BY <1>1, AskFacts DEF ScreenOK

\* A message that is taken from the channel and changes no request.
LEMMA TakenFromChannel ==
  ASSUME AskInv, frames # <<>>, frames' = Tail(frames),
         UNCHANGED <<asking, task, askTask, asked>>,
         screens' \in Seq(AskScreen), screens' # <<>>, TurnsApart(screens'),
         \A j \in DOMAIN screens' : ScreenOK(screens'[j], Tail(frames), task, asking, asked),
         \A j \in DOMAIN screens' :
           screens'[j].busy =>
             /\ j \in DOMAIN screens /\ screens[j].busy /\ screens[j].seq = screens'[j].seq
             /\ screens[j].seq # Head(frames).turn \/ Head(frames).is = "delta",
         \A j \in DOMAIN screens :
           (screens[j].busy /\ (screens[j].seq # Head(frames).turn \/ Head(frames).is = "delta")) =>
             j \in DOMAIN screens' /\ screens'[j].busy /\ screens'[j].seq = screens[j].seq
  PROVE  AskInv'
<1> DEFINE e == Head(frames)
<1>1. /\ e \in Event /\ Tail(frames) \in Seq(Event) /\ InOrder(Tail(frames), task)
      /\ \A k \in DOMAIN frames : frames[k] = e \/ \E j \in DOMAIN Tail(frames) : Tail(frames)[j] = frames[k]
      /\ e.is # "delta" => task[e.turn].at \in Ended
  BY AskFacts, TailFacts
<1> HIDE DEF e
<1>2. AskTypeOK'
  BY <1>1 DEF AskInv, AskTypeOK
<1>3. Streams' = Streams
  BY DEF Streams
<1>4. ASSUME Streams PROVE \E j \in DOMAIN screens' : screens'[j].busy /\ screens'[j].seq = askTask
  <2>1. PICK j \in DOMAIN screens : screens[j].busy /\ screens[j].seq = askTask
    BY <1>4, AskFacts DEF ChatsAndStreamsAgree
  <2>2. screens[j].seq # e.turn \/ e.is = "delta"
    BY <1>1, <1>4, <2>1 DEF Streams, Ended
  <2> QED BY <2>1, <2>2 DEF e
<1>5. ASSUME NEW j \in DOMAIN screens', screens'[j].busy, screens'[j].seq = asking
      PROVE  \/ askTask = asking /\ StillRuns(asking)
             \/ \E k \in DOMAIN Tail(frames) :
                  Tail(frames)[k].turn = asking /\ Tail(frames)[k].is # "delta"
  <2>1. /\ j \in DOMAIN screens /\ screens[j].busy /\ screens[j].seq = asking
        /\ asking # e.turn \/ e.is = "delta"
    BY <1>5 DEF e
  <2>2. \/ askTask = asking /\ StillRuns(asking)
        \/ \E k \in DOMAIN frames : frames[k].turn = asking /\ frames[k].is # "delta"
    BY <2>1, AskFacts DEF ChatsAndStreamsAgree
  <2>3. ASSUME NEW k \in DOMAIN frames, frames[k].turn = asking, frames[k].is # "delta"
        PROVE  \E l \in DOMAIN Tail(frames) :
                 Tail(frames)[l].turn = asking /\ Tail(frames)[l].is # "delta"
    <3>1. frames[k] # e
      BY <2>1, <2>3
    <3>2. PICK l \in DOMAIN Tail(frames) : Tail(frames)[l] = frames[k]
      BY <1>1, <3>1
    <3> QED BY <2>3, <3>2
  <2> QED BY <2>2, <2>3
<1>6. ChatsAndStreamsAgree'
  BY <1>3, <1>4, <1>5 DEF ChatsAndStreamsAgree, StillRuns
<1> QED BY <1>1, <1>2, <1>6, AskFacts DEF AskInv

LEMMA DroppedKeeps ==
  ASSUME AskInv, frames # <<>>, frames' = Tail(frames), Dropped(Head(frames))
  PROVE  AskInv' /\ Settled(screens, screens')
<1>1. Head(frames) \in Event
  BY AskFacts
<1>2. UNCHANGED <<screens, asking, task, askTask, asked>>
  BY DEF Dropped
<1>3. \A j \in DOMAIN screens : ~(screens[j].busy /\ screens[j].seq = Head(frames).turn)
  BY <1>1, WaiterFacts DEF Dropped
<1>4. \A j \in DOMAIN screens : ScreenOK(screens[j], Tail(frames), task, asking, asked)
  BY <1>3, OthersWait
<1> QED BY <1>2, <1>3, <1>4, AskFacts, SettledAnyway, TakenFromChannel

----------------------------------------------------------------------------
\* A chat whose last turn, which streams, is written to.
LEMMA LastIsWritten ==
  ASSUME NEW o \in AskScreen, o.turns # <<>>, LastTurn(o).state = "streaming",
         NEW b \in AskScreen, b.turns = o.turns,
         NEW u \in Turn, u.question = LastTurn(o).question
  PROVE  LET a == WithLast(b, u)
         IN /\ a \in AskScreen /\ a.chat = b.chat /\ a.busy = b.busy /\ a.seq = b.seq
            /\ a.turns # <<>> /\ LastTurn(a) = u
            /\ \A k \in DOMAIN a.turns :
                 /\ k \in DOMAIN o.turns
                 /\ a.turns[k].question = o.turns[k].question
                 /\ a.turns[k] = o.turns[k] \/ o.turns[k].state = "streaming"
                 /\ a.turns[k] = o.turns[k] \/ a.turns[k] = u
<1> DEFINE a == WithLast(b, u)
           n == Len(o.turns)
<1>1. n \in DOMAIN o.turns /\ LastTurn(o) = o.turns[n]
  BY LastTurnFacts
<1>2. /\ a \in AskScreen /\ a.chat = b.chat /\ a.busy = b.busy /\ a.seq = b.seq
      /\ a.turns # <<>> /\ DOMAIN a.turns = DOMAIN o.turns /\ LastTurn(a) = u
      /\ a.turns[n] = u
      /\ \A k \in DOMAIN o.turns : k # n => a.turns[k] = o.turns[k]
  BY WithLastFacts
<1> HIDE DEF a, n
<1> QED BY <1>1, <1>2 DEF a

LEMMA OnDeltaKeeps ==
  ASSUME AskInv, frames # <<>>, frames' = Tail(frames), OnDelta(Head(frames))
  PROVE  AskInv' /\ Settled(screens, screens')
<1> USE AskAssumption
<1> DEFINE e == Head(frames)
           i == Topmost(e.turn)
           g == e.turn
           t == LastTurn(screens[i])
           u == [t EXCEPT !.answer = Append(@, [turn |-> e.turn, n |-> e.n])]
           a == WithLast(screens[i], u)
<1>1. /\ e \in Event /\ e.is = "delta" /\ ~NothingToDo(e) /\ g \in Gens
      /\ screens' = [screens EXCEPT ![i] = a] /\ UNCHANGED <<asking, task, askTask, asked>>
  <2>1. e \in Event
    BY AskFacts
  <2>2. e.turn \in Gens
    BY <2>1 DEF Event
  <2> QED BY <2>1, <2>2 DEF OnDelta, Puts
<1>2. /\ i \in DOMAIN screens /\ screens[i].busy /\ screens[i].seq = g
      /\ WaitsOK(screens[i], frames, task, asked)
      /\ \A j \in DOMAIN screens : j # i => screens[j].seq # g
  BY <1>1, WaiterFacts
<1>3. /\ Deltas(Tail(frames), g) = Deltas(frames, g) \ {e.n}
      /\ e.n \in 1..task[g].sent /\ \A m \in Deltas(frames, g) : e.n <= m
  BY <1>1, AskFacts, TailFacts
<1> HIDE DEF e, i
<1>4. /\ screens[i] \in AskScreen /\ screens[i].turns # <<>> /\ t \in Turn
      /\ t.state = "streaming" /\ t.question = asked[g] /\ t.question # NoRequest
      /\ Unrepeated(t, asked)
  <2>1. screens[i] \in AskScreen /\ screens[i].turns # <<>>
    BY <1>2, AskFacts DEF WaitsOK
  <2> QED BY <1>2, <2>1, LastTurnFacts DEF WaitsOK, Receives
<1>5. PICK n \in 0..task[g].sent :
        t.answer = FramesOf(g, n) /\ Deltas(frames, g) = (n + 1)..task[g].sent
  BY <1>2 DEF WaitsOK, Receives
<1>6. task[g].sent \in Nat /\ task[g].sent <= MaxFrame /\ MaxFrame \in Nat
  BY <1>1, AskFacts
<1>7. e.n \in Deltas(frames, g)
  <2>1. frames[1] = e /\ 1 \in DOMAIN frames
    BY AskFacts DEF e
  <2>2. e.n \in 1..MaxFrame
    BY <1>3, <1>6
  <2> QED BY <1>1, <2>1, <2>2 DEF Deltas
<1>8. e.n = n + 1
  <2>1. n + 1 \in Deltas(frames, g) /\ e.n \in (n + 1)..task[g].sent
    BY <1>5, <1>6, <1>7
  <2>2. e.n <= n + 1
    BY <1>3, <2>1
  <2> QED BY <1>5, <1>6, <2>1, <2>2
<1>9. n + 1 \in 0..task[g].sent /\ Deltas(Tail(frames), g) = ((n + 1) + 1)..task[g].sent
      /\ n \in Nat /\ n + 1 \in 1..MaxFrame
  <2> HIDE DEF g, t, u, a
  <2>1. n \in Nat /\ n + 1 \in 1..task[g].sent
    BY <1>3, <1>5, <1>8
  <2>2. Deltas(Tail(frames), g) = ((n + 1)..task[g].sent) \ {n + 1}
    BY <1>3, <1>5, <1>8
  <2>3. \A m, k \in Nat : ((k + 1)..m) \ {k + 1} = ((k + 1) + 1)..m
    OBVIOUS
  <2>4. Deltas(Tail(frames), g) = ((n + 1) + 1)..task[g].sent
    BY <1>6, <2>1, <2>2, <2>3
  <2> QED BY <1>6, <2>1, <2>4
<1>10. /\ u \in Turn /\ u.question = t.question /\ u.state = "streaming"
       /\ u.resent = t.resent /\ u.answer = FramesOf(g, n + 1)
  <2>1. Append(t.answer, [turn |-> e.turn, n |-> e.n]) = FramesOf(g, n + 1)
    BY <1>5, <1>8, <1>9, FramesGrow
  <2>2. Append(t.answer, [turn |-> e.turn, n |-> e.n]) \in Seq(Frame)
    <3>1. [turn |-> e.turn, n |-> e.n] \in Frame
      BY <1>1, <1>8, <1>9 DEF Frame
    <3>2. t.answer \in Seq(Frame)
      BY <1>4 DEF Turn
    <3> QED BY <3>1, <3>2
  <2>3. u = [t EXCEPT !.answer = FramesOf(g, n + 1)]
    BY <2>1, <1>4
  <2>4. FramesOf(g, n + 1) \in Seq(Frame)
    BY <2>1, <2>2
  <2> HIDE DEF u
  <2> QED BY <1>4, <2>3, <2>4 DEF Turn
<1> HIDE DEF t, u
<1>11. /\ screens' \in Seq(AskScreen) /\ screens' # <<>>
       /\ DOMAIN screens' = DOMAIN screens /\ screens'[i] = a
       /\ \A j \in DOMAIN screens : j # i => screens'[j] = screens[j]
       /\ TurnsApart(screens') /\ Settled(screens, screens')
       /\ a \in AskScreen /\ a.chat = screens[i].chat /\ a.busy /\ a.seq = g
       /\ a.turns # <<>> /\ LastTurn(a) = u
       /\ \A k \in DOMAIN a.turns :
            /\ k \in DOMAIN screens[i].turns
            /\ a.turns[k] = screens[i].turns[k] \/ a.turns[k] = u
  <2>1. u.question = LastTurn(screens[i]).question
    BY <1>10 DEF t
  <2>2. \A j \in DOMAIN screens : j # i => screens[i].seq # screens[j].seq
    BY <1>2
  <2>3. screens[i].turns = screens[i].turns
    OBVIOUS
  <2>4. /\ a \in AskScreen /\ a.chat = screens[i].chat /\ a.busy = screens[i].busy
        /\ a.seq = screens[i].seq /\ a.turns # <<>> /\ LastTurn(a) = u
        /\ \A k \in DOMAIN a.turns :
             /\ k \in DOMAIN screens[i].turns
             /\ a.turns[k].question = screens[i].turns[k].question
             /\ a.turns[k] = screens[i].turns[k] \/ screens[i].turns[k].state = "streaming"
             /\ a.turns[k] = screens[i].turns[k] \/ a.turns[k] = u
    BY <1>4, <1>10, <2>1, <2>3, LastIsWritten DEF t
  <2> HIDE DEF g, a
  <2>5. /\ i \in DOMAIN screens /\ a \in AskScreen /\ screens' = [screens EXCEPT ![i] = a]
        /\ \A j \in DOMAIN screens :
             (j # i /\ (a.busy \/ screens[j].busy)) => a.seq # screens[j].seq
    BY <1>1, <1>2, <2>2, <2>4
  <2>6. \A k \in DOMAIN a.turns :
           \/ /\ k \in DOMAIN screens[i].turns
              /\ a.turns[k].question = screens[i].turns[k].question
              /\ a.turns[k] = screens[i].turns[k] \/ screens[i].turns[k].state = "streaming"
           \/ k = Len(a.turns) /\ a.turns[k].question > asking
    BY <2>4
  <2>7. /\ screens' \in Seq(AskScreen) /\ screens' # <<>>
        /\ DOMAIN screens' = DOMAIN screens /\ screens'[i] = a
        /\ \A j \in DOMAIN screens : j # i => screens'[j] = screens[j]
        /\ TurnsApart(screens') /\ Settled(screens, screens')
    BY <2>5, <2>6, OneChatChanges
  <2> QED BY <1>2, <2>4, <2>7
<1> HIDE DEF a, g
<1>12. ScreenOK(screens[i], frames, task, asking, asked) /\ asking \in Nat
  BY <1>2, AskFacts
<1>13. Unrepeated(u, asked)
  BY <1>4, <1>10 DEF Unrepeated
<1>14. Receives(u, g, Tail(frames), task, asked)
  BY <1>4, <1>9, <1>10, <1>13 DEF Receives
<1>15. TurnOK(u, task, asked) /\ u.question <= asking
  <2>1. TurnOK(u, task, asked)
    BY <1>1, <1>4, <1>9, <1>10 DEF TurnOK, g
  <2>2. t.question <= asking
    BY <1>4, <1>12, LastTurnFacts DEF ScreenOK, t
  <2> QED BY <1>10, <2>1, <2>2
<1>16. ScreenOK(a, Tail(frames), task, asking, asked)
  <2>1. WaitsOK(a, Tail(frames), task, asked)
    BY <1>1, <1>11, <1>14 DEF WaitsOK, g
  <2>2. \A k \in DOMAIN a.turns : a.turns[k].question <= asking /\ TurnOK(a.turns[k], task, asked)
    BY <1>11, <1>12, <1>15 DEF ScreenOK
  <2>3. screens[i].chat
    BY <1>2, <1>12 DEF ScreenOK
  <2> QED BY <1>2, <1>11, <1>12, <2>1, <2>2, <2>3 DEF ScreenOK
<1>17. \A j \in DOMAIN screens' : ScreenOK(screens'[j], Tail(frames), task, asking, asked)
  <2>1. ASSUME NEW j \in DOMAIN screens, j # i
        PROVE  ScreenOK(screens[j], Tail(frames), task, asking, asked)
    BY <1>2, <2>1, OthersWait DEF g, e
  <2> QED BY <1>11, <1>16, <2>1
<1>18. \A j \in DOMAIN screens : (screens'[j].busy <=> screens[j].busy) /\ screens'[j].seq = screens[j].seq
  BY <1>2, <1>11
<1> QED BY <1>1, <1>11, <1>17, <1>18, TakenFromChannel DEF e

\* What ends a turn finds all there is of its answer in it.
LEMMA EndsKeeps ==
  ASSUME AskInv, frames # <<>>, frames' = Tail(frames), ~NothingToDo(Head(frames)),
         Head(frames).is # "delta", NEW state \in {"done", "failed"}, Ends(Head(frames), state),
         UNCHANGED <<asking, task, askTask, asked>>
  PROVE  AskInv' /\ Settled(screens, screens')
<1> USE AskAssumption
<1> DEFINE e == Head(frames)
           i == Topmost(e.turn)
           g == e.turn
           b == [screens[i] EXCEPT !.busy = FALSE]
           t == LastTurn(b)
           u == [t EXCEPT !.state = state]
           a == WithLast(b, u)
<1>1. /\ e \in Event /\ e.is # "delta" /\ ~NothingToDo(e) /\ g \in Gens
      /\ screens' = [screens EXCEPT ![i] = a] /\ UNCHANGED <<asking, task, askTask, asked>>
  <2>1. e \in Event
    BY AskFacts
  <2>2. e.turn \in Gens
    BY <2>1 DEF Event
  <2> QED BY <2>1, <2>2 DEF Ends, Puts
<1>2. /\ i \in DOMAIN screens /\ screens[i].busy /\ screens[i].seq = g
      /\ WaitsOK(screens[i], frames, task, asked)
      /\ \A j \in DOMAIN screens : j # i => screens[j].seq # g
  BY <1>1, WaiterFacts
<1>3. Deltas(frames, g) = {} /\ task[g].at \in Ended
  BY <1>1, AskFacts, TailFacts
<1> HIDE DEF e, i
<1>4. screens[i] \in AskScreen /\ screens[i].turns # <<>>
  BY <1>2, AskFacts DEF WaitsOK
<1>5. /\ b \in AskScreen /\ ~b.busy /\ b.seq = g /\ b.turns = screens[i].turns
      /\ b.chat = screens[i].chat
  BY <1>2, <1>4 DEF AskScreen
<1> HIDE DEF b
<1>6. t = LastTurn(screens[i])
  BY <1>5 DEF LastTurn
<1>7. /\ t \in Turn /\ t.state = "streaming" /\ t.question = asked[g] /\ t.question # NoRequest
  BY <1>2, <1>4, <1>6, LastTurnFacts DEF WaitsOK, Receives
<1>8. t.answer = FramesOf(g, task[g].sent) /\ task[g].sent \in 0..task[g].sent
  <2>1. PICK n \in 0..task[g].sent :
          t.answer = FramesOf(g, n) /\ Deltas(frames, g) = (n + 1)..task[g].sent
    BY <1>2, <1>6 DEF WaitsOK, Receives
  <2>2. task[g].sent \in Nat
    BY <1>1, AskFacts
  <2>3. n = task[g].sent
    <3>1. (n + 1)..task[g].sent = {}
      BY <1>3, <2>1
    <3> HIDE DEF g
    <3> QED BY <2>2, <3>1
  <2> QED BY <2>1, <2>2, <2>3
<1> HIDE DEF t
<1>9. u \in Turn /\ u.question = t.question /\ u.answer = t.answer /\ u.state = state
  BY <1>7 DEF Turn
<1> HIDE DEF u
<1>10. /\ a \in AskScreen /\ a.chat = screens[i].chat /\ ~a.busy
       /\ a.seq = g /\ a.turns # <<>> /\ LastTurn(a) = u
       /\ \A k \in DOMAIN a.turns :
            /\ k \in DOMAIN screens[i].turns
            /\ a.turns[k].question = screens[i].turns[k].question
            /\ a.turns[k] = screens[i].turns[k] \/ screens[i].turns[k].state = "streaming"
            /\ a.turns[k] = screens[i].turns[k] \/ a.turns[k] = u
  BY <1>4, <1>5, <1>6, <1>7, <1>9, LastIsWritten
<1> HIDE DEF a, g
<1>11. /\ screens' \in Seq(AskScreen) /\ screens' # <<>>
       /\ DOMAIN screens' = DOMAIN screens /\ screens'[i] = a
       /\ \A j \in DOMAIN screens : j # i => screens'[j] = screens[j]
       /\ TurnsApart(screens') /\ Settled(screens, screens')
  <2>1. /\ i \in DOMAIN screens /\ a \in AskScreen /\ screens' = [screens EXCEPT ![i] = a]
        /\ \A j \in DOMAIN screens :
             (j # i /\ (a.busy \/ screens[j].busy)) => a.seq # screens[j].seq
    BY <1>1, <1>2, <1>10
  <2>2. \A k \in DOMAIN a.turns :
           \/ /\ k \in DOMAIN screens[i].turns
              /\ a.turns[k].question = screens[i].turns[k].question
              /\ a.turns[k] = screens[i].turns[k] \/ screens[i].turns[k].state = "streaming"
           \/ k = Len(a.turns) /\ a.turns[k].question > asking
    BY <1>10
  <2> QED BY <2>1, <2>2, OneChatChanges
<1>12. ScreenOK(screens[i], frames, task, asking, asked) /\ asking \in Nat
  BY <1>2, AskFacts
<1>13. TurnOK(u, task, asked) /\ u.question <= asking
  <2>1. TurnOK(u, task, asked)
    BY <1>1, <1>3, <1>7, <1>8, <1>9 DEF TurnOK, g
  <2>2. t.question <= asking
    BY <1>4, <1>6, <1>12, LastTurnFacts DEF ScreenOK
  <2> QED BY <1>9, <2>1, <2>2
<1>14. ScreenOK(a, Tail(frames), task, asking, asked)
  <2>1. \A k \in DOMAIN a.turns : a.turns[k].question <= asking /\ TurnOK(a.turns[k], task, asked)
    BY <1>10, <1>12, <1>13 DEF ScreenOK
  <2> QED BY <1>2, <1>10, <1>12, <2>1 DEF ScreenOK
<1>15. \A j \in DOMAIN screens' : ScreenOK(screens'[j], Tail(frames), task, asking, asked)
  <2>1. ASSUME NEW j \in DOMAIN screens, j # i
        PROVE  ScreenOK(screens[j], Tail(frames), task, asking, asked)
    BY <1>2, <2>1, OthersWait DEF g, e
  <2> QED BY <1>11, <1>14, <2>1
<1>16. \A j \in DOMAIN screens : j # i => screens[j].seq # Head(frames).turn
  BY <1>2 DEF g, e
<1>17. \A j \in DOMAIN screens' :
         screens'[j].busy =>
           /\ j \in DOMAIN screens /\ screens[j].busy /\ screens[j].seq = screens'[j].seq
           /\ screens[j].seq # Head(frames).turn \/ Head(frames).is = "delta"
  BY <1>10, <1>11, <1>16
<1>18. \A j \in DOMAIN screens :
         (screens[j].busy /\ (screens[j].seq # Head(frames).turn \/ Head(frames).is = "delta")) =>
           j \in DOMAIN screens' /\ screens'[j].busy /\ screens'[j].seq = screens[j].seq
  BY <1>1, <1>2, <1>11, <1>16 DEF g, e
<1> QED BY <1>11, <1>15, <1>17, <1>18, TakenFromChannel

LEMMA OnVerdictKeeps ==
  ASSUME AskInv, frames # <<>>, frames' = Tail(frames), OnVerdict(Head(frames))
  PROVE  AskInv' /\ Settled(screens, screens')
<1> DEFINE state == IF Head(frames).is = "completed" THEN "done" ELSE "failed"
<1>1. state \in {"done", "failed"} /\ Head(frames).is # "delta"
  BY DEF OnVerdict
<1>2. Ends(Head(frames), state) /\ ~NothingToDo(Head(frames))
      /\ UNCHANGED <<asking, task, askTask, asked>>
  BY DEF OnVerdict
<1> HIDE DEF state
<1> QED BY <1>1, <1>2, EndsKeeps

LEMMA OnDoneKeeps ==
  ASSUME AskInv, frames # <<>>, frames' = Tail(frames), OnDone(Head(frames))
  PROVE  AskInv' /\ Settled(screens, screens')
<1>1. \E state \in {"done", "failed"} : Ends(Head(frames), state)
  BY DEF OnDone
<1>2. Head(frames).is # "delta" /\ ~NothingToDo(Head(frames))
      /\ UNCHANGED <<asking, task, askTask, asked>>
  BY DEF OnDone
<1> QED BY <1>1, <1>2, EndsKeeps

LEMMA OnHistoryRequiredKeeps ==
  ASSUME AskInv, frames # <<>>, frames' = Tail(frames), OnHistoryRequired(Head(frames))
  PROVE  AskInv' /\ Settled(screens, screens')
<1> USE AskAssumption
<1> DEFINE e == Head(frames)
           i == Topmost(e.turn)
           g == asking + 1
           b == [screens[i] EXCEPT !.seq = g]
           t == LastTurn(screens[i])
           u == [t EXCEPT !.resent = TRUE]
           a == WithLast(b, u)
           w == [at |-> "sent", sent |-> 0]
           q == t.question
<1>1. /\ e \in Event /\ e.is # "delta" /\ ~NothingToDo(e) /\ e.turn \in Gens
      /\ ~t.resent /\ t.answer = <<>>
      /\ asking < MaxGen /\ asking' = g /\ screens' = [screens EXCEPT ![i] = a]
      /\ task' = [task EXCEPT ![g] = w] /\ askTask' = g /\ asked' = [asked EXCEPT ![g] = q]
  <2>1. e \in Event
    BY AskFacts
  <2>2. e.turn \in Gens
    BY <2>1 DEF Event
  <2> QED BY <2>1, <2>2 DEF OnHistoryRequired, WantsHistory, Puts, SpawnAsk
<1>2. /\ i \in DOMAIN screens /\ screens[i].busy /\ screens[i].seq = e.turn
      /\ WaitsOK(screens[i], frames, task, asked)
      /\ \A j \in DOMAIN screens : j # i => screens[j].seq # e.turn
  BY <1>1, WaiterFacts
<1> HIDE DEF e, i
<1>3. /\ screens[i] \in AskScreen /\ screens[i].turns # <<>> /\ screens[i].chat
      /\ asking \in Nat /\ g \in Gens /\ g \in Nat /\ g \in 0..MaxGen /\ asking < g /\ g # 0
      /\ MaxGen \in Nat
  <2>1. /\ screens[i] \in AskScreen /\ asking \in Nat /\ MaxGen \in Nat
        /\ ScreenOK(screens[i], frames, task, asking, asked)
    BY <1>2, AskFacts
  <2>2. screens[i].turns # <<>> /\ screens[i].seq \in Gens
    BY <1>2 DEF WaitsOK
  <2>3. screens[i].chat
    BY <1>2, <2>1 DEF ScreenOK, AskScreen
  <2>4. g \in Gens /\ g \in Nat /\ g \in 0..MaxGen /\ asking < g /\ g # 0
    BY <1>1, <2>1 DEF Gens
  <2> HIDE DEF g
  <2> QED BY <2>1, <2>2, <2>3, <2>4
<1>4. /\ b \in AskScreen /\ b.busy /\ b.seq = g /\ b.turns = screens[i].turns
      /\ b.chat
  BY <1>2, <1>3 DEF AskScreen
<1>5. w \in Task /\ w.at = "sent" /\ w.sent = 0
  BY DEF Task
<1> HIDE DEF b, g, w
<1>6. /\ t \in Turn /\ t.state = "streaming" /\ q = asked[e.turn] /\ q # NoRequest
      /\ q \in Gens /\ q <= asking /\ q # g
      /\ \A h \in Gens : asked[h] = q => h = q
  <2>1. t \in Turn /\ t.state = "streaming" /\ q = asked[e.turn] /\ q # NoRequest /\ Unrepeated(t, asked)
    BY <1>2, <1>3, LastTurnFacts DEF WaitsOK, Receives
  <2>2. q \in Gens
    BY <2>1 DEF Turn
  <2>3. q <= asking
    BY <1>2, <1>3, LastTurnFacts, AskFacts DEF ScreenOK
  <2>4. q # g
    BY <1>3, <2>2, <2>3 DEF Gens
  <2> QED BY <1>1, <2>1, <2>2, <2>3, <2>4 DEF Unrepeated
<1>7. /\ u \in Turn /\ u.question = q /\ u.answer = <<>> /\ u.state = "streaming" /\ u.resent
  BY <1>1, <1>6 DEF Turn
<1>8. t = LastTurn(screens[i])
  OBVIOUS
<1>9. q = t.question
  OBVIOUS
<1> HIDE DEF t, u, q
<1>10. /\ a \in AskScreen /\ a.chat /\ a.busy
       /\ a.seq = g /\ a.turns # <<>> /\ LastTurn(a) = u
       /\ \A k \in DOMAIN a.turns :
            /\ k \in DOMAIN screens[i].turns
            /\ a.turns[k].question = screens[i].turns[k].question
            /\ a.turns[k] = screens[i].turns[k] \/ screens[i].turns[k].state = "streaming"
            /\ a.turns[k] = screens[i].turns[k] \/ a.turns[k] = u
  BY <1>3, <1>4, <1>6, <1>7, <1>8, <1>9, LastIsWritten
<1> HIDE DEF a
<1>11. \A j \in DOMAIN screens : a.seq # screens[j].seq
  BY <1>3, <1>10, AskFacts DEF ScreenOK
<1>12. /\ screens' \in Seq(AskScreen) /\ screens' # <<>>
       /\ DOMAIN screens' = DOMAIN screens /\ screens'[i] = a
       /\ \A j \in DOMAIN screens : j # i => screens'[j] = screens[j]
       /\ TurnsApart(screens') /\ Settled(screens, screens')
  <2>1. i \in DOMAIN screens /\ a \in AskScreen /\ screens' = [screens EXCEPT ![i] = a]
    BY <1>1, <1>2, <1>10
  <2>2. \A k \in DOMAIN a.turns :
           \/ /\ k \in DOMAIN screens[i].turns
              /\ a.turns[k].question = screens[i].turns[k].question
              /\ a.turns[k] = screens[i].turns[k] \/ screens[i].turns[k].state = "streaming"
           \/ k = Len(a.turns) /\ a.turns[k].question > asking
    BY <1>10
  <2> QED BY <1>11, <2>1, <2>2, OneChatChanges
<1>13. /\ task' \in [Gens -> Task] /\ task'[g] = w /\ asked' \in [Gens -> 0..MaxGen] /\ asked'[g] = q
       /\ \A h \in Gens : h # g => task'[h] = task[h] /\ asked'[h] = asked[h]
       /\ asked[g] = NoRequest /\ task[g].at = "none" /\ task[g].sent = 0
  <2>1. asked[g] = NoRequest /\ task[g].at = "none" /\ task[g].sent = 0
    BY <1>3, AskFacts DEF Unused
  <2>2. q \in 0..MaxGen
    BY <1>6 DEF Gens
  <2> QED BY <1>1, <1>3, <1>5, <2>1, <2>2, AskFacts
<1>14. GoesOn(task, task', asked, asked')
  <2>1. ASSUME NEW h \in Gens
        PROVE  /\ task[h].sent <= task'[h].sent
               /\ task[h].at \in Ended => task'[h].at \in Ended /\ task'[h].sent = task[h].sent
               /\ asked[h] # NoRequest => asked'[h] = asked[h]
    <3>1. task[h].sent \in Nat
      BY AskFacts
    <3>2. CASE h = g
      BY <1>5, <1>13, <3>1, <3>2 DEF Ended
    <3>3. CASE h # g
      BY <1>13, <3>1, <3>3
    <3> QED BY <3>2, <3>3
  <2> QED BY <2>1 DEF GoesOn
<1>15. AskTypeOK' 
  <2>1. askTask' \in 0..asking' /\ asking' \in 0..MaxGen
    BY <1>1, <1>3
  <2>2. frames' \in Seq(Event)
    BY AskFacts, TailFacts
  <2> QED BY <1>1, <1>12, <1>13, <2>1, <2>2 DEF AskTypeOK
<1>16. Unused(asking', task', asked')
  <2>1. ASSUME NEW h \in Gens, h > g
        PROVE  asked'[h] = NoRequest /\ task'[h].at = "none" /\ task'[h].sent = 0
    <3>1. h > asking /\ h # g
      BY <1>3, <2>1 DEF Gens
    <3> QED BY <1>13, <3>1, AskFacts DEF Unused
  <2> QED BY <1>1, <2>1 DEF Unused
<1>17. Asked(asked')
  <2>1. \A h \in Gens : asked[h] # NoRequest =>
           asked[h] <= h /\ asked[asked[h]] = asked[h] /\ asked[h] \in Gens
    <3>1. TAKE h \in Gens
    <3>2. asked[h] \in 0..MaxGen
      BY AskFacts
    <3> QED BY <3>2, AskFacts DEF Asked, NoRequest, Gens
  <2>2. asked[q] = q /\ q <= g
    BY <1>1, <1>3, <1>6, <2>1 DEF Gens
  <2>3. \A h \in Gens : asked[h] # NoRequest => asked[h] # g
    BY <1>13, <2>1
  <2>4. \A h \in Gens : asked'[h] # NoRequest => asked'[h] <= h /\ asked'[asked'[h]] = asked'[h]
    BY <1>6, <1>13, <2>1, <2>2, <2>3
  <2>5. \A h, k \in Gens : (asked[h] = asked[k] /\ asked[h] # NoRequest /\ h # asked[h] /\ k # asked[k])
                           => h = k
    BY AskFacts DEF Asked
  <2>6. \A h, k \in Gens : (asked'[h] = asked'[k] /\ asked'[h] # NoRequest /\ h # asked'[h] /\ k # asked'[k])
                           => h = k
    BY <1>6, <1>13, <2>5
  <2> QED BY <2>4, <2>6 DEF Asked
<1>18. \A k \in DOMAIN Tail(frames) :
         Tail(frames)[k].turn \in Gens /\ Tail(frames)[k].turn # g
  <2>1. TAKE k \in DOMAIN Tail(frames)
  <2>2. Tail(frames) \in Seq(Event) /\ InOrder(Tail(frames), task)
    BY AskFacts, TailFacts
  <2>3. Tail(frames)[k].turn \in Gens
    BY <2>2, EventFields
  <2>4. ASSUME Tail(frames)[k].turn = g PROVE FALSE
    <3>1. IF Tail(frames)[k].is = "delta" THEN Tail(frames)[k].n \in 1..task[g].sent
          ELSE task[g].at \in Ended
      BY <2>2, <2>4 DEF InOrder
    <3> QED BY <1>13, <3>1 DEF Ended
  <2> QED BY <2>3, <2>4
<1>19. InOrder(frames', task')
  <2>1. \A k \in DOMAIN Tail(frames) : task'[Tail(frames)[k].turn] = task[Tail(frames)[k].turn]
    BY <1>13, <1>18
  <2>2. InOrder(Tail(frames), task)
    BY AskFacts, TailFacts
  <2> QED BY <2>1, <2>2 DEF InOrder
<1>20. ASSUME NEW j \in DOMAIN screens, j # i
       PROVE  ScreenOK(screens[j], frames', task', g, asked')
  <2>1. /\ screens[j] \in AskScreen /\ asking <= g /\ task \in [Gens -> Task]
    BY <1>3, AskFacts
  <2>2. ScreenOK(screens[j], Tail(frames), task, asking, asked)
    BY <1>2, <1>20, OthersWait DEF e
  <2>3. ASSUME screens[j].busy PROVE WaitsOK(screens[j], Tail(frames), task', asked')
    <3>1. WaitsOK(screens[j], Tail(frames), task, asked) /\ screens[j].seq \in Gens /\ screens[j].seq # g
      BY <1>10, <1>11, <2>2, <2>3 DEF ScreenOK, WaitsOK
    <3>2. LastTurn(screens[j]).question # q
      <4>1. screens[j].turns # <<>>
        BY <3>1 DEF WaitsOK
      <4>2. /\ Len(screens[j].turns) \in DOMAIN screens[j].turns
            /\ LastTurn(screens[j]) = screens[j].turns[Len(screens[j].turns)]
            /\ Len(screens[i].turns) \in DOMAIN screens[i].turns
            /\ LastTurn(screens[i]) = screens[i].turns[Len(screens[i].turns)]
        BY <1>3, <2>1, <4>1, LastTurnFacts
      <4> QED BY <1>2, <1>8, <1>9, <1>20, <4>2, AskFacts DEF TurnsApart
    <3>3. task'[screens[j].seq].sent = task[screens[j].seq].sent
          /\ asked'[screens[j].seq] = asked[screens[j].seq]
          /\ \A h \in Gens : asked'[h] = asked[h] \/ asked'[h] # LastTurn(screens[j]).question
      BY <1>13, <3>1, <3>2
    <3> QED BY <3>1, <3>3, WaitsStays
  <2>4. frames' = Tail(frames)
    OBVIOUS
  <2> QED BY <1>3, <1>13, <1>14, <2>1, <2>2, <2>3, <2>4, ScreenStays
<1>21. ScreenOK(a, frames', task', g, asked')
  <2>1. ASSUME NEW k \in DOMAIN a.turns
        PROVE  a.turns[k].question <= g /\ TurnOK(a.turns[k], task', asked')
    <3>1. CASE a.turns[k] = screens[i].turns[k]
      <4>1. k \in DOMAIN screens[i].turns /\ screens[i].turns[k] \in Turn
            /\ screens[i].turns[k].question <= asking /\ TurnOK(screens[i].turns[k], task, asked)
            /\ screens[i].turns[k].question \in Nat
        BY <1>2, <1>10, AskFacts DEF ScreenOK
      <4>2. task \in [Gens -> Task]
        BY AskFacts
      <4> QED BY <1>3, <1>13, <1>14, <3>1, <4>1, <4>2, TurnStaysOK
    <3>2. CASE a.turns[k] = u
      <4>1. 0 \in 0..task'[g].sent
        BY <1>5, <1>13
      <4>2. TurnOK(u, task', asked')
        BY <1>3, <1>7, <1>13, <4>1, NoFramesYet DEF TurnOK
      <4>3. u.question <= g
        BY <1>3, <1>6, <1>7 DEF Gens
      <4> QED BY <3>2, <4>2, <4>3
    <3> QED BY <1>10, <3>1, <3>2
  <2>2. Deltas(frames', g) = {}
    BY <1>18 DEF Deltas
  <2>3. Receives(u, g, frames', task', asked')
    <3>1. 0 \in 0..task'[g].sent /\ Deltas(frames', g) = (0 + 1)..task'[g].sent
      <4>1. task'[g].sent = 0
        BY <1>5, <1>13
      <4>2. (0 + 1)..0 = {} /\ 0 \in 0..0
        OBVIOUS
      <4> QED BY <2>2, <4>1, <4>2
    <3>2. Unrepeated(u, asked')
      BY <1>7 DEF Unrepeated
    <3> QED BY <1>6, <1>7, <1>13, <3>1, <3>2, NoFramesYet DEF Receives
  <2>4. WaitsOK(a, frames', task', asked')
    BY <1>3, <1>10, <2>3 DEF WaitsOK
  <2> QED BY <1>3, <1>10, <2>1, <2>4 DEF ScreenOK
<1>22. ChatsAndStreamsAgree'
  <2>1. i \in DOMAIN screens' /\ screens'[i].busy /\ screens'[i].seq = askTask' /\ askTask' = asking'
    BY <1>1, <1>2, <1>10, <1>12
  <2>2. StillRuns(asking)'
    BY <1>1, <1>5, <1>13 DEF StillRuns
  <2> QED BY <2>1, <2>2 DEF ChatsAndStreamsAgree
<1>23. \A j \in DOMAIN screens' : ScreenOK(screens'[j], frames', task', asking', asked')
  BY <1>1, <1>12, <1>20, <1>21
<1> QED BY <1>12, <1>15, <1>16, <1>17, <1>19, <1>22, <1>23 DEF AskInv
----------------------------------------------------------------------------
LEMMA HandleKeeps ==
  ASSUME AskInv, Handle
  PROVE  AskInv' /\ Settled(screens, screens')
<1>1. frames # <<>> /\ frames' = Tail(frames)
  BY DEF Handle
<1>2. CASE Dropped(Head(frames))
  BY <1>1, <1>2, DroppedKeeps
<1>3. CASE OnDelta(Head(frames))
  BY <1>1, <1>3, OnDeltaKeeps
<1>4. CASE OnVerdict(Head(frames))
  BY <1>1, <1>4, OnVerdictKeeps
<1>5. CASE OnDone(Head(frames))
  BY <1>1, <1>5, OnDoneKeeps
<1>6. CASE OnHistoryRequired(Head(frames))
  BY <1>1, <1>6, OnHistoryRequiredKeeps
<1> QED BY <1>2, <1>3, <1>4, <1>5, <1>6 DEF Handle

LEMMA AskInitially == AskInit => AskInv
<1> SUFFICES ASSUME AskInit PROVE AskInv
  OBVIOUS
<1> USE AskAssumption
<1>1. /\ screens \in Seq(AskScreen) /\ screens # <<>> /\ DOMAIN screens = {1}
      /\ screens[1] = Elsewhere /\ frames = <<>> /\ DOMAIN frames = {} /\ frames \in Seq(Event)
  BY ChatNewScreens DEF AskInit
<1>2. AskTypeOK
  BY <1>1 DEF AskInit, AskTypeOK, Task, NoRequest
<1>3. Unused(asking, task, asked) /\ Asked(asked) /\ InOrder(frames, task)
  BY <1>1 DEF AskInit, Unused, Asked, InOrder
<1>4. TurnsApart(screens)
  BY <1>1, ChatNewScreens DEF TurnsApart
<1>5. ScreenOK(Elsewhere, frames, task, asking, asked)
  <2>1. asking \in Nat
    BY DEF AskInit
  <2> QED BY <2>1, NewScreenOK
<1>6. ChatsAndStreamsAgree
  BY <1>1, ChatNewScreens DEF ChatsAndStreamsAgree, Streams, AskInit
<1> QED BY <1>1, <1>2, <1>3, <1>4, <1>5, <1>6 DEF AskInv

LEMMA AskNextStep ==
  ASSUME AskInv, [AskNext]_askVars
  PROVE  AskInv' /\ Settled(screens, screens')
<1>1. CASE \E screen \in {Fresh, Elsewhere} : Open(screen)
  BY <1>1, OpenKeeps
<1>2. CASE PopScreen
  BY <1>2, PopScreenKeeps
<1>3. CASE Ask
  BY <1>3, AskKeeps
<1>4. CASE Cancel
  BY <1>4, CancelKeeps
<1>5. CASE NewChat
  BY <1>5, NewChatKeeps
<1>6. CASE Handle
  BY <1>6, HandleKeeps
<1>7. CASE RecheckSession
  BY <1>7, RecheckSessionKeeps
<1>8. CASE EndSession
  BY <1>8, EndSessionKeeps
<1>9. ASSUME NEW g \in Gens,
             \/ Delta(g) \/ Finish(g) \/ Vanish(g)
             \/ \E is \in {"completed", "failed"} : Verdict(g, is)
             \/ \E is \in {"history", "error"} : Errs(g, is)
      PROVE  AskInv' /\ Settled(screens, screens')
  BY <1>9, DeltaKeeps, FinishKeeps, VanishKeeps, VerdictKeeps, ErrsKeeps
<1>10. CASE UNCHANGED askVars
  <2>1. UNCHANGED <<screens, asking, task, askTask, frames, asked>>
    BY <1>10 DEF askVars
  <2>2. AskInv'
    BY <2>1 DEF AskInv, AskTypeOK, ChatsAndStreamsAgree, Streams, StillRuns
  <2> QED BY <2>1, <2>2, SettledAnyway
<1> QED BY <1>1, <1>2, <1>3, <1>4, <1>5, <1>6, <1>7, <1>8, <1>9, <1>10 DEF AskNext

\* What a waiting chat has received and what is still on its way to it are,
\* in order, what its request has sent, whatever is stopped, asked again or
\* left meanwhile (spawn_ask, on_ask_event, on_ask_done).
THEOREM AskInvariance == AskSpec => []AskInv
<1>1. AskInv /\ [AskNext]_askVars => AskInv'
  BY AskNextStep
<1> QED BY <1>1, AskInitially, PTL DEF AskSpec

LEMMA AnswersFromInv == AskInv => AnswersTheQuestion
<1> SUFFICES ASSUME AskInv PROVE AnswersTheQuestion
  OBVIOUS
<1>1. ASSUME NEW f \in Gens, NEW g \in Gens, f < g, asked[f] # NoRequest, asked[f] = asked[g]
      PROVE  asked[g] = f /\ \A h \in Gens : asked[h] = f => h \in {f, g}
  <2>1. \A h, k \in Gens : (asked[h] = asked[k] /\ asked[h] # NoRequest /\ h # asked[h] /\ k # asked[k])
                           => h = k
    BY AskFacts DEF Asked
  <2>2. asked[f] <= f /\ asked[f] \in Nat /\ f \in Nat /\ g \in Nat
    BY <1>1, AskFacts DEF Asked
  <2>3. g # asked[g]
    BY <1>1, <2>2
  <2>4. asked[f] = f
    BY <1>1, <2>1, <2>2, <2>3
  <2> QED BY <1>1, <2>1, <2>3, <2>4
<1>2. ASSUME NEW t \in Turns
      PROVE  \E g \in Gens : \E n \in 0..task[g].sent :
               /\ asked[g] = t.question
               /\ t.answer = FramesOf(g, n)
               /\ t.state = "done" => n = task[g].sent
  <2>1. PICK i \in DOMAIN screens : \E k \in DOMAIN screens[i].turns : t = screens[i].turns[k]
    BY DEF Turns
  <2>2. TurnOK(t, task, asked)
    BY <2>1, AskFacts DEF ScreenOK
  <2> QED BY <2>2 DEF TurnOK
<1> QED BY <1>1, <1>2 DEF AnswersTheQuestion, AskedTwiceAtMost

\* What stands under a question is the answer of one request that asked it,
\* in the order it was streamed and whole once the turn is done, for every
\* number of questions, frames and screens (on_ask_event, on_ask_done).
THEOREM AnswersAlwaysMatch == AskSpec => []AnswersTheQuestion
BY AskInvariance, AnswersFromInv, PTL

\* An answer nobody waits for is not streamed, and the chat that asked last
\* never waits for nothing (stop_ask_task, pop_screen, end_session).
THEOREM NoStreamGoesUnread == AskSpec => []ChatsAndStreamsAgree
<1>1. AskInv => ChatsAndStreamsAgree
  BY DEF AskInv
<1> QED BY <1>1, AskInvariance, PTL

\* A turn that was answered, failed or stopped is never written to again,
\* however late the frames of an aborted stream arrive (on_ask_event).
THEOREM SettledAlwaysStays == AskSpec => SettledStays
<1>1. AskInv /\ [AskNext]_askVars =>
        [\A i \in DOMAIN screens, j \in DOMAIN screens' :
           \A k \in DOMAIN screens[i].turns, l \in DOMAIN screens'[j].turns :
             (/\ screens[i].turns[k].state # "streaming"
              /\ screens[i].turns[k].question = screens'[j].turns[l].question) =>
               screens'[j].turns[l] = screens[i].turns[k]]_askVars
  BY AskNextStep DEF Settled
<1> QED BY <1>1, AskInvariance, PTL DEF AskSpec, SettledStays
-----------------------------------------------------------------------------
(***************************************************************************)
(* Proofs about Inbox, for all conversations, members, screens and requests. *)
(*                                                                         *)
(* The inductive invariant has two parts.  One follows a form from the names *)
(* it sends to the conversation it starts: a composer that waits is on top,  *)
(* what it waits for was sent by it (SentByTop), and those it has found and  *)
(* those it still looks for are those it named (Resolves).  The other        *)
(* follows the mark of the viewed alerts: where an Inbox says they are, or   *)
(* is about to, its list holds no alert that a mark could have missed        *)
(* (AlertsOK).                                                               *)
(***************************************************************************)

PileScreen == InboxScreen \cup ViewScreen \cup FormScreen \cup ReplyScreen \cup {AnyScreen}

\* A request is about what it does it to, and what marks a conversation read
\* was asked for by the member.
CallOK(r, w) ==
  /\ r.is \in {"conv", "mark", "quiet", "reply"} => r.about \in Convs
  /\ r.is = "find" => r.about \in People
  /\ (r.is \in {"mark", "quiet"} \/ (r.is = "conv" /\ r.mark)) => r.about \in w
  /\ (r.beyond \/ r.at = "over") => r.is = "conv"

\* A request whose answer is no news of alerts that are not viewed counts
\* viewed ones only.
IdOK(r, viewed, next) ==
  /\ r.id < next
  /\ (r.is = "alerts" /\ r.at = "ok" /\ ~r.unread) => r.upto <= viewed

\* Where an Inbox says its alerts are viewed, or is about to, its list asked
\* for since then counts viewed ones only.
AlertsOK(s, viewed, next) ==
  s.kind = "inbox" =>
    /\ s.alerts.held < next
    /\ ((s.viewed \/ s.pending) /\ s.alerts.held > s.viewId) =>
         s.alerts.upto <= viewed

Composers == {"form", "reply"}
BusyOnTop(s) ==
  \A i \in DOMAIN s : (s[i].kind \in Composers /\ s[i].busy) => i = Len(s)

\* What a composer sent and waits for, in this session.
Work(cs, now) == {r \in cs : r.is \in {"find", "create", "reply"} /\ r.epoch = now}
Finds(cs, now) == {r \in cs : r.is = "find" /\ r.epoch = now}
Sought(cs, now) == {r.about : r \in Finds(cs, now)}

\* A request of a composer was sent by the composer on top, which waits for it.
SentByTop(r, s) ==
  LET top == s[Len(s)]
  IN /\ s # <<>> /\ top.kind \in Composers /\ top.busy
     /\ IF r.is = "reply" THEN top.kind = "reply" /\ top.conv = r.about
        ELSE /\ top.kind = "form" /\ top.sub = r.sub
             /\ r.is = "create" => top.resolving = 0 /\ r.ids = confirmed[r.sub]

\* Whom the form on top has found and whom it looks for are those it named.
Resolves(f, cs, now, named) ==
  (f.kind = "form" /\ f.busy) =>
    /\ f.sub \in DOMAIN named /\ f.resolving = Cardinality(Sought(cs, now))
    /\ ~f.failed => f.ids \cup Sought(cs, now) = named[f.sub]

OneEach(w) ==
  \A r, t \in w : (r.is = t.is /\ (r.is = "find" => r.about = t.about)) => r = t

\* Nothing was started for what is still to be started.
NotStarted(r, made) ==
  (r.is = "find" \/ (r.is = "create" /\ r.at = "sent")) =>
    \A j \in DOMAIN made : made[j].sub # r.sub

FormInv ==
  /\ BusyOnTop(pile)
  /\ \A r \in calls : /\ r.epoch <= epoch /\ (r.at = "sent" => r.epoch = epoch)
                      /\ r.is \in {"find", "create"} => r.sub \in DOMAIN confirmed
  /\ OneEach(Work(calls, epoch))
  /\ \A r \in Work(calls, epoch) : SentByTop(r, pile) /\ NotStarted(r, created)
  /\ pile # <<>> => Resolves(pile[AtTop], calls, epoch, confirmed)
  /\ \A k \in DOMAIN created : created[k].sub \in DOMAIN confirmed
  /\ StartedAsConfirmed

GoodPile(s, viewed, next) ==
  /\ s \in Seq(PileScreen)
  /\ \A i \in DOMAIN s : AlertsOK(s[i], viewed, next)

GoodCalls(cs, w, viewed, next) ==
  /\ cs \subseteq Call
  /\ \A r \in cs : CallOK(r, w) /\ IdOK(r, viewed, next)

InboxInv ==
  /\ InboxTypeOK /\ alerts.viewed <= alerts.all /\ told \subseteq wanted
  /\ GoodCalls(calls, wanted, alerts.viewed, nextCall)
  /\ GoodPile(pile, alerts.viewed, nextCall)
  /\ FormInv
-----------------------------------------------------------------------------

\* The last of a set of screens is one of them.
LEMMA UpmostIs ==
  ASSUME NEW n \in Nat, NEW S \in SUBSET (1..n), S # {}
  PROVE  Upmost(S) \in S /\ \A j \in S : j <= Upmost(S)
BY HasGreatest DEF Upmost

LEMMA KindsOf ==
  ASSUME NEW s \in PileScreen
  PROVE  /\ s.kind = "inbox" => s \in InboxScreen
         /\ s.kind = "view" => s \in ViewScreen
         /\ s.kind = "form" => s \in FormScreen
         /\ s.kind = "reply" => s \in ReplyScreen
         /\ s.kind \in {"inbox", "view", "form", "reply", "other"}
         /\ s.kind = "other" <=> s = AnyScreen
BY DEF PileScreen, InboxScreen, ViewScreen, FormScreen, ReplyScreen, AnyScreen

\* The screens that are opened.
LEMMA InboxNewScreens ==
  /\ NoPane \in ViewScreen /\ \A c \in Convs : ConvView(c) \in ViewScreen
  /\ \A tab \in Tabs : InboxOn(tab) \in InboxScreen
  /\ EmptyForm \in FormScreen /\ \A c \in Convs : ReplyTo(c) \in ReplyScreen
<1> USE InboxAssumption
<1>0. MaxLoadId \in Nat /\ 0 \in LoadId
  BY DEF LoadId
<1>1. NoPane \in ViewScreen /\ \A c \in Convs : ConvView(c) \in ViewScreen
  <2>1. \A c \in Convs \cup {NoOne} : ConvView(c) \in ViewScreen
    BY <1>0 DEF ConvView, ViewScreen
  <2>2. NoPane = [kind |-> "view", conv |-> NoOne, load |-> 0, loading |-> FALSE]
    <3> DEFINE v == ConvView(NoOne)
    <3>1. v = [kind |-> "view", conv |-> NoOne, load |-> 0, loading |-> TRUE]
      BY DEF ConvView
    <3>2. NoPane = [v EXCEPT !.loading = FALSE]
      BY DEF NoPane
    <3> HIDE DEF v
    <3> QED BY <3>1, <3>2
  <2> QED BY <1>0, <2>1, <2>2 DEF ViewScreen
<1>2. ASSUME NEW tab \in Tabs PROVE InboxOn(tab) \in InboxScreen
  <2> DEFINE p == NoPane
  <2>1. p \in ViewScreen
    BY <1>1
  <2>2. InboxOn(tab) = [kind |-> "inbox", tab |-> tab, pane |-> p,
          convos |-> [load |-> 0, loading |-> TRUE, held |-> FALSE],
          alerts |-> [load |-> 0, loading |-> TRUE, held |-> 0, upto |-> 0],
          viewed |-> FALSE, pending |-> FALSE, viewId |-> 0]
    BY DEF InboxOn
  <2> HIDE DEF p
  <2> QED BY <2>1, <2>2 DEF InboxScreen, LoadId
<1>3. 0 \in 0..Cardinality(People)
  BY FS_CardinalityType
<1>4. EmptyForm \in FormScreen /\ \A c \in Convs : ReplyTo(c) \in ReplyScreen
  BY <1>3 DEF EmptyForm, FormScreen, ReplyTo, ReplyScreen
<1> QED BY <1>1, <1>2, <1>4

LEMMA PutGood ==
  ASSUME NEW viewed, NEW next, NEW s, GoodPile(s, viewed, next),
         NEW i \in DOMAIN s, NEW t \in PileScreen, AlertsOK(t, viewed, next)
  PROVE  GoodPile([s EXCEPT ![i] = t], viewed, next)
BY DEF GoodPile

LEMMA PushGood ==
  ASSUME NEW viewed, NEW next, NEW s, GoodPile(s, viewed, next),
         NEW t \in PileScreen, AlertsOK(t, viewed, next)
  PROVE  GoodPile(Append(s, t), viewed, next)
<1>1. s \in Seq(PileScreen) /\ Len(s) \in Nat /\ DOMAIN s = 1..Len(s)
  BY DEF GoodPile
<1>2. ASSUME NEW i \in DOMAIN Append(s, t)
      PROVE  AlertsOK(Append(s, t)[i], viewed, next)
  <2>1. CASE i = Len(s) + 1
    <3>1. Append(s, t)[i] = t
      BY <1>1, <2>1
    <3> QED BY <3>1
  <2>2. CASE i # Len(s) + 1
    <3>1. i \in 1..Len(s) /\ Append(s, t)[i] = s[i]
      BY <1>1, <2>2
    <3> QED BY <1>1, <3>1 DEF GoodPile
  <2> QED BY <2>1, <2>2
<1> QED BY <1>1, <1>2 DEF GoodPile

LEMMA FrontGood ==
  ASSUME NEW viewed, NEW next, NEW s, GoodPile(s, viewed, next), NEW n \in 0..Len(s)
  PROVE  /\ GoodPile(SubSeq(s, 1, n), viewed, next)
         /\ Len(SubSeq(s, 1, n)) = n /\ \A i \in 1..n : SubSeq(s, 1, n)[i] = s[i]
<1>1. s \in Seq(PileScreen) /\ Len(s) \in Nat /\ DOMAIN s = 1..Len(s)
  BY DEF GoodPile
<1>2. /\ SubSeq(s, 1, n) \in Seq(PileScreen) /\ Len(SubSeq(s, 1, n)) = n
      /\ DOMAIN SubSeq(s, 1, n) = 1..n
      /\ \A i \in 1..n : i \in DOMAIN s /\ SubSeq(s, 1, n)[i] = s[i]
  BY <1>1
<1> QED BY <1>2 DEF GoodPile

LEMMA LaterGood ==
  ASSUME NEW v \in Nat, NEW u \in Nat, v <= u, NEW n \in Nat, NEW m \in Nat, n <= m,
         NEW s, GoodPile(s, v, n)
  PROVE  GoodPile(s, u, m)
<1>1. ASSUME NEW i \in DOMAIN s PROVE AlertsOK(s[i], u, m)
  <2>1. s[i] \in PileScreen /\ AlertsOK(s[i], v, n)
    BY DEF GoodPile
  <2>2. SUFFICES ASSUME s[i].kind = "inbox"
                 PROVE  AlertsOK(s[i], u, m)
    BY DEF AlertsOK
  <2>3. s[i].alerts.held \in Nat /\ s[i].alerts.upto \in Nat
    <3>1. s[i] \in InboxScreen
      BY <2>1, <2>2, KindsOf
    <3>2. s[i].alerts \in [load: LoadId, loading: BOOLEAN, held: LoadId, upto: 0..MaxAlert]
      BY <3>1 DEF InboxScreen
    <3> QED BY <3>2, InboxAssumption DEF LoadId
  <2> QED BY <2>1, <2>2, <2>3 DEF AlertsOK
<1> QED BY <1>1 DEF GoodPile

ConvosPart == [load: LoadId, loading: BOOLEAN, held: BOOLEAN]
AlertsPart == [load: LoadId, loading: BOOLEAN, held: LoadId, upto: 0..MaxAlert]

\* What becomes of an Inbox, by its fields.
LEMMA InboxChanges ==
  ASSUME NEW ib \in InboxScreen
  PROVE  /\ ib \in PileScreen /\ ib.kind = "inbox" /\ ib.tab \in Tabs
         /\ ib.pane \in ViewScreen /\ ib.convos \in ConvosPart
         /\ ib.alerts \in AlertsPart /\ ib.viewed \in BOOLEAN /\ ib.pending \in BOOLEAN
         /\ ib.viewId \in LoadId
         /\ \A v \in ViewScreen : [ib EXCEPT !.pane = v] \in InboxScreen
         /\ \A cs \in ConvosPart : [ib EXCEPT !.convos = cs] \in InboxScreen
         /\ \A al \in AlertsPart : [ib EXCEPT !.alerts = al] \in InboxScreen
         /\ \A tab \in Tabs : [ib EXCEPT !.tab = tab] \in InboxScreen
         /\ \A v, p \in BOOLEAN, id \in LoadId :
              [ib EXCEPT !.viewed = v, !.pending = p, !.viewId = id] \in InboxScreen
<1>1. ib \in PileScreen /\ ib.kind = "inbox"
  BY DEF PileScreen, InboxScreen
<1>2. /\ ib.tab \in Tabs
      /\ ib.pane \in ViewScreen /\ ib.convos \in ConvosPart
      /\ ib.alerts \in AlertsPart /\ ib.viewed \in BOOLEAN /\ ib.pending \in BOOLEAN
      /\ ib.viewId \in LoadId
  BY DEF InboxScreen, ConvosPart, AlertsPart
<1>3. \A v \in ViewScreen : [ib EXCEPT !.pane = v] \in InboxScreen
  BY DEF InboxScreen
<1>4. \A cs \in ConvosPart : [ib EXCEPT !.convos = cs] \in InboxScreen
  BY DEF InboxScreen, ConvosPart
<1>5. \A al \in AlertsPart : [ib EXCEPT !.alerts = al] \in InboxScreen
  BY DEF InboxScreen, AlertsPart
<1>6. \A tab \in Tabs : [ib EXCEPT !.tab = tab] \in InboxScreen
  BY DEF InboxScreen
<1>7. \A v, p \in BOOLEAN, id \in LoadId :
        [ib EXCEPT !.viewed = v, !.pending = p, !.viewId = id] \in InboxScreen
  BY DEF InboxScreen
<1> QED BY <1>1, <1>2, <1>3, <1>4, <1>5, <1>6, <1>7

\* A conversation is shown by an Inbox's pane or by a screen of its own.
LEMMA ShownIn ==
  ASSUME NEW s \in PileScreen, s.kind \in {"inbox", "view"}, NEW v \in ViewScreen
  PROVE  LET t == IF s.kind = "inbox" THEN [s EXCEPT !.pane = v] ELSE v
         IN /\ ViewOf(s) \in ViewScreen /\ t \in PileScreen /\ t.kind = s.kind
            /\ \A viewed, next : AlertsOK(s, viewed, next) => AlertsOK(t, viewed, next)
<1>1. CASE s.kind = "inbox"
  <2>1. s \in InboxScreen
    BY <1>1, KindsOf
  <2> DEFINE t == [s EXCEPT !.pane = v]
  <2>2. t \in InboxScreen /\ s.pane \in ViewScreen
    BY <2>1, InboxChanges
  <2>3. t \in PileScreen /\ t.kind = "inbox"
    BY <2>2, InboxChanges
  <2>4. /\ t.alerts = s.alerts /\ t.viewed = s.viewed /\ t.pending = s.pending
        /\ t.viewId = s.viewId
    BY <2>1 DEF InboxScreen
  <2> HIDE DEF t
  <2>5. \A viewed, next : AlertsOK(s, viewed, next) => AlertsOK(t, viewed, next)
    BY <2>4, <1>1 DEF AlertsOK
  <2> QED BY <1>1, <2>2, <2>3, <2>5 DEF ViewOf, t
<1>2. CASE s.kind = "view"
  <2>1. s \in ViewScreen /\ v.kind = "view" /\ v \in PileScreen
    BY <1>2, KindsOf DEF ViewScreen, PileScreen
  <2> QED BY <1>2, <2>1 DEF ViewOf, AlertsOK
<1> QED BY <1>1, <1>2

\* One screen becomes another of its kind, and no composer.
InPlace(s, t) ==
  /\ t \in Seq(PileScreen) /\ Len(t) = Len(s)
  /\ \A i \in DOMAIN s : t[i].kind = s[i].kind /\ (s[i].kind \in Composers => t[i] = s[i])

LEMMA InPlaceOne ==
  ASSUME NEW s \in Seq(PileScreen), NEW i \in DOMAIN s, NEW t \in PileScreen,
         t.kind = s[i].kind, s[i].kind \notin Composers
  PROVE  InPlace(s, [s EXCEPT ![i] = t])
BY DEF InPlace

LEMMA InPlaceTwice ==
  ASSUME NEW s \in Seq(PileScreen), NEW t, NEW u, InPlace(s, t), InPlace(t, u)
  PROVE  InPlace(s, u)
BY DEF InPlace

LEMMA InPlaceNone == ASSUME NEW s \in Seq(PileScreen) PROVE InPlace(s, s)
BY DEF InPlace

LEMMA KindSets ==
  ASSUME NEW s \in Seq(PileScreen), NEW kind
  PROVE  /\ Of(s, kind) \in SUBSET (1..Len(s)) /\ Len(s) \in Nat /\ DOMAIN s = 1..Len(s)
         /\ \A c : Showing(s, c) \in SUBSET (1..Len(s))
         /\ \A c, i : i \in Showing(s, c) => i \in DOMAIN s /\ s[i].kind \in {"inbox", "view"}
         /\ \A i : i \in Of(s, kind) => i \in DOMAIN s /\ s[i].kind = kind
BY DEF Of, Showing, ShowsConv

\* load_conversation, whichever screens it starts from.
LEMMA StampedFacts ==
  ASSUME NEW viewed, NEW next, NEW s, GoodPile(s, viewed, next), NEW c \in Convs,
         NEW id \in LoadId
  PROVE  GoodPile(Stamped(s, c, id), viewed, next) /\ InPlace(s, Stamped(s, c, id))
<1>1. s \in Seq(PileScreen)
  BY DEF GoodPile
<1>2. CASE Showing(s, c) = {}
  BY <1>1, <1>2, InPlaceNone DEF Stamped
<1>3. CASE Showing(s, c) # {}
  <2> DEFINE i == Upmost(Showing(s, c))
             v == ViewOf(s[i])
             w == [v EXCEPT !.load = id, !.loading = TRUE]
             t == IF s[i].kind = "inbox" THEN [s[i] EXCEPT !.pane = w] ELSE w
  <2>1. i \in Showing(s, c)
    BY <1>1, <1>3, UpmostIs, KindSets
  <2>2. i \in DOMAIN s /\ s[i] \in PileScreen /\ s[i].kind \in {"inbox", "view"}
    BY <1>1, <2>1, KindSets
  <2>3. v \in ViewScreen
    BY <2>2, ShownIn, InboxNewScreens
  <2>4. w \in ViewScreen
    BY <2>3 DEF ViewScreen
  <2>5. Stamped(s, c, id) = [s EXCEPT ![i] = t]
    BY <1>3 DEF Stamped, WithView
  <2> HIDE DEF i, v, w
  <2>6. /\ t \in PileScreen /\ t.kind = s[i].kind
        /\ AlertsOK(s[i], viewed, next) => AlertsOK(t, viewed, next)
    BY <2>2, <2>4, ShownIn
  <2> HIDE DEF t
  <2>7. AlertsOK(t, viewed, next) /\ s[i].kind \notin Composers
    BY <2>2, <2>6 DEF GoodPile, Composers
  <2>8. GoodPile([s EXCEPT ![i] = t], viewed, next)
    BY <2>2, <2>6, <2>7, PutGood
  <2>9. InPlace(s, [s EXCEPT ![i] = t])
    BY <1>1, <2>2, <2>6, <2>7, InPlaceOne
  <2> QED BY <2>5, <2>8, <2>9
<1> QED BY <1>2, <1>3

\* What a step makes of the screens s and the requests others, when no composer
\* has to do with it: the screens it changes, what it sends, the load ids.
OnlyScreens(s, others, w) ==
  /\ GoodPile(pile', alerts.viewed, nextCall') /\ GoodCalls(calls', w, alerts.viewed, nextCall')
  /\ InPlace(s, pile') /\ others \subseteq calls'
  /\ \A r \in calls' \ others :
       r.is \notin {"find", "create", "reply"} /\ r.epoch = epoch /\ r.at = "sent"
  /\ nextCall' \in 1..(MaxLoadId + 1)

\* What the lemmas below start from.
Ready(s, others, w, next) ==
  /\ InboxTypeOK /\ next \in 1..(MaxLoadId + 1)
  /\ GoodPile(s, alerts.viewed, next) /\ GoodCalls(others, w, alerts.viewed, next)

\* A request that is sent.
LEMMA CallsMade ==
  ASSUME InboxTypeOK, NEW id \in LoadId
  PROVE  /\ \A is \in {"convos", "conv", "alerts", "viewed", "alert", "create"} :
              NewCall(is, id) \in Call
         /\ \A is \in {"mark", "quiet", "reply", "find"}, x \in Convs \cup People :
              CallAbout(is, x) \in Call
         /\ \A c \in Convs, mark, beyond \in BOOLEAN : ConvCall(id, c, mark, beyond) \in Call
<1> USE InboxAssumption
<1>1. /\ epoch \in 1..MaxEpoch /\ 0 \in LoadId /\ 0 \in 0..MaxSubmit /\ 0 \in 0..MaxAlert
  BY DEF InboxTypeOK, LoadId
<1>2. \A is \in {"convos", "conv", "alerts", "viewed", "alert", "mark", "quiet",
                 "find", "create", "reply"}, i \in LoadId : NewCall(is, i) \in Call
  BY <1>1 DEF NewCall, Call
<1>3. ASSUME NEW is \in {"mark", "quiet", "reply", "find"}, NEW x \in Convs \cup People
      PROVE  CallAbout(is, x) \in Call
  <2> DEFINE r == NewCall(is, 0)
  <2>1. r \in Call
    BY <1>1, <1>2
  <2>2. CallAbout(is, x) = [r EXCEPT !.about = x]
    BY DEF CallAbout
  <2> HIDE DEF r
  <2> QED BY <2>1, <2>2 DEF Call
<1>4. ASSUME NEW c \in Convs, NEW mark \in BOOLEAN, NEW beyond \in BOOLEAN
      PROVE  ConvCall(id, c, mark, beyond) \in Call
  <2> DEFINE r == NewCall("conv", id)
  <2>1. r \in Call
    BY <1>1, <1>2
  <2>2. ConvCall(id, c, mark, beyond) = [r EXCEPT !.about = c, !.mark = mark, !.beyond = beyond]
    BY DEF ConvCall
  <2> HIDE DEF r
  <2> QED BY <2>1, <2>2 DEF Call
<1> QED BY <1>2, <1>3, <1>4

LEMMA CallFields ==
  /\ \A is, id : LET r == NewCall(is, id)
                 IN /\ r.is = is /\ r.id = id /\ r.about = NoOne /\ r.mark = FALSE
                    /\ r.beyond = FALSE /\ r.sub = 0 /\ r.ids = {} /\ r.epoch = epoch
                    /\ r.at = "sent" /\ r.upto = 0 /\ r.unread = FALSE
  /\ \A is, x : LET r == CallAbout(is, x)
                IN /\ r.is = is /\ r.id = 0 /\ r.about = x /\ r.mark = FALSE
                   /\ r.beyond = FALSE /\ r.sub = 0 /\ r.ids = {} /\ r.epoch = epoch
                   /\ r.at = "sent" /\ r.upto = 0 /\ r.unread = FALSE
  /\ \A id, c, mark, beyond :
        LET r == ConvCall(id, c, mark, beyond)
        IN /\ r.is = "conv" /\ r.id = id /\ r.about = c /\ r.mark = mark
           /\ r.beyond = beyond /\ r.sub = 0 /\ r.ids = {} /\ r.epoch = epoch
           /\ r.at = "sent" /\ r.upto = 0 /\ r.unread = FALSE
<1>1. \A is, id : LET r == NewCall(is, id)
                 IN /\ r.is = is /\ r.id = id /\ r.about = NoOne /\ r.mark = FALSE
                    /\ r.beyond = FALSE /\ r.sub = 0 /\ r.ids = {} /\ r.epoch = epoch
                    /\ r.at = "sent" /\ r.upto = 0 /\ r.unread = FALSE
  BY DEF NewCall
<1>2. \A is, x : LET r == CallAbout(is, x)
                IN /\ r.is = is /\ r.id = 0 /\ r.about = x /\ r.mark = FALSE
                   /\ r.beyond = FALSE /\ r.sub = 0 /\ r.ids = {} /\ r.epoch = epoch
                   /\ r.at = "sent" /\ r.upto = 0 /\ r.unread = FALSE
  BY DEF NewCall, CallAbout
<1>3. \A id, c, mark, beyond :
        LET r == ConvCall(id, c, mark, beyond)
        IN /\ r.is = "conv" /\ r.id = id /\ r.about = c /\ r.mark = mark
           /\ r.beyond = beyond /\ r.sub = 0 /\ r.ids = {} /\ r.epoch = epoch
           /\ r.at = "sent" /\ r.upto = 0 /\ r.unread = FALSE
  BY DEF NewCall, ConvCall
<1> QED BY <1>1, <1>2, <1>3

\* The requests there are, and one more.
LEMMA OneMoreCall ==
  ASSUME NEW w, NEW viewed, NEW n \in Nat, NEW m \in Nat, n <= m,
         NEW others, GoodCalls(others, w, viewed, n),
         NEW r \in Call, r.id < m, CallOK(r, w), r.at = "sent"
  PROVE  GoodCalls(others \cup {r}, w, viewed, m)
<1>1. \A q \in others : q.id \in Nat
  BY InboxAssumption DEF GoodCalls, Call, LoadId
<1> QED BY <1>1 DEF GoodCalls, IdOK

LEMMA LoadsConversation ==
  ASSUME NEW s, NEW others, NEW c \in Convs, NEW mark \in BOOLEAN, NEW beyond \in BOOLEAN,
         NEW w, Ready(s, others, w, nextCall), mark => c \in w,
         LoadConversation(s, others, c, mark, beyond)
  PROVE  OnlyScreens(s, others, w)
<1> USE InboxAssumption
<1> DEFINE r == ConvCall(nextCall, c, mark, beyond)
<1>1. /\ nextCall \in Nat /\ nextCall \in LoadId /\ nextCall' = nextCall + 1
      /\ nextCall' \in 1..(MaxLoadId + 1) /\ alerts.viewed \in Nat
  BY DEF Ready, LoadConversation, LoadId, InboxTypeOK
<1>2. calls' = others \cup {r} /\ pile' = Stamped(s, c, nextCall)
  BY DEF LoadConversation
<1>3. r \in Call
  BY <1>1, CallsMade DEF Ready
<1>4. /\ r.id = nextCall /\ r.at = "sent" /\ r.epoch = epoch /\ r.is = "conv" /\ r.about = c
      /\ r.mark = mark
  BY CallFields
<1> HIDE DEF r
<1>5. CallOK(r, w)
  BY <1>4 DEF CallOK
<1>6. GoodCalls(calls', w, alerts.viewed, nextCall')
  BY <1>1, <1>2, <1>3, <1>4, <1>5, OneMoreCall DEF Ready
<1>7. GoodPile(pile', alerts.viewed, nextCall) /\ InPlace(s, pile')
  BY <1>1, <1>2, StampedFacts DEF Ready
<1>8. GoodPile(pile', alerts.viewed, nextCall')
  <2>1. nextCall \in Nat /\ nextCall' \in Nat /\ nextCall <= nextCall'
    BY <1>1
  <2>2. alerts.viewed \in Nat /\ alerts.viewed <= alerts.viewed
    BY <1>1
  <2> HIDE InboxAssumption
  <2> QED BY <1>7, <2>1, <2>2, LaterGood
<1> QED BY <1>1, <1>2, <1>4, <1>6, <1>7, <1>8 DEF OnlyScreens

\* Nothing is loaded.
LEMMA LoadsNothing ==
  ASSUME NEW s, NEW others, NEW w, Ready(s, others, w, nextCall),
         pile' = s, calls' = others, nextCall' = nextCall
  PROVE  OnlyScreens(s, others, w)
BY InPlaceNone DEF Ready, OnlyScreens, GoodPile

LEMMA LoadsList ==
  ASSUME NEW s, NEW others, NEW w, NEW which \in {"convos", "alerts"},
         Ready(s, others, w, nextCall), LoadList(s, others, which)
  PROVE  OnlyScreens(s, others, w)
<1> USE InboxAssumption
<1> DEFINE r == NewCall(which, nextCall)
<1>1. /\ nextCall \in Nat /\ nextCall \in LoadId /\ nextCall' = nextCall + 1
      /\ nextCall' \in 1..(MaxLoadId + 1) /\ alerts.viewed \in Nat
  BY DEF Ready, LoadList, LoadId, InboxTypeOK
<1>2. calls' = others \cup {r}
  BY DEF LoadList
<1>3. r \in Call
  BY <1>1, CallsMade DEF Ready
<1>4. /\ r.id = nextCall /\ r.at = "sent" /\ r.epoch = epoch /\ r.is = which
      /\ r.mark = FALSE /\ r.beyond = FALSE
  BY CallFields
<1> HIDE DEF r
<1>5. CallOK(r, w)
  BY <1>4 DEF CallOK
<1>6. GoodCalls(calls', w, alerts.viewed, nextCall')
  BY <1>1, <1>2, <1>3, <1>4, <1>5, OneMoreCall DEF Ready
<1>7. GoodPile(pile', alerts.viewed, nextCall) /\ InPlace(s, pile')
  <2>1. s \in Seq(PileScreen) /\ GoodPile(s, alerts.viewed, nextCall)
    BY DEF GoodPile, Ready
  <2> DEFINE S == Of(s, "inbox")
             ib == s[Upmost(S)]
             t == IF which = "convos"
                  THEN [ib EXCEPT !.convos = [@ EXCEPT !.load = nextCall, !.loading = TRUE]]
                  ELSE [ib EXCEPT !.alerts = [@ EXCEPT !.load = nextCall, !.loading = TRUE]]
  <2>2. CASE S = {}
    BY <2>1, <2>2, InPlaceNone DEF LoadList
  <2>3. CASE S # {}
    <3>1. Upmost(S) \in DOMAIN s /\ ib \in PileScreen /\ ib.kind = "inbox"
      <4>1. Len(s) \in Nat /\ S \in SUBSET (1..Len(s))
        BY <2>1, KindSets
      <4>2. Upmost(S) \in S
        BY <4>1, <2>3, UpmostIs
      <4> QED BY <2>1, <4>2, KindSets
    <3>2. pile' = [s EXCEPT ![Upmost(S)] = t]
      BY <2>3 DEF LoadList
    <3> HIDE DEF S
    <3>3. ib \in InboxScreen /\ AlertsOK(ib, alerts.viewed, nextCall)
      BY <3>1, <2>1, KindsOf DEF GoodPile
    <3> HIDE DEF ib
    <3>4. t \in InboxScreen /\ AlertsOK(t, alerts.viewed, nextCall)
      <4>1. ib.convos \in ConvosPart /\ ib.alerts \in AlertsPart
        BY <3>3, InboxChanges
      <4>2. [ib.convos EXCEPT !.load = nextCall, !.loading = TRUE] \in ConvosPart
        BY <1>1, <4>1 DEF ConvosPart
      <4> DEFINE al == [ib.alerts EXCEPT !.load = nextCall, !.loading = TRUE]
      <4>3. al \in AlertsPart /\ al.held = ib.alerts.held /\ al.upto = ib.alerts.upto
        BY <1>1, <4>1 DEF AlertsPart
      <4> HIDE DEF al
      <4>4. t = IF which = "convos"
                THEN [ib EXCEPT !.convos = [ib.convos EXCEPT !.load = nextCall, !.loading = TRUE]]
                ELSE [ib EXCEPT !.alerts = al]
        BY DEF al
      <4>5. t \in InboxScreen
        BY <3>3, <4>2, <4>3, <4>4, InboxChanges
      <4>6. /\ t.viewed = ib.viewed /\ t.pending = ib.pending /\ t.viewId = ib.viewId
            /\ t.alerts = IF which = "convos" THEN ib.alerts ELSE al
        BY <3>3, <4>4 DEF InboxScreen
      <4> QED BY <3>3, <4>3, <4>5, <4>6, InboxChanges DEF AlertsOK
    <3> HIDE DEF t
    <3>5. t \in PileScreen /\ t.kind = ib.kind /\ ib.kind \notin Composers
      BY <3>1, <3>3, <3>4, InboxChanges DEF Composers
    <3>6. GoodPile(pile', alerts.viewed, nextCall)
      BY <2>1, <3>1, <3>2, <3>4, <3>5, PutGood
    <3>7. InPlace(s, pile')
      BY <2>1, <3>1, <3>2, <3>5, InPlaceOne DEF ib
    <3> QED BY <3>6, <3>7
  <2> QED BY <2>2, <2>3
<1>8. GoodPile(pile', alerts.viewed, nextCall')
  <2>1. nextCall \in Nat /\ nextCall' \in Nat /\ nextCall <= nextCall'
    BY <1>1
  <2>2. alerts.viewed \in Nat /\ alerts.viewed <= alerts.viewed
    BY <1>1
  <2> HIDE InboxAssumption
  <2> QED BY <1>7, <2>1, <2>2, LaterGood
<1>9. others \subseteq calls' /\ \A q \in calls' \ others : q = r
  BY <1>2
<1>10. r.is \notin {"find", "create", "reply"}
  BY <1>4
<1> QED BY <1>1, <1>4, <1>6, <1>7, <1>8, <1>9, <1>10 DEF OnlyScreens

\* mark_alerts_viewed: the mark is asked for after all that is shown.
LEMMA MarksAlerts ==
  ASSUME NEW s, NEW others, NEW w, NEW next, Ready(s, others, w, next),
         MarkAlertsViewed(s, others, next)
  PROVE  OnlyScreens(s, others, w)
<1> USE InboxAssumption
<1> DEFINE n == Len(s)
           due == /\ n > 0 /\ ~paused
                  /\ s[n].kind = "inbox"
                  /\ s[n].tab = "alerts"
                  /\ ~s[n].viewed /\ ~s[n].pending
           r == NewCall("viewed", next)
           ib == s[n]
           t == [ib EXCEPT !.pending = TRUE, !.viewId = next]
<1>1. s \in Seq(PileScreen) /\ GoodPile(s, alerts.viewed, next)
  BY DEF Ready, GoodPile
<1>2. CASE ~due
  <2>1. pile' = s /\ calls' = others /\ nextCall' = next
    BY <1>2 DEF MarkAlertsViewed
  <2> QED BY <2>1, InPlaceNone DEF Ready, OnlyScreens, GoodPile
<1>3. CASE due
  <2>1. /\ next <= MaxLoadId /\ calls' = others \cup {r} /\ nextCall' = next + 1
        /\ pile' = [s EXCEPT ![n].pending = TRUE, ![n].viewId = next]
    BY <1>3 DEF MarkAlertsViewed
  <2>2. /\ next \in Nat /\ next \in LoadId /\ nextCall' \in 1..(MaxLoadId + 1)
        /\ alerts.viewed \in Nat
    BY <2>1 DEF Ready, LoadId, InboxTypeOK
  <2>3. r \in Call
    BY <2>2, CallsMade DEF Ready
  <2>4. /\ r.id = next /\ r.at = "sent" /\ r.epoch = epoch /\ r.is = "viewed"
        /\ r.mark = FALSE /\ r.beyond = FALSE
    BY CallFields
  <2> HIDE DEF r
  <2>5. CallOK(r, w)
    BY <2>4 DEF CallOK
  <2>6. GoodCalls(calls', w, alerts.viewed, nextCall')
    BY <2>1, <2>2, <2>3, <2>4, <2>5, OneMoreCall DEF Ready
  <2>7. n \in DOMAIN s /\ ib \in PileScreen /\ ib.kind = "inbox"
    BY <1>1, <1>3
  <2>8. pile' = [s EXCEPT ![n] = t]
    BY <1>1, <2>1, <2>7
  <2>9. ib \in InboxScreen /\ AlertsOK(ib, alerts.viewed, next)
    BY <1>1, <2>7, KindsOf DEF GoodPile
  <2> HIDE DEF ib
  <2>10. t \in InboxScreen /\ t.viewId = next /\ t.alerts = ib.alerts
    BY <2>2, <2>9 DEF InboxScreen
  <2>11. AlertsOK(t, alerts.viewed, next)
    <3>1. t.alerts.held < next
      BY <2>7, <2>9, <2>10 DEF AlertsOK
    <3>2. ib.alerts \in AlertsPart
      BY <2>9, InboxChanges
    <3>3. t.alerts.held \in Nat
      BY <3>2, <2>10 DEF AlertsPart, LoadId
    <3>4. ~(t.alerts.held > t.viewId)
      BY <2>2, <2>10, <3>1, <3>3
    <3> QED BY <3>1, <3>4 DEF AlertsOK
  <2>12. t \in PileScreen /\ t.kind = ib.kind /\ ib.kind \notin Composers
    BY <2>7, <2>10, InboxChanges DEF Composers
  <2> HIDE DEF t
  <2>13. GoodPile(pile', alerts.viewed, next)
    BY <1>1, <2>7, <2>8, <2>11, <2>12, PutGood
  <2>14. InPlace(s, pile')
    BY <1>1, <2>7, <2>8, <2>12, InPlaceOne DEF ib
  <2>15. GoodPile(pile', alerts.viewed, nextCall')
    <3>1. nextCall' \in Nat /\ next <= nextCall'
      BY <2>1, <2>2
    <3>2. alerts.viewed <= alerts.viewed
      BY <2>2
    <3> HIDE InboxAssumption
    <3> QED BY <2>2, <2>13, <3>1, <3>2, LaterGood
  <2>16. others \subseteq calls' /\ \A q \in calls' \ others : q = r
    BY <2>1
  <2>17. r.is \notin {"find", "create", "reply"}
    BY <2>4
  <2> QED BY <2>2, <2>4, <2>6, <2>14, <2>15, <2>16, <2>17 DEF OnlyScreens
<1> QED BY <1>2, <1>3

\* A conversation is opened, in the pane or on a screen of its own.
LEMMA OpensConversation ==
  ASSUME NEW s, NEW others, NEW w, NEW c \in w, c \in Convs, NEW dual \in BOOLEAN,
         Ready(s, others, w, nextCall), OpenOn(s, others, c, dual)
  PROVE  \/ OnlyScreens(s, others, w)
         \/ OnlyScreens(Append(s, ConvView(c)), others, w)
<1> DEFINE n == Len(s)
           ib == s[n]
           t == [ib EXCEPT !.pane = ConvView(c)]
           view == ConvView(c)
<1>1. s \in Seq(PileScreen) /\ GoodPile(s, alerts.viewed, nextCall)
  BY DEF Ready, GoodPile
<1>2. view \in ViewScreen /\ view.kind = "view"
  BY InboxNewScreens DEF ConvView
<1>3. CASE n > 0 /\ s[n].kind = "inbox" /\ dual
  <2>1. CASE s[n].pane.conv = c /\ s[n].pane.loading
    <3>1. pile' = s /\ calls' = others /\ nextCall' = nextCall
      BY <1>3, <2>1 DEF OpenOn
    <3> QED BY <3>1, LoadsNothing
  <2>2. CASE ~(s[n].pane.conv = c /\ s[n].pane.loading)
    <3>1. LoadConversation([s EXCEPT ![n].pane = ConvView(c)], others, c, TRUE, FALSE)
      BY <1>3, <2>2 DEF OpenOn
    <3>2. n \in DOMAIN s /\ ib \in PileScreen /\ ib.kind = "inbox"
      BY <1>1, <1>3
    <3>3. [s EXCEPT ![n].pane = view] = [s EXCEPT ![n] = t]
      BY <1>1, <3>2
    <3>4. AlertsOK(ib, alerts.viewed, nextCall)
      BY <1>1, <3>2 DEF GoodPile
    <3> HIDE DEF view
    <3>5. t \in PileScreen /\ t.kind = ib.kind /\ AlertsOK(t, alerts.viewed, nextCall)
      <4> DEFINE u == IF ib.kind = "inbox" THEN [ib EXCEPT !.pane = view] ELSE view
      <4>1. u \in PileScreen /\ u.kind = ib.kind /\ AlertsOK(u, alerts.viewed, nextCall)
        BY <1>2, <3>2, <3>4, ShownIn
      <4> QED BY <3>2, <4>1 DEF view
    <3> HIDE DEF ib, t
    <3>6. GoodPile([s EXCEPT ![n] = t], alerts.viewed, nextCall)
      BY <1>1, <3>2, <3>5, PutGood
    <3>7. InPlace(s, [s EXCEPT ![n] = t])
      BY <1>1, <3>2, <3>5, InPlaceOne DEF Composers, ib
    <3>8. OnlyScreens([s EXCEPT ![n] = t], others, w)
      BY <3>1, <3>3, <3>6, LoadsConversation DEF Ready, view
    <3>9. InPlace(s, pile')
      BY <1>1, <3>7, <3>8, InPlaceTwice DEF OnlyScreens
    <3> QED BY <3>8, <3>9 DEF OnlyScreens
  <2> QED BY <2>1, <2>2
<1>4. CASE ~(n > 0 /\ s[n].kind = "inbox" /\ dual)
  <2>1. CASE n > 0 /\ s[n] \in ViewScreen /\ s[n].conv = c /\ s[n].loading
    <3>1. pile' = s /\ calls' = others /\ nextCall' = nextCall
      BY <1>4, <2>1 DEF OpenOn
    <3> QED BY <3>1, LoadsNothing
  <2>2. CASE ~(n > 0 /\ s[n] \in ViewScreen /\ s[n].conv = c /\ s[n].loading)
    <3>1. LoadConversation(Append(s, view), others, c, TRUE, FALSE)
      BY <1>4, <2>2 DEF OpenOn
    <3>2. view \in PileScreen /\ AlertsOK(view, alerts.viewed, nextCall)
      BY <1>2 DEF PileScreen, AlertsOK
    <3>3. GoodPile(Append(s, view), alerts.viewed, nextCall)
      BY <1>1, <3>2, PushGood
    <3>4. OnlyScreens(Append(s, view), others, w)
      BY <3>1, <3>3, LoadsConversation DEF Ready
    <3> QED BY <3>4
  <2> QED BY <2>1, <2>2
<1> QED BY <1>3, <1>4

WorkKinds == {"find", "create", "reply"}
NoneBusy(s) == \A i \in DOMAIN s : s[i].kind \in Composers => ~s[i].busy
Idle(cs) == \A r \in cs : ~(r.is \in WorkKinds /\ r.epoch = epoch)

\* What FormInv says when nobody waits.
FormRest(cs) ==
  \A r \in cs : /\ r.epoch <= epoch /\ (r.at = "sent" => r.epoch = epoch)
                /\ r.is \in {"find", "create"} => r.sub \in DOMAIN confirmed

\* While no composer is busy, nothing of a composer is on its way.
LEMMA NobodyBusy ==
  ASSUME FormInv, pile \in Seq(PileScreen),
         ~NavigationBlocked \/ (AtTop > 0 /\ (pile[AtTop].kind \in Composers => ~pile[AtTop].busy))
  PROVE  NoneBusy(pile) /\ Idle(calls)
<1>1. Len(pile) \in Nat /\ DOMAIN pile = 1..Len(pile)
  OBVIOUS
<1>2. NoneBusy(pile)
  <2>1. CASE ~NavigationBlocked
    BY <2>1, <1>1 DEF NavigationBlocked, NoneBusy, Composers, Of
  <2>2. CASE AtTop > 0 /\ (pile[AtTop].kind \in Composers => ~pile[AtTop].busy)
    BY <2>2, <1>1 DEF FormInv, BusyOnTop, NoneBusy, AtTop
  <2> QED BY <2>1, <2>2
<1>3. ASSUME NEW r \in calls, r.is \in WorkKinds, r.epoch = epoch PROVE FALSE
  <2>1. r \in Work(calls, epoch)
    BY <1>3 DEF Work, WorkKinds
  <2>2. pile # <<>> /\ pile[Len(pile)].kind \in Composers /\ pile[Len(pile)].busy
    BY <2>1 DEF FormInv, SentByTop
  <2>3. Len(pile) \in DOMAIN pile
    BY <1>1, <2>2
  <2> QED BY <1>2, <2>2, <2>3 DEF NoneBusy
<1> QED BY <1>2, <1>3 DEF Idle

\* What OnlyScreens makes of the requests.
LEMMA KeepsRest ==
  ASSUME NEW s, NEW others, NEW w, OnlyScreens(s, others, w), FormRest(others),
         UNCHANGED <<epoch, confirmed>>, epoch \in Nat
  PROVE  /\ \A r \in calls' : /\ r.epoch <= epoch' /\ (r.at = "sent" => r.epoch = epoch')
                              /\ r.is \in {"find", "create"} => r.sub \in DOMAIN confirmed'
         /\ \A r \in calls' : r.is \in WorkKinds => r \in others
<1>1. ASSUME NEW r \in calls'
      PROVE  /\ r.epoch <= epoch /\ (r.at = "sent" => r.epoch = epoch)
             /\ r.is \in {"find", "create"} => r.sub \in DOMAIN confirmed
             /\ r.is \in WorkKinds => r \in others
  <2>1. CASE r \in others
    BY <2>1 DEF FormRest
  <2>2. CASE r \notin others
    BY <2>2 DEF OnlyScreens, WorkKinds
  <2> QED BY <2>1, <2>2
<1> QED BY <1>1

\* A step that leaves composers and what they sent alone.
LEMMA ComposersStay ==
  ASSUME FormInv, pile \in Seq(PileScreen), epoch \in Nat,
         NEW s, NEW others, NEW w, OnlyScreens(s, others, w), InPlace(pile, s),
         others \subseteq calls, Idle(calls \ others),
         UNCHANGED <<epoch, created, confirmed>>
  PROVE  FormInv'
<1>1. InPlace(pile, pile')
  BY InPlaceTwice DEF OnlyScreens
<1>2. FormRest(others)
  BY DEF FormInv, FormRest
<1>3. /\ \A r \in calls' : /\ r.epoch <= epoch' /\ (r.at = "sent" => r.epoch = epoch')
                           /\ r.is \in {"find", "create"} => r.sub \in DOMAIN confirmed'
      /\ \A r \in calls' : r.is \in WorkKinds => r \in others
  BY <1>2, KeepsRest
<1>4. Work(calls', epoch') = Work(calls, epoch) /\ Finds(calls', epoch') = Finds(calls, epoch)
  <2>1. ASSUME NEW r, r.is \in WorkKinds, r.epoch = epoch PROVE r \in calls' <=> r \in calls
    BY <2>1, <1>3 DEF OnlyScreens, Idle
  <2> QED BY <2>1 DEF Work, Finds, WorkKinds
<1>5. Sought(calls', epoch') = Sought(calls, epoch)
  BY <1>4 DEF Sought
<1>6. /\ Len(pile') = Len(pile) /\ DOMAIN pile' = 1..Len(pile) /\ DOMAIN pile = 1..Len(pile)
      /\ Len(pile) \in Nat
      /\ \A i \in 1..Len(pile) : /\ pile'[i].kind = pile[i].kind
                                 /\ pile[i].kind \in Composers => pile'[i] = pile[i]
  BY <1>1 DEF InPlace
<1>7. BusyOnTop(pile')
  BY <1>6 DEF FormInv, BusyOnTop
<1>8. \A r \in Work(calls, epoch) : SentByTop(r, pile)' /\ NotStarted(r, created)'
  <2> TAKE r \in Work(calls, epoch)
  <2>1. SentByTop(r, pile) /\ NotStarted(r, created)
    BY DEF FormInv
  <2>2. Len(pile) > 0 /\ Len(pile) \in 1..Len(pile)
    BY <1>6, <2>1 DEF SentByTop
  <2>3. pile' # <<>> /\ pile'[Len(pile')] = pile[Len(pile)]
    BY <1>6, <2>1, <2>2 DEF SentByTop
  <2>4. SentByTop(r, pile)'
    BY <2>1, <2>3 DEF SentByTop
  <2> QED BY <2>1, <2>4 DEF NotStarted
<1>9. pile' # <<>> => Resolves(pile[AtTop], calls, epoch, confirmed)'
  <2> SUFFICES ASSUME pile' # <<>> PROVE Resolves(pile[AtTop], calls, epoch, confirmed)'
    OBVIOUS
  <2>1. Len(pile) > 0 /\ Len(pile) \in 1..Len(pile) /\ pile # <<>>
    BY <1>6
  <2>2. Resolves(pile[Len(pile)], calls, epoch, confirmed)
    BY <2>1 DEF FormInv, AtTop
  <2>3. pile'[AtTop'].kind = pile[Len(pile)].kind /\
        (pile[Len(pile)].kind = "form" => pile'[AtTop'] = pile[Len(pile)])
    BY <1>6, <2>1 DEF AtTop, Composers
  <2> QED BY <1>5, <2>2, <2>3 DEF Resolves
<1>10. OneEach(Work(calls', epoch')) /\ StartedAsConfirmed' /\
       \A k \in DOMAIN created' : created'[k].sub \in DOMAIN confirmed'
  BY <1>4 DEF FormInv, StartedAsConfirmed
<1> QED BY <1>3, <1>4, <1>7, <1>8, <1>9, <1>10 DEF FormInv

\* A step after which no composer is busy.
LEMMA NobodyWaits ==
  ASSUME FormInv, NoneBusy(pile'), pile' \in Seq(PileScreen),
         \A r \in calls' : /\ r.epoch <= epoch' /\ (r.at = "sent" => r.epoch = epoch')
                           /\ r.is \in {"find", "create"} => r.sub \in DOMAIN confirmed',
         \A r \in calls' : ~(r.is \in WorkKinds /\ r.epoch = epoch'),
         UNCHANGED <<created, confirmed>>
  PROVE  FormInv'
<1>1. Work(calls', epoch') = {}
  BY DEF Work, WorkKinds
<1>2. BusyOnTop(pile')
  BY DEF BusyOnTop, NoneBusy
<1>3. pile' # <<>> => Resolves(pile[AtTop], calls, epoch, confirmed)'
  BY DEF Resolves, NoneBusy, Composers, AtTop
<1>4. OneEach(Work(calls', epoch')) /\ StartedAsConfirmed' /\
       \A k \in DOMAIN created' : created'[k].sub \in DOMAIN confirmed'
  BY <1>1 DEF FormInv, StartedAsConfirmed, OneEach
<1> QED BY <1>1, <1>2, <1>3, <1>4 DEF FormInv

LEMMA StillNobodyBusy ==
  ASSUME NEW s \in Seq(PileScreen), NEW t, NoneBusy(s), InPlace(s, t)
  PROVE  NoneBusy(t)
BY DEF NoneBusy, InPlace

LEMMA ReadyFor ==
  ASSUME InboxInv, NEW others \in SUBSET calls, NEW w, wanted \subseteq w
  PROVE  Ready(pile, others, w, nextCall)
BY DEF InboxInv, InboxTypeOK, Ready, GoodCalls, CallOK

\* What is left to show of a step that only has to do with screens.
LEMMA OnScreens ==
  ASSUME InboxInv, FormInv', NEW s, NEW others, OnlyScreens(s, others, wanted'),
         UNCHANGED <<epoch, website, confirmed>>, paused' \in BOOLEAN,
         wanted \subseteq wanted', wanted' \subseteq Convs
  PROVE  InboxInv'
<1>1. InboxTypeOK /\ alerts.viewed <= alerts.all /\ told \subseteq wanted
  BY DEF InboxInv
<1>2. alerts' = alerts /\ told' = told /\ created' = created
  BY DEF website
<1>3. GoodPile(pile', alerts'.viewed, nextCall') /\ GoodCalls(calls', wanted', alerts'.viewed, nextCall')
  BY <1>2 DEF OnlyScreens
<1>4. InboxTypeOK'
  <2>1. pile' \in Seq(PileScreen) /\ calls' \subseteq Call /\ nextCall' \in 1..(MaxLoadId + 1)
    BY DEF OnlyScreens, GoodPile, GoodCalls
  <2> QED BY <1>1, <1>2, <2>1 DEF InboxTypeOK, PileScreen
<1> QED BY <1>1, <1>2, <1>3, <1>4 DEF InboxInv

LEMMA ScreensStep ==
  ASSUME InboxInv, NEW s, NEW others, OnlyScreens(s, others, wanted'), InPlace(pile, s),
         others \subseteq calls, Idle(calls \ others),
         UNCHANGED <<epoch, website, confirmed>>, paused' \in BOOLEAN,
         wanted \subseteq wanted', wanted' \subseteq Convs
  PROVE  InboxInv'
<1>1. FormInv /\ pile \in Seq(PileScreen) /\ epoch \in Nat
  BY DEF InboxInv, GoodPile, InboxTypeOK
<1>2. FormInv'
  BY <1>1, ComposersStay DEF website
<1> QED BY <1>2, OnScreens

LEMMA IdleStep ==
  ASSUME InboxInv, NEW s \in Seq(PileScreen), NEW others, OnlyScreens(s, others, wanted'),
         NoneBusy(s), others \subseteq calls, Idle(others),
         UNCHANGED <<epoch, website, confirmed>>, paused' \in BOOLEAN,
         wanted \subseteq wanted', wanted' \subseteq Convs
  PROVE  InboxInv'
<1>1. FormInv /\ epoch \in Nat
  BY DEF InboxInv, InboxTypeOK
<1>2. FormRest(others)
  BY <1>1 DEF FormInv, FormRest
<1>3. /\ \A r \in calls' : /\ r.epoch <= epoch' /\ (r.at = "sent" => r.epoch = epoch')
                           /\ r.is \in {"find", "create"} => r.sub \in DOMAIN confirmed'
      /\ \A r \in calls' : r.is \in WorkKinds => r \in others
  BY <1>1, <1>2, KeepsRest
<1>4. \A r \in calls' : ~(r.is \in WorkKinds /\ r.epoch = epoch')
  BY <1>3 DEF Idle
<1>5. pile' \in Seq(PileScreen) /\ InPlace(s, pile')
  BY DEF OnlyScreens, GoodPile
<1>6. NoneBusy(pile')
  BY <1>5, StillNobodyBusy
<1>7. FormInv'
  BY <1>1, <1>3, <1>4, <1>5, <1>6, NobodyWaits DEF website
<1> QED BY <1>7, OnScreens

LEMMA PileFacts ==
  ASSUME InboxInv
  PROVE  /\ pile \in Seq(PileScreen) /\ AtTop \in Nat /\ DOMAIN pile = 1..AtTop
         /\ AtTop = Len(pile) /\ GoodPile(pile, alerts.viewed, nextCall)
         /\ \A i \in DOMAIN pile : pile[i] \in PileScreen
                                   /\ AlertsOK(pile[i], alerts.viewed, nextCall)
         /\ nextCall \in Nat /\ alerts.viewed \in Nat /\ alerts.all \in Nat
         /\ paused \in BOOLEAN /\ wanted \subseteq Convs /\ FormInv
BY InboxAssumption DEF InboxInv, InboxTypeOK, AtTop, GoodPile

\* The top screen changes and stays what it is.
LEMMA TopChanges ==
  ASSUME InboxInv, AtTop > 0, pile[AtTop].kind \notin Composers,
         NEW t \in PileScreen, t.kind = pile[AtTop].kind, AlertsOK(t, alerts.viewed, nextCall),
         NEW w, wanted \subseteq w
  PROVE  /\ Ready([pile EXCEPT ![AtTop] = t], calls, w, nextCall)
         /\ InPlace(pile, [pile EXCEPT ![AtTop] = t])
<1>1. pile \in Seq(PileScreen) /\ AtTop \in DOMAIN pile
      /\ GoodPile(pile, alerts.viewed, nextCall)
  BY PileFacts
<1>2. GoodPile([pile EXCEPT ![AtTop] = t], alerts.viewed, nextCall)
  BY <1>1, PutGood
<1>3. InPlace(pile, [pile EXCEPT ![AtTop] = t])
  BY <1>1, InPlaceOne
<1>4. Ready(pile, calls, w, nextCall)
  BY ReadyFor
<1> QED BY <1>2, <1>3, <1>4 DEF Ready

LEMMA SwitchInboxTabStep ==
  ASSUME InboxInv, NEW tab \in Tabs, SwitchInboxTab(tab)
  PROVE  InboxInv'
<1> DEFINE old == pile[AtTop]
           ib == [old EXCEPT !.tab = tab]
           left == [ib EXCEPT !.viewed = FALSE, !.pending = FALSE, !.viewId = 0]
           t == IF tab = "alerts" THEN ib ELSE left
<1>1. TopIs("inbox") /\ MarkAlertsViewed([pile EXCEPT ![AtTop] = t], calls, nextCall)
      /\ UNCHANGED <<epoch, paused, website, member>>
  BY DEF SwitchInboxTab
<1>2. AtTop > 0 /\ AtTop \in DOMAIN pile /\ old.kind = "inbox" /\ old \in PileScreen
      /\ AlertsOK(old, alerts.viewed, nextCall)
  BY <1>1, PileFacts DEF TopIs
<1>3. old \in InboxScreen
  BY <1>2, KindsOf
<1>4. "inbox" \notin Composers /\ 0 \in LoadId
  BY InboxAssumption DEF Composers, LoadId
<1> HIDE DEF old
<1>5. ib \in InboxScreen /\ ib.alerts = old.alerts /\ ib.viewed = old.viewed
      /\ ib.pending = old.pending /\ ib.viewId = old.viewId
  BY <1>3 DEF InboxScreen
<1> HIDE DEF ib
<1>6. left \in InboxScreen /\ left.viewed = FALSE /\ left.pending = FALSE
      /\ left.alerts = old.alerts
  BY <1>4, <1>5 DEF InboxScreen
<1> HIDE DEF left
<1>7. t \in InboxScreen /\ AlertsOK(t, alerts.viewed, nextCall)
  BY <1>2, <1>5, <1>6 DEF AlertsOK
<1> HIDE DEF t
<1>8. t \in PileScreen /\ t.kind = old.kind
  BY <1>2, <1>7, InboxChanges
<1>9. /\ Ready([pile EXCEPT ![AtTop] = t], calls, wanted, nextCall)
      /\ InPlace(pile, [pile EXCEPT ![AtTop] = t])
  BY <1>2, <1>4, <1>7, <1>8, TopChanges DEF old
<1>10. OnlyScreens([pile EXCEPT ![AtTop] = t], calls, wanted)
  BY <1>1, <1>9, MarksAlerts
<1> QED BY <1>1, <1>9, <1>10, PileFacts, ScreensStep DEF member, Idle

LEMMA StayOnAlertsStep ==
  ASSUME InboxInv, StayOnAlerts
  PROVE  InboxInv'
<1>1. MarkAlertsViewed(pile, calls, nextCall) /\ UNCHANGED <<epoch, paused, website, member>>
  BY DEF StayOnAlerts
<1>2. Ready(pile, calls, wanted, nextCall)
  BY ReadyFor
<1>3. OnlyScreens(pile, calls, wanted)
  BY <1>1, <1>2, MarksAlerts
<1> QED BY <1>1, <1>3, PileFacts, InPlaceNone, ScreensStep DEF member, Idle

LEMMA OpenInboxStep ==
  ASSUME InboxInv, NEW tab \in Tabs, OpenInbox(tab)
  PROVE  InboxInv'
<1> USE InboxAssumption
<1> DEFINE fresh == InboxOn(tab)
           ib == [fresh EXCEPT !.convos.load = nextCall, !.alerts.load = nextCall + 1]
           others == calls \cup {NewCall("convos", nextCall), NewCall("alerts", nextCall + 1)}
           s == Append(pile, ib)
<1>1. /\ ~NavigationBlocked /\ nextCall < MaxLoadId
      /\ MarkAlertsViewed(s, others, nextCall + 2)
      /\ UNCHANGED <<epoch, paused, website, member>>
  BY DEF OpenInbox
<1>2. /\ nextCall \in LoadId /\ nextCall + 1 \in LoadId /\ nextCall \in Nat /\ 0 < nextCall
      /\ nextCall + 2 \in 1..(MaxLoadId + 1)
  BY <1>1, PileFacts DEF LoadId, InboxInv, InboxTypeOK
<1>3. fresh \in InboxScreen /\ fresh.viewed = FALSE /\ fresh.pending = FALSE /\ fresh.alerts.held = 0
  BY InboxNewScreens DEF InboxOn
<1> HIDE DEF fresh
<1>4. /\ ib \in InboxScreen /\ ib.viewed = FALSE /\ ib.pending = FALSE
      /\ ib.alerts.held = 0
  <2> DEFINE cs == [fresh.convos EXCEPT !.load = nextCall]
             al == [fresh.alerts EXCEPT !.load = nextCall + 1]
  <2>1. fresh.convos \in ConvosPart /\ fresh.alerts \in AlertsPart
    BY <1>3, InboxChanges
  <2>2. cs \in ConvosPart /\ al \in AlertsPart /\ al.held = 0
    BY <1>2, <1>3, <2>1 DEF ConvosPart, AlertsPart
  <2>3. ib = [[fresh EXCEPT !.convos = cs] EXCEPT !.alerts = al]
    BY <1>3 DEF InboxScreen
  <2> HIDE DEF cs, al
  <2> DEFINE one == [fresh EXCEPT !.convos = cs]
  <2>4. one \in InboxScreen
    BY <1>3, <2>2, InboxChanges
  <2>5. one.viewed = FALSE /\ one.pending = FALSE
    BY <1>3 DEF InboxScreen
  <2>6. ib = [one EXCEPT !.alerts = al]
    BY <2>3
  <2> HIDE DEF ib, one
  <2>7. ib \in InboxScreen
    BY <2>2, <2>4, <2>6, InboxChanges
  <2>8. ib.viewed = FALSE /\ ib.pending = FALSE /\ ib.alerts = al
    BY <2>4, <2>5, <2>6 DEF InboxScreen
  <2> QED BY <2>2, <2>7, <2>8
<1> HIDE DEF ib
<1>5. ib \in PileScreen /\ ib.kind = "inbox" /\ AlertsOK(ib, alerts.viewed, nextCall)
  BY <1>2, <1>4, InboxChanges DEF AlertsOK
<1>6. GoodPile(s, alerts.viewed, nextCall)
  BY <1>5, PileFacts, PushGood
<1>7. GoodPile(s, alerts.viewed, nextCall + 2)
  <2>1. nextCall + 2 \in Nat /\ nextCall <= nextCall + 2
    BY <1>2
  <2>2. alerts.viewed \in Nat /\ alerts.viewed <= alerts.viewed
    BY PileFacts
  <2> HIDE InboxAssumption DEF s
  <2> QED BY <1>2, <1>6, <2>1, <2>2, LaterGood
<1>8. GoodCalls(others, wanted, alerts.viewed, nextCall + 2)
  <2> DEFINE a == NewCall("convos", nextCall)
             b == NewCall("alerts", nextCall + 1)
  <2>1. a \in Call /\ b \in Call
    BY <1>2, CallsMade DEF InboxInv
  <2>2. /\ a.id = nextCall /\ b.id = nextCall + 1 /\ a.is = "convos" /\ b.is = "alerts"
        /\ a.at = "sent" /\ b.at = "sent" /\ ~a.beyond /\ ~b.beyond
    BY CallFields
  <2> HIDE DEF a, b
  <2>3. CallOK(a, wanted) /\ CallOK(b, wanted)
    BY <2>2 DEF CallOK
  <2>4. GoodCalls(calls \cup {a}, wanted, alerts.viewed, nextCall + 1)
    BY <1>2, <2>1, <2>2, <2>3, OneMoreCall DEF InboxInv
  <2>5. GoodCalls((calls \cup {a}) \cup {b}, wanted, alerts.viewed, nextCall + 2)
    BY <1>2, <2>1, <2>2, <2>3, <2>4, OneMoreCall
  <2>6. others = (calls \cup {a}) \cup {b}
    BY DEF a, b
  <2> QED BY <2>5, <2>6
<1>9. Ready(s, others, wanted, nextCall + 2)
  BY <1>2, <1>7, <1>8 DEF Ready, InboxInv
<1>10. OnlyScreens(s, others, wanted)
  BY <1>1, <1>9, MarksAlerts
<1>11. NoneBusy(pile) /\ Idle(calls)
  BY <1>1, PileFacts, NobodyBusy
<1>12. NoneBusy(s) /\ s \in Seq(PileScreen)
  <2>1. \A i \in DOMAIN s : s[i] = ib \/ (i \in DOMAIN pile /\ s[i] = pile[i])
    BY PileFacts, <1>5
  <2> QED BY <1>5, <1>6, <1>11, <2>1 DEF NoneBusy, GoodPile, Composers
<1>13. OnlyScreens(s, calls, wanted)
  <2>1. /\ calls \subseteq others
        /\ \A r \in others \ calls : /\ r.is \notin {"find", "create", "reply"}
                                     /\ r.epoch = epoch /\ r.at = "sent"
    BY CallFields
  <2> HIDE DEF others, s
  <2> QED BY <1>10, <2>1 DEF OnlyScreens
<1> QED BY <1>1, <1>11, <1>12, <1>13, PileFacts, IdleStep DEF member

LEMMA ReloadListStep ==
  ASSUME InboxInv, NEW which \in {"convos", "alerts"}, ReloadList(which)
  PROVE  InboxInv'
<1>1. LoadList(pile, calls, which) /\ UNCHANGED <<epoch, paused, website, member>>
  BY DEF ReloadList
<1>2. Ready(pile, calls, wanted, nextCall)
  BY ReadyFor
<1>3. OnlyScreens(pile, calls, wanted)
  BY <1>1, <1>2, LoadsList
<1> QED BY <1>1, <1>3, PileFacts, InPlaceNone, ScreensStep DEF member, Idle

\* Where the screen on top is no composer that waits, none waits.
LEMMA TopWaitsNot ==
  ASSUME InboxInv, \/ \E kind \in {"inbox", "view", "other"} : TopIs(kind)
                   \/ AtTop > 0 /\ pile[AtTop].kind \in Composers /\ ~pile[AtTop].busy
                   \/ ~NavigationBlocked
  PROVE  NoneBusy(pile) /\ Idle(calls)
BY PileFacts, NobodyBusy DEF TopIs, Composers

LEMMA PushIdle ==
  ASSUME NEW s \in Seq(PileScreen), NoneBusy(s), NEW t \in PileScreen,
         t.kind \in Composers => ~t.busy
  PROVE  NoneBusy(Append(s, t)) /\ Append(s, t) \in Seq(PileScreen)
<1>1. \A i \in DOMAIN Append(s, t) : Append(s, t)[i] = t \/ (i \in DOMAIN s /\ Append(s, t)[i] = s[i])
  OBVIOUS
<1> QED BY <1>1 DEF NoneBusy

LEMMA OpenConversationStep ==
  ASSUME InboxInv, NEW c \in Convs, NEW dual \in BOOLEAN, OpenConversation(c, dual)
  PROVE  InboxInv'
<1>1. /\ TopIs("inbox") /\ OpenOn(pile, calls, c, dual) /\ wanted' = wanted \cup {c}
      /\ UNCHANGED <<epoch, paused, website, confirmed>>
  BY DEF OpenConversation
<1>2. Ready(pile, calls, wanted', nextCall)
  BY <1>1, ReadyFor
<1>3. \/ OnlyScreens(pile, calls, wanted')
      \/ OnlyScreens(Append(pile, ConvView(c)), calls, wanted')
  BY <1>1, <1>2, OpensConversation
<1>4. paused' \in BOOLEAN /\ wanted \subseteq wanted' /\ wanted' \subseteq Convs
  BY <1>1, PileFacts
<1>5. CASE OnlyScreens(pile, calls, wanted')
  BY <1>1, <1>4, <1>5, PileFacts, InPlaceNone, ScreensStep DEF Idle
<1>6. CASE OnlyScreens(Append(pile, ConvView(c)), calls, wanted')
  <2> DEFINE v == ConvView(c)
  <2>1. NoneBusy(pile) /\ Idle(calls)
    BY <1>1, TopWaitsNot
  <2>2. v \in PileScreen /\ v.kind \notin Composers
    BY InboxNewScreens DEF ConvView, PileScreen, Composers
  <2> HIDE DEF v
  <2>3. NoneBusy(Append(pile, v)) /\ Append(pile, v) \in Seq(PileScreen)
    BY <2>1, <2>2, PileFacts, PushIdle
  <2> QED BY <1>1, <1>4, <1>6, <2>1, <2>3, IdleStep DEF v
<1> QED BY <1>3, <1>5, <1>6

LEMMA TurnMessagesStep ==
  ASSUME InboxInv, TurnMessages
  PROVE  InboxInv'
<1> DEFINE v == ViewOf(pile[AtTop])
<1>1. /\ TopIs("inbox") \/ TopIs("view")
      /\ v.conv # NoOne /\ LoadConversation(pile, calls, v.conv, TRUE, FALSE)
      /\ wanted' = wanted \cup {v.conv}
      /\ UNCHANGED <<epoch, paused, website, confirmed>>
  BY DEF TurnMessages
<1>2. v \in ViewScreen
  <2>1. pile[AtTop] \in PileScreen /\ pile[AtTop].kind \in {"inbox", "view"}
    BY <1>1, PileFacts DEF TopIs
  <2> QED BY <2>1, InboxNewScreens, ShownIn
<1>3. v.conv \in Convs
  BY <1>1, <1>2 DEF ViewScreen
<1> HIDE DEF v
<1>4. Ready(pile, calls, wanted', nextCall)
  BY <1>1, ReadyFor
<1>5. OnlyScreens(pile, calls, wanted')
  BY <1>1, <1>3, <1>4, LoadsConversation
<1>6. paused' \in BOOLEAN /\ wanted \subseteq wanted' /\ wanted' \subseteq Convs
  BY <1>1, <1>3, PileFacts
<1> QED BY <1>1, <1>5, <1>6, PileFacts, InPlaceNone, ScreensStep DEF Idle

\* A request is sent, and no screen is touched.
LEMMA SendsOne ==
  ASSUME InboxInv, NEW w, wanted \subseteq w, NEW r \in Call, r.id = 0, CallOK(r, w),
         r.at = "sent", r.epoch = epoch, r.is \notin WorkKinds,
         pile' = pile, calls' = calls \cup {r}, nextCall' = nextCall
  PROVE  OnlyScreens(pile, calls, w)
<1>1. Ready(pile, calls, w, nextCall)
  BY ReadyFor
<1>2. nextCall \in Nat /\ 0 < nextCall /\ nextCall <= nextCall
  BY InboxAssumption DEF InboxInv, InboxTypeOK
<1>3. GoodCalls(calls \cup {r}, w, alerts.viewed, nextCall)
  BY <1>1, <1>2, OneMoreCall DEF Ready
<1>4. InPlace(pile, pile)
  BY PileFacts, InPlaceNone
<1> QED BY <1>1, <1>3, <1>4 DEF OnlyScreens, Ready, WorkKinds

LEMMA MarkConversationReadStep ==
  ASSUME InboxInv, NEW c \in Convs, MarkConversationRead(c)
  PROVE  InboxInv'
<1> DEFINE r == CallAbout("mark", c)
<1>1. /\ calls' = calls \cup {r} /\ wanted' = wanted \cup {c}
      /\ UNCHANGED <<pile, nextCall, epoch, paused, website, confirmed>>
  BY DEF MarkConversationRead
<1>2. r \in Call
  BY InboxAssumption, CallsMade DEF InboxInv, LoadId
<1>3. r.id = 0 /\ r.at = "sent" /\ r.epoch = epoch /\ r.is = "mark" /\ r.about = c /\ ~r.beyond
  BY CallFields
<1> HIDE DEF r
<1>4. CallOK(r, wanted') /\ r.is \notin WorkKinds
  BY <1>1, <1>3 DEF CallOK, WorkKinds
<1>5. OnlyScreens(pile, calls, wanted')
  BY <1>1, <1>2, <1>3, <1>4, SendsOne
<1>6. paused' \in BOOLEAN /\ wanted \subseteq wanted' /\ wanted' \subseteq Convs
  BY <1>1, PileFacts
<1> QED BY <1>1, <1>5, <1>6, PileFacts, InPlaceNone, ScreensStep DEF Idle

LEMMA MarkAlertReadStep ==
  ASSUME InboxInv, MarkAlertRead
  PROVE  InboxInv'
<1> DEFINE r == NewCall("alert", 0)
<1>1. /\ calls' = calls \cup {r}
      /\ UNCHANGED <<pile, nextCall, epoch, paused, website, member>>
  BY DEF MarkAlertRead
<1>2. r \in Call
  BY InboxAssumption, CallsMade DEF InboxInv, LoadId
<1>3. r.id = 0 /\ r.at = "sent" /\ r.epoch = epoch /\ r.is = "alert" /\ ~r.beyond
  BY CallFields
<1> HIDE DEF r
<1>4. CallOK(r, wanted) /\ r.is \notin WorkKinds
  BY <1>3 DEF CallOK, WorkKinds
<1>5. OnlyScreens(pile, calls, wanted)
  BY <1>1, <1>2, <1>3, <1>4, SendsOne
<1> QED BY <1>1, <1>5, PileFacts, InPlaceNone, ScreensStep DEF Idle, member

\* A screen that sends nothing is put on a stack on which nobody waits.
LEMMA PutOnTop ==
  ASSUME InboxInv, NoneBusy(pile), Idle(calls), NEW s, GoodPile(s, alerts.viewed, nextCall),
         NoneBusy(s), NEW t \in PileScreen, t.kind # "inbox", t.kind \in Composers => ~t.busy,
         pile' = Append(s, t), UNCHANGED <<calls, nextCall, epoch, paused, website, member>>
  PROVE  InboxInv'
<1>1. GoodPile(Append(s, t), alerts.viewed, nextCall)
  <2>1. AlertsOK(t, alerts.viewed, nextCall)
    BY DEF AlertsOK
  <2> QED BY <2>1, PushGood
<1>2. NoneBusy(Append(s, t)) /\ Append(s, t) \in Seq(PileScreen)
  BY PushIdle DEF GoodPile
<1>3. Ready(Append(s, t), calls, wanted, nextCall)
  BY <1>1, ReadyFor DEF Ready
<1>4. OnlyScreens(Append(s, t), calls, wanted)
  BY <1>3, LoadsNothing
<1> QED BY <1>2, <1>4, PileFacts, IdleStep DEF member

LEMMA OpenElsewhereStep ==
  ASSUME InboxInv, OpenElsewhere
  PROVE  InboxInv'
<1>1. /\ ~NavigationBlocked /\ pile' = Append(pile, AnyScreen)
      /\ UNCHANGED <<calls, nextCall, epoch, paused, website, member>>
  BY DEF OpenElsewhere
<1>2. NoneBusy(pile) /\ Idle(calls)
  BY <1>1, TopWaitsNot
<1>3. AnyScreen \in PileScreen /\ AnyScreen.kind = "other"
  BY DEF PileScreen, AnyScreen
<1> QED BY <1>1, <1>2, <1>3, PileFacts, PutOnTop DEF Composers

LEMMA StartFormStep ==
  ASSUME InboxInv, StartForm
  PROVE  InboxInv'
<1>1. NoneBusy(pile) /\ Idle(calls)
  BY TopWaitsNot DEF StartForm
<1>2. EmptyForm \in PileScreen /\ EmptyForm.kind = "form" /\ ~EmptyForm.busy
  BY InboxNewScreens DEF PileScreen, EmptyForm
<1>3. /\ pile' = Append(pile, EmptyForm)
      /\ UNCHANGED <<calls, nextCall, epoch, paused, website, member>>
  BY DEF StartForm
<1> QED BY <1>1, <1>2, <1>3, PileFacts, PutOnTop DEF Composers

\* What is left of the stack.
LEMMA LeaveScreenStep ==
  ASSUME InboxInv, LeaveScreen
  PROVE  InboxInv'
<1> DEFINE s == SubSeq(pile, 1, AtTop - 1)
<1>1. /\ ~NavigationBlocked /\ AtTop > 0 /\ pile' = s
      /\ UNCHANGED <<calls, nextCall, epoch, paused, website, member>>
  BY DEF LeaveScreen
<1>2. NoneBusy(pile) /\ Idle(calls)
  BY <1>1, TopWaitsNot
<1>3. AtTop - 1 \in 0..Len(pile)
  BY <1>1, PileFacts
<1>4. /\ GoodPile(s, alerts.viewed, nextCall)
      /\ Len(s) = AtTop - 1 /\ \A i \in 1..(AtTop - 1) : s[i] = pile[i]
  BY <1>3, PileFacts, FrontGood
<1> HIDE DEF s
<1>5. s \in Seq(PileScreen) /\ DOMAIN s = 1..(AtTop - 1) /\ \A i \in DOMAIN s : i \in DOMAIN pile
  BY <1>3, <1>4, PileFacts DEF GoodPile
<1>6. NoneBusy(s)
  BY <1>2, <1>4, <1>5 DEF NoneBusy
<1>7. Ready(s, calls, wanted, nextCall)
  BY <1>4, ReadyFor DEF Ready
<1>8. OnlyScreens(s, calls, wanted)
  BY <1>1, <1>7, LoadsNothing
<1> QED BY <1>1, <1>2, <1>5, <1>6, <1>8, PileFacts, IdleStep DEF member

LEMMA WithoutOne ==
  ASSUME InboxInv, NEW n \in DOMAIN pile
  PROVE  /\ GoodPile(PileWithout(n), alerts.viewed, nextCall)
         /\ Len(PileWithout(n)) = AtTop - 1
         /\ \A k \in DOMAIN PileWithout(n) :
              \E i \in DOMAIN pile : i # n /\ PileWithout(n)[k] = pile[i]
<1>1. AtTop \in Nat /\ AtTop - 1 \in Nat /\ DOMAIN pile = 1..AtTop
      /\ \A i \in 1..AtTop : pile[i] \in PileScreen /\ AlertsOK(pile[i], alerts.viewed, nextCall)
  BY PileFacts
<1> DEFINE s == PileWithout(n)
<1>2. \A k \in 1..(AtTop - 1) :
        /\ s[k] = IF k < n THEN pile[k] ELSE pile[k + 1]
        /\ k \in 1..AtTop /\ k + 1 \in 1..AtTop
  BY <1>1 DEF PileWithout
<1>3. DOMAIN s = 1..(AtTop - 1)
  BY DEF PileWithout
<1>4. s = [k \in 1..(AtTop - 1) |-> s[k]]
  BY DEF PileWithout
<1> HIDE DEF s
<1>5. \A k \in 1..(AtTop - 1) : \E i \in DOMAIN pile : i # n /\ s[k] = pile[i]
  <2> TAKE k \in 1..(AtTop - 1)
  <2>1. CASE k < n
    BY <1>1, <1>2, <2>1
  <2>2. CASE ~(k < n)
    <3>1. k + 1 \in DOMAIN pile /\ k + 1 # n /\ s[k] = pile[k + 1]
      BY <1>1, <1>2, <2>2
    <3> QED BY <3>1
  <2> QED BY <2>1, <2>2
<1>6. \A k \in 1..(AtTop - 1) : s[k] \in PileScreen /\ AlertsOK(s[k], alerts.viewed, nextCall)
  BY <1>1, <1>5
<1>7. s \in Seq(PileScreen) /\ Len(s) = AtTop - 1
  BY <1>1, <1>3, <1>4, <1>6
<1>8. GoodPile(s, alerts.viewed, nextCall)
  BY <1>3, <1>6, <1>7 DEF GoodPile
<1> QED BY <1>3, <1>5, <1>7, <1>8 DEF s

LEMMA StartReplyStep ==
  ASSUME InboxInv, NEW c \in Convs, StartReply(c)
  PROVE  InboxInv'
<1> DEFINE S == RepliesTo(c)
           rest == IF S = {} THEN pile ELSE PileWithout(Upmost(S))
<1>1. /\ TopIs("inbox") \/ TopIs("view")
      /\ pile' = Append(rest, ReplyTo(c))
      /\ UNCHANGED <<calls, nextCall, epoch, paused, website, member>>
  BY DEF StartReply
<1>2. NoneBusy(pile) /\ Idle(calls)
  BY <1>1, TopWaitsNot
<1>3. GoodPile(rest, alerts.viewed, nextCall) /\ NoneBusy(rest)
  <2>1. CASE S = {}
    BY <1>2, <2>1, PileFacts
  <2>2. CASE S # {}
    <3>1. S \in SUBSET (1..AtTop) /\ AtTop \in Nat /\ DOMAIN pile = 1..AtTop
      BY PileFacts DEF RepliesTo, Of
    <3>2. Upmost(S) \in DOMAIN pile
      BY <2>2, <3>1, UpmostIs
    <3>3. rest = PileWithout(Upmost(S))
      BY <2>2
    <3> HIDE DEF S, rest
    <3> QED BY <1>2, <3>2, <3>3, WithoutOne DEF NoneBusy
  <2> QED BY <2>1, <2>2
<1> HIDE DEF rest
<1>4. ReplyTo(c) \in PileScreen /\ ReplyTo(c).kind = "reply" /\ ~ReplyTo(c).busy
  BY InboxNewScreens DEF PileScreen, ReplyTo
<1> QED BY <1>1, <1>2, <1>3, <1>4, PutOnTop

\* The composer on top sends, and waits from now on.
LEMMA ComposerSends ==
  ASSUME FormInv, pile \in Seq(PileScreen), epoch \in Nat, NoneBusy(pile), Idle(calls),
         AtTop > 0, NEW t, t.kind \in Composers, t.busy, NEW sent,
         \A r \in sent :
           /\ r.epoch = epoch /\ r.at = "sent"
           /\ \/ r.is = "reply" /\ t.kind = "reply" /\ t.conv = r.about
              \/ /\ r.is = "find" /\ t.kind = "form" /\ t.sub = r.sub
                 /\ r.sub \in DOMAIN confirmed'
                 /\ \A j \in DOMAIN created : created[j].sub # r.sub,
         OneEach(sent),
         t.kind = "form" =>
           /\ t.sub \in DOMAIN confirmed' /\ t.resolving = Cardinality({r.about : r \in sent})
           /\ t.ids = {} /\ {r.about : r \in sent} = confirmed'[t.sub],
         \A k \in DOMAIN confirmed : k \in DOMAIN confirmed' /\ confirmed'[k] = confirmed[k],
         pile' = [pile EXCEPT ![AtTop] = t], calls' = calls \cup sent,
         UNCHANGED <<epoch, created>>
  PROVE  FormInv'
<1>1. /\ Len(pile) \in Nat /\ DOMAIN pile = 1..Len(pile) /\ Len(pile) \in DOMAIN pile
      /\ pile' # <<>> /\ Len(pile') = Len(pile) /\ DOMAIN pile' = 1..Len(pile)
      /\ pile'[Len(pile)] = t /\ \A i \in DOMAIN pile : i # Len(pile) => pile'[i] = pile[i]
  BY DEF AtTop
<1>2. BusyOnTop(pile')
  BY <1>1 DEF NoneBusy, BusyOnTop
<1>3. \A r \in calls' : /\ r.epoch <= epoch' /\ (r.at = "sent" => r.epoch = epoch')
                        /\ r.is \in {"find", "create"} => r.sub \in DOMAIN confirmed'
  <2> TAKE r \in calls'
  <2>1. CASE r \in calls
    BY <2>1 DEF FormInv
  <2>2. CASE r \in sent
    BY <2>2
  <2> QED BY <2>1, <2>2
<1>4. Work(calls', epoch') = sent
  BY DEF Work, Idle, WorkKinds
<1>5. t.kind = "form" => Finds(calls', epoch') = sent
  BY <1>4 DEF Work, Finds
<1>6. \A r \in sent : SentByTop(r, pile)' /\ NotStarted(r, created)'
  BY <1>1 DEF SentByTop, NotStarted
<1>7. Resolves(pile[AtTop], calls, epoch, confirmed)'
  BY <1>1, <1>5 DEF Resolves, Sought, AtTop
<1>8. StartedAsConfirmed' /\ \A k \in DOMAIN created' : created'[k].sub \in DOMAIN confirmed'
  BY DEF FormInv, StartedAsConfirmed
<1> QED BY <1>2, <1>3, <1>4, <1>6, <1>7, <1>8 DEF FormInv

\* What a composer sends is as good as any request.
LEMMA SentIsGood ==
  ASSUME InboxInv, NEW w, wanted \subseteq w, NEW sent \in SUBSET Call,
         \A r \in sent : r.id = 0 /\ CallOK(r, w) /\ r.at = "sent"
  PROVE  GoodCalls(calls \cup sent, w, alerts.viewed, nextCall)
<1>1. GoodCalls(calls, w, alerts.viewed, nextCall)
  BY ReadyFor DEF Ready
<1>2. 0 < nextCall
  BY InboxAssumption DEF InboxInv, InboxTypeOK
<1> QED BY <1>1, <1>2 DEF GoodCalls, IdOK

\* A composer is changed where it stands.
LEMMA ComposerPut ==
  ASSUME InboxInv, NEW i \in DOMAIN pile, NEW t \in PileScreen, t.kind # "inbox"
  PROVE  GoodPile([pile EXCEPT ![i] = t], alerts.viewed, nextCall)
<1>1. AlertsOK(t, alerts.viewed, nextCall)
  BY DEF AlertsOK
<1> QED BY <1>1, PileFacts, PutGood

LEMMA SubmitReplyStep ==
  ASSUME InboxInv, SubmitReply
  PROVE  InboxInv'
<1> DEFINE old == pile[AtTop]
           t == [old EXCEPT !.busy = TRUE]
           r == CallAbout("reply", old.conv)
<1>1. /\ TopIs("reply") /\ ~old.busy
      /\ pile' = [pile EXCEPT ![AtTop].busy = TRUE] /\ calls' = calls \cup {r}
      /\ UNCHANGED <<nextCall, epoch, paused, website, member>>
  BY DEF SubmitReply
<1>2. /\ AtTop > 0 /\ AtTop \in DOMAIN pile /\ old \in PileScreen /\ old.kind = "reply"
      /\ pile \in Seq(PileScreen)
  BY <1>1, PileFacts DEF TopIs
<1>3. pile' = [pile EXCEPT ![AtTop] = t]
  BY <1>1, <1>2
<1>4. old \in ReplyScreen /\ NoneBusy(pile) /\ Idle(calls)
  BY <1>1, <1>2, KindsOf, TopWaitsNot DEF Composers
<1> HIDE DEF old
<1>5. t \in ReplyScreen /\ t.kind = "reply" /\ t.busy /\ t.conv = old.conv /\ old.conv \in Convs
  BY <1>4 DEF ReplyScreen
<1>6. t \in PileScreen
  BY <1>5 DEF PileScreen
<1> HIDE DEF t
<1>7. r \in Call
  BY <1>5, InboxAssumption, CallsMade DEF InboxInv, LoadId
<1>8. /\ r.id = 0 /\ r.at = "sent" /\ r.epoch = epoch /\ r.is = "reply" /\ r.about = old.conv
      /\ ~r.beyond /\ ~r.mark
  BY CallFields
<1> HIDE DEF r
<1>9. CallOK(r, wanted)
  BY <1>5, <1>8 DEF CallOK
<1>10. FormInv /\ epoch \in Nat
  BY DEF InboxInv, InboxTypeOK
<1>11. FormInv'
  <2>1. OneEach({r})
    BY DEF OneEach
  <2>2. t.kind \in Composers /\ t.kind # "form"
    BY <1>5 DEF Composers
  <2> DEFINE sent == {r}
  <2>3. \A q \in sent :
           /\ q.epoch = epoch /\ q.at = "sent"
           /\ \/ q.is = "reply" /\ t.kind = "reply" /\ t.conv = q.about
              \/ /\ q.is = "find" /\ t.kind = "form" /\ t.sub = q.sub
                 /\ q.sub \in DOMAIN confirmed'
                 /\ \A j \in DOMAIN created : created[j].sub # q.sub
    BY <1>5, <1>8
  <2>4. UNCHANGED <<epoch, created, confirmed>>
    BY <1>1 DEF website, member
  <2>5. \A k \in DOMAIN confirmed : k \in DOMAIN confirmed' /\ confirmed'[k] = confirmed[k]
    BY <2>4
  <2>6. OneEach(sent) /\ calls' = calls \cup sent
    BY <1>1, <2>1
  <2>7. AtTop > 0 /\ pile \in Seq(PileScreen) /\ t.busy
    BY <1>2, <1>5
  <2> HIDE DEF sent
  <2> QED BY <1>3, <1>4, <1>10, <2>2, <2>3, <2>4, <2>5, <2>6, <2>7, ComposerSends
<1>12. GoodPile(pile', alerts.viewed, nextCall)
  BY <1>2, <1>3, <1>5, <1>6, ComposerPut
<1>13. GoodCalls(calls', wanted, alerts.viewed, nextCall)
  BY <1>1, <1>7, <1>8, <1>9, SentIsGood
<1>14. alerts' = alerts /\ told' = told /\ wanted' = wanted /\ nextCall' = nextCall
  BY <1>1 DEF website, member
<1>15. InboxTypeOK'
  <2>1. pile' \in Seq(PileScreen) /\ calls' \subseteq Call
    BY <1>12, <1>13 DEF GoodPile, GoodCalls
  <2> QED BY <1>1, <2>1 DEF InboxInv, InboxTypeOK, PileScreen, website, member
<1> QED BY <1>11, <1>12, <1>13, <1>14, <1>15 DEF InboxInv

LEMMA SubmitStep ==
  ASSUME InboxInv, NEW names \in Names, Submit(names)
  PROVE  InboxInv'
<1> DEFINE k == Len(confirmed) + 1
           t == [EmptyForm EXCEPT !.busy = TRUE, !.sub = k, !.resolving = Cardinality(names)]
           sent == {[CallAbout("find", x) EXCEPT !.sub = k] : x \in names}
<1>1. /\ TopIs("form") /\ ~pile[AtTop].busy /\ Len(confirmed) < MaxSubmit
      /\ pile' = [pile EXCEPT ![AtTop] = t] /\ calls' = calls \cup sent
      /\ confirmed' = Append(confirmed, names)
      /\ UNCHANGED <<nextCall, epoch, paused, website, wanted>>
  BY DEF Submit
<1>2. /\ AtTop > 0 /\ AtTop \in DOMAIN pile /\ pile[AtTop].kind = "form"
      /\ pile \in Seq(PileScreen)
  BY <1>1, PileFacts DEF TopIs
<1>3. NoneBusy(pile) /\ Idle(calls)
  BY <1>1, <1>2, TopWaitsNot DEF Composers
<1>4. /\ confirmed \in Seq(Names) /\ Len(confirmed) \in Nat /\ DOMAIN confirmed = 1..Len(confirmed)
      /\ k \in 1..MaxSubmit
  BY <1>1, InboxAssumption DEF InboxInv, InboxTypeOK
<1>5. /\ confirmed' \in Seq(Names) /\ k \in DOMAIN confirmed' /\ confirmed'[k] = names
      /\ \A j \in DOMAIN confirmed : j \in DOMAIN confirmed' /\ confirmed'[j] = confirmed[j]
  BY <1>1, <1>4
<1>6. names \subseteq People /\ Cardinality(names) \in 0..Cardinality(People)
  <2>1. names \subseteq People
    BY DEF Names
  <2>2. Cardinality(names) <= Cardinality(People) /\ IsFiniteSet(names)
    BY <2>1, InboxAssumption, FS_Subset
  <2>3. Cardinality(names) \in Nat /\ Cardinality(People) \in Nat
    BY <2>2, InboxAssumption, FS_CardinalityType
  <2> QED BY <2>1, <2>2, <2>3
<1>7. k \notin DOMAIN confirmed
  BY <1>4
<1>8. k \in 0..MaxSubmit
  BY <1>4, InboxAssumption
<1>9. t \in FormScreen /\ t.kind = "form" /\ t.busy /\ t.sub = k /\ t.ids = {}
      /\ t.resolving = Cardinality(names)
  <2> DEFINE e == EmptyForm
             m == Cardinality(names)
  <2>1. e \in FormScreen /\ e.ids = {}
    BY InboxNewScreens DEF EmptyForm
  <2>2. m \in 0..Cardinality(People)
    BY <1>6
  <2>3. t = [e EXCEPT !.busy = TRUE, !.sub = k, !.resolving = m]
    OBVIOUS
  <2> HIDE DEF e, m, k, t
  <2>4. t \in FormScreen /\ t.kind = "form" /\ t.busy /\ t.sub = k /\ t.ids = {}
        /\ t.resolving = m
    BY <1>8, <2>1, <2>2, <2>3 DEF FormScreen
  <2> QED BY <2>4 DEF m
<1> HIDE DEF t, k
<1>10. t \in PileScreen
  BY <1>9 DEF PileScreen
<1>11. ASSUME NEW x \in names
       PROVE  LET r == [CallAbout("find", x) EXCEPT !.sub = k]
              IN /\ r \in Call /\ r.id = 0 /\ r.is = "find" /\ r.at = "sent" /\ r.epoch = epoch
                 /\ r.about = x /\ r.sub = k /\ ~r.beyond
  <2> DEFINE q == CallAbout("find", x)
  <2>1. q \in Call
    BY <1>6, InboxAssumption, CallsMade DEF InboxInv, LoadId
  <2>2. /\ q.id = 0 /\ q.is = "find" /\ q.at = "sent" /\ q.epoch = epoch /\ q.about = x /\ ~q.beyond
    BY CallFields
  <2> HIDE DEF q
  <2>4. [q EXCEPT !.sub = k] \in Call
    BY <1>8, <2>1 DEF Call
  <2>5. LET r == [q EXCEPT !.sub = k]
        IN /\ r.id = 0 /\ r.is = "find" /\ r.at = "sent" /\ r.epoch = epoch
           /\ r.about = x /\ r.sub = k /\ ~r.beyond
    BY <2>1, <2>2 DEF Call
  <2> QED BY <2>4, <2>5 DEF q
<1>12. \A r \in sent : /\ r \in Call /\ r.id = 0 /\ r.is = "find" /\ r.at = "sent"
                       /\ r.epoch = epoch /\ r.about \in names /\ r.sub = k /\ ~r.beyond
                       /\ r = [CallAbout("find", r.about) EXCEPT !.sub = k]
  <2> TAKE r \in sent
  <2>1. PICK x \in names : r = [CallAbout("find", x) EXCEPT !.sub = k]
    OBVIOUS
  <2> HIDE DEF sent
  <2> QED BY <1>11, <2>1
<1>13. {r.about : r \in sent} = names
  <2>1. \A x \in names : \E r \in sent : r.about = x
    BY <1>11
  <2> HIDE DEF sent
  <2> QED BY <1>12, <2>1
<1> HIDE DEF sent
<1>14. OneEach(sent)
  BY <1>12 DEF OneEach
<1>15. FormInv /\ epoch \in Nat
  BY DEF InboxInv, InboxTypeOK
<1>16. \A j \in DOMAIN created : created[j].sub # k
  BY <1>7, <1>15 DEF FormInv
<1>17. FormInv'
  <2>1. t.kind \in Composers
    BY <1>9 DEF Composers
  <2>2. \A r \in sent :
           /\ r.epoch = epoch /\ r.at = "sent"
           /\ \/ r.is = "reply" /\ t.kind = "reply" /\ t.conv = r.about
              \/ /\ r.is = "find" /\ t.kind = "form" /\ t.sub = r.sub
                 /\ r.sub \in DOMAIN confirmed'
                 /\ \A j \in DOMAIN created : created[j].sub # r.sub
    BY <1>5, <1>9, <1>12, <1>16
  <2> QED BY <1>1, <1>2, <1>3, <1>5, <1>9, <1>13, <1>14, <1>15, <2>1, <2>2, ComposerSends DEF website
<1>18. GoodPile(pile', alerts.viewed, nextCall)
  BY <1>1, <1>2, <1>9, <1>10, ComposerPut
<1>19. GoodCalls(calls', wanted, alerts.viewed, nextCall)
  <2>1. \A r \in sent : CallOK(r, wanted)
    BY <1>6, <1>12 DEF CallOK
  <2> QED BY <1>1, <1>12, <2>1, SentIsGood
<1>20. alerts' = alerts /\ told' = told /\ wanted' = wanted /\ nextCall' = nextCall
  BY <1>1 DEF website
<1>21. InboxTypeOK'
  <2>1. pile' \in Seq(PileScreen) /\ calls' \subseteq Call
    BY <1>18, <1>19 DEF GoodPile, GoodCalls
  <2> QED BY <1>1, <1>5, <2>1 DEF InboxInv, InboxTypeOK, PileScreen, website
<1> QED BY <1>17, <1>18, <1>19, <1>20, <1>21 DEF InboxInv

\* Those looked for are finitely many.
LEMMA SoughtFinite ==
  ASSUME InboxInv
  PROVE  Sought(calls, epoch) \subseteq People /\ IsFiniteSet(Sought(calls, epoch))
<1>1. Sought(calls, epoch) \subseteq People
  BY DEF InboxInv, GoodCalls, CallOK, Sought, Finds
<1> QED BY <1>1, InboxAssumption, FS_Subset

\* While a conversation is being started, nobody is looked for.
LEMMA CreateAlone ==
  ASSUME InboxInv, NEW r \in Work(calls, epoch), r.is = "create"
  PROVE  /\ Work(calls, epoch) = {r} /\ TopIs("form") /\ pile[AtTop].busy
         /\ pile[AtTop].resolving = 0 /\ pile[AtTop].sub = r.sub
         /\ r.ids = confirmed[r.sub] /\ Sought(calls, epoch) = {}
<1> USE PileFacts
<1>1. SentByTop(r, pile) /\ Resolves(pile[AtTop], calls, epoch, confirmed)
  BY DEF FormInv, SentByTop
<1>2. /\ TopIs("form") /\ pile[AtTop].busy /\ pile[AtTop].resolving = 0
      /\ pile[AtTop].sub = r.sub /\ r.ids = confirmed[r.sub]
      /\ pile[AtTop].kind = "form"
  BY <1>1 DEF SentByTop, AtTop, TopIs
<1>3. Cardinality(Sought(calls, epoch)) = 0
  BY <1>1, <1>2 DEF Resolves
<1>4. Sought(calls, epoch) = {}
  BY <1>3, SoughtFinite, FS_EmptySet
<1>5. ASSUME NEW q \in Work(calls, epoch) PROVE q = r
  <2>1. CASE q.is = "create"
    BY <2>1 DEF FormInv, OneEach
  <2>2. CASE q.is = "reply"
    BY <1>2, <2>2 DEF FormInv, SentByTop, AtTop
  <2>3. CASE q.is = "find"
    <3>1. q.about \in Sought(calls, epoch)
      BY <2>3 DEF Sought, Finds, Work
    <3> QED BY <1>4, <3>1
  <2> QED BY <2>1, <2>2, <2>3 DEF Work
<1> QED BY <1>2, <1>4, <1>5

\* A request of this session is answered, whether or not it was carried out.
LEMMA Answered ==
  ASSUME InboxInv, NEW r \in calls, r.at = "sent", NEW q,
         q.is = r.is /\ q.about = r.about /\ q.sub = r.sub /\ q.ids = r.ids
           /\ q.epoch = r.epoch /\ q.at # "sent",
         NEW got, got = {q} \/ (got = {} /\ r.is \notin WorkKinds),
         calls' = (calls \ {r}) \cup got,
         created' = created \/ (r.is = "create" /\
           created' = Append(created, [sub |-> r.sub, ids |-> r.ids])),
         UNCHANGED <<pile, epoch, confirmed>>
  PROVE  FormInv'
<1>1. FormInv /\ r.epoch = epoch /\ epoch \in Nat /\ created \in Seq([sub: 1..MaxSubmit, ids: SUBSET People])
  BY DEF InboxInv, FormInv, InboxTypeOK
<1>2. Work(calls', epoch') = IF r \in Work(calls, epoch)
                             THEN (Work(calls, epoch) \ {r}) \cup {q} ELSE Work(calls, epoch)
  BY <1>1 DEF Work, WorkKinds
<1>3. Sought(calls', epoch') = Sought(calls, epoch)
  <2>1. Finds(calls', epoch') = IF r.is = "find"
                                THEN (Finds(calls, epoch) \ {r}) \cup {q} ELSE Finds(calls, epoch)
    BY <1>1 DEF Finds, WorkKinds
  <2>2. r.is = "find" => r \in Finds(calls, epoch)
    BY <1>1 DEF Finds
  <2> QED BY <2>1, <2>2 DEF Sought
<1>4. OneEach(Work(calls', epoch'))
  <2>1. OneEach(Work(calls, epoch))
    BY <1>1 DEF FormInv
  <2> QED BY <1>2, <2>1 DEF OneEach
<1>5. \A t \in calls' : /\ t.epoch <= epoch' /\ (t.at = "sent" => t.epoch = epoch')
                        /\ t.is \in {"find", "create"} => t.sub \in DOMAIN confirmed'
  BY <1>1 DEF FormInv
<1>6. ASSUME NEW t \in Work(calls', epoch') PROVE SentByTop(t, pile)'
  <2>1. CASE t \in Work(calls, epoch)
    BY <1>1, <2>1 DEF FormInv, SentByTop
  <2>2. CASE t = q /\ r \in Work(calls, epoch)
    BY <1>1, <2>2 DEF FormInv, SentByTop
  <2> QED BY <1>2, <2>1, <2>2
<1>7. pile' # <<>> => Resolves(pile[AtTop], calls, epoch, confirmed)'
  BY <1>1, <1>3 DEF FormInv, Resolves, AtTop
<1>8. CASE created' = created
  <2>1. \A t \in Work(calls', epoch') : NotStarted(t, created)'
    BY <1>1, <1>2, <1>8 DEF FormInv, NotStarted
  <2> QED BY <1>1, <1>4, <1>5, <1>6, <1>7, <1>8, <2>1 DEF FormInv, StartedAsConfirmed
<1>9. CASE r.is = "create" /\ created' = Append(created, [sub |-> r.sub, ids |-> r.ids])
  <2>1. r \in Work(calls, epoch)
    BY <1>1, <1>9 DEF Work
  <2>2. Work(calls', epoch') = {q} /\ r.ids = confirmed[r.sub]
    BY <1>2, <1>9, <2>1, CreateAlone
  <2>3. NotStarted(r, created) /\ r.sub \in DOMAIN confirmed
    BY <1>1, <1>9, <2>1 DEF FormInv
  <2>4. \A t \in Work(calls', epoch') : NotStarted(t, created)'
    BY <1>9, <2>2 DEF NotStarted
  <2>5. \A j \in DOMAIN created' :
          \/ j \in DOMAIN created /\ created'[j] = created[j]
          \/ j = Len(created) + 1 /\ created'[j] = [sub |-> r.sub, ids |-> r.ids]
    BY <1>1, <1>9
  <2>6. \A j \in DOMAIN created : created[j].sub # r.sub
    BY <1>9, <2>3 DEF NotStarted
  <2>7. StartedAsConfirmed'
    BY <1>1, <2>2, <2>5, <2>6 DEF FormInv, StartedAsConfirmed
  <2>8. \A k \in DOMAIN created' : created'[k].sub \in DOMAIN confirmed'
    BY <1>1, <2>3, <2>5 DEF FormInv
  <2> QED BY <1>1, <1>4, <1>5, <1>6, <1>7, <2>4, <2>7, <2>8 DEF FormInv
<1> QED BY <1>8, <1>9

\* What a request comes back as.
LEMMA AnswerFields ==
  ASSUME InboxInv, NEW r \in calls, NEW at \in {"ok", "error", "over"},
         NEW upto \in 0..MaxAlert, NEW unread \in BOOLEAN
  PROVE  LET q == [r EXCEPT !.at = at, !.upto = upto, !.unread = unread]
         IN /\ q \in Call /\ q.is = r.is /\ q.about = r.about /\ q.sub = r.sub
            /\ q.ids = r.ids /\ q.epoch = r.epoch /\ q.at = at /\ q.id = r.id
            /\ q.mark = r.mark /\ q.beyond = r.beyond /\ q.upto = upto /\ q.unread = unread
<1>1. r \in Call
  BY DEF InboxInv, InboxTypeOK
<1> QED BY <1>1 DEF Call

LEMMA AnswerStep ==
  ASSUME InboxInv, NEW r \in calls, r.at = "sent", NEW at \in {"ok", "error", "over"},
         at = "over" => r.beyond, AnswerAs(r, at),
         NEW v \in Nat, alerts.viewed <= v, v = alerts.viewed \/ r.is # "alerts"
  PROVE  /\ GoodCalls(calls', wanted, v, nextCall)
         /\ \E q, got : /\ q.is = r.is /\ q.about = r.about /\ q.sub = r.sub /\ q.ids = r.ids
                        /\ q.epoch = r.epoch /\ q.at # "sent"
                        /\ got = {q} \/ (got = {} /\ r.is \notin WorkKinds)
                        /\ calls' = (calls \ {r}) \cup got
<1> DEFINE upto == IF r.is = "alerts" THEN alerts.all ELSE 0
           unread == r.is = "alerts" /\ alerts.all > alerts.viewed
           q == [r EXCEPT !.at = at, !.upto = upto, !.unread = unread]
           got == IF r.is = "quiet" THEN {} ELSE {q}
<1>1. calls' = (calls \ {r}) \cup got
  BY DEF AnswerAs
<1>2. upto \in 0..MaxAlert /\ unread \in BOOLEAN
  BY InboxAssumption DEF InboxInv, InboxTypeOK
<1>3. /\ q \in Call /\ q.is = r.is /\ q.about = r.about /\ q.sub = r.sub
      /\ q.ids = r.ids /\ q.epoch = r.epoch /\ q.at = at /\ q.id = r.id
      /\ q.mark = r.mark /\ q.beyond = r.beyond /\ q.upto = upto /\ q.unread = unread
  <2> HIDE DEF upto, unread
  <2>1. r \in Call
    BY DEF InboxInv, InboxTypeOK
  <2> QED BY <1>2, <2>1 DEF Call
<1> HIDE DEF q
<1>4. GoodCalls(calls, wanted, alerts.viewed, nextCall)
  BY DEF InboxInv
<1>5. CallOK(r, wanted) /\ r.id < nextCall
  BY <1>4 DEF GoodCalls, IdOK
<1>6. CallOK(q, wanted)
  BY <1>3, <1>5 DEF CallOK
<1>7. alerts.viewed \in Nat /\ alerts.all \in Nat
  BY PileFacts
<1>8. IdOK(q, v, nextCall)
  <2>1. (q.is = "alerts" /\ ~q.unread) => q.upto <= v
    <3> SUFFICES ASSUME q.is = "alerts", ~q.unread PROVE q.upto <= v
      OBVIOUS
    <3>1. r.is = "alerts" /\ ~(alerts.all > alerts.viewed) /\ q.upto = alerts.all
      BY <1>3
    <3>2. v = alerts.viewed
      BY <3>1
    <3> QED BY <1>7, <3>1, <3>2
  <2> QED BY <1>3, <1>5, <2>1 DEF IdOK
<1>9. \A t \in calls : t.upto \in Nat
  BY <1>4, InboxAssumption DEF GoodCalls, Call
<1>10. \A t \in calls : IdOK(t, v, nextCall)
  BY <1>4, <1>7, <1>9 DEF GoodCalls, IdOK
<1>11. GoodCalls(calls', wanted, v, nextCall)
  BY <1>1, <1>3, <1>4, <1>6, <1>8, <1>10 DEF GoodCalls
<1>12. got = {q} \/ (got = {} /\ r.is \notin WorkKinds)
  BY DEF WorkKinds
<1>13. q.at # "sent"
  BY <1>3
<1> QED BY <1>1, <1>3, <1>11, <1>12, <1>13

LEMMA CarriedOutStep ==
  ASSUME InboxInv, NEW r \in calls, NEW at, CarriedOut(r, at)
  PROVE  InboxInv'
<1>1. /\ r.at = "sent" /\ at \in {"ok", "error"} /\ Effect(r) /\ AnswerAs(r, at)
      /\ UNCHANGED <<pile, nextCall, epoch, paused, member>>
  BY DEF CarriedOut
<1>2. /\ alerts \in [all: 0..MaxAlert, viewed: 0..MaxAlert] /\ alerts.viewed <= alerts.all
      /\ told \subseteq wanted /\ wanted \subseteq Convs
      /\ created \in Seq([sub: 1..MaxSubmit, ids: SUBSET People])
  BY DEF InboxInv, InboxTypeOK
<1>3. /\ alerts' \in [all: 0..MaxAlert, viewed: 0..MaxAlert] /\ alerts'.viewed <= alerts'.all
      /\ alerts.viewed <= alerts'.viewed /\ (r.is = "alerts" => alerts' = alerts)
      /\ alerts'.viewed \in Nat
  <2>1. /\ alerts.all \in 0..MaxAlert /\ alerts.viewed \in 0..MaxAlert /\ MaxAlert \in Nat
        /\ alerts = [all |-> alerts.all, viewed |-> alerts.viewed]
    BY <1>2, InboxAssumption
  <2>2. CASE r.is = "viewed"
    <3>1. alerts' = [alerts EXCEPT !.viewed = alerts.all]
      BY <1>1, <2>2 DEF Effect
    <3>2. alerts' = [all |-> alerts.all, viewed |-> alerts.all]
      BY <2>1, <3>1
    <3>3. alerts'.all = alerts.all /\ alerts'.viewed = alerts.all
      BY <3>2
    <3>4. alerts' \in [all: 0..MaxAlert, viewed: 0..MaxAlert]
      BY <2>1, <3>2
    <3> QED BY <1>2, <2>1, <2>2, <3>3, <3>4
  <2>3. CASE r.is # "viewed"
    BY <1>1, <1>2, <2>1, <2>3 DEF Effect
  <2> QED BY <2>2, <2>3
<1>4. at \in {"ok", "error", "over"} /\ (at = "over" => r.beyond)
  BY <1>1
<1>5. alerts'.viewed = alerts.viewed \/ r.is # "alerts"
  BY <1>3
<1>6. /\ GoodCalls(calls', wanted, alerts'.viewed, nextCall)
      /\ \E q, got : /\ q.is = r.is /\ q.about = r.about /\ q.sub = r.sub /\ q.ids = r.ids
                     /\ q.epoch = r.epoch /\ q.at # "sent"
                     /\ got = {q} \/ (got = {} /\ r.is \notin WorkKinds)
                     /\ calls' = (calls \ {r}) \cup got
  BY <1>1, <1>3, <1>4, <1>5, AnswerStep
<1>7. /\ \/ created' = created
         \/ r.is = "create" /\ created' = Append(created, [sub |-> r.sub, ids |-> r.ids])
      /\ UNCHANGED <<pile, epoch, confirmed>>
  BY <1>1 DEF Effect, member
<1>8. FormInv'
  <2>1. PICK q, got : /\ q.is = r.is /\ q.about = r.about /\ q.sub = r.sub /\ q.ids = r.ids
                      /\ q.epoch = r.epoch /\ q.at # "sent"
                      /\ got = {q} \/ (got = {} /\ r.is \notin WorkKinds)
                      /\ calls' = (calls \ {r}) \cup got
    BY <1>6
  <2> QED BY <1>1, <1>7, <2>1, Answered
<1>9. GoodPile(pile', alerts'.viewed, nextCall')
  <2>1. GoodPile(pile, alerts.viewed, nextCall) /\ nextCall \in Nat /\ alerts.viewed \in Nat
    BY PileFacts
  <2> QED BY <1>1, <1>3, <2>1, LaterGood
<1>10. told' \subseteq wanted' /\ wanted' = wanted
  <2>1. CallOK(r, wanted)
    BY DEF InboxInv, GoodCalls
  <2> QED BY <1>1, <1>2, <2>1 DEF Effect, CallOK, member
<1>11. created' \in Seq([sub: 1..MaxSubmit, ids: SUBSET People])
  <2>1. CASE created' = created
    BY <1>2, <2>1
  <2>2. CASE r.is = "create" /\ created' = Append(created, [sub |-> r.sub, ids |-> r.ids])
    <3>1. r.sub \in DOMAIN confirmed /\ confirmed \in Seq(Names) /\ r \in Call
      BY <2>2 DEF InboxInv, FormInv, InboxTypeOK
    <3>2. r.sub \in 1..MaxSubmit /\ r.ids \in SUBSET People
      BY <3>1, InboxAssumption DEF Call
    <3> QED BY <1>2, <2>2, <3>2
  <2> QED BY <1>7, <2>1, <2>2
<1>12. InboxTypeOK'
  <2>1. calls' \subseteq Call
    BY <1>6 DEF GoodCalls
  <2>2. told' \subseteq Convs
    BY <1>2, <1>10
  <2> QED BY <1>1, <1>3, <1>11, <2>1, <2>2 DEF InboxInv, InboxTypeOK, member
<1> QED BY <1>1, <1>3, <1>6, <1>8, <1>9, <1>10, <1>12 DEF InboxInv

LEMMA NotCarriedOutStep ==
  ASSUME InboxInv, NEW r \in calls, NEW at, NotCarriedOut(r, at)
  PROVE  InboxInv'
<1>1. /\ r.at = "sent" /\ at \in {"ok", "error", "over"} /\ (at = "over" => r.beyond)
      /\ AnswerAs(r, at) /\ UNCHANGED <<pile, nextCall, epoch, paused, website, member>>
  BY DEF NotCarriedOut
<1>2. alerts.viewed \in Nat /\ alerts.viewed <= alerts.viewed
  BY PileFacts
<1>3. /\ GoodCalls(calls', wanted, alerts.viewed, nextCall)
      /\ \E q, got : /\ q.is = r.is /\ q.about = r.about /\ q.sub = r.sub /\ q.ids = r.ids
                     /\ q.epoch = r.epoch /\ q.at # "sent"
                     /\ got = {q} \/ (got = {} /\ r.is \notin WorkKinds)
                     /\ calls' = (calls \ {r}) \cup got
  BY <1>1, <1>2, AnswerStep
<1>4. UNCHANGED <<pile, epoch, confirmed, created, alerts, told, wanted, nextCall>>
  BY <1>1 DEF website, member
<1>5. FormInv'
  <2>1. PICK q, got : /\ q.is = r.is /\ q.about = r.about /\ q.sub = r.sub /\ q.ids = r.ids
                      /\ q.epoch = r.epoch /\ q.at # "sent"
                      /\ got = {q} \/ (got = {} /\ r.is \notin WorkKinds)
                      /\ calls' = (calls \ {r}) \cup got
    BY <1>3
  <2> QED BY <1>1, <1>4, <2>1, Answered
<1>6. InboxTypeOK'
  <2>1. calls' \subseteq Call
    BY <1>3 DEF GoodCalls
  <2> QED BY <1>1, <1>4, <2>1 DEF InboxInv, InboxTypeOK
<1> QED BY <1>3, <1>4, <1>5, <1>6 DEF InboxInv

LEMMA NewAlertStep ==
  ASSUME InboxInv, NewAlert
  PROVE  InboxInv'
<1>1. /\ alerts.all < MaxAlert /\ alerts' = [alerts EXCEPT !.all = alerts.all + 1]
      /\ UNCHANGED <<pile, calls, nextCall, epoch, paused, told, created, member>>
  BY DEF NewAlert
<1>2. /\ alerts \in [all: 0..MaxAlert, viewed: 0..MaxAlert] /\ alerts.viewed <= alerts.all
      /\ MaxAlert \in Nat
  BY InboxAssumption DEF InboxInv, InboxTypeOK
<1>3. alerts' \in [all: 0..MaxAlert, viewed: 0..MaxAlert] /\ alerts'.viewed = alerts.viewed
      /\ alerts'.viewed <= alerts'.all
  <2>1. alerts = [all |-> alerts.all, viewed |-> alerts.viewed]
        /\ alerts.all \in 0..MaxAlert /\ alerts.viewed \in 0..MaxAlert
    BY <1>2
  <2>2. alerts' = [all |-> alerts.all + 1, viewed |-> alerts.viewed]
    BY <1>1, <2>1
  <2>3. alerts'.all = alerts.all + 1 /\ alerts'.viewed = alerts.viewed
    BY <2>2
  <2> QED BY <1>1, <1>2, <2>1, <2>2, <2>3
<1>4. OnlyScreens(pile, calls, wanted)
  <2>1. Ready(pile, calls, wanted, nextCall)
    BY ReadyFor
  <2> QED BY <1>1, <2>1, LoadsNothing
<1>5. FormInv'
  <2>1. FormInv /\ pile \in Seq(PileScreen) /\ epoch \in Nat
    BY PileFacts DEF InboxInv, InboxTypeOK
  <2> QED BY <1>1, <1>4, <2>1, InPlaceNone, ComposersStay DEF member, Idle
<1>6. GoodPile(pile', alerts'.viewed, nextCall') /\ GoodCalls(calls', wanted', alerts'.viewed, nextCall')
  BY <1>1, <1>3, <1>4 DEF OnlyScreens, member
<1>7. InboxTypeOK' /\ told' \subseteq wanted'
  BY <1>1, <1>3 DEF InboxInv, InboxTypeOK, member
<1> QED BY <1>3, <1>5, <1>6, <1>7 DEF InboxInv

LEMMA PauseStep ==
  ASSUME InboxInv, Pause
  PROVE  InboxInv'
<1>1. paused' = TRUE /\ UNCHANGED <<pile, calls, nextCall, epoch, website, member>>
  BY DEF Pause
<1>2. Ready(pile, calls, wanted, nextCall)
  BY ReadyFor
<1>3. OnlyScreens(pile, calls, wanted)
  BY <1>1, <1>2, LoadsNothing
<1> QED BY <1>1, <1>3, PileFacts, InPlaceNone, ScreensStep DEF Idle, member

\* An answer that no composer waits for is handled.
LEMMA NotForComposers ==
  ASSUME InboxInv, NEW r \in calls, ~(r.is \in WorkKinds /\ r.epoch = epoch)
  PROVE  Rest(r) \in SUBSET calls /\ Idle(calls \ Rest(r))
BY DEF Rest, Idle

LEMMA NothingToSayStep ==
  ASSUME InboxInv, NEW r \in calls, NothingToSay(r)
  PROVE  InboxInv'
<1>1. calls' = Rest(r) /\ UNCHANGED <<pile, nextCall, epoch, paused, website, member>>
      /\ ~(r.is \in WorkKinds /\ r.epoch = epoch)
  BY DEF NothingToSay, OfThisSession, WorkKinds
<1>2. Rest(r) \in SUBSET calls /\ Idle(calls \ Rest(r))
  BY <1>1, NotForComposers
<1>3. Ready(pile, Rest(r), wanted, nextCall)
  BY <1>2, ReadyFor
<1>4. OnlyScreens(pile, Rest(r), wanted)
  BY <1>1, <1>3, LoadsNothing
<1> QED BY <1>1, <1>2, <1>4, PileFacts, InPlaceNone, ScreensStep DEF member

\* A screen that composes nothing is changed where it stands.
LEMMA PlaceChanges ==
  ASSUME InboxInv, NEW others \in SUBSET calls, NEW i \in DOMAIN pile,
         pile[i].kind \notin Composers, NEW t \in PileScreen, t.kind = pile[i].kind,
         AlertsOK(t, alerts.viewed, nextCall), NEW w, wanted \subseteq w
  PROVE  /\ Ready([pile EXCEPT ![i] = t], others, w, nextCall)
         /\ InPlace(pile, [pile EXCEPT ![i] = t])
<1>1. pile \in Seq(PileScreen) /\ GoodPile(pile, alerts.viewed, nextCall)
  BY PileFacts
<1>2. GoodPile([pile EXCEPT ![i] = t], alerts.viewed, nextCall)
  BY <1>1, PutGood
<1>3. InPlace(pile, [pile EXCEPT ![i] = t])
  BY <1>1, InPlaceOne
<1>4. Ready(pile, others, w, nextCall)
  BY ReadyFor
<1> QED BY <1>2, <1>3, <1>4 DEF Ready

\* The last of some of the screens is one of them.
LEMMA LastOf ==
  ASSUME InboxInv, NEW S \in SUBSET (DOMAIN pile), S # {}
  PROVE  /\ Upmost(S) \in S /\ Upmost(S) \in DOMAIN pile
         /\ pile[Upmost(S)] \in PileScreen
         /\ AlertsOK(pile[Upmost(S)], alerts.viewed, nextCall)
<1>1. AtTop \in Nat /\ DOMAIN pile = 1..AtTop
  BY PileFacts
<1>2. Upmost(S) \in S
  BY <1>1, UpmostIs
<1> QED BY <1>2, PileFacts

LEMMA ConversationsLoadedStep ==
  ASSUME InboxInv, NEW r \in calls, NEW c \in Convs, NEW dual \in BOOLEAN,
         ConversationsLoaded(r, c, dual)
  PROVE  InboxInv'
<1> DEFINE S == {k \in Of(pile, "inbox") : pile[k].convos.load = r.id}
           i == Upmost(S)
           old == pile[i]
           ib == [old EXCEPT !.convos.loading = FALSE, !.convos.held = @ \/ r.at = "ok"]
           full == [ib EXCEPT !.pane = ConvView(c)]
<1>1. r.is = "convos" /\ UNCHANGED <<epoch, paused, website, member>>
  BY DEF ConversationsLoaded, Arrived
<1>2. Rest(r) \in SUBSET calls /\ Idle(calls \ Rest(r))
  BY <1>1, NotForComposers DEF WorkKinds
<1>3. ASSUME NEW s, OnlyScreens(s, Rest(r), wanted), InPlace(pile, s) PROVE InboxInv'
  BY <1>1, <1>2, <1>3, PileFacts, ScreensStep DEF member
<1>4. CASE S = {}
  <2>1. pile' = pile /\ calls' = Rest(r) /\ nextCall' = nextCall
    BY <1>4 DEF ConversationsLoaded
  <2>2. Ready(pile, Rest(r), wanted, nextCall)
    BY <1>2, ReadyFor
  <2>3. OnlyScreens(pile, Rest(r), wanted)
    BY <2>1, <2>2, LoadsNothing
  <2> QED BY <1>3, <2>3, PileFacts, InPlaceNone
<1>5. CASE S # {}
  <2>1. S \in SUBSET (DOMAIN pile) /\ \A k \in S : pile[k].kind = "inbox"
    BY DEF Of
  <2>2. i \in DOMAIN pile /\ old.kind = "inbox" /\ old \in InboxScreen
        /\ AlertsOK(old, alerts.viewed, nextCall)
    BY <1>5, <2>1, LastOf, KindsOf
  <2>3. \/ PrimePane([pile EXCEPT ![i] = full], Rest(r), c)
        \/ pile' = [pile EXCEPT ![i] = ib] /\ calls' = Rest(r) /\ nextCall' = nextCall
    BY <1>5 DEF ConversationsLoaded
  <2> HIDE DEF old, i
  <2>4. /\ ib \in InboxScreen /\ ib.alerts = old.alerts /\ ib.viewed = old.viewed
        /\ ib.pending = old.pending /\ ib.viewId = old.viewId
    <3> DEFINE cs == [old.convos EXCEPT !.loading = FALSE, !.held = @ \/ r.at = "ok"]
    <3>1. old.convos \in ConvosPart
      BY <2>2, InboxChanges
    <3>2. cs \in ConvosPart
      BY <3>1 DEF ConvosPart
    <3>3. ib = [old EXCEPT !.convos = cs]
      BY <2>2, <3>1 DEF InboxScreen, ConvosPart
    <3> HIDE DEF cs, ib
    <3>4. ib \in InboxScreen
      BY <2>2, <3>2, <3>3, InboxChanges
    <3>5. /\ ib.alerts = old.alerts /\ ib.viewed = old.viewed
          /\ ib.pending = old.pending /\ ib.viewId = old.viewId
      BY <2>2, <3>3 DEF InboxScreen
    <3> QED BY <3>4, <3>5
  <2> HIDE DEF ib
  <2>5. ConvView(c) \in ViewScreen
    BY InboxNewScreens
  <2> DEFINE v == ConvView(c)
  <2>6. /\ full \in InboxScreen /\ full.alerts = old.alerts /\ full.viewed = old.viewed
        /\ full.pending = old.pending /\ full.viewId = old.viewId
    <3> HIDE DEF v
    <3>1. full = [ib EXCEPT !.pane = v]
      BY DEF v
    <3>2. v \in ViewScreen
      BY <2>5 DEF v
    <3> HIDE DEF full
    <3>3. full \in InboxScreen
      BY <2>4, <3>1, <3>2, InboxChanges
    <3>4. /\ full.alerts = ib.alerts /\ full.viewed = ib.viewed
          /\ full.pending = ib.pending /\ full.viewId = ib.viewId
      BY <2>4, <3>1 DEF InboxScreen
    <3> QED BY <2>4, <3>3, <3>4
  <2> HIDE DEF full
  <2>7. AlertsOK(ib, alerts.viewed, nextCall) /\ AlertsOK(full, alerts.viewed, nextCall)
    BY <2>2, <2>4, <2>6 DEF AlertsOK
  <2>8. /\ ib \in PileScreen /\ full \in PileScreen /\ ib.kind = "inbox" /\ full.kind = "inbox"
        /\ "inbox" \notin Composers
    BY <2>4, <2>6, InboxChanges DEF Composers
  <2>9. ASSUME NEW t \in {ib, full}
        PROVE  /\ Ready([pile EXCEPT ![i] = t], Rest(r), wanted, nextCall)
               /\ InPlace(pile, [pile EXCEPT ![i] = t])
    <3>1. t \in PileScreen /\ t.kind = pile[i].kind /\ pile[i].kind \notin Composers
          /\ AlertsOK(t, alerts.viewed, nextCall)
      BY <2>2, <2>7, <2>8 DEF old
    <3> QED BY <1>2, <2>2, <3>1, PlaceChanges
  <2>10. CASE PrimePane([pile EXCEPT ![i] = full], Rest(r), c)
    <3>1. OnlyScreens([pile EXCEPT ![i] = full], Rest(r), wanted)
      BY <2>9, <2>10, LoadsConversation DEF PrimePane
    <3> QED BY <1>3, <2>9, <3>1
  <2>11. CASE pile' = [pile EXCEPT ![i] = ib] /\ calls' = Rest(r) /\ nextCall' = nextCall
    <3>1. OnlyScreens([pile EXCEPT ![i] = ib], Rest(r), wanted)
      BY <2>9, <2>11, LoadsNothing
    <3> QED BY <1>3, <2>9, <3>1
  <2> QED BY <2>3, <2>10, <2>11
<1> QED BY <1>4, <1>5

\* Besides what is loaded, something is sent that no composer waits for.
LEMMA AlsoSends ==
  ASSUME NEW s, NEW others, NEW w, Ready(s, others, w, nextCall), NEW q \in Call, q.id = 0,
         CallOK(q, w), q.at = "sent", q.epoch = epoch, q.is \notin WorkKinds,
         pile' = s, calls' = others \cup {q}, nextCall' = nextCall
  PROVE  OnlyScreens(s, others, w)
<1>1. nextCall \in Nat /\ 0 < nextCall /\ nextCall <= nextCall
  BY InboxAssumption DEF Ready
<1>2. GoodCalls(others \cup {q}, w, alerts.viewed, nextCall)
  BY <1>1, OneMoreCall DEF Ready
<1>3. InPlace(s, s)
  BY InPlaceNone DEF Ready, GoodPile
<1> QED BY <1>2, <1>3 DEF OnlyScreens, Ready, WorkKinds

LEMMA ConversationLoadedStep ==
  ASSUME InboxInv, NEW r \in calls, ConversationLoaded(r)
  PROVE  InboxInv'
<1> DEFINE S == {k \in Showing(pile, r.about) : ViewOf(pile[k]).load = r.id}
           i == Upmost(S)
           old == pile[i]
           v == [ViewOf(old) EXCEPT !.loading = FALSE]
           t == IF old.kind = "inbox" THEN [old EXCEPT !.pane = v] ELSE v
           done == WithView(pile, i, v)
           q == CallAbout("quiet", r.about)
<1>1. r.is = "conv" /\ r.at # "sent" /\ UNCHANGED <<epoch, paused, website, member>>
  BY DEF ConversationLoaded, Arrived
<1>2. Rest(r) \in SUBSET calls /\ Idle(calls \ Rest(r))
  BY <1>1, NotForComposers DEF WorkKinds
<1>3. ASSUME NEW s, OnlyScreens(s, Rest(r), wanted), InPlace(pile, s) PROVE InboxInv'
  BY <1>1, <1>2, <1>3, PileFacts, ScreensStep DEF member
<1>4. Ready(pile, Rest(r), wanted, nextCall)
  BY <1>2, ReadyFor
<1>5. r \in Call /\ r.at \in {"ok", "error", "over"} /\ r.mark \in BOOLEAN /\ r.about \in Convs
      /\ (r.mark => r.about \in wanted)
  <2>1. r \in Call /\ CallOK(r, wanted)
    BY DEF InboxInv, GoodCalls
  <2>2. r.at \in {"ok", "error", "over"} /\ r.mark \in BOOLEAN
    BY <1>1, <2>1 DEF Call
  <2> QED BY <1>1, <2>1, <2>2 DEF CallOK
<1>6. InPlace(pile, pile)
  BY PileFacts, InPlaceNone
<1>7. CASE S = {}
  <2>1. pile' = pile /\ calls' = Rest(r) /\ nextCall' = nextCall
    BY <1>7 DEF ConversationLoaded
  <2>2. OnlyScreens(pile, Rest(r), wanted)
    BY <1>4, <2>1, LoadsNothing
  <2> QED BY <1>3, <1>6, <2>2
<1>8. CASE S # {}
  <2>1. S \in SUBSET (DOMAIN pile) /\ \A k \in S : pile[k].kind \in {"inbox", "view"}
    BY PileFacts, KindSets
  <2>2. i \in DOMAIN pile /\ old.kind \in {"inbox", "view"} /\ old \in PileScreen
        /\ AlertsOK(old, alerts.viewed, nextCall)
    BY <1>8, <2>1, LastOf
  <2>3. \/ /\ r.at = "error" /\ pile' = done /\ calls' = Rest(r) /\ nextCall' = nextCall
        \/ /\ r.at = "over" /\ LoadConversation(pile, Rest(r), r.about, r.mark, FALSE)
        \/ /\ r.at = "ok" /\ pile' = done /\ nextCall' = nextCall
           /\ calls' = Rest(r) \cup IF r.mark THEN {q} ELSE {}
    BY <1>5, <1>8 DEF ConversationLoaded
  <2>4. done = [pile EXCEPT ![i] = t]
    BY DEF WithView
  <2> HIDE DEF old, i, done
  <2>5. ViewOf(old) \in ViewScreen
    BY <2>2, InboxNewScreens, ShownIn
  <2>6. v \in ViewScreen
    BY <2>5 DEF ViewScreen
  <2> HIDE DEF v
  <2>7. /\ t \in PileScreen /\ t.kind = old.kind
        /\ AlertsOK(old, alerts.viewed, nextCall) => AlertsOK(t, alerts.viewed, nextCall)
    BY <2>2, <2>6, ShownIn
  <2> HIDE DEF t
  <2>8. Ready(done, Rest(r), wanted, nextCall) /\ InPlace(pile, done)
    <3>1. t.kind = pile[i].kind /\ pile[i].kind \notin Composers /\ AlertsOK(t, alerts.viewed, nextCall)
      BY <2>2, <2>7 DEF old, Composers
    <3> QED BY <1>2, <2>2, <2>4, <2>7, <3>1, PlaceChanges
  <2>9. CASE pile' = done /\ calls' = Rest(r) /\ nextCall' = nextCall
    <3>1. OnlyScreens(done, Rest(r), wanted)
      BY <2>8, <2>9, LoadsNothing
    <3> QED BY <1>3, <2>8, <3>1
  <2>10. CASE LoadConversation(pile, Rest(r), r.about, r.mark, FALSE)
    <3>1. OnlyScreens(pile, Rest(r), wanted)
      BY <1>4, <1>5, <2>10, LoadsConversation
    <3> QED BY <1>3, <1>6, <3>1
  <2>11. CASE r.mark /\ pile' = done /\ nextCall' = nextCall /\ calls' = Rest(r) \cup {q}
    <3>1. q \in Call
      BY <1>5, InboxAssumption, CallsMade DEF InboxInv, LoadId
    <3>2. q.id = 0 /\ q.at = "sent" /\ q.epoch = epoch /\ q.is = "quiet" /\ q.about = r.about /\ ~q.beyond
      BY CallFields
    <3> HIDE DEF q
    <3>3. CallOK(q, wanted) /\ q.is \notin WorkKinds
      BY <1>5, <2>11, <3>2 DEF CallOK, WorkKinds
    <3>4. OnlyScreens(done, Rest(r), wanted)
      BY <2>8, <2>11, <3>1, <3>2, <3>3, AlsoSends
    <3> QED BY <1>3, <2>8, <3>4
  <2>12. CASE ~r.mark /\ r.at = "ok"
    BY <2>3, <2>9, <2>12
  <2>13. CASE r.mark /\ r.at = "ok"
    BY <2>3, <2>11, <2>13
  <2> QED BY <2>3, <2>9, <2>10, <2>12, <2>13
<1> QED BY <1>7, <1>8

LEMMA AlertsLoadedStep ==
  ASSUME InboxInv, NEW r \in calls, AlertsLoaded(r)
  PROVE  InboxInv'
<1> DEFINE S == {k \in Of(pile, "inbox") : pile[k].alerts.load = r.id}
           i == Upmost(S)
           old == pile[i]
           ib == [old EXCEPT !.alerts.loading = FALSE]
           over == Overtaken(ib, r)
           t == [over EXCEPT !.alerts.held = r.id, !.alerts.upto = r.upto]
<1>1. r.is = "alerts" /\ r.at # "sent" /\ UNCHANGED <<epoch, paused, website, member>>
  BY DEF AlertsLoaded, Arrived
<1>2. Rest(r) \in SUBSET calls /\ Idle(calls \ Rest(r))
  BY <1>1, NotForComposers DEF WorkKinds
<1>3. ASSUME NEW s, OnlyScreens(s, Rest(r), wanted), InPlace(pile, s) PROVE InboxInv'
  BY <1>1, <1>2, <1>3, PileFacts, ScreensStep DEF member
<1>4. Ready(pile, Rest(r), wanted, nextCall)
  BY <1>2, ReadyFor
<1>5. /\ r \in Call /\ r.at \in {"ok", "error"} /\ r.id \in LoadId /\ r.upto \in 0..MaxAlert
      /\ r.unread \in BOOLEAN /\ r.id < nextCall
      /\ (r.at = "ok" /\ ~r.unread) => r.upto <= alerts.viewed
  <2>1. r \in Call /\ CallOK(r, wanted) /\ IdOK(r, alerts.viewed, nextCall)
    BY DEF InboxInv, GoodCalls
  <2>2. r.at \in {"ok", "error"}
    BY <1>1, <2>1 DEF CallOK, Call
  <2>3. r.id \in LoadId /\ r.upto \in 0..MaxAlert /\ r.unread \in BOOLEAN
    BY <2>1 DEF Call
  <2> QED BY <1>1, <2>1, <2>2, <2>3 DEF IdOK
<1>6. CASE S = {}
  <2>1. pile' = pile /\ calls' = Rest(r) /\ nextCall' = nextCall
    BY <1>6 DEF AlertsLoaded
  <2>2. OnlyScreens(pile, Rest(r), wanted)
    BY <1>4, <2>1, LoadsNothing
  <2> QED BY <1>3, <2>2, PileFacts, InPlaceNone
<1>7. CASE S # {}
  <2>1. S \in SUBSET (DOMAIN pile) /\ \A k \in S : pile[k].kind = "inbox"
    BY DEF Of
  <2>2. i \in DOMAIN pile /\ old.kind = "inbox" /\ old \in InboxScreen
        /\ AlertsOK(old, alerts.viewed, nextCall)
    BY <1>7, <2>1, LastOf, KindsOf
  <2>3. \/ pile' = [pile EXCEPT ![i] = ib] /\ calls' = Rest(r) /\ nextCall' = nextCall
        \/ r.at = "ok" /\ MarkAlertsViewed([pile EXCEPT ![i] = t], Rest(r), nextCall)
    BY <1>5, <1>7 DEF AlertsLoaded
  <2> HIDE DEF old, i
  <2>4. /\ ib \in InboxScreen /\ ib.viewed = old.viewed /\ ib.pending = old.pending
        /\ ib.viewId = old.viewId /\ ib.alerts.held = old.alerts.held
        /\ ib.alerts.upto = old.alerts.upto
    <3> DEFINE al == [old.alerts EXCEPT !.loading = FALSE]
    <3>1. old.alerts \in AlertsPart
      BY <2>2, InboxChanges
    <3>2. al \in AlertsPart /\ al.held = old.alerts.held /\ al.upto = old.alerts.upto
      BY <3>1 DEF AlertsPart
    <3>3. ib = [old EXCEPT !.alerts = al]
      BY <2>2, <3>1 DEF InboxScreen, AlertsPart
    <3> HIDE DEF al, ib
    <3>4. ib \in InboxScreen
      BY <2>2, <3>2, <3>3, InboxChanges
    <3>5. /\ ib.alerts = al /\ ib.viewed = old.viewed
          /\ ib.pending = old.pending /\ ib.viewId = old.viewId
      BY <2>2, <3>3 DEF InboxScreen
    <3> QED BY <3>2, <3>4, <3>5
  <2> HIDE DEF ib
  <2>5. /\ over \in InboxScreen
        /\ \/ over = ib /\ ~(r.unread /\ r.id > ib.viewId)
           \/ over.viewed = FALSE /\ over.pending = FALSE
    <3>1. CASE r.unread /\ r.id > ib.viewId
      <4> DEFINE o == [ib EXCEPT !.viewed = FALSE, !.pending = FALSE, !.viewId = 0]
      <4>1. over = o
        BY <3>1 DEF Overtaken
      <4>2. 0 \in LoadId
        BY InboxAssumption DEF LoadId
      <4>3. o \in InboxScreen
        BY <2>4, <4>2, InboxChanges
      <4>4. o.viewed = FALSE /\ o.pending = FALSE
        BY <2>4 DEF InboxScreen
      <4> HIDE DEF o
      <4> QED BY <4>1, <4>3, <4>4
    <3>2. CASE ~(r.unread /\ r.id > ib.viewId)
      BY <2>4, <3>2 DEF Overtaken
    <3> QED BY <3>1, <3>2
  <2> HIDE DEF over
  <2>6. /\ t \in InboxScreen /\ t.viewed = over.viewed /\ t.pending = over.pending
        /\ t.viewId = over.viewId /\ t.alerts.held = r.id /\ t.alerts.upto = r.upto
    <3> DEFINE al == [over.alerts EXCEPT !.held = r.id, !.upto = r.upto]
    <3>1. over.alerts \in AlertsPart
      BY <2>5, InboxChanges
    <3>2. al \in AlertsPart /\ al.held = r.id /\ al.upto = r.upto
      BY <1>5, <3>1 DEF AlertsPart
    <3>3. t = [over EXCEPT !.alerts = al]
      BY <2>5, <3>1 DEF InboxScreen, AlertsPart
    <3> HIDE DEF al, t
    <3>4. t \in InboxScreen
      BY <2>5, <3>2, <3>3, InboxChanges
    <3>5. /\ t.alerts = al /\ t.viewed = over.viewed
          /\ t.pending = over.pending /\ t.viewId = over.viewId
      BY <2>5, <3>3 DEF InboxScreen
    <3> QED BY <3>2, <3>4, <3>5
  <2> HIDE DEF t
  <2>7. AlertsOK(ib, alerts.viewed, nextCall)
    BY <2>2, <2>4 DEF AlertsOK
  <2>8. ib \in PileScreen /\ ib.kind = "inbox" /\ t \in PileScreen /\ t.kind = "inbox"
        /\ "inbox" \notin Composers
    BY <2>4, <2>6, InboxChanges DEF Composers
  <2>9. r.at = "ok" => AlertsOK(t, alerts.viewed, nextCall)
    BY <1>5, <2>5, <2>6 DEF AlertsOK
  <2>10. CASE pile' = [pile EXCEPT ![i] = ib] /\ calls' = Rest(r) /\ nextCall' = nextCall
    <3>1. ib.kind = pile[i].kind /\ pile[i].kind \notin Composers
      BY <2>2, <2>8 DEF old
    <3>2. Ready([pile EXCEPT ![i] = ib], Rest(r), wanted, nextCall) /\ InPlace(pile, [pile EXCEPT ![i] = ib])
      BY <1>2, <2>2, <2>7, <2>8, <3>1, PlaceChanges
    <3>3. OnlyScreens([pile EXCEPT ![i] = ib], Rest(r), wanted)
      BY <2>10, <3>2, LoadsNothing
    <3> QED BY <1>3, <3>2, <3>3
  <2>11. CASE r.at = "ok" /\ MarkAlertsViewed([pile EXCEPT ![i] = t], Rest(r), nextCall)
    <3>1. t.kind = pile[i].kind /\ pile[i].kind \notin Composers
      BY <2>2, <2>8 DEF old
    <3>2. Ready([pile EXCEPT ![i] = t], Rest(r), wanted, nextCall) /\ InPlace(pile, [pile EXCEPT ![i] = t])
      BY <1>2, <2>2, <2>8, <2>9, <2>11, <3>1, PlaceChanges
    <3>3. OnlyScreens([pile EXCEPT ![i] = t], Rest(r), wanted)
      BY <2>11, <3>2, MarksAlerts
    <3> QED BY <1>3, <3>2, <3>3
  <2> QED BY <2>3, <2>10, <2>11
<1> QED BY <1>6, <1>7

LEMMA AlertsViewedStep ==
  ASSUME InboxInv, NEW r \in calls, AlertsViewed(r)
  PROVE  InboxInv'
<1> DEFINE S == {k \in Of(pile, "inbox") : pile[k].viewId = r.id /\ pile[k].pending}
           i == Upmost(S)
           old == pile[i]
           ok == r.at = "ok"
           t == [old EXCEPT !.pending = FALSE, !.viewed = ok]
<1>1. /\ r.is = "viewed" /\ calls' = Rest(r)
      /\ UNCHANGED <<nextCall, epoch, paused, website, member>>
  BY DEF AlertsViewed, Arrived
<1>2. Rest(r) \in SUBSET calls /\ Idle(calls \ Rest(r))
  BY <1>1, NotForComposers DEF WorkKinds
<1>3. ASSUME NEW s, OnlyScreens(s, Rest(r), wanted), InPlace(pile, s) PROVE InboxInv'
  BY <1>1, <1>2, <1>3, PileFacts, ScreensStep DEF member
<1>4. CASE S = {}
  <2>1. pile' = pile
    BY <1>4 DEF AlertsViewed
  <2>2. Ready(pile, Rest(r), wanted, nextCall)
    BY <1>2, ReadyFor
  <2>3. OnlyScreens(pile, Rest(r), wanted)
    BY <1>1, <2>1, <2>2, LoadsNothing
  <2> QED BY <1>3, <2>3, PileFacts, InPlaceNone
<1>5. CASE S # {}
  <2>1. S \in SUBSET (DOMAIN pile) /\ \A k \in S : pile[k].kind = "inbox" /\ pile[k].pending
    BY DEF Of
  <2>2. i \in DOMAIN pile /\ old.kind = "inbox" /\ old \in InboxScreen
        /\ AlertsOK(old, alerts.viewed, nextCall) /\ old.pending
    BY <1>5, <2>1, LastOf, KindsOf
  <2>3. pile' = [pile EXCEPT ![i].pending = FALSE, ![i].viewed = ok]
    BY <1>5 DEF AlertsViewed
  <2>4. pile' = [pile EXCEPT ![i] = t]
    BY <2>2, <2>3, PileFacts
  <2> HIDE DEF old, i
  <2>5. t \in InboxScreen /\ t.alerts = old.alerts /\ t.viewId = old.viewId
    BY <2>2 DEF InboxScreen
  <2> HIDE DEF t
  <2>6. AlertsOK(t, alerts.viewed, nextCall)
    BY <2>2, <2>5 DEF AlertsOK
  <2>7. t \in PileScreen /\ t.kind = pile[i].kind /\ pile[i].kind \notin Composers
    BY <2>2, <2>5, InboxChanges DEF old, Composers
  <2>8. Ready([pile EXCEPT ![i] = t], Rest(r), wanted, nextCall) /\ InPlace(pile, [pile EXCEPT ![i] = t])
    BY <1>2, <2>2, <2>6, <2>7, PlaceChanges
  <2>9. OnlyScreens([pile EXCEPT ![i] = t], Rest(r), wanted)
    BY <1>1, <2>4, <2>8, LoadsNothing
  <2> QED BY <1>3, <2>8, <2>9
<1> QED BY <1>4, <1>5

LEMMA AlertMarkedStep ==
  ASSUME InboxInv, NEW r \in calls, AlertMarked(r)
  PROVE  InboxInv'
<1>1. /\ r.is = "alert" /\ LoadList(pile, Rest(r), "alerts")
      /\ UNCHANGED <<epoch, paused, website, member>>
  BY DEF AlertMarked, Arrived
<1>2. Rest(r) \in SUBSET calls /\ Idle(calls \ Rest(r))
  BY <1>1, NotForComposers DEF WorkKinds
<1>3. Ready(pile, Rest(r), wanted, nextCall)
  BY <1>2, ReadyFor
<1>4. OnlyScreens(pile, Rest(r), wanted)
  BY <1>1, <1>3, LoadsList
<1> QED BY <1>1, <1>2, <1>4, PileFacts, InPlaceNone, ScreensStep DEF member

\* cancel_recovered_work: a screen stays what it is, and waits for nothing.
LEMMA GivenBack ==
  ASSUME NEW s \in PileScreen, NEW viewed, NEW next, AlertsOK(s, viewed, next)
  PROVE  /\ Given(s) \in PileScreen /\ Given(s).kind = s.kind
         /\ AlertsOK(Given(s), viewed, next) /\ (s.kind \in Composers => ~Given(s).busy)
<1>1. CASE s.kind = "inbox"
  <2>1. s \in InboxScreen
    BY <1>1, KindsOf
  <2>2. /\ s.convos \in ConvosPart /\ s.alerts \in AlertsPart /\ s.pane \in ViewScreen
        /\ s.viewed \in BOOLEAN /\ s.pending \in BOOLEAN /\ s.viewId \in LoadId
    BY <2>1, InboxChanges
  <2> DEFINE cs == [s.convos EXCEPT !.loading = FALSE]
             al == [s.alerts EXCEPT !.loading = FALSE]
             pane == [s.pane EXCEPT !.loading = FALSE]
             kept == s.viewed /\ ~s.pending
             id == IF s.pending THEN 0 ELSE s.viewId
             t == [s EXCEPT !.convos = cs, !.alerts = al, !.pane = pane,
                            !.viewed = kept, !.pending = FALSE, !.viewId = id]
  <2>3. cs \in ConvosPart /\ al \in AlertsPart /\ pane \in ViewScreen
        /\ al.held = s.alerts.held /\ al.upto = s.alerts.upto
    BY <2>2 DEF ConvosPart, AlertsPart, ViewScreen
  <2>4. Given(s) = t
    <3>1. Given(s) = [s EXCEPT !.convos.loading = FALSE, !.alerts.loading = FALSE,
                        !.pane.loading = FALSE, !.pending = FALSE,
                        !.viewed = @ /\ ~s.pending,
                        !.viewId = IF s.pending THEN 0 ELSE @]
      BY <1>1 DEF Given
    <3> QED BY <2>1, <3>1 DEF InboxScreen
  <2>5. kept \in BOOLEAN /\ id \in LoadId
    BY <2>2, InboxAssumption DEF LoadId
  <2> HIDE DEF cs, al, pane
  <2>6. t \in InboxScreen /\ t.alerts = al /\ t.viewed = kept /\ t.pending = FALSE /\ t.viewId = id
    <3> HIDE DEF kept, id
    <3> DEFINE one == [s EXCEPT !.convos = cs]
               two == [one EXCEPT !.alerts = al]
               three == [two EXCEPT !.pane = pane]
               four == [three EXCEPT !.viewed = kept, !.pending = FALSE, !.viewId = id]
    <3>1. one \in InboxScreen
      BY <2>1, <2>3, InboxChanges
    <3>2. two = [one EXCEPT !.alerts = al] /\ three = [two EXCEPT !.pane = pane]
          /\ four = [three EXCEPT !.viewed = kept, !.pending = FALSE, !.viewId = id]
          /\ t = four
      OBVIOUS
    <3> HIDE DEF one, two, three, four, t
    <3>3. two \in InboxScreen
      BY <2>3, <3>1, <3>2, InboxChanges
    <3>4. two.alerts = al
      BY <3>1, <3>2 DEF InboxScreen
    <3>5. three \in InboxScreen
      BY <2>3, <3>2, <3>3, InboxChanges
    <3>6. three.alerts = al
      BY <3>2, <3>3, <3>4 DEF InboxScreen
    <3>7. four \in InboxScreen
      BY <2>5, <3>2, <3>5, InboxChanges
    <3>8. /\ four.alerts = al /\ four.viewed = kept /\ four.pending = FALSE
          /\ four.viewId = id
      BY <3>2, <3>5, <3>6 DEF InboxScreen
    <3> QED BY <3>2, <3>7, <3>8
  <2> HIDE DEF t
  <2>7. AlertsOK(t, viewed, next)
    BY <1>1, <2>2, <2>3, <2>6 DEF AlertsOK
  <2>8. t \in PileScreen /\ t.kind = "inbox"
    BY <2>6, InboxChanges
  <2> QED BY <1>1, <2>4, <2>7, <2>8 DEF Composers
<1>2. CASE s.kind = "view"
  <2>1. Given(s) = [s EXCEPT !.loading = FALSE] /\ s \in ViewScreen
    BY <1>2, KindsOf DEF Given
  <2> DEFINE t == [s EXCEPT !.loading = FALSE]
  <2>2. t \in ViewScreen /\ t.kind = "view"
    BY <1>2, <2>1 DEF ViewScreen
  <2> QED BY <1>2, <2>1, <2>2 DEF AlertsOK, Composers, PileScreen
<1>3. CASE s.kind = "form"
  <2>1. Given(s) = [s EXCEPT !.busy = FALSE, !.failed = @ \/ s.busy] /\ s \in FormScreen
    BY <1>3, KindsOf DEF Given
  <2> DEFINE t == [s EXCEPT !.busy = FALSE, !.failed = @ \/ s.busy]
  <2>2. t \in FormScreen /\ t.kind = "form" /\ ~t.busy
    BY <1>3, <2>1 DEF FormScreen
  <2> QED BY <1>3, <2>1, <2>2 DEF AlertsOK, Composers, PileScreen
<1>4. CASE s.kind = "reply"
  <2>1. Given(s) = [s EXCEPT !.busy = FALSE] /\ s \in ReplyScreen
    BY <1>4, KindsOf DEF Given
  <2> DEFINE t == [s EXCEPT !.busy = FALSE]
  <2>2. t \in ReplyScreen /\ t.kind = "reply" /\ ~t.busy
    BY <1>4, <2>1 DEF ReplyScreen
  <2> QED BY <1>4, <2>1, <2>2 DEF AlertsOK, Composers, PileScreen
<1>5. CASE s.kind = "other"
  BY <1>5 DEF Given, Composers
<1> QED BY <1>1, <1>2, <1>3, <1>4, <1>5, KindsOf

LEMMA RecheckedInboxStep ==
  ASSUME InboxInv, RecheckedInbox
  PROVE  InboxInv'
<1> USE InboxAssumption
<1> DEFINE n == AtTop
           given == [i \in DOMAIN pile |-> Given(pile[i])]
           answered == {r \in calls : r.at # "sent"}
           t == [given[n] EXCEPT !.pending = TRUE, !.viewId = nextCall]
           base == NewCall("viewed", nextCall)
           q == [base EXCEPT !.epoch = epoch + 1]
<1>1. /\ epoch < MaxEpoch /\ epoch' = epoch + 1 /\ paused' = FALSE
      /\ UNCHANGED <<website, member>>
      /\ \/ /\ TopIs("inbox") /\ nextCall <= MaxLoadId
            /\ pile' = [given EXCEPT ![n].pending = TRUE, ![n].viewId = nextCall]
            /\ calls' = answered \cup {q} /\ nextCall' = nextCall + 1
         \/ pile' = given /\ calls' = answered /\ nextCall' = nextCall
  BY DEF RecheckedInbox
<1>2. /\ pile \in Seq(PileScreen) /\ n \in Nat /\ DOMAIN pile = 1..n
      /\ \A i \in 1..n : pile[i] \in PileScreen /\ AlertsOK(pile[i], alerts.viewed, nextCall)
      /\ nextCall \in Nat /\ alerts.viewed \in Nat /\ epoch \in Nat /\ n = Len(pile)
      /\ epoch \in 1..MaxEpoch
  BY PileFacts DEF InboxInv, InboxTypeOK
<1>3. /\ DOMAIN given = 1..n
      /\ \A i \in 1..n : /\ given[i] \in PileScreen /\ given[i].kind = pile[i].kind
                         /\ AlertsOK(given[i], alerts.viewed, nextCall)
                         /\ given[i].kind \in Composers => ~given[i].busy
  <2>1. ASSUME NEW i \in 1..n
        PROVE  /\ given[i] \in PileScreen /\ given[i].kind = pile[i].kind
               /\ AlertsOK(given[i], alerts.viewed, nextCall)
               /\ given[i].kind \in Composers => ~given[i].busy
    <3>1. given[i] = Given(pile[i])
      BY <1>2
    <3> HIDE DEF given
    <3> QED BY <1>2, <3>1, GivenBack
  <2> QED BY <1>2, <2>1
<1>4. given \in Seq(PileScreen) /\ Len(given) = n
  <2>1. given = [i \in 1..n |-> given[i]]
    BY <1>2
  <2> HIDE DEF given
  <2> QED BY <1>2, <1>3, <2>1
<1> HIDE DEF given
<1>5. GoodPile(given, alerts.viewed, nextCall) /\ NoneBusy(given)
  BY <1>3, <1>4 DEF GoodPile, NoneBusy
<1>6. GoodCalls(calls, wanted, alerts.viewed, nextCall)
  BY DEF InboxInv
<1>7. /\ GoodCalls(answered, wanted, alerts.viewed, nextCall)
      /\ \A r \in answered : /\ r.epoch \in Nat /\ r.epoch <= epoch /\ r.at # "sent"
                             /\ r.is \in {"find", "create"} => r.sub \in DOMAIN confirmed
  BY <1>6 DEF GoodCalls, InboxInv, FormInv, Call
<1> HIDE DEF answered
<1>8. /\ GoodPile(pile', alerts.viewed, nextCall') /\ NoneBusy(pile')
      /\ GoodCalls(calls', wanted, alerts.viewed, nextCall')
      /\ nextCall' \in 1..(MaxLoadId + 1)
      /\ \A r \in calls' : /\ r.epoch <= epoch' /\ (r.at = "sent" => r.epoch = epoch')
                           /\ r.is \in {"find", "create"} => r.sub \in DOMAIN confirmed
                           /\ ~(r.is \in WorkKinds /\ r.epoch = epoch')
  <2>1. CASE pile' = given /\ calls' = answered /\ nextCall' = nextCall
    <3>1. nextCall \in 1..(MaxLoadId + 1)
      BY DEF InboxInv, InboxTypeOK
    <3> QED BY <1>1, <1>2, <1>5, <1>7, <2>1, <3>1
  <2>2. CASE /\ TopIs("inbox") /\ nextCall <= MaxLoadId
             /\ pile' = [given EXCEPT ![n].pending = TRUE, ![n].viewId = nextCall]
             /\ calls' = answered \cup {q} /\ nextCall' = nextCall + 1
    <3>1. n \in 1..n /\ n \in DOMAIN given /\ given[n].kind = "inbox"
      BY <1>2, <1>3, <2>2 DEF TopIs
    <3>2. pile' = [given EXCEPT ![n] = t]
      BY <1>4, <2>2, <3>1
    <3>3. given[n] \in InboxScreen /\ AlertsOK(given[n], alerts.viewed, nextCall)
      BY <1>3, <3>1, KindsOf
    <3>4. nextCall \in LoadId /\ nextCall' \in 1..(MaxLoadId + 1)
      BY <1>2, <2>2 DEF LoadId, InboxInv, InboxTypeOK
    <3>5. t \in InboxScreen /\ t.viewId = nextCall /\ t.alerts = given[n].alerts
      BY <3>3, <3>4 DEF InboxScreen
    <3>6. AlertsOK(t, alerts.viewed, nextCall)
      <4>1. t.alerts.held < nextCall
        BY <3>1, <3>3, <3>5 DEF AlertsOK
      <4>2. t.alerts \in AlertsPart
        BY <3>5, InboxChanges
      <4>3. t.alerts.held \in Nat
        BY <4>2 DEF AlertsPart, LoadId
      <4>4. ~(t.alerts.held > t.viewId)
        BY <1>2, <3>5, <4>1, <4>3
      <4> QED BY <4>1, <4>4 DEF AlertsOK
    <3>7. t \in PileScreen /\ t.kind = "inbox"
      BY <3>5, InboxChanges
    <3> HIDE DEF t
    <3>8. GoodPile(pile', alerts.viewed, nextCall)
      BY <1>5, <3>1, <3>2, <3>6, <3>7, PutGood
    <3>9. GoodPile(pile', alerts.viewed, nextCall')
      <4>1. nextCall' \in Nat /\ nextCall <= nextCall'
        BY <1>2, <2>2
      <4>2. alerts.viewed <= alerts.viewed
        BY <1>2
      <4> HIDE InboxAssumption
      <4> QED BY <1>2, <3>8, <4>1, <4>2, LaterGood
    <3>10. NoneBusy(pile')
      <4>1. \A i \in DOMAIN pile' : pile'[i] = t \/ (i \in DOMAIN given /\ pile'[i] = given[i])
        BY <3>1, <3>2
      <4> QED BY <1>5, <3>7, <4>1 DEF NoneBusy, Composers
    <3>11. /\ base \in Call /\ base.id = nextCall /\ base.at = "sent" /\ base.is = "viewed"
           /\ base.mark = FALSE /\ base.beyond = FALSE
      BY <3>4, CallsMade, CallFields DEF InboxInv
    <3> HIDE DEF base
    <3>12. epoch + 1 \in 1..MaxEpoch
      BY <1>1, <1>2
    <3>13. /\ q \in Call /\ q.id = nextCall /\ q.at = "sent" /\ q.is = "viewed"
           /\ q.mark = FALSE /\ q.beyond = FALSE /\ q.epoch = epoch + 1
      BY <3>11, <3>12 DEF Call
    <3> HIDE DEF q
    <3>14. CallOK(q, wanted)
      BY <3>13 DEF CallOK
    <3>15. GoodCalls(calls', wanted, alerts.viewed, nextCall')
      <4>1. nextCall' \in Nat /\ nextCall <= nextCall' /\ q.id < nextCall'
        BY <1>2, <2>2, <3>13
      <4> QED BY <1>2, <1>7, <2>2, <3>13, <3>14, <4>1, OneMoreCall
    <3>16. ASSUME NEW r \in calls'
           PROVE  /\ r.epoch <= epoch' /\ (r.at = "sent" => r.epoch = epoch')
                  /\ r.is \in {"find", "create"} => r.sub \in DOMAIN confirmed
                  /\ ~(r.is \in WorkKinds /\ r.epoch = epoch')
      <4>1. CASE r = q
        BY <1>1, <1>2, <3>13, <4>1 DEF WorkKinds
      <4>2. CASE r \in answered
        BY <1>1, <1>2, <1>7, <4>2
      <4> QED BY <2>2, <4>1, <4>2
    <3> QED BY <3>4, <3>9, <3>10, <3>15, <3>16
  <2> QED BY <1>1, <2>1, <2>2
<1>9. UNCHANGED <<alerts, told, created, wanted, confirmed>>
  BY <1>1 DEF website, member
<1>10. FormInv /\ pile' \in Seq(PileScreen)
  BY <1>8 DEF InboxInv, GoodPile
<1>11. FormInv'
  BY <1>8, <1>9, <1>10, NobodyWaits
<1>12. InboxTypeOK'
  <2>1. pile' \in Seq(PileScreen) /\ calls' \subseteq Call /\ epoch' \in 1..MaxEpoch
    BY <1>1, <1>2, <1>8 DEF GoodPile, GoodCalls
  <2> QED BY <1>1, <1>8, <1>9, <2>1 DEF InboxInv, InboxTypeOK, PileScreen
<1> QED BY <1>8, <1>9, <1>11, <1>12 DEF InboxInv

\* The last screen of a set that has the one on top.
LEMMA TopIsLast ==
  ASSUME InboxInv, NEW S \in SUBSET (DOMAIN pile), AtTop \in S
  PROVE  Upmost(S) = AtTop
<1>1. AtTop \in Nat /\ DOMAIN pile = 1..AtTop
  BY PileFacts
<1>2. Upmost(S) \in S /\ \A j \in S : j <= Upmost(S)
  BY <1>1, UpmostIs
<1> QED BY <1>1, <1>2

\* What was sent last by the composer on top is answered, and none waits.
LEMMA AnswersTop ==
  ASSUME InboxInv, NEW r \in Work(calls, epoch)
  PROVE  /\ AtTop \in DOMAIN pile /\ AtTop > 0 /\ pile[AtTop] \in PileScreen
         /\ pile[AtTop].kind = (IF r.is = "reply" THEN "reply" ELSE "form")
         /\ pile[AtTop].busy /\ r \in calls /\ r.at \in {"sent", "ok", "error"}
         /\ \A i \in DOMAIN pile : (i # AtTop /\ pile[i].kind \in Composers) => ~pile[i].busy
         /\ Rest(r) \in SUBSET calls
         /\ Work(calls, epoch) = {r} => Idle(Rest(r))
         /\ SentByTop(r, pile) /\ NotStarted(r, created)
<1>1. r \in calls /\ r.is \in WorkKinds /\ r.epoch = epoch
  BY DEF Work, WorkKinds
<1>2. SentByTop(r, pile) /\ NotStarted(r, created) /\ BusyOnTop(pile)
  BY PileFacts DEF FormInv
<1>3. /\ pile # <<>> /\ pile[AtTop].kind \in Composers /\ pile[AtTop].busy
      /\ pile[AtTop].kind = (IF r.is = "reply" THEN "reply" ELSE "form")
  BY <1>2 DEF SentByTop, AtTop
<1>4. AtTop \in DOMAIN pile /\ AtTop > 0 /\ pile[AtTop] \in PileScreen
  BY <1>3, PileFacts
<1>5. r.at \in {"sent", "ok", "error"}
  <2>1. r \in Call /\ CallOK(r, wanted)
    BY <1>1 DEF InboxInv, GoodCalls
  <2> QED BY <1>1, <2>1 DEF CallOK, Call, WorkKinds
<1>6. \A i \in DOMAIN pile : (i # AtTop /\ pile[i].kind \in Composers) => ~pile[i].busy
  BY <1>2, PileFacts DEF BusyOnTop
<1>7. Rest(r) \in SUBSET calls /\ (Work(calls, epoch) = {r} => Idle(Rest(r)))
  BY DEF Rest, Idle, Work, WorkKinds
<1> QED BY <1>1, <1>2, <1>3, <1>4, <1>5, <1>6, <1>7

\* The composer on top is the member's again, and none waits.
LEMMA ComposerFreed ==
  ASSUME InboxInv, NEW r \in Work(calls, epoch), Work(calls, epoch) = {r},
         NEW t \in PileScreen, t.kind = pile[AtTop].kind, ~t.busy,
         pile' = [pile EXCEPT ![AtTop] = t], calls' = Rest(r), nextCall' = nextCall,
         UNCHANGED <<epoch, paused, website, confirmed>>,
         wanted \subseteq wanted', wanted' \subseteq Convs
  PROVE  InboxInv'
<1> DEFINE s == [pile EXCEPT ![AtTop] = t]
<1>1. /\ AtTop \in DOMAIN pile /\ pile \in Seq(PileScreen) /\ t.kind \in {"form", "reply"}
      /\ Rest(r) \in SUBSET calls /\ Idle(Rest(r))
      /\ \A i \in DOMAIN pile : (i # AtTop /\ pile[i].kind \in Composers) => ~pile[i].busy
  BY AnswersTop, PileFacts
<1>2. GoodPile(s, alerts.viewed, nextCall)
  BY <1>1, ComposerPut
<1>3. NoneBusy(s) /\ s \in Seq(PileScreen)
  <2>1. \A i \in DOMAIN s : i \in DOMAIN pile /\ s[i] = IF i = AtTop THEN t ELSE pile[i]
    BY <1>1
  <2> QED BY <1>1, <1>2, <2>1 DEF NoneBusy, GoodPile
<1>4. Ready(s, Rest(r), wanted', nextCall)
  <2>1. Ready(pile, Rest(r), wanted', nextCall)
    BY <1>1, ReadyFor
  <2> QED BY <1>2, <2>1 DEF Ready
<1>5. OnlyScreens(s, Rest(r), wanted')
  BY <1>4, LoadsNothing
<1> QED BY <1>1, <1>3, <1>5, PileFacts, IdleStep

LEMMA ConvoReplySentStep ==
  ASSUME InboxInv, NEW r \in calls, ConvoReplySent(r)
  PROVE  InboxInv'
<1> DEFINE c == r.about
           S == RepliesTo(c)
           top == pile[AtTop]
           s == PileWithout(AtTop)
           t == [top EXCEPT !.busy = FALSE]
<1>1. /\ r.is = "reply" /\ r.at # "sent" /\ r.epoch = epoch /\ wanted' = wanted \cup {c}
      /\ UNCHANGED <<epoch, paused, website, confirmed>>
  BY DEF ConvoReplySent, Arrived, OfThisSession
<1>2. r \in Work(calls, epoch)
  BY <1>1 DEF Work
<1>3. /\ AtTop \in DOMAIN pile /\ top \in PileScreen /\ top.kind = "reply" /\ top.busy
      /\ r.at \in {"ok", "error"} /\ Rest(r) \in SUBSET calls
      /\ \A i \in DOMAIN pile : (i # AtTop /\ pile[i].kind \in Composers) => ~pile[i].busy
      /\ SentByTop(r, pile)
  BY <1>1, <1>2, AnswersTop
<1>4. top.conv = c
  BY <1>1, <1>3 DEF SentByTop, AtTop
<1>5. c \in Convs
  BY <1>1 DEF InboxInv, GoodCalls, CallOK
<1>6. Work(calls, epoch) = {r}
  <2>1. ASSUME NEW q \in Work(calls, epoch) PROVE q = r
    <3>1. q.is = "reply"
      BY <1>3, AnswersTop
    <3> QED BY <1>1, <1>2, <3>1, PileFacts DEF FormInv, OneEach
  <2> QED BY <1>2, <2>1
<1>7. Idle(Rest(r))
  BY <1>2, <1>6, AnswersTop
<1>8. S \in SUBSET (DOMAIN pile) /\ AtTop \in S
  BY <1>3, <1>4 DEF RepliesTo, Of
<1>9. Upmost(S) = AtTop
  BY <1>8, TopIsLast
<1>10. paused' \in BOOLEAN /\ wanted \subseteq wanted' /\ wanted' \subseteq Convs
  BY <1>1, <1>5, PileFacts
<1>11. \/ r.at = "ok" /\ LoadConversation(s, Rest(r), c, TRUE, TRUE)
       \/ /\ pile' = [pile EXCEPT ![AtTop].busy = FALSE]
          /\ calls' = Rest(r) /\ nextCall' = nextCall
  BY <1>3, <1>8, <1>9 DEF ConvoReplySent
<1>12. CASE LoadConversation(s, Rest(r), c, TRUE, TRUE)
  <2>1. GoodPile(s, alerts.viewed, nextCall)
        /\ \A k \in DOMAIN s : \E i \in DOMAIN pile : i # AtTop /\ s[k] = pile[i]
    BY <1>3, WithoutOne
  <2> HIDE DEF s
  <2>2. NoneBusy(s) /\ s \in Seq(PileScreen)
    BY <1>3, <2>1 DEF NoneBusy, GoodPile
  <2>3. Ready(s, Rest(r), wanted', nextCall)
    <3>1. Ready(pile, Rest(r), wanted', nextCall)
      BY <1>3, <1>10, ReadyFor
    <3> QED BY <2>1, <3>1 DEF Ready
  <2>4. OnlyScreens(s, Rest(r), wanted')
    <3>1. c \in wanted'
      BY <1>1
    <3> QED BY <1>5, <1>12, <2>3, <3>1, LoadsConversation
  <2> QED BY <1>1, <1>3, <1>7, <1>10, <2>2, <2>4, IdleStep
<1>13. CASE /\ pile' = [pile EXCEPT ![AtTop].busy = FALSE]
            /\ calls' = Rest(r) /\ nextCall' = nextCall
  <2>1. pile' = [pile EXCEPT ![AtTop] = t]
    BY <1>3, <1>13
  <2>2. top \in ReplyScreen
    BY <1>3, KindsOf
  <2>3. t \in ReplyScreen /\ t.kind = "reply" /\ ~t.busy
    BY <2>2 DEF ReplyScreen
  <2>4. t \in PileScreen /\ t.kind = pile[AtTop].kind
    BY <1>3, <2>3 DEF PileScreen
  <2> HIDE DEF t
  <2> QED BY <1>1, <1>2, <1>6, <1>10, <1>13, <2>1, <2>3, <2>4, ComposerFreed
<1> QED BY <1>11, <1>12, <1>13

LEMMA ConvoCreatedStep ==
  ASSUME InboxInv, NEW r \in calls, NEW c \in Convs, NEW dual \in BOOLEAN,
         ConvoCreated(r, c, dual)
  PROVE  InboxInv'
<1> DEFINE S == Of(pile, "form")
           I == Of(pile, "inbox")
           n == Upmost(I)
           front == SubSeq(pile, 1, n)
           last == pile[n]
           shown == [last EXCEPT !.tab = "conversations"]
           home == IF I = {} THEN <<>> ELSE [front EXCEPT ![n].tab = "conversations"]
           top == pile[AtTop]
           t == [top EXCEPT !.busy = FALSE, !.failed = TRUE]
<1>1. /\ r.is = "create" /\ r.at # "sent" /\ r.epoch = epoch
      /\ UNCHANGED <<epoch, paused, website, confirmed>>
  BY DEF ConvoCreated, Arrived, OfThisSession
<1>2. r \in Work(calls, epoch)
  BY <1>1 DEF Work
<1>3. /\ AtTop \in DOMAIN pile /\ top \in PileScreen /\ top.kind = "form" /\ top.busy
      /\ Rest(r) \in SUBSET calls
      /\ \A i \in DOMAIN pile : (i # AtTop /\ pile[i].kind \in Composers) => ~pile[i].busy
  BY <1>1, <1>2, AnswersTop
<1>4. Work(calls, epoch) = {r} /\ Idle(Rest(r))
  BY <1>1, <1>2, CreateAlone, AnswersTop
<1>5. \/ OpenOn(home, Rest(r), c, dual) /\ wanted' = wanted \cup {c}
      \/ /\ pile' = IF S = {} THEN pile
                    ELSE [pile EXCEPT ![Upmost(S)].busy = FALSE, ![Upmost(S)].failed = TRUE]
         /\ calls' = Rest(r) /\ nextCall' = nextCall /\ wanted' = wanted
  BY DEF ConvoCreated
<1>6. paused' \in BOOLEAN /\ wanted \subseteq wanted' /\ wanted' \subseteq Convs
  BY <1>1, <1>5, PileFacts
<1>7. CASE OpenOn(home, Rest(r), c, dual) /\ wanted' = wanted \cup {c}
  <2>1. GoodPile(home, alerts.viewed, nextCall) /\ NoneBusy(home)
    <3>1. CASE I = {}
      BY <3>1 DEF GoodPile, NoneBusy
    <3>2. CASE I # {}
      <4>1. I \in SUBSET (DOMAIN pile) /\ \A i \in I : pile[i].kind = "inbox"
        BY DEF Of
      <4>2. n \in DOMAIN pile /\ last.kind = "inbox" /\ last \in InboxScreen
            /\ AlertsOK(last, alerts.viewed, nextCall)
        BY <3>2, <4>1, LastOf, KindsOf
      <4>3. n # AtTop /\ n \in 0..Len(pile) /\ n \in 1..n
        BY <1>3, <4>2, PileFacts
      <4> HIDE DEF n
      <4>4. /\ GoodPile(front, alerts.viewed, nextCall) /\ Len(front) = n
            /\ \A i \in 1..n : front[i] = pile[i]
        BY <4>3, PileFacts, FrontGood
      <4> HIDE DEF front
      <4>5. front \in Seq(PileScreen) /\ n \in DOMAIN front /\ DOMAIN front = 1..n
        BY <4>3, <4>4 DEF GoodPile
      <4>6. home = [front EXCEPT ![n] = shown]
        BY <3>2, <4>3, <4>4, <4>5
      <4> HIDE DEF last, home
      <4>7. shown \in InboxScreen /\ shown.alerts = last.alerts /\ shown.viewed = last.viewed
            /\ shown.pending = last.pending /\ shown.viewId = last.viewId
        BY <4>2 DEF InboxScreen, Tabs
      <4> HIDE DEF shown
      <4>8. shown \in PileScreen /\ shown.kind = "inbox" /\ AlertsOK(shown, alerts.viewed, nextCall)
        BY <4>2, <4>7, InboxChanges DEF AlertsOK
      <4>9. GoodPile(home, alerts.viewed, nextCall)
        BY <4>4, <4>5, <4>6, <4>8, PutGood
      <4>10. NoneBusy(home)
        <5>1. ASSUME NEW i \in DOMAIN home, home[i].kind \in Composers PROVE ~home[i].busy
          <6>1. i \in 1..n /\ home[i] = IF i = n THEN shown ELSE pile[i]
            BY <4>4, <4>5, <4>6, <5>1
          <6>2. i # n /\ home[i] = pile[i]
            BY <4>8, <5>1, <6>1 DEF Composers
          <6>3. i \in DOMAIN pile /\ i # AtTop
            BY <4>2, <4>3, <6>1, <6>2, PileFacts
          <6> QED BY <1>3, <5>1, <6>2, <6>3
        <5> QED BY <5>1 DEF NoneBusy
      <4> QED BY <4>9, <4>10
    <3> QED BY <3>1, <3>2
  <2> HIDE DEF home
  <2>2. home \in Seq(PileScreen)
    BY <2>1 DEF GoodPile
  <2>3. Ready(home, Rest(r), wanted', nextCall)
    <3>1. Ready(pile, Rest(r), wanted', nextCall)
      BY <1>3, <1>6, ReadyFor
    <3> QED BY <2>1, <3>1 DEF Ready
  <2>4. c \in wanted'
    BY <1>7
  <2>5. \/ OnlyScreens(home, Rest(r), wanted')
        \/ OnlyScreens(Append(home, ConvView(c)), Rest(r), wanted')
    BY <1>7, <2>3, <2>4, OpensConversation
  <2>6. CASE OnlyScreens(home, Rest(r), wanted')
    BY <1>1, <1>3, <1>4, <1>6, <2>1, <2>2, <2>6, IdleStep
  <2>7. CASE OnlyScreens(Append(home, ConvView(c)), Rest(r), wanted')
    <3> DEFINE v == ConvView(c)
    <3>1. v \in PileScreen /\ v.kind \notin Composers
      BY InboxNewScreens DEF ConvView, PileScreen, Composers
    <3> HIDE DEF v
    <3>2. NoneBusy(Append(home, v)) /\ Append(home, v) \in Seq(PileScreen)
      BY <2>1, <2>2, <3>1, PushIdle
    <3> QED BY <1>1, <1>3, <1>4, <1>6, <2>7, <3>2, IdleStep DEF v
  <2> QED BY <2>5, <2>6, <2>7
<1>8. CASE /\ pile' = IF S = {} THEN pile
                      ELSE [pile EXCEPT ![Upmost(S)].busy = FALSE, ![Upmost(S)].failed = TRUE]
           /\ calls' = Rest(r) /\ nextCall' = nextCall /\ wanted' = wanted
  <2>1. S \in SUBSET (DOMAIN pile) /\ AtTop \in S
    BY <1>3 DEF Of
  <2>2. Upmost(S) = AtTop
    BY <2>1, TopIsLast
  <2>3. pile' = [pile EXCEPT ![AtTop].busy = FALSE, ![AtTop].failed = TRUE]
    BY <1>8, <2>1, <2>2
  <2>4. pile' = [pile EXCEPT ![AtTop] = t]
    BY <1>3, <2>3, PileFacts
  <2>5. top \in FormScreen
    BY <1>3, KindsOf
  <2>6. t \in FormScreen /\ t.kind = "form" /\ ~t.busy
    BY <2>5 DEF FormScreen
  <2>7. t \in PileScreen /\ t.kind = pile[AtTop].kind
    BY <1>3, <2>6 DEF PileScreen
  <2> HIDE DEF t
  <2> QED BY <1>1, <1>2, <1>4, <1>6, <1>8, <2>4, <2>6, <2>7, ComposerFreed
<1> QED BY <1>5, <1>7, <1>8

\* One of those looked for is found or not: the form on top sent for it.
LEMMA FindFacts ==
  ASSUME InboxInv, NEW r \in Work(calls, epoch), r.is = "find"
  PROVE  /\ pile[AtTop].sub = r.sub /\ r.sub \in DOMAIN confirmed /\ r.about \in People
         /\ \A q \in Work(calls, epoch) : q.is = "find"
         /\ Sought(Rest(r), epoch) = Sought(calls, epoch) \ {r.about}
         /\ r.about \in Sought(calls, epoch)
         /\ pile[AtTop].resolving \in Nat /\ pile[AtTop].resolving > 0
         /\ pile[AtTop].resolving - 1 = Cardinality(Sought(Rest(r), epoch))
         /\ ~pile[AtTop].failed =>
              pile[AtTop].ids \cup Sought(calls, epoch) = confirmed[r.sub]
         /\ pile[AtTop].resolving - 1 = 0 =>
              Work(calls, epoch) = {r} /\ Sought(Rest(r), epoch) = {}
<1> DEFINE f == pile[AtTop]
<1>1. /\ AtTop \in DOMAIN pile /\ f.kind = "form" /\ f.busy /\ r \in calls
      /\ SentByTop(r, pile) /\ FormInv /\ pile # <<>> /\ AtTop = Len(pile)
  BY AnswersTop, PileFacts
<1>2. r.epoch = epoch /\ f.sub = r.sub /\ r.sub \in DOMAIN confirmed /\ r.about \in People
  BY <1>1 DEF SentByTop, AtTop, Work, FormInv, InboxInv, GoodCalls, CallOK
<1>3. r.about \in Sought(calls, epoch)
  BY <1>1, <1>2 DEF Sought, Finds
<1>4. \A q \in Work(calls, epoch) : q.is = "find"
  <2>1. TAKE q \in Work(calls, epoch)
  <2>2. q.is # "create"
    BY <1>3, CreateAlone
  <2>3. q.is # "reply"
    BY <1>1, AnswersTop
  <2> QED BY <2>2, <2>3 DEF Work
<1>5. Sought(Rest(r), epoch) = Sought(calls, epoch) \ {r.about}
  <2>1. Finds(Rest(r), epoch) = Finds(calls, epoch) \ {r}
    BY DEF Finds, Rest
  <2>2. \A q \in Finds(calls, epoch) : q.about = r.about => q = r
    BY <1>1, <1>2 DEF Finds, FormInv, OneEach, Work
  <2> QED BY <2>1, <2>2 DEF Sought
<1>6. /\ IsFiniteSet(Sought(calls, epoch)) /\ IsFiniteSet(Sought(Rest(r), epoch))
      /\ Cardinality(Sought(Rest(r), epoch)) = Cardinality(Sought(calls, epoch)) - 1
      /\ Cardinality(Sought(calls, epoch)) \in Nat /\ Cardinality(Sought(Rest(r), epoch)) \in Nat
  <2> DEFINE T == Sought(calls, epoch)
  <2>1. IsFiniteSet(T) /\ r.about \in T
    BY <1>3, SoughtFinite
  <2> HIDE DEF T
  <2>2. IsFiniteSet(T \ {r.about}) /\ Cardinality(T \ {r.about}) = Cardinality(T) - 1
    BY <2>1, FS_RemoveElement
  <2>3. Cardinality(T) \in Nat /\ Cardinality(T \ {r.about}) \in Nat
    BY <2>1, <2>2, FS_CardinalityType
  <2> QED BY <1>5, <2>1, <2>2, <2>3 DEF T
<1>7. /\ f.resolving = Cardinality(Sought(calls, epoch))
      /\ ~f.failed => f.ids \cup Sought(calls, epoch) = confirmed[r.sub]
  <2>1. Resolves(f, calls, epoch, confirmed)
    BY <1>1 DEF FormInv
  <2> HIDE DEF f
  <2> QED BY <1>1, <1>2, <2>1 DEF Resolves
<1>8. ASSUME f.resolving - 1 = 0
      PROVE  Work(calls, epoch) = {r} /\ Sought(Rest(r), epoch) = {}
  <2>1. Sought(Rest(r), epoch) = {}
    BY <1>6, <1>7, <1>8, FS_EmptySet
  <2>2. ASSUME NEW q \in Work(calls, epoch) PROVE q = r
    <3>1. q.about \in Sought(calls, epoch) /\ q.is = "find"
      BY <1>4 DEF Sought, Finds, Work
    <3>2. q.about = r.about
      BY <1>5, <2>1, <3>1
    <3> QED BY <1>1, <3>1, <3>2 DEF FormInv, OneEach
  <2> QED BY <2>1, <2>2
<1> HIDE DEF f
<1>9. f.resolving \in Nat /\ f.resolving > 0 /\ f.resolving - 1 = Cardinality(Sought(Rest(r), epoch))
  BY <1>6, <1>7
<1> QED BY <1>2, <1>3, <1>4, <1>5, <1>7, <1>8, <1>9 DEF f

\* The form t still waits after the answer to r: for the other names, or for q.
StillWaits(t, r) ==
  /\ t.busy /\ t.sub = r.sub /\ t.resolving = Cardinality(Sought(Rest(r), epoch))
  /\ ~t.failed => t.ids \cup Sought(Rest(r), epoch) = confirmed[r.sub]
Starts(q, t, r) ==
  /\ q.is = "create" /\ q.sub = r.sub /\ q.ids = confirmed[r.sub] /\ q.id = 0
  /\ q.at = "sent" /\ q.epoch = epoch /\ ~q.beyond
  /\ t.resolving = 0 /\ Work(calls, epoch) = {r}

\* The form on top goes on waiting, for fewer names or for the conversation.
LEMMA FormGoesOn ==
  ASSUME InboxInv, NEW r \in Work(calls, epoch), r.is = "find",
         NEW t \in FormScreen, StillWaits(t, r), NEW sent \in SUBSET Call,
         \A q \in sent : Starts(q, t, r), \A p, q \in sent : p = q,
         pile' = [pile EXCEPT ![AtTop] = t], calls' = Rest(r) \cup sent,
         UNCHANGED <<nextCall, epoch, paused, website, member>>
  PROVE  InboxInv'
<1>1. /\ AtTop \in DOMAIN pile /\ pile[AtTop].kind = "form" /\ r \in calls
      /\ \A i \in DOMAIN pile : (i # AtTop /\ pile[i].kind \in Composers) => ~pile[i].busy
      /\ Rest(r) \in SUBSET calls /\ NotStarted(r, created) /\ pile \in Seq(PileScreen)
      /\ AtTop = Len(pile) /\ AtTop \in Nat /\ DOMAIN pile = 1..AtTop /\ FormInv
  BY AnswersTop, PileFacts
<1>2. /\ UNCHANGED <<epoch, created, confirmed, alerts, told, wanted, nextCall, paused>>
  BY DEF website, member
<1>3. /\ pile' # <<>> /\ Len(pile') = AtTop /\ DOMAIN pile' = 1..AtTop /\ AtTop' = AtTop
      /\ pile'[AtTop] = t /\ \A i \in DOMAIN pile : i # AtTop => pile'[i] = pile[i]
  BY <1>1 DEF AtTop
<1>4. t.kind = "form" /\ t \in PileScreen
  BY DEF FormScreen, PileScreen
<1> USE DEF StillWaits, Starts
<1>5. BusyOnTop(pile')
  BY <1>1, <1>3 DEF BusyOnTop
<1>6. r.sub \in DOMAIN confirmed /\ \A q \in Work(calls, epoch) : q.is = "find"
  BY FindFacts
<1>7. \A q \in calls' : /\ q.epoch <= epoch' /\ (q.at = "sent" => q.epoch = epoch')
                        /\ q.is \in {"find", "create"} => q.sub \in DOMAIN confirmed'
  <2> TAKE q \in calls'
  <2>1. CASE q \in calls
    BY <1>1, <1>2, <2>1 DEF FormInv
  <2>2. CASE q \in sent
    <3>1. epoch \in Nat
      BY DEF InboxInv, InboxTypeOK
    <3> QED BY <1>2, <1>6, <2>2, <3>1
  <2> QED BY <1>1, <2>1, <2>2
<1>8. Work(calls', epoch') = (Work(calls, epoch) \ {r}) \cup sent
  BY <1>2 DEF Work, Rest
<1>9. OneEach(Work(calls', epoch'))
  <2>1. OneEach(Work(calls, epoch))
    BY <1>1 DEF FormInv
  <2>2. CASE sent = {}
    BY <1>8, <2>1, <2>2 DEF OneEach
  <2>3. CASE sent # {}
    BY <1>8, <2>3 DEF OneEach
  <2> QED BY <2>2, <2>3
<1>10. Sought(calls', epoch') = Sought(Rest(r), epoch)
  BY <1>2 DEF Sought, Finds
<1>11. ASSUME NEW q \in Work(calls', epoch')
       PROVE  SentByTop(q, pile)' /\ NotStarted(q, created)'
  <2>1. CASE q \in Work(calls, epoch)
    <3>1. SentByTop(q, pile) /\ NotStarted(q, created) /\ q.is = "find"
      BY <1>1, <1>6, <2>1 DEF FormInv
    <3>2. q.sub = r.sub
      BY <2>1, <3>1, FindFacts
    <3> QED BY <1>2, <1>3, <1>4, <3>1, <3>2 DEF SentByTop, NotStarted, Composers
  <2>2. CASE q \in sent
    <3>1. NotStarted(q, created)'
      BY <1>1, <1>2, <2>2 DEF NotStarted
    <3>2. SentByTop(q, pile)'
      BY <1>2, <1>3, <1>4, <2>2 DEF SentByTop, Composers
    <3> QED BY <3>1, <3>2
  <2> QED BY <1>8, <2>1, <2>2
<1>12. Resolves(pile[AtTop], calls, epoch, confirmed)'
  <2>1. pile'[AtTop'] = t
    BY <1>3
  <2> QED BY <1>2, <1>6, <1>10, <2>1 DEF Resolves
<1>13. StartedAsConfirmed' /\ \A k \in DOMAIN created' : created'[k].sub \in DOMAIN confirmed'
  BY <1>1, <1>2 DEF FormInv, StartedAsConfirmed
<1>14. FormInv'
  BY <1>5, <1>7, <1>9, <1>11, <1>12, <1>13 DEF FormInv
<1>15. GoodPile(pile', alerts'.viewed, nextCall')
  BY <1>1, <1>2, <1>4, ComposerPut
<1>16. GoodCalls(calls', wanted', alerts'.viewed, nextCall')
  <2>1. \A q \in sent : CallOK(q, wanted)
    BY DEF CallOK
  <2>2. GoodCalls(calls \cup sent, wanted, alerts.viewed, nextCall)
    BY <2>1, SentIsGood
  <2> QED BY <1>1, <1>2, <2>2 DEF GoodCalls
<1>17. InboxTypeOK'
  <2>1. pile' \in Seq(PileScreen) /\ calls' \subseteq Call
    BY <1>15, <1>16 DEF GoodPile, GoodCalls
  <2> QED BY <1>2, <2>1 DEF InboxInv, InboxTypeOK, PileScreen
<1> QED BY <1>2, <1>14, <1>15, <1>16, <1>17 DEF InboxInv

LEMMA RecipientResolvedStep ==
  ASSUME InboxInv, NEW r \in calls, RecipientResolved(r)
  PROVE  InboxInv'
<1> DEFINE S == Of(pile, "form")
           f == pile[AtTop]
           left == f.resolving - 1
           ids == IF r.at = "ok" THEN f.ids \cup {r.about} ELSE f.ids
           failed == f.failed \/ r.at = "error"
           sends == left = 0 /\ ids # {} /\ ~failed
           base == NewCall("create", 0)
           create == [base EXCEPT !.sub = f.sub, !.ids = ids]
           goes == f.busy /\ (left > 0 \/ sends)
           t == [f EXCEPT !.resolving = left, !.ids = ids, !.failed = failed, !.busy = goes]
           sent == IF sends THEN {create} ELSE {}
<1>1. /\ r.is = "find" /\ r.at # "sent" /\ r.epoch = epoch
      /\ UNCHANGED <<nextCall, epoch, paused, website, member>>
  BY DEF RecipientResolved, Arrived, OfThisSession
<1>2. r \in Work(calls, epoch)
  BY <1>1 DEF Work
<1>3. /\ AtTop \in DOMAIN pile /\ f \in PileScreen /\ f.kind = "form" /\ f.busy
      /\ r.at \in {"ok", "error"}
  BY <1>1, <1>2, AnswersTop
<1>4. /\ f.sub = r.sub /\ r.sub \in DOMAIN confirmed /\ r.about \in People
      /\ Sought(Rest(r), epoch) = Sought(calls, epoch) \ {r.about}
      /\ r.about \in Sought(calls, epoch)
      /\ f.resolving \in Nat /\ f.resolving > 0
      /\ left = Cardinality(Sought(Rest(r), epoch))
      /\ ~f.failed => f.ids \cup Sought(calls, epoch) = confirmed[r.sub]
      /\ left = 0 => Work(calls, epoch) = {r} /\ Sought(Rest(r), epoch) = {}
  BY <1>1, <1>2, FindFacts
<1>5. S \in SUBSET (DOMAIN pile) /\ AtTop \in S
  BY <1>3 DEF Of
<1>6. Upmost(S) = AtTop
  BY <1>5, TopIsLast
<1>7. pile' = [pile EXCEPT ![AtTop] = t] /\ calls' = Rest(r) \cup sent
  <2>1. S # {} /\ pile[Upmost(S)].resolving # 0
    BY <1>4, <1>5, <1>6
  <2>2. pile[Upmost(S)] = f
    BY <1>6
  <2>3. pile' = [pile EXCEPT ![Upmost(S)] =
                    [f EXCEPT !.resolving = left, !.ids = ids, !.failed = failed,
                              !.busy = @ /\ (left > 0 \/ sends)]]
        /\ calls' = Rest(r) \cup sent
    BY <2>1, <2>2 DEF RecipientResolved
  <2> QED BY <1>6, <2>3
<1>8. f \in FormScreen
  BY <1>3, KindsOf
<1> HIDE DEF f
<1>9. /\ f.busy \in BOOLEAN /\ f.failed \in BOOLEAN /\ f.ids \in SUBSET People
      /\ f.resolving \in 0..Cardinality(People) /\ f.sub \in 0..MaxSubmit
      /\ Cardinality(People) \in Nat
  BY <1>8, InboxAssumption, FS_CardinalityType DEF FormScreen
<1>10. /\ left \in 0..Cardinality(People) /\ ids \in SUBSET People /\ failed \in BOOLEAN
       /\ goes \in BOOLEAN
  BY <1>3, <1>4, <1>9
<1>11. ~failed => ids \cup Sought(Rest(r), epoch) = confirmed[r.sub]
  BY <1>3, <1>4
<1>12. goes <=> (left > 0 \/ sends)
  BY <1>3
<1>13. left \in Nat
  BY <1>4
<1> HIDE DEF left, ids, failed
<1>14. /\ t \in FormScreen /\ t.resolving = left /\ t.ids = ids /\ t.failed = failed
       /\ t.sub = f.sub /\ (t.busy <=> goes) /\ t.kind = "form"
  <2> HIDE DEF goes
  <2> QED BY <1>8, <1>10 DEF FormScreen
<1> HIDE DEF t
<1>15. CASE goes
  <2>1. sent \in SUBSET Call /\ \A q \in sent : Starts(q, t, r)
    <3>1. CASE sends
      <4>1. /\ base \in Call /\ base.is = "create" /\ base.id = 0 /\ base.at = "sent"
            /\ base.epoch = epoch /\ base.beyond = FALSE
        BY InboxAssumption, CallsMade, CallFields DEF InboxInv, LoadId
      <4> HIDE DEF base
      <4>2. /\ create \in Call /\ create.is = "create" /\ create.id = 0 /\ create.at = "sent"
            /\ create.epoch = epoch /\ create.beyond = FALSE /\ create.sub = f.sub
            /\ create.ids = ids
        BY <1>9, <1>10, <4>1 DEF Call
      <4> HIDE DEF create
      <4>3. left = 0 /\ ids = confirmed[r.sub] /\ Work(calls, epoch) = {r}
        BY <1>4, <1>11, <3>1
      <4>4. sent = {create}
        BY <3>1
      <4> HIDE DEF sent
      <4> QED BY <1>4, <1>14, <4>2, <4>3, <4>4 DEF Starts
    <3>2. CASE ~sends
      BY <3>2
    <3> QED BY <3>1, <3>2
  <2>2. \A p, q \in sent : p = q
    OBVIOUS
  <2>3. StillWaits(t, r)
    BY <1>4, <1>11, <1>14, <1>15 DEF StillWaits
  <2>4. t \in FormScreen /\ pile' = [pile EXCEPT ![AtTop] = t]
    BY <1>7, <1>14
  <2>5. calls' = Rest(r) \cup sent
    BY <1>7
  <2> HIDE DEF sent, goes, sends
  <2> QED BY <1>1, <1>2, <2>1, <2>2, <2>3, <2>4, <2>5, FormGoesOn
<1>16. CASE ~goes
  <2>1. left = 0 /\ ~sends
    BY <1>12, <1>13, <1>16
  <2>2. calls' = Rest(r) /\ Work(calls, epoch) = {r}
    BY <1>4, <1>7, <2>1
  <2>3. t \in PileScreen /\ t.kind = pile[AtTop].kind /\ ~t.busy
    BY <1>3, <1>14, <1>16 DEF PileScreen, f
  <2>4. wanted' = wanted /\ wanted \subseteq Convs /\ confirmed' = confirmed /\ nextCall' = nextCall
    BY <1>1, PileFacts DEF member
  <2> HIDE DEF sent, goes, sends
  <2> QED BY <1>1, <1>2, <1>7, <2>2, <2>3, <2>4, ComposerFreed
<1> QED BY <1>15, <1>16

-----------------------------------------------------------------------------
LEMMA InboxStarts == InboxInit => InboxInv
<1> SUFFICES ASSUME InboxInit PROVE InboxInv
  OBVIOUS
<1> USE InboxAssumption
<1>1. /\ pile = <<>> /\ calls = {} /\ nextCall = 1 /\ epoch = 1 /\ paused = FALSE
      /\ alerts = [all |-> 0, viewed |-> 0] /\ told = {} /\ created = <<>>
      /\ wanted = {} /\ confirmed = <<>>
  BY DEF InboxInit
<1>2. InboxTypeOK
  <2>1. 1 \in 1..(MaxLoadId + 1) /\ 1 \in 1..MaxEpoch /\ 0 \in 0..MaxAlert
    OBVIOUS
  <2>2. alerts \in [all: 0..MaxAlert, viewed: 0..MaxAlert]
    BY <1>1, <2>1
  <2>3. \A X : <<>> \in Seq(X)
    OBVIOUS
  <2>4. pile \in Seq(InboxScreen \cup ViewScreen \cup FormScreen \cup ReplyScreen \cup {AnyScreen})
        /\ created \in Seq([sub: 1..MaxSubmit, ids: SUBSET People]) /\ confirmed \in Seq(Names)
    BY <1>1, <2>3
  <2>5. calls \subseteq Call /\ told \subseteq Convs /\ wanted \subseteq Convs /\ paused \in BOOLEAN
    BY <1>1
  <2>6. nextCall \in 1..(MaxLoadId + 1) /\ epoch \in 1..MaxEpoch
    BY <1>1, <2>1
  <2> QED BY <2>2, <2>4, <2>5, <2>6 DEF InboxTypeOK
<1>3. FormInv
  BY <1>1 DEF FormInv, BusyOnTop, Work, OneEach, StartedAsConfirmed
<1>4. GoodPile(pile, alerts.viewed, nextCall) /\ GoodCalls(calls, wanted, alerts.viewed, nextCall)
  BY <1>1 DEF GoodPile, GoodCalls
<1>5. alerts.viewed <= alerts.all /\ told \subseteq wanted
  BY <1>1
<1> QED BY <1>2, <1>3, <1>4, <1>5 DEF InboxInv

LEMMA InboxKeepsInv == InboxInv /\ [InboxNext]_inboxVars => InboxInv'
<1> SUFFICES ASSUME InboxInv, [InboxNext]_inboxVars PROVE InboxInv'
  OBVIOUS
<1>1. CASE InboxKeys
  <2>1. ASSUME NEW tab \in Tabs, SwitchInboxTab(tab) \/ OpenInbox(tab) PROVE InboxInv'
    BY <2>1, SwitchInboxTabStep, OpenInboxStep
  <2>2. ASSUME NEW which \in {"convos", "alerts"}, ReloadList(which) PROVE InboxInv'
    BY <2>2, ReloadListStep
  <2>3. ASSUME NEW c \in Convs, MarkConversationRead(c) \/ StartReply(c) PROVE InboxInv'
    BY <2>3, MarkConversationReadStep, StartReplyStep
  <2>4. ASSUME NEW c \in Convs, NEW dual \in BOOLEAN, OpenConversation(c, dual)
        PROVE  InboxInv'
    BY <2>4, OpenConversationStep
  <2>5. ASSUME NEW names \in Names, Submit(names) PROVE InboxInv'
    BY <2>5, SubmitStep
  <2>6. CASE \/ StayOnAlerts \/ TurnMessages \/ MarkAlertRead \/ OpenElsewhere
             \/ LeaveScreen \/ SubmitReply \/ StartForm
    BY <2>6, StayOnAlertsStep, TurnMessagesStep, MarkAlertReadStep, OpenElsewhereStep,
       LeaveScreenStep, SubmitReplyStep, StartFormStep
  <2> QED BY <1>1, <2>1, <2>2, <2>3, <2>4, <2>5, <2>6 DEF InboxKeys
<1>2. ASSUME NEW r \in calls, Answers(r) PROVE InboxInv'
  <2>1. CASE \/ NothingToSay(r) \/ ConversationLoaded(r) \/ AlertsLoaded(r)
             \/ AlertsViewed(r) \/ AlertMarked(r) \/ ConvoReplySent(r)
             \/ RecipientResolved(r)
    BY <2>1, NothingToSayStep, ConversationLoadedStep, AlertsLoadedStep, AlertsViewedStep,
       AlertMarkedStep, ConvoReplySentStep, RecipientResolvedStep
  <2>2. ASSUME NEW c \in Convs, NEW dual \in BOOLEAN,
               ConversationsLoaded(r, c, dual) \/ ConvoCreated(r, c, dual)
        PROVE  InboxInv'
    BY <2>2, ConversationsLoadedStep, ConvoCreatedStep
  <2>3. ASSUME NEW at \in {"ok", "error", "over"}, CarriedOut(r, at) \/ NotCarriedOut(r, at)
        PROVE  InboxInv'
    BY <2>3, CarriedOutStep, NotCarriedOutStep
  <2> QED BY <1>2, <2>1, <2>2, <2>3 DEF Answers
<1>3. CASE NewAlert \/ Pause \/ RecheckedInbox
  BY <1>3, NewAlertStep, PauseStep, RecheckedInboxStep
<1>4. CASE UNCHANGED inboxVars
  <2>1. UNCHANGED <<pile, calls, nextCall, epoch, paused, website, member>>
    BY <1>4 DEF inboxVars, website, member
  <2>2. Ready(pile, calls, wanted, nextCall)
    BY ReadyFor
  <2>3. OnlyScreens(pile, calls, wanted)
    BY <2>1, <2>2, LoadsNothing
  <2> QED BY <2>1, <2>3, PileFacts, InPlaceNone, ScreensStep DEF Idle, member
<1> QED BY <1>1, <1>2, <1>3, <1>4 DEF InboxNext

(* Of everything the Inbox screens do: each request, and the answer it gets, *)
(* belongs to the screen that waits for it, a composer that waits is the one *)
(* on top, and what it looks for or creates is what the member named.        *)
THEOREM InboxInvariance == InboxSpec => []InboxInv
<1>1. InboxInit => InboxInv
  BY InboxStarts
<1>2. InboxInv /\ [InboxNext]_inboxVars => InboxInv'
  BY InboxKeepsInv
<1> QED BY <1>1, <1>2, PTL DEF InboxSpec

(* However many forms are sent and whatever of them is refused, lost or       *)
(* answered late, one form never starts two conversations, and the one it    *)
(* starts has the recipients it named (NewConversationState::submit,         *)
(* RecipientResolved, ConvoCreated).                                         *)
THEOREM StartedAlwaysAsConfirmed == InboxSpec => []StartedAsConfirmed
<1>1. InboxInv => StartedAsConfirmed
  BY DEF InboxInv, FormInv
<1> QED BY <1>1, InboxInvariance, PTL

(* Whatever the Inbox loads of its own accord and in whatever order lists     *)
(* and marks are answered, no conversation is marked read that the member    *)
(* did not ask for, and no alert hides behind a mark that does not cover it  *)
(* (load_conversation, mark_alerts_viewed, AlertsLoaded, AlertsViewed).      *)
THEOREM MarksAreAlwaysMeant == InboxSpec => []MarksAreMeant
<1>1. InboxInv => MarksAreMeant
  <2> SUFFICES ASSUME InboxInv PROVE MarksAreMeant
    OBVIOUS
  <2>1. \A i \in DOMAIN pile : AlertsOK(pile[i], alerts.viewed, nextCall)
    BY PileFacts
  <2> QED BY <2>1 DEF InboxInv, MarksAreMeant, AlertsOK, Of
<1> QED BY <1>1, InboxInvariance, PTL
=============================================================================
