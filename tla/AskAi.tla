------------------------------- MODULE AskAi -------------------------------
(***************************************************************************)
(* Ask the AI: the chats on the screen stack, the request that streams an   *)
(* answer, and the channel that brings its frames to the screen.            *)
(*                                                                         *)
(* A request is known by the ask_generation it was sent under.  Tasks run   *)
(* on other threads: one that is aborted may still send before it stops.    *)
(***************************************************************************)
EXTENDS Integers, Sequences

CONSTANTS
  MaxGen,      \* bound: ask_generation
  MaxFrame,    \* bound: frames of answer text in a stream
  MaxScreens   \* bound: screens on the stack

ASSUME AskAssumption == MaxGen \in Nat /\ MaxFrame \in Nat /\ MaxScreens \in Nat

VARIABLES
  screens,   \* the stack; "other" stands for any screen but a chat
  asking,    \* App.ask_generation
  task,      \* the request of each generation
  askTask,   \* App.ask_task: the request to abort, NoRequest when there is none
  frames,    \* the channel, of this session's messages
  asked      \* the question each request asks

askVars == <<screens, asking, task, askTask, frames, asked>>

NoRequest == 0
Gens == 1..MaxGen

\* A question is known by the generation it was first asked under.
Frame == [turn: Gens, n: 1..MaxFrame]
Turn == [question: Gens, answer: Seq(Frame), resent: BOOLEAN,
         state: {"streaming", "done", "failed", "cancelled"}]
AskScreen == [chat: BOOLEAN, busy: BOOLEAN, seq: 0..MaxGen, turns: Seq(Turn)]
Task == [at: {"none", "sent", "streaming", "told", "over"}, sent: 0..MaxFrame]
Event == [turn: Gens, n: 0..MaxFrame,
          is: {"delta", "completed", "failed", "ok", "error", "history"}]

Fresh == [chat |-> TRUE, busy |-> FALSE, seq |-> 0, turns |-> <<>>]
Elsewhere == [Fresh EXCEPT !.chat = FALSE]

InFront == Len(screens)
LastTurn(a) == a.turns[Len(a.turns)]
WithLast(a, t) == [a EXCEPT !.turns = [@ EXCEPT ![Len(a.turns)] = t]]

AskTypeOK ==
  /\ screens \in Seq(AskScreen) /\ screens # <<>>
  /\ asking \in 0..MaxGen /\ askTask \in 0..asking
  /\ task \in [Gens -> Task]
  /\ frames \in Seq(Event)
  /\ asked \in [Gens -> 0..MaxGen]

AskInit ==
  /\ screens = <<Elsewhere>>
  /\ asking = 0 /\ askTask = NoRequest
  /\ task = [g \in Gens |-> [at |-> "none", sent |-> 0]]
  /\ frames = <<>>
  /\ asked = [g \in Gens |-> NoRequest]
-----------------------------------------------------------------------------
(* stop_ask_task: of the chats given. *)
Stopped(a) ==
  IF ~a.busy THEN a
  ELSE LET b == [a EXCEPT !.busy = FALSE, !.seq = asking + 1]
       IN IF LastTurn(a).state # "streaming" THEN b
          ELSE WithLast(b, [LastTurn(a) EXCEPT !.state = "cancelled"])

StopAskTask(stack) ==
  /\ asking < MaxGen
  /\ asking' = asking + 1
  /\ askTask' = NoRequest
  /\ screens' = [i \in DOMAIN stack |-> Stopped(stack[i])]

\* spawn_ask: the request before it is aborted.
SpawnAsk(g, question) ==
  /\ task' = [task EXCEPT ![g] = [at |-> "sent", sent |-> 0]]
  /\ askTask' = g
  /\ asked' = [asked EXCEPT ![g] = question]

StillRuns(g) == task[g].at \notin {"none", "over"}

(* An aborted task stops at its next await. *)
Vanish(g) ==
  /\ StillRuns(g) /\ g # askTask
  /\ task' = [task EXCEPT ![g].at = "over"]
  /\ UNCHANGED <<screens, asking, askTask, frames, asked>>
-----------------------------------------------------------------------------
(* open_ask_ai, and any other screen. *)
Open(screen) ==
  /\ InFront < MaxScreens /\ ~(screen.chat /\ screens[InFront].chat)
  /\ screens' = Append(screens, screen)
  /\ UNCHANGED <<asking, task, askTask, frames, asked>>

\* The stream goes on behind the screen that is gone.
PopScreenOnly ==                                       \* mutant
  /\ InFront > 1
  /\ screens' = SubSeq(screens, 1, InFront - 1)
  /\ UNCHANGED <<asking, task, askTask, frames, asked>>

(* pop_screen: an answer nobody can see any more is stopped. *)
PopScreen ==
  /\ InFront > 1
  /\ LET rest == SubSeq(screens, 1, InFront - 1)
     IN IF screens[InFront].busy THEN StopAskTask(rest)
        ELSE screens' = rest /\ UNCHANGED <<asking, askTask>>
  /\ UNCHANGED <<task, frames, asked>>

(* ask::submit, then ask_ai. *)
Ask ==
  /\ screens[InFront].chat /\ ~screens[InFront].busy /\ asking < MaxGen
  /\ LET g == asking + 1
         turn == [question |-> g, answer |-> <<>>, resent |-> FALSE,
                  state |-> "streaming"]
         turns == Append(screens[InFront].turns, turn)
     IN /\ asking' = g
        /\ screens' = [screens EXCEPT ![InFront] =
                        [@ EXCEPT !.busy = TRUE, !.seq = g, !.turns = turns]]
        /\ SpawnAsk(g, g)
  /\ UNCHANGED frames

(* Esc on a busy chat, and n. *)
Cancel ==
  /\ screens[InFront].chat /\ screens[InFront].busy
  /\ StopAskTask(screens)
  /\ UNCHANGED <<task, frames, asked>>

NewChat ==
  /\ screens[InFront].chat
  /\ StopAskTask([screens EXCEPT ![InFront] = Fresh])
  /\ UNCHANGED <<task, frames, asked>>
-----------------------------------------------------------------------------
(* api.ask_ai, with the parser's verdict as the last frame of a stream. *)
Sends(g, is, n) == frames' = Append(frames, [turn |-> g, is |-> is, n |-> n])

\* Refused before the stream, history_required among the reasons; or the
\* connection breaks in the middle of it.
Errs(g, is) ==
  /\ task[g].at = "sent" \/ (task[g].at = "streaming" /\ is = "error")
  /\ task' = [task EXCEPT ![g].at = "over"]
  /\ Sends(g, is, 0)
  /\ UNCHANGED <<screens, asking, askTask, asked>>

Delta(g) ==
  /\ task[g].at \in {"sent", "streaming"} /\ task[g].sent < MaxFrame
  /\ task' = [task EXCEPT ![g] = [at |-> "streaming", sent |-> @.sent + 1]]
  /\ Sends(g, "delta", task[g].sent + 1)
  /\ UNCHANGED <<screens, asking, askTask, asked>>

Verdict(g, is) ==
  /\ task[g].at \in {"sent", "streaming"}
  /\ task' = [task EXCEPT ![g].at = "told"]
  /\ Sends(g, is, 0)
  /\ UNCHANGED <<screens, asking, askTask, asked>>

Finish(g) ==
  /\ task[g].at = "told"
  /\ task' = [task EXCEPT ![g].at = "over"]
  /\ Sends(g, "ok", 0)
  /\ UNCHANGED <<screens, asking, askTask, asked>>
-----------------------------------------------------------------------------
\* Whatever arrives belongs to the chat.
WaitingChats(turn) == {i \in DOMAIN screens : screens[i].chat}      \* mutant

(* on_ask_event and on_ask_done: the chat that waits for this generation. *)
Waiting(turn) == {i \in DOMAIN screens : screens[i].chat /\ screens[i].seq = turn}
Topmost(turn) == CHOOSE i \in Waiting(turn) : \A j \in Waiting(turn) : j <= i

\* The end of a turn that has ended counts too.
NothingMeant(e) == Waiting(e.turn) = {}                \* mutant

NothingToDo(e) ==
  IF Waiting(e.turn) = {} THEN TRUE ELSE ~screens[Topmost(e.turn)].busy

Puts(i, a) == screens' = [screens EXCEPT ![i] = a]

Dropped(e) ==
  /\ NothingToDo(e)
  /\ UNCHANGED <<screens, asking, task, askTask, asked>>

OnDelta(e) ==
  /\ e.is = "delta" /\ ~NothingToDo(e)
  /\ LET i == Topmost(e.turn)
         t == LastTurn(screens[i])
     IN Puts(i, WithLast(screens[i],
                  [t EXCEPT !.answer = Append(@, [turn |-> e.turn, n |-> e.n])]))
  /\ UNCHANGED <<asking, task, askTask, asked>>

Ends(e, state) ==
  LET i == Topmost(e.turn)
      a == [screens[i] EXCEPT !.busy = FALSE]
  IN Puts(i, WithLast(a, [LastTurn(a) EXCEPT !.state = state]))

OnVerdict(e) ==
  /\ e.is \in {"completed", "failed"} /\ ~NothingToDo(e)
  /\ Ends(e, IF e.is = "completed" THEN "done" ELSE "failed")
  /\ UNCHANGED <<asking, task, askTask, asked>>

WantsHistory(e) ==
  LET t == LastTurn(screens[Topmost(e.turn)])
  IN e.is = "history" /\ ~t.resent /\ t.answer = <<>>

OnDone(e) ==
  /\ e.is \in {"ok", "error", "history"} /\ ~NothingToDo(e)
  /\ ~WantsHistory(e)
  /\ Ends(e, "failed")
  /\ UNCHANGED <<asking, task, askTask, asked>>

\* The website lost the conversation: the question is asked again, once,
\* with the transcript.
OnHistoryRequired(e) ==
  /\ ~NothingToDo(e) /\ WantsHistory(e) /\ asking < MaxGen
  /\ LET i == Topmost(e.turn)
         t == LastTurn(screens[i])
         g == asking + 1
     IN /\ asking' = g
        /\ Puts(i, WithLast([screens[i] EXCEPT !.seq = g],
                            [t EXCEPT !.resent = TRUE]))
        /\ SpawnAsk(g, t.question)

Handle ==
  /\ frames # <<>>
  /\ frames' = Tail(frames)
  /\ LET e == Head(frames)
     IN Dropped(e) \/ OnDelta(e) \/ OnVerdict(e) \/ OnDone(e)
        \/ OnHistoryRequired(e)
-----------------------------------------------------------------------------
\* begin_session: the tasks are aborted and their messages never handled.
NewSession ==
  /\ task' = [g \in Gens |-> IF StillRuns(g) THEN [task[g] EXCEPT !.at = "over"]
                             ELSE task[g]]
  /\ frames' = <<>>

(* cancel_recovered_work. *)
RecheckSession ==
  /\ StopAskTask(screens)
  /\ NewSession
  /\ UNCHANGED asked

(* end_session: every screen but Home is left. *)
EndSession ==
  /\ InFront > 1
  /\ IF \E i \in DOMAIN screens : screens[i].busy
     THEN StopAskTask(<<Elsewhere>>)
     ELSE screens' = <<Elsewhere>> /\ UNCHANGED <<asking, askTask>>
  /\ NewSession
  /\ UNCHANGED asked
-----------------------------------------------------------------------------
AskNext ==
  \/ \E screen \in {Fresh, Elsewhere} : Open(screen)
  \/ PopScreen \/ Ask \/ Cancel \/ NewChat
  \/ Handle \/ RecheckSession \/ EndSession
  \/ \E g \in Gens :
       \/ Delta(g) \/ Finish(g) \/ Vanish(g)
       \/ \E is \in {"completed", "failed"} : Verdict(g, is)
       \/ \E is \in {"history", "error"} : Errs(g, is)

AskSpec == AskInit /\ [][AskNext]_askVars
-----------------------------------------------------------------------------
Turns == UNION {{screens[i].turns[k] : k \in DOMAIN screens[i].turns} :
                i \in DOMAIN screens}

FramesOf(g, n) == [k \in 1..n |-> [turn |-> g, n |-> k]]

\* A question is sent to the AI twice at most, the second time for a lost
\* conversation.
AskedTwiceAtMost ==
  \A f, g \in Gens :
    (f < g /\ asked[f] # NoRequest /\ asked[f] = asked[g]) =>
      asked[g] = f /\ \A h \in Gens : asked[h] = f => h \in {f, g}

(* What stands under a question answers that question: the frames of one    *)
(* request, in the order it sent them, and all of them once the turn is     *)
(* done.  A stopped stream's stragglers, the first try of a question that   *)
(* is asked again and another chat's answer are never among them; and no    *)
(* question is asked more often than the lost conversation calls for        *)
(* (on_ask_event, on_ask_done).                                             *)
AnswersTheQuestion ==
  /\ AskedTwiceAtMost
  /\ \A t \in Turns :
       \E g \in Gens : \E n \in 0..task[g].sent :
         /\ asked[g] = t.question
         /\ t.answer = FramesOf(g, n)
         /\ t.state = "done" => n = task[g].sent

\* A request that runs, was not aborted and has no verdict yet.
Streams == askTask # NoRequest /\ task[askTask].at \in {"sent", "streaming"}

(* An answer nobody waits for is not streamed, which the website would      *)
(* charge to the member's allowance; and the chat that asked last does not  *)
(* wait for ever: its request still runs, or what ends its turn is on its    *)
(* way (pop_screen, stop_ask_task, end_session).                             *)
ChatsAndStreamsAgree ==
  /\ Streams => \E i \in DOMAIN screens :
                  screens[i].busy /\ screens[i].seq = askTask
  /\ \A i \in DOMAIN screens :
       (screens[i].busy /\ screens[i].seq = asking) =>
         \/ askTask = asking /\ StillRuns(asking)
         \/ \E k \in DOMAIN frames :
              frames[k].turn = asking /\ frames[k].is # "delta"

(* A turn that was answered, failed or stopped is never written to again,   *)
(* whatever a stream that was aborted still sends (on_ask_event).           *)
SettledStays ==
  [][\A i \in DOMAIN screens, j \in DOMAIN screens' :
       \A k \in DOMAIN screens[i].turns, l \in DOMAIN screens'[j].turns :
         (/\ screens[i].turns[k].state # "streaming"
          /\ screens[i].turns[k].question = screens'[j].turns[l].question) =>
           screens'[j].turns[l] = screens[i].turns[k]]_askVars
=============================================================================
