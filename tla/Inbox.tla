-------------------------------- MODULE Inbox --------------------------------
(***************************************************************************)
(* Conversations and alerts: the Inbox screens with their lists and their   *)
(* pane, conversations read on screens of their own, replies, the form that *)
(* starts a conversation, and what all of them tell the website about the   *)
(* member.                                                                 *)
(*                                                                         *)
(* A page of a conversation is one it is known to have, or the one beyond,  *)
(* where a reply just sent may have landed.  Which rows a list holds is left *)
(* open; of the alerts it matters how many there are.                       *)
(***************************************************************************)
EXTENDS Integers, Sequences, FiniteSets

CONSTANTS
  Convs,       \* conversations
  People,      \* members who may be written to
  NoOne,
  MaxLoadId,   \* bound: App.next_load_id
  MaxCalls,    \* bound: requests that are not over
  MaxPile,     \* bound: screens over Home
  MaxSubmit,   \* bound: how often the form is sent
  MaxAlert,    \* bound: alerts
  MaxEpoch     \* bound: App.session_generation

ASSUME InboxAssumption ==
  /\ NoOne \notin Convs \cup People
  /\ {MaxLoadId, MaxCalls, MaxPile, MaxSubmit, MaxAlert} \subseteq Nat
  /\ MaxEpoch \in Nat \ {0} /\ IsFiniteSet(People)

VARIABLES
  pile,       \* the screens over Home
  calls,      \* requests, until their answer is handled
  nextCall,   \* App.next_load_id
  epoch,      \* App.session_generation
  paused,     \* requests_paused, while the session is rechecked
  alerts,     \* the website: how many alerts there are, how many are viewed
  told,       \* the website: the conversations marked read
  created,    \* the website: the conversations it started, each with the
              \* form's submission and its recipients
  wanted,     \* the conversations the member asked to see or to mark
  confirmed   \* the recipients of each submission of the form

inboxVars == <<pile, calls, nextCall, epoch, paused, alerts, told, created,
  wanted, confirmed>>
website == <<alerts, told, created>>
member == <<wanted, confirmed>>

Tabs == {"conversations", "alerts"}
LoadId == 0..MaxLoadId
Names == SUBSET People \ {{}}

\* Screens.  An Inbox without an open conversation has NoPane.
ConvView(c) == [kind |-> "view", conv |-> c, load |-> 0, loading |-> TRUE]
NoPane == [ConvView(NoOne) EXCEPT !.loading = FALSE]
InboxOn(tab) ==
  [kind |-> "inbox", tab |-> tab, pane |-> NoPane,
   convos |-> [load |-> 0, loading |-> TRUE, held |-> FALSE],
   alerts |-> [load |-> 0, loading |-> TRUE, held |-> 0, upto |-> 0],
   viewed |-> FALSE, pending |-> FALSE, viewId |-> 0]
EmptyForm == [kind |-> "form", busy |-> FALSE, resolving |-> 0, ids |-> {},
              failed |-> FALSE, sub |-> 0]
ReplyTo(c) == [kind |-> "reply", conv |-> c, busy |-> FALSE]
AnyScreen == [kind |-> "other"]

ViewScreen == [kind: {"view"}, conv: Convs \cup {NoOne}, load: LoadId,
               loading: BOOLEAN]
InboxScreen ==
  [kind: {"inbox"}, tab: Tabs, pane: ViewScreen,
   convos: [load: LoadId, loading: BOOLEAN, held: BOOLEAN],
   alerts: [load: LoadId, loading: BOOLEAN, held: LoadId, upto: 0..MaxAlert],
   viewed: BOOLEAN, pending: BOOLEAN, viewId: LoadId]
FormScreen == [kind: {"form"}, busy: BOOLEAN, resolving: 0..Cardinality(People),
               ids: SUBSET People, failed: BOOLEAN, sub: 0..MaxSubmit]
ReplyScreen == [kind: {"reply"}, conv: Convs, busy: BOOLEAN]

\* A request, then its answer: is, what it loads or does, and its load id.
Call == [is: {"convos", "conv", "alerts", "viewed", "alert", "mark", "quiet",
              "find", "create", "reply"},
         id: LoadId, about: Convs \cup People \cup {NoOne}, mark: BOOLEAN,
         beyond: BOOLEAN, sub: 0..MaxSubmit, ids: SUBSET People,
         epoch: 1..MaxEpoch, at: {"sent", "ok", "error", "over"},
         upto: 0..MaxAlert, unread: BOOLEAN]

NewCall(is, id) ==
  [is |-> is, id |-> id, about |-> NoOne, mark |-> FALSE, beyond |-> FALSE,
   sub |-> 0, ids |-> {}, epoch |-> epoch, at |-> "sent", upto |-> 0,
   unread |-> FALSE]
CallAbout(is, x) == [NewCall(is, 0) EXCEPT !.about = x]
ConvCall(id, c, mark, beyond) ==
  [NewCall("conv", id) EXCEPT !.about = c, !.mark = mark, !.beyond = beyond]

InboxTypeOK ==
  /\ pile \in Seq(InboxScreen \cup ViewScreen \cup FormScreen \cup ReplyScreen
                  \cup {AnyScreen})
  /\ calls \subseteq Call /\ nextCall \in 1..(MaxLoadId + 1)
  /\ epoch \in 1..MaxEpoch /\ paused \in BOOLEAN
  /\ alerts \in [all: 0..MaxAlert, viewed: 0..MaxAlert]
  /\ told \subseteq Convs /\ wanted \subseteq Convs
  /\ created \in Seq([sub: 1..MaxSubmit, ids: SUBSET People])
  /\ confirmed \in Seq(Names)

InboxInit ==
  /\ pile = <<>> /\ calls = {} /\ nextCall = 1 /\ epoch = 1 /\ paused = FALSE
  /\ alerts = [all |-> 0, viewed |-> 0] /\ told = {} /\ created = <<>>
  /\ wanted = {} /\ confirmed = <<>>

AtTop == Len(pile)
TopIs(kind) == AtTop > 0 /\ pile[AtTop].kind = kind
Of(screens, kind) == {i \in DOMAIN screens : screens[i].kind = kind}
Upmost(S) == CHOOSE i \in S : \A j \in S : j <= i
Room(n) == Cardinality(calls) + n <= MaxCalls

RepliesTo(c) == {i \in Of(pile, "reply") : pile[i].conv = c}
PileWithout(i) ==
  [k \in 1..(AtTop - 1) |-> IF k < i THEN pile[k] ELSE pile[k + 1]]

\* navigation_is_blocked: by what sends or resolves.
NavigationBlocked ==
  \E i \in Of(pile, "form") \cup Of(pile, "reply") : pile[i].busy
-----------------------------------------------------------------------------
\* load_conversation: the topmost screen that shows it waits for this load.
ShowsConv(screen, c) ==
  \/ screen.kind = "view" /\ screen.conv = c
  \/ screen.kind = "inbox" /\ screen.pane.conv = c
Showing(screens, c) == {i \in DOMAIN screens : ShowsConv(screens[i], c)}

WithView(screens, i, v) ==
  [screens EXCEPT ![i] = IF @.kind = "inbox" THEN [@ EXCEPT !.pane = v] ELSE v]
ViewOf(screen) == IF screen.kind = "inbox" THEN screen.pane ELSE screen

Stamped(screens, c, id) ==
  LET S == Showing(screens, c)
      v == ViewOf(screens[Upmost(S)])
  IN IF S = {} THEN screens
     ELSE WithView(screens, Upmost(S), [v EXCEPT !.load = id, !.loading = TRUE])

LoadConversation(screens, others, c, mark, beyond) ==
  /\ nextCall <= MaxLoadId /\ Cardinality(others) < MaxCalls
  /\ pile' = Stamped(screens, c, nextCall)
  /\ calls' = others \cup {ConvCall(nextCall, c, mark, beyond)}
  /\ nextCall' = nextCall + 1

\* load_conversations and load_alerts, of the topmost Inbox.
LoadList(screens, others, which) ==
  /\ nextCall <= MaxLoadId /\ Cardinality(others) < MaxCalls
  /\ LET S == Of(screens, "inbox")
     IN pile' =
          IF S = {} THEN screens
          ELSE [screens EXCEPT ![Upmost(S)] =
                 IF which = "convos"
                 THEN [@ EXCEPT !.convos.load = nextCall, !.convos.loading = TRUE]
                 ELSE [@ EXCEPT !.alerts.load = nextCall, !.alerts.loading = TRUE]]
  /\ calls' = others \cup {NewCall(which, nextCall)}
  /\ nextCall' = nextCall + 1

\* mark_alerts_viewed, for an Inbox that is on top and shows its alerts; next
\* is the next load id.
MarkAlertsViewed(screens, others, next) ==
  LET n == Len(screens)
      due == /\ n > 0 /\ ~paused
             /\ screens[n].kind = "inbox"
             /\ screens[n].tab = "alerts"
             /\ ~screens[n].viewed /\ ~screens[n].pending
  IN IF due
     THEN /\ next <= MaxLoadId /\ Cardinality(others) < MaxCalls
          /\ pile' = [screens EXCEPT ![n].pending = TRUE, ![n].viewId = next]
          /\ calls' = others \cup {NewCall("viewed", next)}
          /\ nextCall' = next + 1
     ELSE pile' = screens /\ calls' = others /\ nextCall' = next
-----------------------------------------------------------------------------
(* open_inbox. *)
SwitchInboxTab(tab) ==
  /\ ~NavigationBlocked /\ TopIs("inbox") /\ pile[AtTop].tab # tab
  /\ LET ib == [pile[AtTop] EXCEPT !.tab = tab]
         left == [ib EXCEPT !.viewed = FALSE, !.pending = FALSE, !.viewId = 0]
     IN MarkAlertsViewed([pile EXCEPT ![AtTop] =
                           IF tab = "alerts" THEN ib ELSE left],
                         calls, nextCall)
  /\ UNCHANGED <<epoch, paused, website, member>>

\* c or a again, over a mark that failed.
StayOnAlerts ==
  /\ ~NavigationBlocked /\ TopIs("inbox") /\ pile[AtTop].tab = "alerts"
  /\ ~pile[AtTop].viewed /\ ~pile[AtTop].pending /\ ~paused
  /\ MarkAlertsViewed(pile, calls, nextCall)
  /\ UNCHANGED <<epoch, paused, website, member>>

OpenInbox(tab) ==
  /\ ~NavigationBlocked /\ ~TopIs("inbox") /\ AtTop < MaxPile
  /\ Room(2) /\ nextCall < MaxLoadId
  /\ LET ib == [InboxOn(tab) EXCEPT !.convos.load = nextCall,
                                    !.alerts.load = nextCall + 1]
     IN MarkAlertsViewed(Append(pile, ib),
                         calls \cup {NewCall("convos", nextCall),
                                     NewCall("alerts", nextCall + 1)},
                         nextCall + 2)
  /\ UNCHANGED <<epoch, paused, website, member>>

(* R [ ] of a list, each refused while it loads. *)
ReloadList(which) ==
  /\ TopIs("inbox")
  /\ LET ib == pile[AtTop]
     IN IF which = "convos" THEN ib.tab = "conversations" /\ ~ib.convos.loading
        ELSE ib.tab = "alerts" /\ ~ib.alerts.loading
  /\ LoadList(pile, calls, which)
  /\ UNCHANGED <<epoch, paused, website, member>>

\* open_conversation, on the screens given; dual is whether the Inbox on top
\* shows its pane, which the size of the window decides at any time.
OpenOn(screens, others, c, dual) ==
  LET n == Len(screens)
  IN IF n > 0 /\ screens[n].kind = "inbox" /\ dual
     THEN IF screens[n].pane.conv = c /\ screens[n].pane.loading
          THEN pile' = screens /\ calls' = others /\ UNCHANGED nextCall
          ELSE LoadConversation([screens EXCEPT ![n].pane = ConvView(c)],
                                others, c, TRUE, FALSE)
     ELSE IF n > 0 /\ screens[n] \in ViewScreen /\ screens[n].conv = c
             /\ screens[n].loading
          THEN pile' = screens /\ calls' = others /\ UNCHANGED nextCall
          ELSE LoadConversation(Append(screens, ConvView(c)), others, c, TRUE,
                                FALSE)

(* Enter on a conversation of the list. *)
OpenConversation(c, dual) ==
  /\ TopIs("inbox") /\ pile[AtTop].tab = "conversations"
  /\ pile[AtTop].convos.held /\ (dual \/ AtTop < MaxPile)
  /\ OpenOn(pile, calls, c, dual)
  /\ wanted' = wanted \cup {c}
  /\ UNCHANGED <<epoch, paused, website, confirmed>>

(* [ ] in a conversation, refused while it loads. *)
TurnMessages ==
  /\ TopIs("inbox") \/ TopIs("view")
  /\ LET v == ViewOf(pile[AtTop])
     IN /\ v.conv # NoOne /\ ~v.loading
        /\ LoadConversation(pile, calls, v.conv, TRUE, FALSE)
        /\ wanted' = wanted \cup {v.conv}
  /\ UNCHANGED <<epoch, paused, website, confirmed>>

(* m on a conversation, Enter on an alert. *)
MarkConversationRead(c) ==
  /\ TopIs("inbox") /\ pile[AtTop].tab = "conversations"
  /\ pile[AtTop].convos.held /\ Room(1)
  /\ calls' = calls \cup {CallAbout("mark", c)}
  /\ wanted' = wanted \cup {c}
  /\ UNCHANGED <<pile, nextCall, epoch, paused, website, confirmed>>

MarkAlertRead ==
  /\ TopIs("inbox") /\ pile[AtTop].tab = "alerts" /\ pile[AtTop].alerts.upto > 0
  /\ Room(1)
  /\ calls' = calls \cup {NewCall("alert", 0)}
  /\ UNCHANGED <<pile, nextCall, epoch, paused, website, member>>
-----------------------------------------------------------------------------
(* Any other screen is opened; a screen is left. *)
OpenElsewhere ==
  /\ ~NavigationBlocked /\ ~TopIs("other") /\ AtTop < MaxPile
  /\ pile' = Append(pile, AnyScreen)
  /\ UNCHANGED <<calls, nextCall, epoch, paused, website, member>>

LeaveScreen ==
  /\ ~NavigationBlocked /\ AtTop > 0
  /\ pile' = SubSeq(pile, 1, AtTop - 1)
  /\ UNCHANGED <<calls, nextCall, epoch, paused, website, member>>

(* reply_to_conversation, in the place of a reply left under other screens. *)
StartReply(c) ==
  /\ TopIs("inbox") \/ TopIs("view")
  /\ ViewOf(pile[AtTop]).conv = c
  /\ LET S == RepliesTo(c)
         rest == IF S = {} THEN pile ELSE PileWithout(Upmost(S))
     IN /\ Len(rest) < MaxPile /\ (S # {} => ~pile[Upmost(S)].busy)
        /\ pile' = Append(rest, ReplyTo(c))
  /\ UNCHANGED <<calls, nextCall, epoch, paused, website, member>>

SubmitReply ==
  /\ TopIs("reply") /\ ~pile[AtTop].busy /\ Room(1)
  /\ pile' = [pile EXCEPT ![AtTop].busy = TRUE]
  /\ calls' = calls \cup {CallAbout("reply", pile[AtTop].conv)}
  /\ UNCHANGED <<nextCall, epoch, paused, website, member>>

(* n, from the Inbox or from a profile. *)
StartForm ==
  /\ TopIs("inbox") \/ TopIs("other")
  /\ AtTop < MaxPile
  /\ pile' = Append(pile, EmptyForm)
  /\ UNCHANGED <<calls, nextCall, epoch, paused, website, member>>

(* NewConversationState::submit, then ResolveRecipients. *)
Submit(names) ==
  /\ TopIs("form") /\ ~pile[AtTop].busy
  /\ Room(Cardinality(names)) /\ Len(confirmed) < MaxSubmit
  /\ LET k == Len(confirmed) + 1
     IN /\ pile' = [pile EXCEPT ![AtTop] =
                     [EmptyForm EXCEPT !.busy = TRUE, !.sub = k,
                                       !.resolving = Cardinality(names)]]
        /\ calls' = calls \cup
             {[CallAbout("find", x) EXCEPT !.sub = k] : x \in names}
        /\ confirmed' = Append(confirmed, names)
  /\ UNCHANGED <<nextCall, epoch, paused, website, wanted>>
-----------------------------------------------------------------------------
\* The website: what a request makes of what it keeps about the member.
Effect(r) ==
  /\ alerts' = IF r.is = "viewed" THEN [alerts EXCEPT !.viewed = alerts.all]
               ELSE alerts
  /\ told' = IF r.is \in {"mark", "quiet"} THEN told \cup {r.about} ELSE told
  /\ created' = IF r.is = "create"
                THEN Append(created, [sub |-> r.sub, ids |-> r.ids])
                ELSE created

\* The answer, which nobody waits for when the request is a quiet one.
AnswerAs(r, at) ==
  calls' = (calls \ {r}) \cup
             IF r.is = "quiet" THEN {}
             ELSE {[r EXCEPT !.at = at,
                             !.upto = IF r.is = "alerts" THEN alerts.all ELSE 0,
                             !.unread = r.is = "alerts"
                                          /\ alerts.all > alerts.viewed]}

(* A request is carried out, whether or not its answer gets back; or it is   *)
(* refused, or lost.  A page beyond the last is refused with the last.       *)
CarriedOut(r, at) ==
  /\ r.at = "sent" /\ at \in {"ok", "error"}
  /\ Effect(r) /\ AnswerAs(r, at)
  /\ UNCHANGED <<pile, nextCall, epoch, paused, member>>

NotCarriedOut(r, at) ==
  /\ r.at = "sent" /\ at \in (IF r.beyond THEN {"over", "error"} ELSE {"error"})
  /\ AnswerAs(r, at)
  /\ UNCHANGED <<pile, nextCall, epoch, paused, website, member>>

NewAlert ==
  /\ alerts.all < MaxAlert
  /\ alerts' = [alerts EXCEPT !.all = @ + 1]
  /\ UNCHANGED <<pile, calls, nextCall, epoch, paused, told, created, member>>
-----------------------------------------------------------------------------
\* An answer of an earlier session counts in this one.
AnyEpoch(r) == TRUE                                    \* mutant

\* session_msg: an answer counts in the session its request was sent in.
OfThisSession(r) == r.epoch = epoch

Arrived(r, is) == r.is = is /\ r.at # "sent" /\ OfThisSession(r)
Rest(r) == calls \ {r}

(* Answers that change nothing: of an earlier session, or of a mark whose    *)
(* row and badge the model leaves out.                                       *)
NothingToSay(r) ==
  /\ r.at # "sent"
  /\ OfThisSession(r) => r.is = "mark" \/ (r.is = "alert" /\ r.at = "error")
  /\ calls' = Rest(r)
  /\ UNCHANGED <<pile, nextCall, epoch, paused, website, member>>

\* The pane of a wide Inbox is filled with the first conversation.
PrimePane(screens, others, c) == LoadConversation(screens, others, c, FALSE, FALSE)

ConversationsLoaded(r, c, dual) ==
  /\ Arrived(r, "convos")
  /\ LET S == {i \in Of(pile, "inbox") : pile[i].convos.load = r.id}
         i == Upmost(S)
         ib == [pile[i] EXCEPT !.convos.loading = FALSE,
                               !.convos.held = @ \/ r.at = "ok"]
     IN IF S = {} THEN pile' = pile /\ calls' = Rest(r) /\ UNCHANGED nextCall
        ELSE IF /\ r.at = "ok" /\ dual /\ ib.pane = NoPane
                /\ ib.tab = "conversations"
             THEN PrimePane([pile EXCEPT ![i] = [ib EXCEPT !.pane = ConvView(c)]],
                            Rest(r), c)
             ELSE /\ pile' = [pile EXCEPT ![i] = ib]
                  /\ calls' = Rest(r) /\ UNCHANGED nextCall
  /\ UNCHANGED <<epoch, paused, website, member>>

ConversationLoaded(r) ==
  /\ Arrived(r, "conv")
  /\ LET S == {i \in Showing(pile, r.about) : ViewOf(pile[i]).load = r.id}
         i == Upmost(S)
         done == WithView(pile, i, [ViewOf(pile[i]) EXCEPT !.loading = FALSE])
     IN CASE S = {} \/ r.at = "error" ->
               /\ pile' = IF S = {} THEN pile ELSE done
               /\ calls' = Rest(r) /\ UNCHANGED nextCall
          [] S # {} /\ r.at = "over" ->
               LoadConversation(pile, Rest(r), r.about, r.mark, FALSE)
          [] S # {} /\ r.at = "ok" ->
               /\ pile' = done
               /\ calls' = Rest(r) \cup
                    IF r.mark THEN {CallAbout("quiet", r.about)} ELSE {}
               /\ UNCHANGED nextCall
  /\ UNCHANGED <<epoch, paused, website, member>>

\* The Inbox keeps waiting for the mark that a newer list overtook.
CoverNothing(ib, r) ==                                 \* mutant
  IF r.unread /\ r.id > ib.viewId THEN [ib EXCEPT !.viewed = FALSE] ELSE ib

\* A list asked for after a mark shows whether that mark covers it.
Overtaken(ib, r) ==
  IF r.unread /\ r.id > ib.viewId
  THEN [ib EXCEPT !.viewed = FALSE, !.pending = FALSE, !.viewId = 0]
  ELSE ib

AlertsLoaded(r) ==
  /\ Arrived(r, "alerts")
  /\ LET S == {i \in Of(pile, "inbox") : pile[i].alerts.load = r.id}
         i == Upmost(S)
         ib == [pile[i] EXCEPT !.alerts.loading = FALSE]
     IN CASE S = {} \/ r.at = "error" ->
               /\ pile' = IF S = {} THEN pile ELSE [pile EXCEPT ![i] = ib]
               /\ calls' = Rest(r) /\ UNCHANGED nextCall
          [] S # {} /\ r.at = "ok" ->
               MarkAlertsViewed(
                 [pile EXCEPT ![i] =
                   [Overtaken(ib, r) EXCEPT !.alerts.held = r.id,
                                            !.alerts.upto = r.upto]],
                 Rest(r), nextCall)
  /\ UNCHANGED <<epoch, paused, website, member>>

AlertsViewed(r) ==
  /\ Arrived(r, "viewed")
  /\ LET S == {i \in Of(pile, "inbox") : pile[i].viewId = r.id /\ pile[i].pending}
     IN pile' = IF S = {} THEN pile
                ELSE [pile EXCEPT ![Upmost(S)].pending = FALSE,
                                  ![Upmost(S)].viewed = r.at = "ok"]
  /\ calls' = Rest(r)
  /\ UNCHANGED <<nextCall, epoch, paused, website, member>>

AlertMarked(r) ==
  /\ Arrived(r, "alert") /\ r.at = "ok"
  /\ LoadList(pile, Rest(r), "alerts")
  /\ UNCHANGED <<epoch, paused, website, member>>

\* The reply's composer closes, and the conversation is asked for the page
\* after the last one known.
ConvoReplySent(r) ==
  /\ Arrived(r, "reply")
  /\ LET c == r.about
         S == RepliesTo(c)
     IN CASE S = {} ->
               pile' = pile /\ calls' = Rest(r) /\ UNCHANGED nextCall
          [] S # {} /\ r.at = "ok" ->
               LoadConversation(PileWithout(Upmost(S)), Rest(r), c, TRUE, TRUE)
          [] S # {} /\ r.at = "error" ->
               /\ pile' = [pile EXCEPT ![Upmost(S)].busy = FALSE]
               /\ calls' = Rest(r) /\ UNCHANGED nextCall
  /\ wanted' = wanted \cup {r.about}
  /\ UNCHANGED <<epoch, paused, website, confirmed>>

\* One name is looked up; after the last of them the conversation is
\* created, if every name was found, or the form is the member's again.
RecipientResolved(r) ==
  /\ Arrived(r, "find")
  /\ LET S == Of(pile, "form")
         i == Upmost(S)
         f == pile[i]
         left == f.resolving - 1
         ids == IF r.at = "ok" THEN f.ids \cup {r.about} ELSE f.ids
         failed == f.failed \/ r.at = "error"
         sends == left = 0 /\ ids # {} /\ ~failed
         create == [NewCall("create", 0) EXCEPT !.sub = f.sub, !.ids = ids]
     IN IF S = {} THEN pile' = pile /\ calls' = Rest(r)
        ELSE IF f.resolving = 0 THEN pile' = pile /\ calls' = Rest(r)
        ELSE /\ pile' = [pile EXCEPT ![i] =
                          [f EXCEPT !.resolving = left, !.ids = ids,
                                    !.failed = failed,
                                    !.busy = @ /\ (left > 0 \/ sends)]]
             /\ calls' = Rest(r) \cup IF sends THEN {create} ELSE {}
  /\ UNCHANGED <<nextCall, epoch, paused, website, member>>

\* Everything over the Inbox is left, and the new conversation c opened.
ConvoCreated(r, c, dual) ==
  /\ Arrived(r, "create")
  /\ LET S == Of(pile, "form")
         I == Of(pile, "inbox")
         home == IF I = {} THEN <<>>
                 ELSE [SubSeq(pile, 1, Upmost(I)) EXCEPT
                         ![Upmost(I)].tab = "conversations"]
     IN IF r.at = "ok"
        THEN OpenOn(home, Rest(r), c, dual) /\ wanted' = wanted \cup {c}
        ELSE /\ pile' = IF S = {} THEN pile
                        ELSE [pile EXCEPT ![Upmost(S)].busy = FALSE,
                                          ![Upmost(S)].failed = TRUE]
             /\ calls' = Rest(r) /\ UNCHANGED <<nextCall, wanted>>
  /\ UNCHANGED <<epoch, paused, website, confirmed>>
-----------------------------------------------------------------------------
(* recheck_stored_session pauses the requests; once the session is verified *)
(* again, cancel_recovered_work gives the screens back what waited.          *)
Pause ==
  /\ ~paused /\ paused' = TRUE
  /\ UNCHANGED <<pile, calls, nextCall, epoch, website, member>>

Given(screen) ==
  CASE screen.kind = "inbox" ->
         [screen EXCEPT !.convos.loading = FALSE, !.alerts.loading = FALSE,
                        !.pane.loading = FALSE, !.pending = FALSE,
                        !.viewed = @ /\ ~screen.pending,
                        !.viewId = IF screen.pending THEN 0 ELSE @]
    [] screen.kind = "view" -> [screen EXCEPT !.loading = FALSE]
    [] screen.kind = "form" -> [screen EXCEPT !.busy = FALSE,
                                              !.failed = @ \/ screen.busy]
    [] screen.kind = "reply" -> [screen EXCEPT !.busy = FALSE]
    [] OTHER -> screen

\* What was on its way is aborted; what was answered is never heard.
RecheckedInbox ==
  /\ paused /\ epoch < MaxEpoch
  /\ epoch' = epoch + 1 /\ paused' = FALSE
  /\ LET n == AtTop
         given == [i \in DOMAIN pile |-> Given(pile[i])]
         answered == {r \in calls : r.at # "sent"}
         due == TopIs("inbox") /\ given[n].tab = "alerts" /\ ~given[n].viewed
     IN IF due
        THEN /\ nextCall <= MaxLoadId
             /\ pile' = [given EXCEPT ![n].pending = TRUE, ![n].viewId = nextCall]
             /\ calls' = answered \cup
                  {[NewCall("viewed", nextCall) EXCEPT !.epoch = epoch + 1]}
             /\ nextCall' = nextCall + 1
        ELSE pile' = given /\ calls' = answered /\ UNCHANGED nextCall
  /\ UNCHANGED <<website, member>>

InboxKeys ==
  \/ \E tab \in Tabs : SwitchInboxTab(tab) \/ OpenInbox(tab)
  \/ \E which \in {"convos", "alerts"} : ReloadList(which)
  \/ \E c \in Convs : MarkConversationRead(c) \/ StartReply(c)
                      \/ \E dual \in BOOLEAN : OpenConversation(c, dual)
  \/ \E names \in Names : Submit(names)
  \/ StayOnAlerts \/ TurnMessages \/ MarkAlertRead \/ OpenElsewhere
  \/ LeaveScreen \/ SubmitReply \/ StartForm

Answers(r) ==
  \/ NothingToSay(r) \/ ConversationLoaded(r) \/ AlertsLoaded(r)
  \/ AlertsViewed(r) \/ AlertMarked(r) \/ ConvoReplySent(r)
  \/ RecipientResolved(r)
  \/ \E c \in Convs, dual \in BOOLEAN :
       ConversationsLoaded(r, c, dual) \/ ConvoCreated(r, c, dual)
  \/ \E at \in {"ok", "error", "over"} : CarriedOut(r, at) \/ NotCarriedOut(r, at)

InboxNext ==
  \/ InboxKeys \/ NewAlert \/ Pause \/ RecheckedInbox
  \/ \E r \in calls : Answers(r)

InboxSpec == InboxInit /\ [][InboxNext]_inboxVars
-----------------------------------------------------------------------------
(* A conversation is started once for a form that was sent, and with exactly *)
(* the recipients the form named then: answers of an earlier try, a second  *)
(* Enter or a name that was not found never add, drop or repeat one          *)
(* (NewConversationState::submit, RecipientResolved).                        *)
StartedAsConfirmed ==
  \A k \in DOMAIN created :
    /\ created[k].ids = confirmed[created[k].sub]
    /\ \A j \in DOMAIN created : created[j].sub = created[k].sub => j = k

(* What the website records of the member was meant: a conversation is       *)
(* marked read only if the member asked to see it, never because a wide      *)
(* Inbox filled its pane; and where the Inbox says that its alerts are       *)
(* viewed, every alert of a list asked for since the mark is viewed on the    *)
(* website (load_conversation, mark_alerts_viewed, AlertsLoaded).            *)
MarksAreMeant ==
  /\ told \subseteq wanted
  /\ \A i \in Of(pile, "inbox") :
       (pile[i].viewed /\ pile[i].alerts.held > pile[i].viewId) =>
         pile[i].alerts.upto <= alerts.viewed
=============================================================================
