----------------------------- MODULE ThreadView -----------------------------
(***************************************************************************)
(* Reading threads: the views on the screen stack, the page loads they      *)
(* wait for, and what a reply, an edit, a like or a deleted post makes of    *)
(* them when the website's answer comes back.                                *)
(*                                                                         *)
(* A place is where the reader is on a page; 0 is its top.                   *)
(***************************************************************************)
EXTENDS Integers, Sequences, FiniteSets

CONSTANTS
  Threads,
  NoThread,
  LastPage,    \* bound: pages of a thread
  MaxLoad,     \* bound: loads begun
  MaxViews,    \* bound: screens on the stack
  Spots,      \* 0 among them
  Twins        \* may one thread be open in two views at once?

ASSUME ThreadViewAssumption ==
  /\ NoThread \notin Threads /\ 0 \in Spots
  /\ LastPage \in Nat \ {0} /\ MaxLoad \in Nat /\ MaxViews \in Nat
  /\ Twins \in BOOLEAN

VARIABLES
  views,     \* the screens over Home
  loads,     \* page requests sent and not answered
  nextLoad,  \* App.next_load_id
  keep,      \* App.keep_thread_position
  writes     \* likes, deletions, replies and edits on their way

viewVars == <<views, loads, nextLoad, keep, writes>>

Page == 0..(LastPage + 1)
LoadIds == 0..MaxLoad

\* A view; or a composer for a reply or an edit; or any other screen.
View == [kind: {"view", "reply", "edit", "other"},
         thread: Threads \cup {NoThread}, page: Page, last: Page,
         load: LoadIds, loading: BOOLEAN, error: BOOLEAN, busy: BOOLEAN,
         shows: LoadIds, place: Spots]
Load == [thread: Threads, page: Page, id: LoadIds]
KeptPlace == [thread: Threads \cup {NoThread}, page: Page, place: Spots]
Write == [what: {"toggle", "delete", "reply", "edit"}, thread: Threads]

Blank(kind, t) ==
  [kind |-> kind, thread |-> t, page |-> 1, last |-> 0, load |-> 0,
   loading |-> FALSE, error |-> FALSE, busy |-> FALSE, shows |-> 0,
   place |-> 0]
NothingKept == [thread |-> NoThread, page |-> 0, place |-> 0]

ViewTypeOK ==
  /\ views \in Seq(View) /\ Len(views) <= MaxViews
  /\ loads \subseteq Load /\ nextLoad \in 1..(MaxLoad + 1)
  /\ keep \in KeptPlace /\ writes \subseteq Write

ViewInit ==
  /\ views = <<>> /\ loads = {} /\ nextLoad = 1
  /\ keep = NothingKept /\ writes = {}

Front == Len(views)
Reading == Front > 0 /\ views[Front].kind = "view"
ViewsOf(screens, t) ==
  {i \in DOMAIN screens : screens[i].kind = "view" /\ screens[i].thread = t}
ComposersOf(kind, t) ==
  {i \in DOMAIN views : views[i].kind = kind /\ views[i].thread = t}
Highest(S) == CHOOSE i \in S : \A j \in S : j <= i
Least(n) == IF n < 1 THEN 1 ELSE n

\* navigation_is_blocked: a composer that sends keeps the reader.
MayLeave == ~\E i \in DOMAIN views : views[i].busy

\* load_thread: the topmost view of the thread waits for this load from now.
LoadThread(screens, others, t, page) ==
  /\ nextLoad <= MaxLoad
  /\ nextLoad' = nextLoad + 1
  /\ loads' = others \cup {[thread |-> t, page |-> page, id |-> nextLoad]}
  /\ LET S == ViewsOf(screens, t)
     IN views' = IF S = {} THEN screens
                 ELSE [screens EXCEPT ![Highest(S)] =
                        [@ EXCEPT !.load = nextLoad, !.loading = TRUE]]
-----------------------------------------------------------------------------
(* open_thread, any other screen, and leaving one. *)
OpenThread(t) ==
  /\ MayLeave /\ Front < MaxViews
  /\ ~(Reading /\ views[Front].thread = t /\ views[Front].loading)
  /\ Twins \/ ViewsOf(views, t) = {}
  /\ LoadThread(Append(views, [Blank("view", t) EXCEPT !.loading = TRUE]),
                loads, t, 1)
  /\ UNCHANGED <<keep, writes>>

OpenAnother ==
  /\ MayLeave /\ Reading /\ Front < MaxViews
  /\ views' = Append(views, Blank("other", NoThread))
  /\ UNCHANGED <<loads, nextLoad, keep, writes>>

\* The place is kept for whoever opens the thread next.
PopViewKeeping ==                                      \* mutant
  /\ MayLeave /\ Front > 0
  /\ views' = SubSeq(views, 1, Front - 1)
  /\ UNCHANGED <<loads, nextLoad, keep, writes>>

(* pop_screen: a place kept for a thread no view shows is forgotten. *)
PopView ==
  /\ MayLeave /\ Front > 0
  /\ views' = SubSeq(views, 1, Front - 1)
  /\ keep' = IF /\ views[Front].kind = "view"
                /\ keep.thread = views[Front].thread
                /\ ViewsOf(views', keep.thread) = {}
             THEN NothingKept ELSE keep
  /\ UNCHANGED <<loads, nextLoad, writes>>

(* thread_view_key: [ ] R, refused while the view is loading; n and j. *)
TurnTo(page) ==
  /\ Reading /\ ~views[Front].loading
  /\ LET v == views[Front]
     IN \/ v.page > 1 /\ page = v.page - 1
        \/ v.page < v.last /\ page = v.page + 1
        \/ page = v.page
  /\ LoadThread(views, loads, views[Front].thread, page)
  /\ UNCHANGED <<keep, writes>>

MoveTo(place) ==
  /\ Reading /\ views[Front].shows # 0
  /\ views' = [views EXCEPT ![Front].place = place]
  /\ UNCHANGED <<loads, nextLoad, keep, writes>>

(* A like, a vote, a deletion or a solution, from the view on top. *)
Act(what) ==
  /\ Reading /\ views[Front].shows # 0
  /\ writes' = writes \cup {[what |-> what, thread |-> views[Front].thread]}
  /\ UNCHANGED <<views, loads, nextLoad, keep>>

\* The stack without one of its screens.
Without(idx) ==
  [k \in 1..(Front - 1) |-> IF k < idx THEN views[k] ELSE views[k + 1]]

(* A composer is opened, in the place of one open for the same draft, and  *)
(* sends.                                                                  *)
Compose(kind) ==
  /\ MayLeave /\ Reading /\ views[Front].shows # 0
  /\ LET t == views[Front].thread
         S == ComposersOf(kind, t)
         rest == IF S = {} THEN views ELSE Without(Highest(S))
     IN /\ Len(rest) < MaxViews
        /\ views' = Append(rest, Blank(kind, t))
  /\ UNCHANGED <<loads, nextLoad, keep, writes>>

Send ==
  /\ Front > 0 /\ views[Front].kind \in {"reply", "edit"}
  /\ ~views[Front].busy
  /\ views' = [views EXCEPT ![Front].busy = TRUE]
  /\ writes' = writes \cup {[what |-> views[Front].kind,
                             thread |-> views[Front].thread]}
  /\ UNCHANGED <<loads, nextLoad, keep>>
-----------------------------------------------------------------------------
\* Any page of the thread will do.
WaitsForThread(r) == ViewsOf(views, r.thread)          \* mutant

(* ThreadLoaded: the view that waits for this load, wherever it is. *)
WaitsFor(r) ==
  {i \in DOMAIN views : views[i].kind = "view" /\ views[i].thread = r.thread
                        /\ views[i].load = r.id}

NobodyWaits(r) ==
  /\ WaitsFor(r) = {}
  /\ loads' = loads \ {r}
  /\ UNCHANGED <<views, nextLoad, keep, writes>>

KeptFor(r) == keep.thread = r.thread /\ keep.page = r.page

\* The server answers a page a thread has; the place kept is used up by
\* whatever load is answered first.
ThreadLoaded(r, last) ==
  /\ r.page \in 1..last
  /\ \E i \in WaitsFor(r) :
       views' = [views EXCEPT ![i] =
                  [@ EXCEPT !.page = r.page, !.last = last, !.shows = r.id,
                            !.loading = FALSE, !.error = FALSE,
                            !.place = IF KeptFor(r) THEN keep.place ELSE 0]]
  /\ keep' = NothingKept
  /\ loads' = loads \ {r}
  /\ UNCHANGED <<nextLoad, writes>>

\* A refusal names the last page, which the page asked for is beyond, or 0;
\* it may name that page itself.
ThreadRefused(r, max) ==
  /\ max <= r.page
  /\ \E i \in WaitsFor(r) :
       IF max >= 1 /\ max # r.page
       THEN LoadThread([views EXCEPT ![i] = [@ EXCEPT !.last = max,
                                                      !.loading = TRUE]],
                       loads \ {r}, r.thread, max)
       ELSE /\ views' = [views EXCEPT ![i] = [@ EXCEPT !.loading = FALSE,
                                                       !.error = TRUE]]
            /\ loads' = loads \ {r}
            /\ UNCHANGED nextLoad
  /\ keep' = NothingKept
  /\ UNCHANGED writes
-----------------------------------------------------------------------------
\* PostToggled: the topmost view is loaded again and keeps its place.
Toggled ==
  /\ \E w \in writes : w.what = "toggle" /\ writes' = writes \ {w}
  /\ LET S == {i \in DOMAIN views : views[i].kind = "view"}
         v == views[Highest(S)]
     IN IF S = {} THEN UNCHANGED <<views, loads, nextLoad, keep>>
        ELSE /\ keep' = [thread |-> v.thread, page |-> Least(v.page),
                         place |-> v.place]
             /\ LoadThread(views, loads, v.thread, Least(v.page))

\* The page its thread is open at is loaded again, from its top.
ReloadAtTop(screens, t) ==
  LET S == ViewsOf(screens, t)
      page == IF S = {} THEN 1 ELSE Least(screens[Highest(S)].page)
  IN /\ keep' = [thread |-> t, page |-> page, place |-> 0]
     /\ LoadThread(screens, loads, t, page)

\* PostDeleted and SolutionMarked.
Deleted ==
  \E w \in writes :
    /\ w.what = "delete" /\ writes' = writes \ {w}
    /\ ReloadAtTop(views, w.thread)

\* PostEdited and ReplySent close the composer that sent.  A reply asks for
\* the page after the last one known, and is told where it landed.
Edited ==
  \E w \in writes :
    /\ w.what = "edit" /\ writes' = writes \ {w}
    /\ IF ComposersOf("edit", w.thread) = {}
       THEN UNCHANGED <<views, loads, nextLoad, keep>>
       ELSE ReloadAtTop(Without(Highest(ComposersOf("edit", w.thread))),
                        w.thread)

Replied ==
  \E w \in writes :
    /\ w.what = "reply" /\ writes' = writes \ {w}
    /\ IF ComposersOf("reply", w.thread) = {}
       THEN UNCHANGED <<views, loads, nextLoad>>
       ELSE LET S == ViewsOf(views, w.thread)
                known == IF S = {} THEN 1 ELSE Least(views[Highest(S)].last)
            IN /\ known <= LastPage
               /\ LoadThread(Without(Highest(ComposersOf("reply", w.thread))),
                             loads, w.thread, known + 1)
    /\ UNCHANGED keep

WriteFails ==
  /\ \E w \in writes :
       /\ writes' = writes \ {w}
       /\ LET S == ComposersOf(w.what, w.thread)
          IN views' = IF S = {} THEN views
                      ELSE [views EXCEPT ![Highest(S)].busy = FALSE]
  /\ UNCHANGED <<loads, nextLoad, keep>>

(* cancel_recovered_work: nothing that was on its way is heard again. *)
Rechecked ==
  /\ views' = [i \in DOMAIN views |->
                [views[i] EXCEPT !.loading = FALSE, !.busy = FALSE,
                                 !.error = @ \/ views[i].loading]]
  /\ loads' = {} /\ writes' = {}
  /\ UNCHANGED <<nextLoad, keep>>

(* end_session: the views are left, and the place with them. *)
SessionEnds ==
  /\ views' = <<>> /\ loads' = {} /\ writes' = {} /\ keep' = NothingKept
  /\ UNCHANGED nextLoad

ViewNext ==
  \/ \E t \in Threads : OpenThread(t)
  \/ OpenAnother \/ PopView \/ Send \/ Rechecked \/ SessionEnds
  \/ \E page \in Page : TurnTo(page)
  \/ \E place \in Spots : MoveTo(place)
  \/ \E what \in {"toggle", "delete"} : Act(what)
  \/ \E kind \in {"reply", "edit"} : Compose(kind)
  \/ \E r \in loads :
       \/ NobodyWaits(r)
       \/ \E last \in 1..LastPage : ThreadLoaded(r, last)
       \/ \E max \in 0..LastPage : ThreadRefused(r, max)
  \/ Toggled \/ Deleted \/ Edited \/ Replied \/ WriteFails

ViewSpec == ViewInit /\ [][ViewNext]_viewVars
-----------------------------------------------------------------------------
(* A view that says it is loading has its load on the way, in whatever      *)
(* order replies come back, where the keys that would load it again are     *)
(* refused; one that does not shows the page its last load asked for, or     *)
(* its error (ThreadLoaded, load_thread).                                    *)
LoadsSettle ==
  \A i \in DOMAIN views :
    LET v == views[i]
    IN v.kind = "view" =>
         IF v.loading
         THEN \E r \in loads : r.thread = v.thread /\ r.id = v.load
         ELSE v.error \/ (v.shows = v.load /\ v.page \in 1..v.last)

(* A thread that is opened afresh is shown from its top: a place kept for   *)
(* a view that is gone is never given to the next one (pop_screen).         *)
FreshOpensAtTop ==
  [][\A i \in DOMAIN views :
       (i \in DOMAIN views' /\ views[i].shows = 0 /\ views'[i].shows # 0
         /\ views'[i].kind = "view") => views'[i].place = 0]_viewVars
=============================================================================
