----------------------------- MODULE ThreadList -----------------------------
(***************************************************************************)
(* The thread lists of the terminal: Home's pane at the bottom of the       *)
(* screen stack and the lists pushed over it, the page requests they have   *)
(* in flight, and the automatic fill that walks a list forward.             *)
(*                                                                         *)
(* A server page is one block of rows, and visible counts blocks.  The      *)
(* reader may be anywhere in a list, so the selection is left out.          *)
(***************************************************************************)
EXTENDS Integers, Sequences, FiniteSets

CONSTANTS
  Nodes,        \* forums; node 0 is the synthetic "Latest posts"
  MaxPage,      \* bound: pages of a forum
  MaxSeq,       \* bound: loads begun
  MaxFlight,    \* bound: requests in flight
  MaxStack,     \* bound: screens on the stack
  Height,       \* blocks a pane can show
  FillBudget    \* FILL_PAGE_BUDGET

ASSUME ThreadListAssumption ==
  /\ 0 \in Nodes
  /\ MaxPage \in Nat \ {0} /\ Height \in Nat \ {0}
  /\ {MaxSeq, MaxFlight, MaxStack, FillBudget} \subseteq Nat

VARIABLES
  stack,     \* the screens: Home first; "other" stands for any other screen
  flight,    \* requests sent and not answered
  nextSeq    \* App.next_list_seq

listVars == <<stack, flight, nextSeq>>

Pages == 1..MaxPage
Block == [seq: 1..MaxSeq, node: Nodes, page: 0..MaxPage]
Request == [node: Nodes, page: 0..MaxPage, append: BOOLEAN, seq: 1..MaxSeq,
            id: 1..MaxFlight]

\* A page that is loaded again may be 0, of a list never loaded.
ThreadListState ==
  [node: Nodes, page: 0..MaxPage, last: 0..MaxPage, loaded: 0..(MaxPage + 1),
   seq: 0..MaxSeq, budget: 0..FillBudget, visible: {0, Height},
   held: Seq(Block), loading: BOOLEAN, error: BOOLEAN]

\* ThreadListState::default
EmptyList == [node |-> 0, page |-> 0, last |-> 0, loaded |-> 0, seq |-> 0,
              budget |-> 0, visible |-> 0, held |-> <<>>,
              loading |-> FALSE, error |-> FALSE]

Home == [kind |-> "home", list |-> EmptyList]
Other == [kind |-> "other", list |-> EmptyList]

HasList(screen) == screen.kind # "other"
Lists == {i \in DOMAIN stack : HasList(stack[i])}
Top == Len(stack)

Uppermost(S) == CHOOSE i \in S : \A j \in S : j <= i

\* list_showing: the topmost list that shows the forum; 0 when none does.
ListShowing(screens, node) ==
  LET S == {i \in DOMAIN screens :
              HasList(screens[i]) /\ screens[i].list.node = node}
  IN IF S = {} THEN 0 ELSE Uppermost(S)

AtLeastOne(n) == IF n < 1 THEN 1 ELSE n

\* The page after the last one held.
NextPage(l) == AtLeastOne(l.page) + AtLeastOne(l.loaded)

\* load_forum_page: one request more.
SentBesides(others, node, page, append, seq) ==
  LET id == CHOOSE n \in 1..MaxFlight : \A r \in others : r.id # n
  IN others \cup {[node |-> node, page |-> page, append |-> append,
                   seq |-> seq, id |-> id]}

CanSend == Cardinality(flight) < MaxFlight

\* load_forum: a load of its own, which the topmost list showing the forum
\* now waits for.
LoadForum(screens, node, page) ==
  /\ CanSend /\ nextSeq <= MaxSeq
  /\ LET i == ListShowing(screens, node)
     IN stack' = IF i = 0 THEN screens
                 ELSE [screens EXCEPT ![i].list =
                        [@ EXCEPT !.seq = nextSeq, !.loaded = 1,
                                  !.budget = FillBudget]]
  /\ flight' = SentBesides(flight, node, page, FALSE, nextSeq)
  /\ nextSeq' = nextSeq + 1

ListTypeOK ==
  /\ stack # <<>>
  /\ stack \in Seq([kind: {"home", "list", "other"}, list: ThreadListState])
  /\ \A i \in DOMAIN stack : stack[i].kind = "home" <=> i = 1
  /\ flight \subseteq Request
  /\ nextSeq \in 1..(MaxSeq + 1)

ListInit ==
  /\ stack = <<Home>>
  /\ flight = {}
  /\ nextSeq = 1
-----------------------------------------------------------------------------
(* prime_home_list, after the account is verified. *)
PrimeHomeList ==
  /\ LET l == stack[1].list
     IN /\ l.held = <<>> /\ ~l.loading /\ l.node = 0
        /\ LoadForum([stack EXCEPT ![1].list =
                       [l EXCEPT !.page = 1, !.loading = TRUE]], 0, 1)

(* open_list: into Home's own pane when Home is on top and its tree and its *)
(* list are side by side (the window may be resized at any time), else into  *)
(* a screen of its own.                                                      *)
OpenInPane(node) ==
  /\ Top = 1
  /\ LoadForum([stack EXCEPT ![1].list =
                 [@ EXCEPT !.node = node, !.page = 1, !.last = 1,
                           !.held = <<>>, !.loaded = 1, !.visible = 0,
                           !.error = FALSE, !.loading = TRUE]], node, 1)

OpenPushed(node) ==
  /\ Top < MaxStack
  /\ LET l == [EmptyList EXCEPT !.node = node, !.page = 1, !.loaded = 1,
                                !.budget = FillBudget, !.loading = TRUE]
     IN LoadForum(Append(stack, [kind |-> "list", list |-> l]), node, 1)

(* Any other screen is opened; a screen is left. *)
OpenOther ==
  /\ HasList(stack[Top]) /\ Top < MaxStack
  /\ stack' = Append(stack, Other)
  /\ UNCHANGED <<flight, nextSeq>>

Leave ==
  /\ Top > 1
  /\ stack' = SubSeq(stack, 1, Top - 1)
  /\ UNCHANGED <<flight, nextSeq>>

(* render_list_panel stamps what the pane can show. *)
Render ==
  /\ HasList(stack[Top]) /\ stack[Top].list.visible = 0
  /\ stack' = [stack EXCEPT ![Top].list.visible = Height]
  /\ UNCHANGED <<flight, nextSeq>>

(* thread_list_key: [ ] and r, each refused while the list is loading. *)
PageKey(page) ==
  /\ HasList(stack[Top]) /\ ~stack[Top].list.loading
  /\ LET l == stack[Top].list
     IN \/ l.page > 1 /\ page = AtLeastOne(l.page - AtLeastOne(l.loaded))
        \/ NextPage(l) <= l.last /\ page = NextPage(l)
        \/ page = l.page
  /\ LoadForum([stack EXCEPT ![Top].list.loading = TRUE],
               stack[Top].list.node, page)

(* ThreadCreated: the topmost list is pointed at the new thread's forum, its *)
(* old rows still in it and not marked as loading.                           *)
ThreadCreated(node) ==
  /\ LET i == Uppermost(Lists)
     IN LoadForum(IF stack[i].list.node = node THEN stack
                  ELSE [stack EXCEPT ![i].list =
                         [@ EXCEPT !.node = node, !.page = 1]], node, 1)

(* autoload_more: the reader is within a screenful of the last row. *)
AutoloadMore ==
  /\ HasList(stack[Top])
  /\ LET l == stack[Top].list
     IN /\ ~l.loading /\ ~l.error /\ l.visible > 0
        /\ NextPage(l) <= l.last /\ l.held # <<>>
        /\ CanSend
        /\ stack' = [stack EXCEPT ![Top].list.loading = TRUE]
        /\ flight' = SentBesides(flight, l.node, NextPage(l), TRUE, l.seq)
  /\ UNCHANGED nextSeq
-----------------------------------------------------------------------------
(* ForumLoaded. *)
BlockOf(r) == [seq |-> r.seq, node |-> r.node, page |-> r.page]

\* The list once the reply's rows are in it: a fill extends it, anything
\* else replaces what it held.
Adopted(l, r, last) ==
  LET with == IF r.append /\ r.page = l.page + l.loaded
              THEN [l EXCEPT !.held = Append(@, BlockOf(r)),
                             !.loaded = @ + 1]
              ELSE [l EXCEPT !.held = <<BlockOf(r)>>, !.page = r.page,
                             !.loaded = 1]
  IN [with EXCEPT !.last = last, !.loading = FALSE, !.error = FALSE]

WantsFill(l) ==
  /\ l.visible > 0 /\ Len(l.held) < l.visible
  /\ l.page + l.loaded <= l.last /\ l.budget > 0

\* Any reply about the forum is the list's.
AwaitingForum(r) ==                                    \* mutant
  LET i == ListShowing(stack, r.node) IN IF i = 0 THEN {} ELSE {i}

Awaiting(r) ==
  LET i == ListShowing(stack, r.node)
  IN IF i # 0 /\ stack[i].list.seq = r.seq THEN {i} ELSE {}

ForumLoaded(r, last) ==
  /\ \A i \in Awaiting(r) :
       LET l == Adopted(stack[i].list, r, last)
       IN IF WantsFill(l)
          THEN /\ stack' = [stack EXCEPT ![i].list =
                             [l EXCEPT !.budget = @ - 1, !.loading = TRUE]]
               /\ flight' = SentBesides(flight \ {r}, l.node,
                                        l.page + l.loaded, TRUE, r.seq)
          ELSE /\ stack' = [stack EXCEPT ![i].list = l]
               /\ flight' = flight \ {r}
  /\ Awaiting(r) = {} => stack' = stack /\ flight' = flight \ {r}
  /\ UNCHANGED nextSeq

\* A fill page that fails leaves what is on screen alone.
ForumFailed(r) ==
  /\ \A i \in Awaiting(r) :
       LET l == stack[i].list
       IN stack' = [stack EXCEPT ![i].list =
                     [l EXCEPT !.loading = FALSE,
                               !.error = l.error \/ ~r.append]]
  /\ Awaiting(r) = {} => stack' = stack
  /\ flight' = flight \ {r}
  /\ UNCHANGED nextSeq
-----------------------------------------------------------------------------
ListNext ==
  \/ PrimeHomeList \/ OpenOther \/ Leave \/ Render \/ AutoloadMore
  \/ \E node \in Nodes :
       OpenInPane(node) \/ OpenPushed(node) \/ ThreadCreated(node)
  \/ \E page \in 0..MaxPage : PageKey(page)
  \/ \E r \in flight : ForumFailed(r)
  \/ \E r \in flight, last \in Pages : ForumLoaded(r, last)

ListSpec == ListInit /\ [][ListNext]_listVars
-----------------------------------------------------------------------------
(* Once the first page of a list's load has arrived, the list holds exactly *)
(* the consecutive pages of that load from its page on: no page of another  *)
(* forum, of an earlier load or of a fill meant for another window is among *)
(* them, whatever order the replies arrive in (ForumLoaded, autoload_more).  *)
RowsAreTheWindow ==
  \A i \in Lists :
    LET l == stack[i].list
    IN (l.held # <<>> /\ Head(l.held).seq = l.seq) =>
         l.held = [k \in 1..l.loaded |->
                    [seq |-> l.seq, node |-> l.node, page |-> l.page + k - 1]]
=============================================================================
