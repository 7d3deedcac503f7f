---------------------------- MODULE MCTerminal ----------------------------
(* The parts of a terminal that share no state with one another: part says  *)
(* which of them moves in a behaviour, while the others stay as they began. *)
EXTENDS Updates, ThreadList, AskAi, Images, ThreadView, Login, Inbox

VARIABLE part

terminalVars == <<updateVars, listVars, askVars, imageVars, viewVars, loginVars,
  inboxVars, part>>

\* What the parts that stand still began with makes no difference.
StandStill ==
  /\ part # "updates" =>
       place = "over" /\ feed = 1 /\ \A v \in Versions : gens[v] = 0
  /\ part # "images" => \A s \in Sources : disk[s] = "none"

\* The Inbox is looked at from three sides: its alerts, its conversations, and
\* the form that starts one.
InboxParts == {"alerts", "convos", "form"}
Kinds(open) == {open[i].kind : i \in DOMAIN open}

WithinInbox ==
  CASE part = "alerts" ->
         /\ UNCHANGED <<wanted, confirmed>>
         /\ Cardinality(calls') <= 2 \/ nextCall' <= 4
         /\ Kinds(pile') \subseteq {"inbox", "other"}
         /\ \A i \in Of(pile', "inbox") : pile'[i].pane = NoPane
         /\ epoch' = 1 \/ (/\ "other" \notin Kinds(pile')
                           /\ \A r \in calls' : r.is # "alert")
    [] part = "convos" ->
         /\ UNCHANGED <<alerts, confirmed>>
         /\ Cardinality(calls') <= 2
         /\ Kinds(pile') \subseteq {"inbox", "view", "reply"}
         /\ \A i \in Of(pile', "inbox") : pile'[i].tab = "conversations"
    [] part = "form" -> nextCall' <= 2 /\ UNCHANGED alerts

Init ==
  /\ part \in {"updates", "list", "ask", "images", "views", "login"} \cup InboxParts
  /\ UpdateInit /\ ListInit /\ AskInit /\ ImageInit /\ ViewInit
  /\ LoginInit /\ InboxInit
  /\ StandStill

Next ==
  /\ UNCHANGED part
  /\ \/ /\ part = "updates" /\ UpdateNext
        /\ UNCHANGED <<listVars, askVars, imageVars, viewVars, loginVars,
                       inboxVars>>
     \/ /\ part = "list" /\ ListNext
        /\ UNCHANGED <<updateVars, askVars, imageVars, viewVars, loginVars,
                       inboxVars>>
     \/ /\ part = "ask" /\ AskNext
        /\ UNCHANGED <<updateVars, listVars, imageVars, viewVars, loginVars,
                       inboxVars>>
     \/ /\ part = "images" /\ ImageNext
        /\ UNCHANGED <<updateVars, listVars, askVars, viewVars, loginVars,
                       inboxVars>>
     \/ /\ part = "views" /\ ViewNext
        /\ UNCHANGED <<updateVars, listVars, askVars, imageVars, loginVars,
                       inboxVars>>
     \/ /\ part = "login" /\ LoginNext
        /\ UNCHANGED <<updateVars, listVars, askVars, imageVars, viewVars,
                       inboxVars>>
     \/ /\ part \in InboxParts /\ InboxNext /\ WithinInbox
        /\ UNCHANGED <<updateVars, listVars, askVars, imageVars, viewVars,
                       loginVars>>

\* A picture of the forum's API; another one, in a text and in the viewer.
Drawn == [source : Sources, size : {"small"}, full : {FALSE}]
  \cup {[source |-> "b", size |-> "large", full |-> TRUE]}

Spec == Init /\ [][Next]_terminalVars
=============================================================================
