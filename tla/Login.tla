------------------------------- MODULE Login -------------------------------
(***************************************************************************)
(* Signing in: the terminal's login flow, the browser that approves it, the *)
(* website's relay of short links, and the OAuth server's codes.            *)
(*                                                                         *)
(* A flow is a login generation; its state, its PKCE pair and its link are  *)
(* its own.  Every code the OAuth server issues is a new number.            *)
(***************************************************************************)
EXTENDS Integers, Sequences, FiniteSets

CONSTANTS
  MaxFlow,     \* bound: how often the member starts to sign in
  MaxCode,     \* bound: approvals
  MaxPoll,     \* bound: polls the website serves at once
  Accounts,    \* who may be signed in in a browser
  NoMember,
  Modes        \* the login modes the site is set to

ASSUME LoginAssumption ==
  /\ MaxFlow \in Nat \ {0} /\ MaxCode \in Nat \ {0} /\ MaxPoll \in Nat \ {0}
  /\ NoMember \notin Accounts
  /\ Modes \subseteq {"auto", "relay", "loopback", "paste"}

VARIABLES
  gen,         \* App.login_generation: the latest flow
  attempt,     \* run_login_flow of the latest flow; an older one is aborted
  mail,        \* messages of flows, in the order they were sent
  login,       \* the login screen
  me,          \* who the terminal is signed in as
  link,        \* the website's record of each flow's link
  polls,       \* polls the website serves, those nobody waits for included
  code,        \* what the OAuth server issued
  handed       \* per link, the answers that carried a code

terminal == <<gen, attempt, mail, login, me>>
relay == <<link, polls, handed>>
loginVars == <<terminal, relay, code>>

NoCode == 0
Consumed == -1      \* LinkStore::CONSUMED
Flows == 1..MaxFlow
Codes == 1..MaxCode

TaskStages == {"off", "registering", "binding", "waiting", "polling",
               "listening", "pasting", "exchanging", "verifying"}
Attempt == [at: TaskStages, mode: {"auto", "relay", "loopback", "paste"},
            code: Codes \cup {NoCode}, poll: 0..MaxPoll]

Mail == [gen: Flows, what: {"ready", "failed", "complete", "unverified",
                            "rejected"}, as: Accounts \cup {NoMember}]

Screens == {"idle", "busy", "waiting", "gone"}

Link == [is: {"unborn", "live", "expired"},
         code: Codes \cup {NoCode, Consumed}, denied: BOOLEAN]
Poll == [id: 1..MaxPoll, flow: Flows, read: Codes \cup {NoCode},
         at: {"arrived", "read"}]
Code == [flow: Flows \cup {NoCode}, by: Accounts \cup {NoMember}, used: BOOLEAN]

LoginTypeOK ==
  /\ gen \in 0..MaxFlow /\ attempt \in Attempt
  /\ mail \in Seq(Mail) /\ login \in Screens
  /\ me \in Accounts \cup {NoMember}
  /\ link \in [Flows -> Link] /\ polls \subseteq Poll
  /\ code \in [Codes -> Code] /\ handed \in [Flows -> Nat]

LoginInit ==
  /\ gen = 0
  /\ attempt = [at |-> "off", mode |-> "auto", code |-> NoCode, poll |-> 0]
  /\ mail = <<>> /\ login = "idle" /\ me = NoMember
  /\ link = [f \in Flows |-> [is |-> "unborn", code |-> NoCode,
                              denied |-> FALSE]]
  /\ polls = {}
  /\ code = [c \in Codes |-> [flow |-> NoCode, by |-> NoMember, used |-> FALSE]]
  /\ handed = [f \in Flows |-> 0]

Live(f) == link[f].is = "live"
Mails(what, as) ==
  mail' = Append(mail, [gen |-> gen, what |-> what, as |-> as])
To(at) == attempt' = [attempt EXCEPT !.at = at]

\* A flow that fails tells nobody.
FailsQuietly ==                                        \* mutant
  /\ To("off")
  /\ UNCHANGED <<gen, mail, login, me>>

Fails ==
  /\ To("off") /\ Mails("failed", NoMember)
  /\ UNCHANGED <<gen, login, me>>
-----------------------------------------------------------------------------
(* begin_login: Enter on the login screen, whose keys are inert while busy. *)
Begin(mode) ==
  /\ login \in {"idle", "waiting"} /\ me = NoMember /\ gen < MaxFlow
  /\ gen' = gen + 1
  /\ login' = "busy"
  /\ attempt' = [at |-> IF mode \in {"auto", "relay"} THEN "registering"
                        ELSE "binding",
                  mode |-> mode, code |-> NoCode, poll |-> 0]
  /\ UNCHANGED <<mail, me, relay, code>>

(* register_link, and the fallbacks of the automatic mode. *)
Registered ==
  /\ attempt.at = "registering"
  /\ link' = [link EXCEPT ![gen].is = "live"]
  /\ To("waiting") /\ Mails("ready", NoMember)
  /\ UNCHANGED <<gen, login, me, polls, handed, code>>

\* The site has no such route: no add-on.
RouteMissing ==
  /\ attempt.at = "registering"
  /\ IF attempt.mode = "auto"
     THEN To("binding") /\ UNCHANGED <<gen, mail, login, me>>
     ELSE Fails
  /\ UNCHANGED <<relay, code>>

\* The table is full, the address is over its budget, the site is down; or
\* the link was made and its answer lost.
RegisterFails ==
  /\ attempt.at = "registering"
  /\ link' \in {link, [link EXCEPT ![gen].is = "live"]}
  /\ Fails
  /\ UNCHANGED <<polls, handed, code>>

Bound ==
  /\ attempt.at = "binding" /\ attempt.mode # "paste"
  /\ To("listening") /\ Mails("ready", NoMember)
  /\ UNCHANGED <<gen, login, me, relay, code>>

NotBound ==
  /\ attempt.at = "binding"
  /\ IF attempt.mode = "loopback" THEN Fails
     ELSE /\ To("pasting") /\ Mails("ready", NoMember)
          /\ UNCHANGED <<gen, login, me>>
  /\ UNCHANGED <<relay, code>>
-----------------------------------------------------------------------------
(* The browser.  A link or an authorize URL may be opened in several tabs,  *)
(* by whoever is signed in there, long after the flow was given up; a tab's *)
(* address may be loaded again.                                             *)
UrlShown(f) == f <= gen /\ (f = gen => login = "waiting")

\* StartController, then the OAuth server's authorize page.
Approve(f, who) ==
  /\ UrlShown(f) /\ (link[f].is # "unborn" => Live(f))
  /\ \E c \in Codes :
       /\ code[c].flow = NoCode /\ \A d \in Codes : d < c => code[d].flow # NoCode
       /\ code' = [code EXCEPT ![c] = [flow |-> f, by |-> who,
                                       used |-> FALSE]]
  /\ UNCHANGED <<terminal, relay>>

\* DoneController with a code: LinkStore::attachCode.
DoneWithCode(c) ==
  /\ code[c].flow # NoCode /\ Live(code[c].flow)
  /\ link[code[c].flow].code # Consumed
  /\ link' = [link EXCEPT ![code[c].flow].code = c]
  /\ UNCHANGED <<terminal, polls, handed, code>>

\* DoneController with an error: LinkStore::markDenied.
DoneDenied(f) ==
  /\ UrlShown(f) /\ Live(f)
  /\ link' = [link EXCEPT ![f].denied = TRUE]
  /\ UNCHANGED <<terminal, polls, handed, code>>

Expire(f) ==
  /\ Live(f)
  /\ link' = [link EXCEPT ![f].is = "expired"]
  /\ UNCHANGED <<terminal, polls, handed, code>>
-----------------------------------------------------------------------------
(* poll_link and LinkController::actionPostPoll, whose read and whose       *)
(* compare-and-clear are two statements.                                    *)
PollAgain ==
  /\ attempt.at = "waiting" /\ Cardinality(polls) < MaxPoll
  /\ LET id == CHOOSE i \in 1..MaxPoll : \A p \in polls : p.id # i
     IN /\ attempt' = [attempt EXCEPT !.at = "polling", !.poll = id]
        /\ polls' = polls \cup {[id |-> id, flow |-> gen, read |-> NoCode,
                                 at |-> "arrived"]}
  /\ UNCHANGED <<gen, mail, login, me, link, handed, code>>

\* The latest flow waits for the poll sent last; it may give it up.
Awaited(p) == attempt.at = "polling" /\ p.id = attempt.poll /\ p.flow = gen

\* The answer: to the flow when it waits for it, to nobody otherwise.
Answered(p, at, what) ==
  /\ polls' = polls \ {p}
  /\ IF ~Awaited(p) THEN UNCHANGED terminal
     ELSE IF at = "off" THEN Fails
     ELSE /\ attempt' = [attempt EXCEPT !.at = at, !.code = what]
          /\ UNCHANGED <<gen, mail, login, me>>

ReadLink(p) ==
  /\ p.at = "arrived" /\ Live(p.flow) /\ link[p.flow].code \in Codes
  /\ polls' = (polls \ {p}) \cup
                {[p EXCEPT !.at = "read", !.read = link[p.flow].code]}
  /\ UNCHANGED <<terminal, link, handed, code>>

AnswerPlainly(p) ==
  /\ p.at = "arrived"
  /\ ~(Live(p.flow) /\ link[p.flow].code \in Codes)
  /\ Answered(p, IF ~Live(p.flow) \/ link[p.flow].denied THEN "off"
                 ELSE "waiting", NoCode)
  /\ UNCHANGED <<link, handed, code>>

\* What was read is handed out, whatever the link holds by now.
HandOutAsRead(p) ==                                    \* mutant
  /\ p.at = "read"
  /\ link' = [link EXCEPT ![p.flow].code = Consumed]
  /\ handed' = [handed EXCEPT ![p.flow] = @ + 1]
  /\ Answered(p, "exchanging", p.read)
  /\ UNCHANGED code

\* LinkStore::consumeCode.
HandOut(p) ==
  /\ p.at = "read"
  /\ IF Live(p.flow) /\ link[p.flow].code = p.read
     THEN /\ link' = [link EXCEPT ![p.flow].code = Consumed]
          /\ handed' = [handed EXCEPT ![p.flow] = @ + 1]
          /\ Answered(p, "exchanging", p.read)
     ELSE /\ Answered(p, "waiting", NoCode)
          /\ UNCHANGED <<link, handed>>
  /\ UNCHANGED code

\* A failed or lost poll is sent again later.
PollFails ==
  /\ attempt.at = "polling"
  /\ attempt' = [attempt EXCEPT !.at = "waiting", !.poll = 0]
  /\ UNCHANGED <<gen, mail, login, me, relay, code>>

\* LOGIN_TIMEOUT, of either kind of wait; or the listener broke.
TimesOut ==
  /\ attempt.at \in {"waiting", "listening", "pasting"}
  /\ Fails
  /\ UNCHANGED <<relay, code>>
-----------------------------------------------------------------------------
(* wait_for_redirect: a redirect that carries another state is noise. *)
Redirected(c) ==
  /\ attempt.at = "listening" /\ code[c].flow = gen
  /\ attempt' = [attempt EXCEPT !.at = "exchanging", !.code = c]
  /\ UNCHANGED <<gen, mail, login, me, relay, code>>

RedirectedDenied ==
  /\ attempt.at = "listening"
  /\ Fails
  /\ UNCHANGED <<relay, code>>

(* code_from_pasted: an address must carry the flow's state, a bare code   *)
(* carries none.                                                           *)
Pasted(c, bare) ==
  /\ attempt.at \in {"listening", "pasting"} /\ login = "waiting"
  /\ code[c].flow # NoCode /\ (bare \/ code[c].flow = gen)
  /\ attempt' = [attempt EXCEPT !.at = "exchanging", !.code = c]
  /\ UNCHANGED <<gen, mail, login, me, relay, code>>
-----------------------------------------------------------------------------
(* exchange_code: the server takes a code once, and only with the verifier *)
(* of the flow it was issued for.  Then finish_login.                      *)
Exchanged ==
  /\ attempt.at = "exchanging"
  /\ ~code[attempt.code].used /\ code[attempt.code].flow = gen
  /\ code' = [code EXCEPT ![attempt.code].used = TRUE]
  /\ To("verifying")
  /\ UNCHANGED <<gen, mail, login, me, relay>>

ExchangeFails ==
  /\ attempt.at = "exchanging"
  /\ code' \in {code, [code EXCEPT ![attempt.code].used = TRUE]}
  /\ Fails
  /\ UNCHANGED relay

Verified(what) ==
  /\ attempt.at = "verifying"
  /\ To("off")
  /\ Mails(what, IF what = "complete" THEN code[attempt.code].by ELSE NoMember)
  /\ UNCHANGED <<gen, login, me, relay, code>>

\* A message of a flow that was given up counts.
HandleAnyMail ==                                       \* mutant
  /\ mail # <<>>
  /\ mail' = Tail(mail)
  /\ LET m == Head(mail)
     IN /\ login' = CASE m.what = "ready" -> "waiting"
                      [] m.what \in {"failed", "rejected"} -> "idle"
                      [] OTHER -> "gone"
        /\ me' = IF m.what = "complete" THEN m.as ELSE me
  /\ UNCHANGED <<gen, attempt, relay, code>>

(* The terminal handles a message; one of an older flow is dropped. *)
HandleMail ==
  /\ mail # <<>>
  /\ mail' = Tail(mail)
  /\ LET m == Head(mail)
     IN IF m.gen # gen THEN UNCHANGED <<login, me>>
        ELSE /\ login' = CASE m.what = "ready" -> "waiting"
                           [] m.what \in {"failed", "rejected"} -> "idle"
                           [] OTHER -> "gone"
             /\ me' = IF m.what = "complete" THEN m.as ELSE me
  /\ UNCHANGED <<gen, attempt, relay, code>>
-----------------------------------------------------------------------------
Serve == \E p \in polls : ReadLink(p) \/ AnswerPlainly(p) \/ HandOut(p)

Browse ==
  \/ \E f \in Flows : DoneDenied(f) \/ \E who \in Accounts : Approve(f, who)
  \/ \E c \in Codes : DoneWithCode(c) \/ Redirected(c)
                      \/ \E bare \in BOOLEAN : Pasted(c, bare)
  \/ RedirectedDenied

FlowSteps ==
  \/ Registered \/ RouteMissing \/ RegisterFails \/ Bound \/ NotBound
  \/ PollAgain \/ PollFails \/ TimesOut \/ Exchanged \/ ExchangeFails
  \/ \E what \in {"complete", "unverified", "rejected"} : Verified(what)

LoginNext ==
  \/ \E mode \in Modes : Begin(mode)
  \/ \E f \in Flows : Expire(f)
  \/ Serve \/ Browse \/ FlowSteps \/ HandleMail

LoginSpec == LoginInit /\ [][LoginNext]_loginVars
-----------------------------------------------------------------------------
\* A link as a box for one code.
BoxOf(l) ==
  CASE l.is = "unborn" -> "unborn"
    [] l.is = "expired" -> "closed"
    [] l.is = "live" /\ l.code = NoCode -> "empty"
    [] l.is = "live" /\ l.code = Consumed -> "taken"
    [] OTHER -> "filled"

Promise == INSTANCE OneTimeCode WITH
  Links <- Flows, box <- [f \in Flows |-> BoxOf(link[f])]

(* The relay's two statements, its reloads and its lost answers implement  *)
(* a box whose content is handed out once (attachCode, consumeCode).         *)
HandsOutOnce == Promise!Spec

(* No flow leaves the member before a busy screen: while the screen shows    *)
(* one under way, its task runs, or how it ended is among the messages and   *)
(* will count (begin_login, login_generation).                               *)
FlowIsHeard ==
  login \in {"busy", "waiting"} =>
    \/ attempt.at # "off"
    \/ \E i \in DOMAIN mail : mail[i].gen = gen /\ mail[i].what # "ready"

(* Whoever the terminal is signed in as approved the flow it shows, in a    *)
(* browser, and that approval was spent: a link that was given up, a tab of *)
(* an earlier attempt or an answer that arrives late signs nobody in         *)
(* (login_generation, code_from_pasted, wait_for_redirect).                  *)
SignedInByThisFlow ==
  me # NoMember =>
    \E c \in Codes : code[c].flow = gen /\ code[c].by = me /\ code[c].used
=============================================================================
