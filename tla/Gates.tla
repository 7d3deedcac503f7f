------------------------------- MODULE Gates -------------------------------
(***************************************************************************)
(* The client's pacing: gates that space requests, penalties that a server  *)
(* imposes on them, and requests that wait for one or several gates.        *)
(*                                                                         *)
(* A gate is a number, its address: schedule() sorts its gates by address.  *)
(* Each gate has a mutex of its own; a request that needs several takes     *)
(* them one by one, so that the steps of two requests interleave between    *)
(* any two of them.  Nothing is awaited while a mutex is held, so a task    *)
(* can be aborted only asleep or between two calls of schedule().           *)
(***************************************************************************)
EXTENDS Integers

CONSTANTS
  GateIds,      \* the addresses of the gates
  WriteGates,   \* those a successful write arms again
  LaneSets,     \* the sets of gates that requests wait for together
  Spacing,      \* each gate's spacing, Gate::min
  Requests,     \* the requests, each asked once
  Unlocked,     \* the holder of a free mutex
  Penalties,    \* the durations a server may ask for
  Fallback,     \* the penalty when the clock cannot represent the asked one
  EndOfTime,    \* when the model's clock stops
  LastEvent,    \* bound: nothing is asked or penalised after this instant
  Prompt,       \* does the clock stand still while some code can run?
  LastInstant   \* the last instant the clock can represent

ASSUME GateAssumption ==
  /\ GateIds \subseteq Nat /\ WriteGates \subseteq GateIds
  /\ LaneSets \subseteq SUBSET GateIds
  /\ Spacing \in [GateIds -> Nat]
  /\ Unlocked \notin Requests
  /\ Penalties \subseteq Nat
  /\ Prompt \in BOOLEAN
  /\ LastEvent \in Nat /\ Fallback \in Nat
  /\ EndOfTime \in Nat /\ LastInstant \in Nat
  /\ EndOfTime + Fallback <= LastInstant
  /\ \A g \in GateIds : EndOfTime + Spacing[g] <= LastInstant

VARIABLES
  now,        \* the clock
  nextFree,   \* State::next_free of each gate
  penalty,    \* State::penalty_until, 0 when there is none
  holder,     \* who holds each gate's mutex
  req,        \* what each request is doing
  imposed     \* auxiliary: every penalty, when it was imposed and how long

vars == <<now, nextFree, penalty, holder, req, imposed>>

Instants == 0..LastInstant

\* "probing" is schedule(gates, false), "claiming" schedule(gates, true);
\* both lock one gate after the other.  In "reserving" every gate was seen
\* free at time, and is still locked.
Phases == {"idle", "probing", "asleep", "ready", "claiming", "reserving",
           "sent", "answered", "aborted"}

Request == [at: Phases, lanes: SUBSET GateIds, time: Instants,
            owes: SUBSET GateIds, span: Penalties \cup {0}]

TypeOK ==
  /\ now \in 0..EndOfTime
  /\ nextFree \in [GateIds -> Instants]
  /\ penalty \in [GateIds -> Instants]
  /\ holder \in [GateIds -> Requests \cup {Unlocked}]
  /\ req \in [Requests -> Request]
  /\ imposed \subseteq [gate: GateIds, at: Instants, span: Penalties \cup {0}]

Init ==
  /\ now = 0
  /\ nextFree = [g \in GateIds |-> 0]
  /\ penalty = [g \in GateIds |-> 0]
  /\ holder = [g \in GateIds |-> Unlocked]
  /\ req = [r \in Requests |->
             [at |-> "idle", lanes |-> {}, time |-> 0, owes |-> {}, span |-> 0]]
  /\ imposed = {}

----------------------------------------------------------------------------
(* What a request sees and holds *)

Sent(r) == req[r].at \in {"sent", "answered"}

Held(r) == {g \in GateIds : holder[g] = r}

\* Locks in the order the caller listed the gates.
NextLanesAsGiven(lanes, held) == lanes \ held          \* mutant

\* The gates whose mutex may be taken next: the lowest address that is left.
NextLanes(lanes, held) ==
  {g \in lanes \ held : \A h \in lanes \ held : g <= h}

\* Does some gate hold the request back at this moment?
MustWait(lanes) ==
  \E g \in lanes : nextFree[g] > now \/ penalty[g] > now

\* t is the latest instant that some gate holds the request back until.
IsTarget(lanes, t) ==
  /\ \E g \in lanes : t \in {nextFree[g], penalty[g]}
  /\ \A g \in lanes : nextFree[g] <= t /\ penalty[g] <= t

Released(r) == [g \in GateIds |-> IF holder[g] = r THEN Unlocked ELSE holder[g]]

\* Only the first gate of a request is consumed.
AfterReserveOfFirst(lanes, time) ==                    \* mutant
  [g \in GateIds |->
    IF g \in NextLanes(lanes, {}) THEN time + Spacing[g] ELSE nextFree[g]]

AfterReserve(lanes, time) ==
  [g \in GateIds |-> IF g \in lanes THEN time + Spacing[g] ELSE nextFree[g]]

\* The instant a penalty of this span ends, on a clock that may overflow.
Until(span) ==
  IF now + span <= LastInstant THEN now + span ELSE now + Fallback

\* A later, shorter penalty replaces the longer one.
AfterPenaltyLast(g, span) == [penalty EXCEPT ![g] = Until(span)]      \* mutant

\* Penalties never replace a longer one.
AfterPenalty(g, span) ==
  [penalty EXCEPT ![g] = IF @ >= Until(span) THEN @ ELSE Until(span)]

\* The gates an answer penalises: those of a request that met a rate limit,
\* the write gate after a write, and, when a rate limit stops the key of an
\* upload, also the write gate that it did not wait for.
Penalised(lanes) ==
  {lanes, lanes \cap WriteGates, lanes \cup WriteGates} \ {{}}

----------------------------------------------------------------------------
(* Actions *)

Tick ==
  /\ now < EndOfTime
  /\ Prompt => \A r \in Requests :
       req[r].at \notin {"probing", "ready", "claiming", "reserving"}
  /\ now' = now + 1
  /\ UNCHANGED <<nextFree, penalty, holder, req, imposed>>

Ask(r, lanes) ==
  /\ req[r].at = "idle"
  /\ now <= LastEvent
  /\ req' = [req EXCEPT ![r] = [@ EXCEPT !.at = "probing", !.lanes = lanes]]
  /\ UNCHANGED <<now, nextFree, penalty, holder, imposed>>

Lock(r) ==
  /\ req[r].at \in {"probing", "claiming"}
  /\ \E g \in NextLanes(req[r].lanes, Held(r)) :
        /\ holder[g] = Unlocked
        /\ holder' = [holder EXCEPT ![g] = r]
  /\ UNCHANGED <<now, nextFree, penalty, req, imposed>>

\* All mutexes are held: read the clock, compare, sleep or go on.
Probe(r) ==
  LET lanes == req[r].lanes
  IN  /\ req[r].at = "probing"
      /\ lanes \subseteq Held(r)
      /\ holder' = Released(r)
      /\ \/ /\ MustWait(lanes)
            /\ \E t \in Instants :
                 /\ IsTarget(lanes, t)
                 /\ req' = [req EXCEPT ![r] = [@ EXCEPT !.at = "asleep", !.time = t]]
         \/ /\ ~MustWait(lanes)
            /\ req' = [req EXCEPT ![r].at = "ready"]
      /\ UNCHANGED <<now, nextFree, penalty, imposed>>

Wake(r) ==
  /\ req[r].at = "asleep"
  /\ now >= req[r].time
  /\ req' = [req EXCEPT ![r].at = "probing"]
  /\ UNCHANGED <<now, nextFree, penalty, holder, imposed>>

\* The prerequisite, the token's lock, is there.
Proceed(r) ==
  /\ req[r].at = "ready"
  /\ req' = [req EXCEPT ![r].at = "claiming"]
  /\ UNCHANGED <<now, nextFree, penalty, holder, imposed>>

\* The token ran out while the request waited; it is renewed and the wait
\* starts over.
Renew(r) ==
  /\ req[r].at = "ready"
  /\ req' = [req EXCEPT ![r].at = "probing"]
  /\ UNCHANGED <<now, nextFree, penalty, holder, imposed>>

\* All mutexes are held again: either some gate was taken or penalised in
\* the meantime, and the wait starts over, or the request will go.
Claim(r) ==
  LET lanes == req[r].lanes
  IN  /\ req[r].at = "claiming"
      /\ lanes \subseteq Held(r)
      /\ \/ /\ MustWait(lanes)
            /\ req' = [req EXCEPT ![r].at = "probing"]
            /\ holder' = Released(r)
         \/ /\ ~MustWait(lanes)
            /\ req' = [req EXCEPT ![r] = [@ EXCEPT !.at = "reserving", !.time = now]]
            /\ UNCHANGED holder
      /\ UNCHANGED <<now, nextFree, penalty, imposed>>

Reserve(r) ==
  /\ req[r].at = "reserving"
  /\ nextFree' = AfterReserve(req[r].lanes, req[r].time)
  /\ req' = [req EXCEPT ![r].at = "sent"]
  /\ holder' = Released(r)
  /\ UNCHANGED <<now, penalty, imposed>>

\* The slot a request waited for stays taken, as it did before issue 623.
AbortLeavingHole(r) ==                                 \* mutant
  /\ req[r].at \in {"asleep", "ready"}
  /\ req' = [req EXCEPT ![r].at = "aborted"]
  /\ nextFree' = AfterReserve(req[r].lanes, req[r].time)
  /\ UNCHANGED <<now, penalty, holder, imposed>>

\* The task is aborted where it awaits.
Abort(r) ==
  /\ req[r].at \in {"asleep", "ready"}
  /\ req' = [req EXCEPT ![r].at = "aborted"]
  /\ UNCHANGED <<now, nextFree, penalty, holder, imposed>>

\* An answer that penalises some gate; any other changes nothing here.
Answer(r) ==
  /\ req[r].at = "sent"
  /\ \E span \in Penalties, owes \in Penalised(req[r].lanes) :
        req' = [req EXCEPT ![r] =
                  [@ EXCEPT !.at = "answered", !.owes = owes, !.span = span]]
  /\ UNCHANGED <<now, nextFree, penalty, holder, imposed>>

\* The answer penalises its gates one after the other, each under its mutex.
Penalize(r, g) ==
  /\ req[r].at = "answered"
  /\ g \in req[r].owes
  /\ now <= LastEvent
  /\ holder[g] = Unlocked
  /\ penalty' = AfterPenalty(g, req[r].span)
  /\ imposed' = imposed \cup {[gate |-> g, at |-> now, span |-> req[r].span]}
  /\ req' = [req EXCEPT ![r].owes = @ \ {g}]
  /\ UNCHANGED <<now, nextFree, holder>>

Next ==
  \/ Tick
  \/ \E r \in Requests :
        \/ \E lanes \in LaneSets : Ask(r, lanes)
        \/ Lock(r)
        \/ Probe(r)
        \/ Wake(r)
        \/ Proceed(r)
        \/ Renew(r)
        \/ Claim(r)
        \/ Reserve(r)
        \/ Abort(r)
        \/ Answer(r)
        \/ \E g \in GateIds : Penalize(r, g)

Spec == Init /\ [][Next]_vars

\* Time passes, and the code between two awaits runs to its end.  A renewed
\* token does not run out again and again: at some time the request proceeds.
PacingFairness ==
  /\ WF_vars(Tick)
  /\ \A r \in Requests :
        /\ WF_vars(Lock(r)) /\ WF_vars(Probe(r)) /\ WF_vars(Wake(r))
        /\ WF_vars(Claim(r)) /\ WF_vars(Reserve(r))
        /\ SF_vars(Proceed(r))

FairSpec == Spec /\ PacingFairness

----------------------------------------------------------------------------
(* Properties *)

\* Gate: "successful dispatches are at least min apart", for every gate that
\* two requests share, whatever else each of them waited for.
Spaced ==
  \A r, s \in Requests :
    \A g \in req[r].lanes \cap req[s].lanes :
      (r # s /\ Sent(r) /\ Sent(s)) =>
        \/ req[r].time + Spacing[g] <= req[s].time
        \/ req[s].time + Spacing[g] <= req[r].time

\* Gate::penalize: no request goes out on a gate before the end of a penalty
\* that was imposed before it went, were it already waiting at that time; a
\* span the clock cannot represent counts as Fallback.
NoneUnderPenalty ==
  \A r \in Requests, i \in imposed :
    (Sent(r) /\ i.gate \in req[r].lanes /\ i.at < req[r].time) =>
      \/ i.at + i.span <= req[r].time
      \/ i.at + Fallback <= req[r].time

\* wait: waiting consumes no slot, so that an aborted request leaves no hole.
\* A gate is closed only for the spacing of a request that went through it.
NoHoles ==
  \A g \in GateIds : nextFree[g] > 0 =>
    \E r \in Requests : /\ Sent(r)
                        /\ g \in req[r].lanes
                        /\ nextFree[g] = req[r].time + Spacing[g]

\* wait_all: requests that take several mutexes in a stable order do not
\* block one another, and every request is sent or aborted in the end.
WaitsEnd ==
  \A r \in Requests :
    (req[r].at = "probing") ~> (Sent(r) \/ req[r].at = "aborted")

=============================================================================
