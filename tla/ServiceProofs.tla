---------------------------- MODULE ServiceProofs ---------------------------
(***************************************************************************)
(* Proofs about what runs beside the screens: the gates that requests are   *)
(* paced by, the update of the program itself, and the sign-in by way of    *)
(* the browser.                                                            *)
(***************************************************************************)
EXTENDS Gates, Updates, Login, FiniteSetTheorems, TLAPS

-----------------------------------------------------------------------------
(***************************************************************************)
(* Proofs about Gates, for every set of gates and requests.                *)
(*                                                                         *)
(* The inductive invariant says what a mutex protects: while a request     *)
(* reserves, it holds all its gates and none of them has moved past the    *)
(* instant it read (Locked); a gate that a request went through is closed  *)
(* for its spacing from that instant (Passed); and a gate remembers every  *)
(* penalty imposed on it (Charged).                                        *)
(***************************************************************************)

Locked ==
  \A r \in Requests : req[r].at = "reserving" =>
    /\ req[r].time <= now
    /\ \A g \in req[r].lanes : /\ holder[g] = r
                               /\ nextFree[g] <= req[r].time
                               /\ penalty[g] <= req[r].time

Passed ==
  \A r \in Requests : Sent(r) =>
    /\ req[r].time <= now
    /\ \A g \in req[r].lanes : req[r].time + Spacing[g] <= nextFree[g]

Charged ==
  \A i \in imposed :
    /\ i.at <= now
    /\ \/ i.at + i.span <= penalty[i.gate]
       \/ i.at + Fallback <= penalty[i.gate]

GateIInv == /\ TypeOK /\ Locked /\ Passed /\ Charged
        /\ Spaced /\ NoneUnderPenalty /\ NoHoles

\* Changing fields of a request within their types leaves it a request.
LEMMA LanesUpdate ==
  ASSUME NEW q \in Request, NEW a \in Phases, NEW lanes \in SUBSET GateIds
  PROVE  [q EXCEPT !.at = a, !.lanes = lanes] \in Request
BY DEF Request

LEMMA TimeUpdate ==
  ASSUME NEW q \in Request, NEW a \in Phases, NEW t \in Instants
  PROVE  [q EXCEPT !.at = a, !.time = t] \in Request
BY DEF Request

LEMMA AnswerUpdate ==
  ASSUME NEW q \in Request, NEW a \in Phases, NEW owes \in SUBSET GateIds,
         NEW span \in Penalties
  PROVE  [q EXCEPT !.at = a, !.owes = owes, !.span = span] \in Request
BY DEF Request

USE DEF Request, Instants, Phases

LEMMA Naturals == Instants \subseteq Nat /\ Penalties \cup {0} \subseteq Nat
BY GateAssumption

LEMMA ImposedType ==
  ASSUME TypeOK, NEW i \in imposed
  PROVE  i.at \in Nat /\ i.span \in Nat /\ i.gate \in GateIds
<1>1. i \in [gate: GateIds, at: Instants, span: Penalties \cup {0}]
  BY DEF TypeOK
<1>2. i.at \in Instants /\ i.span \in Penalties \cup {0} /\ i.gate \in GateIds
  BY <1>1
<1> HIDE DEF Instants
<1> QED
  BY <1>2, Naturals

LEMMA GateType ==
  ASSUME TypeOK, NEW g \in GateIds
  PROVE  nextFree[g] \in Nat /\ penalty[g] \in Nat
<1>1. nextFree[g] \in Instants /\ penalty[g] \in Instants
  BY DEF TypeOK
<1> HIDE DEF Instants
<1> QED
  BY <1>1, Naturals

----------------------------------------------------------------------------
(* The first state *)

LEMMA GateInitIInv == Init => GateIInv
<1> SUFFICES ASSUME Init PROVE GateIInv
  OBVIOUS
<1> USE GateAssumption DEF Init
<1>1. TypeOK
  BY DEF TypeOK
<1>2. Locked /\ Passed /\ Charged
  BY DEF Locked, Passed, Charged, Sent
<1>3. Spaced /\ NoneUnderPenalty /\ NoHoles
  BY DEF Spaced, NoneUnderPenalty, NoHoles, Sent
<1> QED
  BY <1>1, <1>2, <1>3 DEF GateIInv

----------------------------------------------------------------------------
(* The actions *)

\* A step that moves one request between two phases in which it neither
\* reserves nor has gone, and that may take or return mutexes of its own,
\* disturbs nothing.
Shuffle(r) ==
  /\ UNCHANGED <<now, nextFree, penalty, imposed>>
  /\ req' \in [Requests -> Request]
  /\ \A s \in Requests \ {r} : req'[s] = req[s]
  /\ req[r].at \notin {"reserving", "sent", "answered"}
  /\ req'[r].at \notin {"reserving", "sent", "answered"}
  /\ holder' \in [GateIds -> Requests \cup {Unlocked}]
  /\ \A g \in GateIds : holder'[g] # holder[g] => holder[g] \in {r, Unlocked}

LEMMA ShuffleStep ==
  ASSUME GateIInv, NEW r \in Requests, Shuffle(r)
  PROVE  GateIInv'
<1> USE GateAssumption DEF GateIInv, Shuffle
<1>1. TypeOK'
  BY DEF TypeOK
<1>2. \A s \in Requests : Sent(s)' => s # r /\ Sent(s) /\ req'[s] = req[s]
  BY DEF Sent
<1>3. \A s \in Requests : Sent(s) => Sent(s)' /\ req'[s] = req[s]
  BY DEF Sent
<1>4. Locked'
  <2> SUFFICES ASSUME NEW s \in Requests, req'[s].at = "reserving"
               PROVE  /\ req'[s].time <= now'
                      /\ \A g \in req'[s].lanes : /\ holder'[g] = s
                                                  /\ nextFree'[g] <= req'[s].time
                                                  /\ penalty'[g] <= req'[s].time
    BY DEF Locked
  <2>1. s # r /\ req'[s] = req[s]
    OBVIOUS
  <2>2. req[s].lanes \subseteq GateIds /\ s # Unlocked
    BY DEF TypeOK
  <2>3. /\ req[s].time <= now
        /\ \A g \in req[s].lanes : /\ holder[g] = s
                                  /\ nextFree[g] <= req[s].time
                                  /\ penalty[g] <= req[s].time
    BY <2>1 DEF Locked
  <2>4. \A g \in req[s].lanes : holder'[g] = s
    BY <2>1, <2>2, <2>3
  <2> QED
    BY <2>1, <2>3, <2>4
<1>5. Passed' /\ Charged'
  BY <1>2 DEF Passed, Charged
<1>6. Spaced' /\ NoneUnderPenalty'
  BY <1>2 DEF Spaced, NoneUnderPenalty
<1>7. NoHoles'
  BY <1>3 DEF NoHoles
<1> QED
  BY <1>1, <1>4, <1>5, <1>6, <1>7

LEMMA TickStep == GateIInv /\ Tick => GateIInv'
<1> SUFFICES ASSUME GateIInv, Tick PROVE GateIInv'
  OBVIOUS
<1> USE GateAssumption DEF GateIInv, Tick
<1>1. TypeOK'
  BY DEF TypeOK
<1>2. Locked'
  BY DEF Locked, TypeOK
<1>3. Passed'
  BY DEF Passed, Sent, TypeOK
<1>4. Charged'
  BY DEF Charged, TypeOK
<1>5. Spaced' /\ NoneUnderPenalty' /\ NoHoles'
  BY DEF Spaced, NoneUnderPenalty, NoHoles, Sent
<1> QED
  BY <1>1, <1>2, <1>3, <1>4, <1>5

LEMMA ReleasedType ==
  ASSUME TypeOK, NEW r \in Requests
  PROVE  /\ Released(r) \in [GateIds -> Requests \cup {Unlocked}]
         /\ \A g \in GateIds : Released(r)[g] # holder[g] => holder[g] = r
<1>1. holder \in [GateIds -> Requests \cup {Unlocked}]
  BY DEF TypeOK
<1>2. ASSUME NEW g \in GateIds
      PROVE  /\ Released(r)[g] = IF holder[g] = r THEN Unlocked ELSE holder[g]
             /\ Released(r)[g] \in Requests \cup {Unlocked}
  BY <1>1 DEF Released
<1> QED
  BY <1>1, <1>2 DEF Released

LEMMA AskStep ==
  ASSUME GateIInv, NEW r \in Requests, NEW lanes \in LaneSets, Ask(r, lanes)
  PROVE  GateIInv'
<1>1. lanes \in SUBSET GateIds /\ req \in [Requests -> Request]
  BY GateAssumption DEF GateIInv, TypeOK
<1>2. [req[r] EXCEPT !.at = "probing", !.lanes = lanes] \in Request
  <2>1. req[r] \in Request /\ "probing" \in Phases
    BY <1>1
  <2> HIDE DEF Request, Phases
  <2> QED
    BY <1>1, <2>1, LanesUpdate
<1>3. req' = [req EXCEPT ![r] = [req[r] EXCEPT !.at = "probing", !.lanes = lanes]]
  BY <1>1 DEF Ask
<1>4. Shuffle(r)
  BY <1>1, <1>2, <1>3 DEF GateIInv, TypeOK, Ask, Shuffle
<1> QED
  BY <1>4, ShuffleStep

LEMMA LockStep ==
  ASSUME GateIInv, NEW r \in Requests, Lock(r)
  PROVE  GateIInv'
<1>1. PICK g \in NextLanes(req[r].lanes, Held(r)) :
         holder[g] = Unlocked /\ holder' = [holder EXCEPT ![g] = r]
  BY DEF Lock
<1>2. g \in GateIds
  BY <1>1 DEF NextLanes, GateIInv, TypeOK
<1>3. Shuffle(r)
  BY <1>1, <1>2, GateAssumption DEF GateIInv, TypeOK, Lock, Shuffle
<1> QED
  BY <1>3, ShuffleStep

LEMMA ProbeStep ==
  ASSUME GateIInv, NEW r \in Requests, Probe(r)
  PROVE  GateIInv'
<1>1. TypeOK /\ req \in [Requests -> Request]
  BY DEF GateIInv, TypeOK
<1>2. ASSUME NEW t \in Instants
      PROVE  [req[r] EXCEPT !.at = "asleep", !.time = t] \in Request
  <2>1. req[r] \in Request /\ "asleep" \in Phases
    BY <1>1
  <2> HIDE DEF Request, Phases, Instants
  <2> QED
    BY <1>2, <2>1, TimeUpdate
<1>3. CASE MustWait(req[r].lanes)
  <2>1. PICK t \in Instants :
          req' = [req EXCEPT ![r] = [req[r] EXCEPT !.at = "asleep", !.time = t]]
    BY <1>1, <1>3 DEF Probe
  <2>2. /\ req' \in [Requests -> Request]
        /\ \A s \in Requests \ {r} : req'[s] = req[s]
        /\ req'[r].at = "asleep"
    BY <1>1, <1>2, <2>1
  <2>3. Shuffle(r)
    BY <1>1, <2>2, ReleasedType DEF Probe, Shuffle
  <2> QED
    BY <2>3, ShuffleStep
<1>4. CASE ~MustWait(req[r].lanes)
  <2>1. req' = [req EXCEPT ![r].at = "ready"]
    BY <1>4 DEF Probe
  <2>2. /\ req' \in [Requests -> Request]
        /\ \A s \in Requests \ {r} : req'[s] = req[s]
        /\ req'[r].at = "ready"
    BY <1>1, <2>1
  <2>3. Shuffle(r)
    BY <1>1, <2>2, ReleasedType DEF Probe, Shuffle
  <2> QED
    BY <2>3, ShuffleStep
<1> QED
  BY <1>3, <1>4

LEMMA WakeStep ==
  ASSUME GateIInv, NEW r \in Requests, Wake(r) \/ Proceed(r) \/ Renew(r) \/ Abort(r)
  PROVE  GateIInv'
<1>1. Shuffle(r)
  BY DEF GateIInv, TypeOK, Wake, Proceed, Renew, Abort, Shuffle
<1> QED
  BY <1>1, ShuffleStep

\* A claim reads the clock under all its mutexes.
LEMMA ClaimStep ==
  ASSUME GateIInv, NEW r \in Requests, Claim(r)
  PROVE  GateIInv'
<1> USE GateAssumption
<1>1. CASE MustWait(req[r].lanes)
  <2>1. req' = [req EXCEPT ![r].at = "probing"] /\ holder' = Released(r)
    BY <1>1 DEF Claim
  <2>2. req' \in [Requests -> Request]
    BY <2>1 DEF GateIInv, TypeOK
  <2>3. \A s \in Requests \ {r} : req'[s] = req[s]
    BY <2>1 DEF GateIInv, TypeOK
  <2>4. req'[r].at = "probing"
    BY <2>1 DEF GateIInv, TypeOK
  <2>5. TypeOK /\ req[r].at = "claiming" /\ UNCHANGED <<now, nextFree, penalty, imposed>>
    BY DEF GateIInv, Claim
  <2>6. Shuffle(r)
    BY <2>1, <2>2, <2>3, <2>4, <2>5, ReleasedType DEF Shuffle
  <2> QED
    BY <2>6, ShuffleStep
<1>2. CASE ~MustWait(req[r].lanes)
  <2> USE DEF GateIInv
  <2>1. /\ req' = [req EXCEPT ![r] = [@ EXCEPT !.at = "reserving", !.time = now]]
        /\ UNCHANGED <<now, nextFree, penalty, holder, imposed>>
        /\ req[r].at = "claiming"
        /\ req[r].lanes \subseteq Held(r)
    BY <1>2 DEF Claim
  <2>2. TypeOK'
    <3>1. now \in Instants
      BY DEF TypeOK
    <3>2. req \in [Requests -> Request]
      BY DEF TypeOK
    <3>3. req[r] \in Request /\ "reserving" \in Phases
      BY <3>2
    <3>4. [req[r] EXCEPT !.at = "reserving", !.time = now] \in Request
      <4> HIDE DEF Request, Phases, Instants
      <4> QED
        BY <3>1, <3>3, TimeUpdate
    <3>5. req' = [req EXCEPT ![r] = [req[r] EXCEPT !.at = "reserving", !.time = now]]
      BY <2>1, <3>2
    <3>6. req' \in [Requests -> Request]
      BY <3>2, <3>4, <3>5
    <3> QED
      BY <2>1, <3>6 DEF TypeOK
  <2>3. \A s \in Requests : s # r => req'[s] = req[s]
    BY <2>1 DEF TypeOK
  <2>4. req'[r] = [req[r] EXCEPT !.at = "reserving", !.time = now]
    BY <2>1 DEF TypeOK
  <2>5. \A g \in req[r].lanes : /\ g \in GateIds
                                /\ holder[g] = r
                                /\ nextFree[g] <= now /\ penalty[g] <= now
    BY <1>2, <2>1 DEF Held, MustWait, TypeOK
  <2>6. Locked'
    BY <2>1, <2>3, <2>4, <2>5 DEF Locked, TypeOK
  <2>7. \A s \in Requests : /\ Sent(s)' <=> Sent(s)
                            /\ Sent(s) => req'[s] = req[s]
    <3> SUFFICES ASSUME NEW s \in Requests
                 PROVE  (Sent(s)' <=> Sent(s)) /\ (Sent(s) => req'[s] = req[s])
      OBVIOUS
    <3>1. CASE s = r
      <4>1. req[s].at = "claiming" /\ req'[s].at = "reserving"
        BY <2>1, <2>4, <3>1 DEF TypeOK
      <4> QED
        BY <4>1 DEF Sent
    <3>2. CASE s # r
      BY <2>3, <3>2 DEF Sent
    <3> QED
      BY <3>1, <3>2
  <2>8. Passed' /\ Charged'
    BY <2>1, <2>7 DEF Passed, Charged
  <2>9. Spaced' /\ NoneUnderPenalty' /\ NoHoles'
    BY <2>1, <2>7 DEF Spaced, NoneUnderPenalty, NoHoles
  <2> QED
    BY <2>2, <2>6, <2>8, <2>9
<1> QED
  BY <1>1, <1>2

\* Reserving closes the gates that the request still holds.
LEMMA ReserveStep ==
  ASSUME GateIInv, NEW r \in Requests, Reserve(r)
  PROVE  GateIInv'
<1> USE GateAssumption DEF GateIInv
<1> DEFINE t == req[r].time
           lanes == req[r].lanes
<1>1. /\ req[r].at = "reserving"
      /\ nextFree' = AfterReserve(lanes, t)
      /\ req' = [req EXCEPT ![r].at = "sent"]
      /\ holder' = Released(r)
      /\ UNCHANGED <<now, penalty, imposed>>
  BY DEF Reserve
<1>2. /\ t <= now /\ t \in Nat /\ t <= EndOfTime
      /\ lanes \subseteq GateIds
      /\ \A g \in lanes : /\ holder[g] = r
                          /\ nextFree[g] <= t /\ penalty[g] <= t
  BY <1>1 DEF Locked, TypeOK
<1>3. \A g \in GateIds : /\ g \in lanes => nextFree'[g] = t + Spacing[g]
                         /\ g \notin lanes => nextFree'[g] = nextFree[g]
                         /\ nextFree'[g] \in Instants
  BY <1>1, <1>2 DEF AfterReserve, TypeOK
<1>4. \A g \in GateIds : nextFree[g] <= nextFree'[g]
  BY <1>2, <1>3 DEF TypeOK
<1>5. /\ \A s \in Requests : s # r => req'[s] = req[s]
      /\ req'[r] = [req[r] EXCEPT !.at = "sent"]
      /\ req' \in [Requests -> Request]
  <2>1. req \in [Requests -> Request]
    BY DEF TypeOK
  <2>2. [req[r] EXCEPT !.at = "sent"] \in Request
    BY <2>1
  <2>3. req' = [req EXCEPT ![r] = [req[r] EXCEPT !.at = "sent"]]
    BY <1>1, <2>1
  <2> QED
    BY <2>1, <2>2, <2>3
<1>6. /\ req'[r].at = "sent" /\ req'[r].time = t /\ req'[r].lanes = lanes
      /\ ~Sent(r)
      /\ \A s \in Requests : s # r => (Sent(s)' <=> Sent(s))
  BY <1>1, <1>5 DEF Sent, TypeOK
<1>7. TypeOK'
  <2>1. nextFree' \in [GateIds -> Instants]
    BY <1>1, <1>3 DEF AfterReserve
  <2> QED
    BY <1>1, <1>5, <2>1, ReleasedType DEF TypeOK
<1>8. Locked'
  <2> SUFFICES ASSUME NEW s \in Requests, req'[s].at = "reserving"
               PROVE  /\ req'[s].time <= now'
                      /\ \A g \in req'[s].lanes : /\ holder'[g] = s
                                                  /\ nextFree'[g] <= req'[s].time
                                                  /\ penalty'[g] <= req'[s].time
    BY DEF Locked
  <2>1. s # r /\ req'[s] = req[s]
    BY <1>5, <1>6
  <2>2. /\ req[s].time <= now /\ req[s].lanes \subseteq GateIds
        /\ \A g \in req[s].lanes : /\ holder[g] = s
                                  /\ nextFree[g] <= req[s].time
                                  /\ penalty[g] <= req[s].time
    BY <2>1 DEF Locked, TypeOK
  <2>3. \A g \in req[s].lanes : g \notin lanes /\ holder'[g] = s
    BY <1>1, <1>2, <2>1, <2>2 DEF Released
  <2> QED
    BY <1>1, <1>3, <2>1, <2>2, <2>3
<1>9. Passed'
  <2> SUFFICES ASSUME NEW s \in Requests, Sent(s)'
               PROVE  /\ req'[s].time <= now'
                      /\ \A g \in req'[s].lanes : req'[s].time + Spacing[g] <= nextFree'[g]
    BY DEF Passed
  <2>1. CASE s = r
    BY <1>1, <1>2, <1>3, <1>6, <2>1
  <2>2. CASE s # r
    <3>1. Sent(s) /\ req'[s] = req[s] /\ req[s] \in Request
      BY <1>5, <1>6, <2>2 DEF TypeOK
    <3>2. /\ req[s].time <= now
          /\ \A g \in req[s].lanes : req[s].time + Spacing[g] <= nextFree[g]
      BY <3>1 DEF Passed
    <3>3. \A g \in req[s].lanes :
            /\ g \in GateIds /\ Spacing[g] \in Nat
            /\ nextFree[g] \in Nat /\ nextFree'[g] \in Nat
            /\ nextFree[g] <= nextFree'[g]
      BY <1>3, <1>4, <3>1 DEF TypeOK
    <3>4. req[s].time \in Nat
      BY <3>1
    <3> QED
      BY <1>1, <3>1, <3>2, <3>3, <3>4
  <2> QED
    BY <2>1, <2>2
<1>10. Charged'
  BY <1>1 DEF Charged
<1>11. Spaced'
  <2>1. \A s \in Requests : \A g \in lanes \cap req[s].lanes :
          Sent(s) => req[s].time + Spacing[g] <= t
    BY <1>2 DEF Passed, TypeOK
  <2> QED
    BY <1>5, <1>6, <2>1 DEF Spaced
<1>12. NoneUnderPenalty'
  <2>1. \A i \in imposed : i.gate \in lanes =>
          i.at + i.span <= t \/ i.at + Fallback <= t
    <3> SUFFICES ASSUME NEW i \in imposed, i.gate \in lanes
                 PROVE  i.at + i.span <= t \/ i.at + Fallback <= t
      OBVIOUS
    <3>1. /\ i.at \in Nat /\ i.span \in Nat /\ i.gate \in GateIds
          /\ penalty[i.gate] \in Nat
      BY ImposedType, GateType
    <3>2. penalty[i.gate] <= t
      BY <1>2
    <3>3. i.at + i.span <= penalty[i.gate] \/ i.at + Fallback <= penalty[i.gate]
      BY DEF Charged
    <3> QED
      BY <1>2, <3>1, <3>2, <3>3
  <2> QED
    BY <1>1, <1>5, <1>6, <2>1 DEF NoneUnderPenalty
<1>13. NoHoles'
  <2> SUFFICES ASSUME NEW g \in GateIds, nextFree'[g] > 0
               PROVE  \E s \in Requests : /\ Sent(s)'
                                         /\ g \in req'[s].lanes
                                         /\ nextFree'[g] = req'[s].time + Spacing[g]
    BY DEF NoHoles
  <2>1. CASE g \in lanes
    BY <1>3, <1>6, <2>1 DEF Sent
  <2>2. CASE g \notin lanes
    <3>1. PICK s \in Requests : /\ Sent(s) /\ g \in req[s].lanes
                               /\ nextFree[g] = req[s].time + Spacing[g]
      BY <1>3, <2>2 DEF NoHoles
    <3> QED
      BY <1>3, <1>5, <1>6, <2>2, <3>1
  <2> QED
    BY <2>1, <2>2
<1> QED
  BY <1>7, <1>8, <1>9, <1>10, <1>11, <1>12, <1>13

LEMMA AnswerStep ==
  ASSUME GateIInv, NEW r \in Requests, Answer(r)
  PROVE  GateIInv'
<1> USE GateAssumption DEF GateIInv
<1>1. PICK span \in Penalties, owes \in Penalised(req[r].lanes) :
        req' = [req EXCEPT ![r] =
                  [@ EXCEPT !.at = "answered", !.owes = owes, !.span = span]]
  BY DEF Answer
<1>2. req[r].at = "sent" /\ UNCHANGED <<now, nextFree, penalty, holder, imposed>>
  BY DEF Answer
<1>3. owes \in SUBSET GateIds /\ req \in [Requests -> Request]
  BY <1>1 DEF Penalised, TypeOK
<1>4. [req[r] EXCEPT !.at = "answered", !.owes = owes, !.span = span] \in Request
  <2>1. req[r] \in Request /\ "answered" \in Phases
    BY <1>3
  <2> HIDE DEF Request, Phases
  <2> QED
    BY <1>3, <2>1, AnswerUpdate
<1>5. req' = [req EXCEPT ![r] =
                [req[r] EXCEPT !.at = "answered", !.owes = owes, !.span = span]]
  BY <1>1, <1>3
<1>6. /\ \A s \in Requests : s # r => req'[s] = req[s]
      /\ req'[r].at = "answered" /\ req'[r].time = req[r].time
      /\ req'[r].lanes = req[r].lanes
  BY <1>3, <1>5
<1>7. TypeOK'
  BY <1>2, <1>3, <1>4, <1>5 DEF TypeOK
<1>8. \A s \in Requests : /\ Sent(s)' <=> Sent(s)
                          /\ req'[s].time = req[s].time /\ req'[s].lanes = req[s].lanes
  BY <1>2, <1>6 DEF Sent
<1>9. Locked'
  BY <1>2, <1>6 DEF Locked
<1>10. Passed' /\ Charged'
  BY <1>2, <1>8 DEF Passed, Charged
<1>11. Spaced' /\ NoneUnderPenalty' /\ NoHoles'
  BY <1>2, <1>8 DEF Spaced, NoneUnderPenalty, NoHoles
<1> QED
  BY <1>7, <1>9, <1>10, <1>11

LEMMA PenalizeStep ==
  ASSUME GateIInv, NEW r \in Requests, NEW g \in GateIds, Penalize(r, g)
  PROVE  GateIInv'
<1> USE GateAssumption DEF GateIInv
<1> DEFINE span == req[r].span
           latest == [gate |-> g, at |-> now, span |-> span]
<1>1. /\ req[r].at = "answered" /\ holder[g] = Unlocked
      /\ penalty' = AfterPenalty(g, span)
      /\ imposed' = imposed \cup {latest}
      /\ req' = [req EXCEPT ![r].owes = @ \ {g}]
      /\ UNCHANGED <<now, nextFree, holder>>
  BY DEF Penalize
<1>2. /\ now \in Nat /\ now <= EndOfTime /\ req \in [Requests -> Request]
      /\ span \in Nat /\ span \in Penalties \cup {0}
  <2>1. /\ now \in Nat /\ now <= EndOfTime /\ req \in [Requests -> Request]
        /\ span \in Penalties \cup {0}
    BY DEF TypeOK
  <2> QED
    BY <2>1, Naturals
<1>3. /\ Until(span) \in Instants
      /\ now + span <= Until(span) \/ now + Fallback <= Until(span)
  BY <1>2 DEF Until
<1>4. /\ penalty' \in [GateIds -> Instants]
      /\ Until(span) <= penalty'[g]
      /\ \A h \in GateIds : penalty[h] <= penalty'[h]
      /\ \A h \in GateIds : h # g => penalty'[h] = penalty[h]
  <2>1. penalty \in [GateIds -> Instants]
    BY DEF TypeOK
  <2> QED
    BY <1>1, <1>3, <2>1 DEF AfterPenalty
<1>5. /\ req' \in [Requests -> Request]
      /\ \A s \in Requests : /\ req'[s].at = req[s].at
                             /\ req'[s].time = req[s].time
                             /\ req'[s].lanes = req[s].lanes
  BY <1>1, <1>2
<1>6. \A s \in Requests : Sent(s)' <=> Sent(s)
  BY <1>5 DEF Sent
<1>7. TypeOK'
  <2>1. latest \in [gate: GateIds, at: Instants, span: Penalties \cup {0}]
    BY <1>2
  <2> QED
    BY <1>1, <1>4, <1>5, <2>1 DEF TypeOK
<1>8. Locked'
  <2> SUFFICES ASSUME NEW s \in Requests, req'[s].at = "reserving"
               PROVE  /\ req'[s].time <= now'
                      /\ \A h \in req'[s].lanes : /\ holder'[h] = s
                                                  /\ nextFree'[h] <= req'[s].time
                                                  /\ penalty'[h] <= req'[s].time
    BY DEF Locked
  <2>1. /\ req[s].time <= now /\ req[s].lanes \subseteq GateIds
        /\ \A h \in req[s].lanes : /\ holder[h] = s
                                  /\ nextFree[h] <= req[s].time
                                  /\ penalty[h] <= req[s].time
    BY <1>5 DEF Locked, TypeOK
  <2>2. g \notin req[s].lanes
    BY <1>1, <2>1
  <2> QED
    BY <1>1, <1>4, <1>5, <2>1, <2>2
<1>9. Passed' /\ Spaced' /\ NoHoles'
  BY <1>1, <1>5, <1>6 DEF Passed, Spaced, NoHoles
<1>10. Charged'
  <2> SUFFICES ASSUME NEW i \in imposed'
               PROVE  /\ i.at <= now'
                      /\ \/ i.at + i.span <= penalty'[i.gate]
                         \/ i.at + Fallback <= penalty'[i.gate]
    BY DEF Charged
  <2>1. CASE i = latest
    <3>1. i.gate = g /\ i.at = now /\ i.span = span
      BY <2>1
    <3>2. penalty'[g] \in Nat /\ Until(span) \in Nat
      BY <1>3, <1>4
    <3> QED
      BY <1>1, <1>2, <1>3, <1>4, <3>1, <3>2
  <2>2. CASE i \in imposed
    <3>2. i.at \in Nat /\ i.span \in Nat /\ i.gate \in GateIds
      BY <2>2, ImposedType
    <3>3. /\ i.at <= now
          /\ i.at + i.span <= penalty[i.gate] \/ i.at + Fallback <= penalty[i.gate]
      BY <2>2 DEF Charged
    <3>4. /\ penalty[i.gate] \in Nat /\ penalty'[i.gate] \in Nat
          /\ penalty[i.gate] <= penalty'[i.gate]
      <4>1. penalty'[i.gate] \in Instants
        BY <1>4, <3>2
      <4> QED
        BY <1>4, <3>2, <4>1, GateType, Naturals
    <3> QED
      BY <1>1, <3>2, <3>3, <3>4
  <2> QED
    BY <1>1, <2>1, <2>2
<1>11. NoneUnderPenalty'
  <2>1. \A s \in Requests : Sent(s) => ~(now < req[s].time)
    BY <1>2 DEF Passed, TypeOK
  <2> QED
    BY <1>1, <1>5, <1>6, <2>1 DEF NoneUnderPenalty
<1> QED
  BY <1>7, <1>8, <1>9, <1>10, <1>11

----------------------------------------------------------------------------
(* The theorems *)

LEMMA NextIInv == GateIInv /\ [Next]_vars => GateIInv'
<1> SUFFICES ASSUME GateIInv, [Next]_vars PROVE GateIInv'
  OBVIOUS
<1>1. CASE Next
  BY <1>1, TickStep, AskStep, LockStep, ProbeStep, WakeStep, ClaimStep,
     ReserveStep, AnswerStep, PenalizeStep DEF Next
<1>2. CASE UNCHANGED vars
  BY <1>2 DEF vars, GateIInv, TypeOK, Locked, Passed, Charged, Spaced,
     NoneUnderPenalty, NoHoles, Sent
<1> QED
  BY <1>1, <1>2

LEMMA GateInductive == Spec => []GateIInv
BY GateInitIInv, NextIInv, PTL DEF Spec

\* Every variable keeps its type: no instant is computed past the last one
\* the clock can represent, whatever a server asks for.
THEOREM TypeCorrect == Spec => []TypeOK
<1>1. GateIInv => TypeOK
  BY DEF GateIInv
<1> QED
  BY <1>1, GateInductive, PTL

\* Two requests that share a gate go at least its spacing apart, whatever
\* other gates each of them took with it.
THEOREM DispatchesAreSpaced == Spec => []Spaced
<1>1. GateIInv => Spaced
  BY DEF GateIInv
<1> QED
  BY <1>1, GateInductive, PTL

\* No request goes before the end of a penalty imposed on one of its gates.
THEOREM PenaltiesAreServed == Spec => []NoneUnderPenalty
<1>1. GateIInv => NoneUnderPenalty
  BY DEF GateIInv
<1> QED
  BY <1>1, GateInductive, PTL

\* A request that was aborted while it waited keeps no gate closed.
THEOREM WaitsLeaveNoHoles == Spec => []NoHoles
<1>1. GateIInv => NoHoles
  BY DEF GateIInv
<1> QED
  BY <1>1, GateInductive, PTL

HIDE DEF Request, Instants, Phases
-----------------------------------------------------------------------------
(***************************************************************************)
(* Proofs about Updates, for every set of terminals and number of          *)
(* versions.                                                               *)
(*                                                                         *)
(* The inductive invariant has one part per terminal: what it may count    *)
(* on between two of its steps while siblings take theirs.  A terminal     *)
(* that swaps holds the lock, so that nobody else touches the files or     *)
(* the generation it picked; one that was just loaded runs what is at the  *)
(* path; one in its session runs nothing newer than what is installed.     *)
(***************************************************************************)

Swaps == {"copying", "copied", "aside", "swapped"}

Holding(p) == proc[p].at \in Swaps \/ proc[p].check = "staging"

\* Each stage of a swap, and what the files are then.
SwapOK(p) ==
  /\ proc[p].at = "started" => exe = proc[p].image /\ exe # None
  /\ proc[p].at \in Swaps => proc[p].pick \in Versions /\ gens[proc[p].pick] > 0
  /\ proc[p].at \in {"copying", "copied"} =>
       exe = proc[p].image /\ exe # None /\ exe < proc[p].pick
  /\ proc[p].at = "copied" => new = proc[p].pick
  /\ proc[p].at = "aside" =>
       /\ exe = None /\ old \in Versions /\ old < proc[p].pick
       /\ new = proc[p].pick /\ place = "aside"
  /\ proc[p].at = "swapped" => exe = proc[p].pick

\* A terminal knows of no version that is neither staged nor installed.
ChipOK(p) ==
  LET v == proc[p].chip.version
  IN /\ proc[p].chip.says = "staged" =>
          /\ place \in {"over", "aside"}
          /\ Installed >= v \/ gens[v] > 0
     /\ proc[p].chip.says = "applied" => Installed >= v

CheckOK(p) ==
  /\ proc[p].check \in {"fetched", "download", "downloaded", "staging"} =>
       proc[p].latest \in Versions
  /\ proc[p].check \in {"download", "downloaded", "staging"} =>
       place # "package"
  /\ proc[p].at # "on" => proc[p].check = "none" /\ proc[p].chip = Quiet
  /\ proc[p].check # "none" => proc[p].chip.says = "checking"

ProcOK(p) ==
  /\ Holding(p) <=> lock = p
  /\ proc[p].image <= Installed
  /\ SwapOK(p) /\ ChipOK(p) /\ CheckOK(p)

UpdateIInv == /\ UpdateTypeOK /\ AlwaysAnExecutable /\ StagedOnce
        /\ \A p \in Procs : ProcOK(p)
----------------------------------------------------------------------------
USE DEF Versions, None, Partial, Places, StartStages, CheckStages, Chip, Quiet

LEMMA ProcFields ==
  ASSUME UpdateTypeOK, NEW p \in Procs
  PROVE  /\ proc[p] \in Proc
         /\ proc[p].at \in StartStages /\ proc[p].image \in 0..Newest
         /\ proc[p].pick \in 0..Newest /\ proc[p].chip \in Chip
         /\ proc[p].check \in CheckStages /\ proc[p].latest \in 0..Newest
BY DEF UpdateTypeOK, Proc

\* A terminal that does not move keeps what it counts on, as long as nobody
\* touches the files while it swaps, replaces the executable while it starts,
\* or takes away a version it was told of.
LEMMA OthersKeep ==
  ASSUME UpdateIInv, UpdateTypeOK', NEW q \in Procs,
         proc'[q] = proc[q], place' = place,
         Installed <= Installed',
         lock = q <=> lock' = q,
         lock = q => UNCHANGED <<exe, new, old, gens>>,
         proc[q].at = "started" => exe' = exe,
         place \in {"over", "aside"} =>
           \A v \in Versions : gens[v] > 0 => gens'[v] > 0 \/ v <= Installed'
  PROVE  ProcOK(q)'
<1> USE UpdatesAssumption
<1>1. ProcOK(q) /\ UpdateTypeOK
  BY DEF UpdateIInv
<1>2. /\ Installed \in 0..Newest /\ Installed' \in 0..Newest
      /\ proc[q].image \in 0..Newest /\ proc[q].chip.version \in 0..Newest
  BY <1>1, ProcFields DEF UpdateTypeOK, Installed
<1>3. (Holding(q) <=> lock = q)' /\ (proc[q].image <= Installed)'
  BY <1>1, <1>2 DEF ProcOK, Holding
<1>4. SwapOK(q)'
  <2>1. CASE proc[q].at \in Swaps
    BY <1>1, <2>1 DEF ProcOK, SwapOK, Holding, Swaps
  <2>2. CASE proc[q].at \notin Swaps
    BY <1>1, <2>2 DEF ProcOK, SwapOK, Swaps
  <2> QED
    BY <2>1, <2>2
<1>5. ChipOK(q)'
  <2>1. proc[q].chip.version \in Versions =>
          (gens[proc[q].chip.version] > 0 /\ place \in {"over", "aside"} =>
             gens'[proc[q].chip.version] > 0
               \/ proc[q].chip.version <= Installed')
    OBVIOUS
  <2>2. Installed' >= 0
    BY <1>2
  <2> QED
    BY <1>1, <1>2, <2>1, <2>2 DEF ProcOK, ChipOK
<1>6. CheckOK(q)'
  BY <1>1 DEF ProcOK, CheckOK
<1> QED
  BY <1>3, <1>4, <1>5, <1>6 DEF ProcOK

LEMMA UpdateInitIInv == UpdateInit => UpdateIInv
<1> SUFFICES ASSUME UpdateInit PROVE UpdateIInv
  OBVIOUS
<1> USE UpdatesAssumption DEF UpdateInit
<1>1. UpdateTypeOK
  BY DEF UpdateTypeOK, Off, Loaded, Proc
<1>2. AlwaysAnExecutable /\ StagedOnce
  BY DEF AlwaysAnExecutable, StagedOnce
<1>3. ASSUME NEW p \in Procs PROVE ProcOK(p)
  BY DEF ProcOK, Holding, Swaps, SwapOK, ChipOK, CheckOK, Off, Loaded, Installed
<1> QED
  BY <1>1, <1>2, <1>3 DEF UpdateIInv
----------------------------------------------------------------------------
(* The actions *)

\* A step of one terminal: it leaves the invariant if it leaves the files
\* alone while somebody else holds the lock, and the executable alone while
\* somebody starts.
LEMMA OneMoves ==
  ASSUME UpdateIInv, NEW p \in Procs, UpdateTypeOK', AlwaysAnExecutable',
         StagedOnce', ProcOK(p)', place' = place,
         \A q \in Procs \ {p} : proc'[q] = proc[q],
         Installed <= Installed',
         lock' # lock => lock \in {p, Nobody} /\ lock' \in {p, Nobody},
         lock \in {p, Nobody} \/ UNCHANGED <<exe, new, old, gens>>,
         NobodyStarts \/ exe' = exe,
         place \in {"over", "aside"} =>
           \A v \in Versions : gens[v] > 0 => gens'[v] > 0 \/ v <= Installed'
  PROVE  UpdateIInv'
<1> USE UpdatesAssumption
<1>1. ASSUME NEW q \in Procs \ {p} PROVE ProcOK(q)'
  <2>1. (lock = q <=> lock' = q) /\ (lock = q => UNCHANGED <<exe, new, old, gens>>)
    OBVIOUS
  <2>2. proc[q].at = "started" => exe' = exe
    BY DEF NobodyStarts
  <2> QED
    BY <2>1, <2>2, OthersKeep
<1> QED
  BY <1>1 DEF UpdateIInv

\* A step that leaves every file alone.
LEMMA FilesStay ==
  ASSUME UpdateIInv, NEW p \in Procs, NEW r \in Proc,
         proc' = [proc EXCEPT ![p] = r],
         UNCHANGED <<place, exe, new, old, gens, feed>>,
         lock' # lock => lock \in {p, Nobody} /\ lock' \in {p, Nobody},
         ProcOK(p)'
  PROVE  UpdateIInv'
<1> USE UpdatesAssumption
<1>1. UpdateTypeOK'
  BY DEF UpdateIInv, UpdateTypeOK
<1>2. AlwaysAnExecutable' /\ StagedOnce'
  BY DEF UpdateIInv, AlwaysAnExecutable, StagedOnce
<1>3. Installed' = Installed /\ Installed \in 0..Newest
  BY DEF Installed, UpdateIInv, UpdateTypeOK
<1>4. \A q \in Procs \ {p} : proc'[q] = proc[q]
  BY DEF UpdateIInv, UpdateTypeOK
<1> QED
  BY <1>1, <1>2, <1>3, <1>4, OneMoves

\* The process that moved, after its step.
LEMMA Becomes ==
  ASSUME UpdateTypeOK, NEW p \in Procs, NEW r,
         proc' = [proc EXCEPT ![p] = r]
  PROVE  proc'[p] = r
BY DEF UpdateTypeOK

LEMMA RunningType ==
  ASSUME NEW r \in Proc, NEW chip \in Chip
  PROVE  /\ Running(r, chip) \in Proc
         /\ Running(r, chip).at = "on" /\ Running(r, chip).image = r.image
         /\ Running(r, chip).check \in {"none", "asked"}
         /\ Running(r, chip).chip.says # "staged"
         /\ Running(r, chip).chip.says = "applied" =>
              Running(r, chip).chip = chip
         /\ Running(r, chip).check # "none" =>
              Running(r, chip).chip.says = "checking"
         /\ chip.says = "applied" =>
              Running(r, chip).chip = chip /\ Running(r, chip).check = "none"
<1> DEFINE shown == IF chip.says = "applied" THEN chip
                    ELSE Says("checking", None)
           due == IF chip.says = "applied" THEN "none" ELSE "asked"
<1>1. shown \in Chip /\ shown.says # "staged"
      /\ (shown.says = "applied" => shown = chip)
      /\ (due # "none" => shown.says = "checking")
      /\ (chip.says = "applied" => shown = chip /\ due = "none")
  <2>1. CASE chip.says = "applied"
    BY <2>1
  <2>2. CASE chip.says # "applied"
    <3>1. shown = [says |-> "checking", version |-> 0]
      BY <2>2 DEF Says
    <3> QED
      BY <3>1, UpdatesAssumption
  <2> QED
    BY <2>1, <2>2
<1>2. due \in CheckStages /\ due \in {"none", "asked"}
  OBVIOUS
<1>3. Running(r, chip) = [r EXCEPT !.at = "on", !.pick = None, !.chip = shown,
                                   !.check = due]
  BY DEF Running
<1> HIDE DEF shown, due
<1>4. 0 \in 0..Newest
  BY UpdatesAssumption
<1> HIDE DEF Chip, CheckStages
<1> QED
  BY <1>1, <1>2, <1>3, <1>4 DEF Proc

\* A terminal that enters its session without having changed anything.
LEMMA EntersSession ==
  ASSUME UpdateIInv, NEW p \in Procs, proc[p].at \in StartStages \ {"off", "on"},
         lock' = IF lock = p THEN Nobody ELSE lock,
         Installed' = Installed,
         proc' = [proc EXCEPT ![p] = Running(@, Quiet)]
  PROVE  ProcOK(p)' /\ Running(proc[p], Quiet) \in Proc
<1> USE UpdatesAssumption
<1>1. UpdateTypeOK /\ ProcOK(p) /\ proc[p] \in Proc
  BY ProcFields DEF UpdateIInv
<1>2. Quiet \in Chip /\ Quiet.says = "nothing"
  OBVIOUS
<1>3. /\ Running(proc[p], Quiet) \in Proc
      /\ Running(proc[p], Quiet).at = "on"
      /\ Running(proc[p], Quiet).image = proc[p].image
      /\ Running(proc[p], Quiet).check \in {"none", "asked"}
      /\ Running(proc[p], Quiet).chip.says \notin {"staged", "applied"}
      /\ Running(proc[p], Quiet).check # "none" =>
           Running(proc[p], Quiet).chip.says = "checking"
  BY <1>1, <1>2, RunningType
<1>4. proc'[p] = Running(proc[p], Quiet)
  BY <1>1, Becomes
<1> QED
  BY <1>1, <1>3, <1>4
     DEF ProcOK, Holding, Swaps, SwapOK, ChipOK, CheckOK
----------------------------------------------------------------------------
\* What each action may use.
LEMMA Mine ==
  ASSUME UpdateIInv, NEW p \in Procs
  PROVE  /\ UpdateTypeOK /\ ProcOK(p) /\ proc[p] \in Proc
         /\ proc[p].at \in StartStages /\ proc[p].image \in 0..Newest
         /\ proc[p].pick \in 0..Newest /\ proc[p].chip \in Chip
         /\ proc[p].check \in CheckStages /\ proc[p].latest \in 0..Newest
         /\ Installed \in 0..Newest /\ Quiet \in Chip /\ Nobody # p
BY ProcFields, UpdatesAssumption DEF UpdateIInv, UpdateTypeOK, Installed

\* A step of the check that only changes what the terminal knows.
LEMMA KnowsMore ==
  ASSUME UpdateIInv, NEW p \in Procs, NEW r \in Proc,
         proc' = [proc EXCEPT ![p] = r],
         UNCHANGED <<place, exe, new, old, gens, feed, lock>>,
         proc[p].at = "on", r.at = "on", r.image = proc[p].image,
         r.check = "staging" <=> proc[p].check = "staging",
         r.chip.says \notin {"staged", "applied"} \/ r.chip = proc[p].chip,
         r.check # "none" => r.chip.says = "checking",
         r.check \in {"fetched", "download", "downloaded", "staging"} =>
           r.latest \in Versions,
         r.check \in {"download", "downloaded", "staging"} =>
           place # "package"
  PROVE  UpdateIInv'
<1> USE UpdatesAssumption
<1>1. proc'[p] = r /\ Installed' = Installed /\ ProcOK(p)
  BY Mine, Becomes DEF Installed
<1>2. (Holding(p) <=> lock = p)' /\ (proc[p].image <= Installed)'
  BY <1>1 DEF ProcOK, Holding, Swaps
<1>3. SwapOK(p)' /\ CheckOK(p)'
  BY <1>1 DEF SwapOK, CheckOK, Swaps
<1>4. ChipOK(p)'
  BY <1>1 DEF ProcOK, ChipOK
<1> QED
  BY <1>1, <1>2, <1>3, <1>4, FilesStay DEF ProcOK

LEMMA StartStep ==
  ASSUME UpdateIInv, NEW p \in Procs, Start(p)
  PROVE  UpdateIInv'
<1> USE UpdatesAssumption
<1> DEFINE r == Loaded("started", exe)
<1>1. r = [at |-> "started", image |-> exe, pick |-> 0, chip |-> Quiet,
           check |-> "none", latest |-> 0]
  BY DEF Loaded
<1>2. r \in Proc
  <2>1. exe \in 0..Newest /\ 0 \in 0..Newest /\ Quiet \in Chip
    BY Mine DEF UpdateTypeOK
  <2> HIDE DEF Chip, Quiet, r
  <2> QED
    BY <1>1, <2>1 DEF Proc, StartStages, CheckStages
<1>3. proc' = [proc EXCEPT ![p] = r]
  BY DEF Start
<1>4. proc'[p] = r /\ Installed' = Installed /\ Installed = exe
  BY <1>3, Mine, Becomes DEF Start, Files, Installed
<1>5. lock # p
  BY Mine DEF Start, ProcOK, CheckOK, Holding, Swaps
<1>6. /\ proc'[p].at = "started" /\ proc'[p].image = exe
      /\ proc'[p].check = "none" /\ proc'[p].chip = Quiet
  BY <1>1, <1>4
<1>7. exe # None /\ UNCHANGED <<place, exe, new, old, gens, feed, lock>>
  BY DEF Start, Files
<1> HIDE DEF r
<1>8. ProcOK(p)'
  BY <1>4, <1>5, <1>6, <1>7, Mine
     DEF ProcOK, Holding, Swaps, SwapOK, ChipOK, CheckOK, UpdateTypeOK
<1> QED
  BY <1>2, <1>3, <1>7, <1>8, FilesStay

LEMMA ApplyLaterStep ==
  ASSUME UpdateIInv, NEW p \in Procs, ApplyLater(p)
  PROVE  UpdateIInv'
<1>1. lock # p
  BY Mine DEF ApplyLater, ProcOK, CheckOK, Holding, Swaps
<1>2. ProcOK(p)' /\ Running(proc[p], Quiet) \in Proc
  BY <1>1, EntersSession DEF ApplyLater, Files, Installed
<1> QED
  BY <1>2, FilesStay DEF ApplyLater, Files

LEMMA CopyFailsStep ==
  ASSUME UpdateIInv, NEW p \in Procs, CopyFails(p)
  PROVE  UpdateIInv'
<1>1. lock = p
  BY Mine DEF CopyFails, ProcOK, Holding, Swaps
<1>2. ProcOK(p)' /\ Running(proc[p], Quiet) \in Proc
  BY <1>1, EntersSession DEF CopyFails, GiveUp, Files, Installed
<1> QED
  BY <1>1, <1>2, FilesStay DEF CopyFails, GiveUp, Files

LEMMA DieStep ==
  ASSUME UpdateIInv, NEW p \in Procs, Die(p)
  PROVE  UpdateIInv'
<1> USE UpdatesAssumption
<1>1. Off \in Proc
  BY DEF Off, Loaded, Proc
<1>2. proc'[p] = Off /\ Installed' = Installed
  BY Mine, Becomes DEF Die, Files, Installed
<1>3. ProcOK(p)'
  BY <1>2, Mine
     DEF Die, Off, Loaded, ProcOK, Holding, Swaps, SwapOK, ChipOK, CheckOK
<1> QED
  BY <1>1, <1>3, FilesStay DEF Die, Files

LEMMA CheckNowStep ==
  ASSUME UpdateIInv, NEW p \in Procs, CheckNow(p)
  PROVE  UpdateIInv'
<1> USE UpdatesAssumption
<1> DEFINE r == [proc[p] EXCEPT !.chip = Says("checking", None),
                                !.check = "asked"]
<1>1. Says("checking", None) \in Chip /\ Says("checking", None).says = "checking"
  BY DEF Says
<1>2. r \in Proc /\ r.at = proc[p].at /\ r.image = proc[p].image
      /\ r.check = "asked" /\ r.chip.says = "checking"
  BY <1>1, Mine DEF Proc
<1>3. proc' = [proc EXCEPT ![p] = r]
  BY DEF CheckNow
<1>4. proc[p].check # "staging"
  BY Mine DEF CheckNow, ProcOK, CheckOK
<1>5. proc[p].at = "on" /\ UNCHANGED <<place, exe, new, old, gens, feed, lock>>
  BY DEF CheckNow, Files
<1> HIDE DEF r
<1> QED
  BY <1>2, <1>3, <1>4, <1>5, KnowsMore

LEMMA FeedAnswersStep ==
  ASSUME UpdateIInv, NEW p \in Procs, FeedAnswers(p)
  PROVE  UpdateIInv'
<1> DEFINE r == [proc[p] EXCEPT !.check = "fetched", !.latest = feed]
<1>1. feed \in Versions /\ feed \in 0..Newest
  BY Mine DEF UpdateTypeOK
<1>2. r \in Proc /\ r.at = proc[p].at /\ r.image = proc[p].image
      /\ r.check = "fetched" /\ r.chip = proc[p].chip /\ r.latest = feed
  <2> HIDE DEF Chip, StartStages
  <2> QED
    BY <1>1, Mine DEF Proc
<1>3. proc' = [proc EXCEPT ![p] = r]
  BY DEF FeedAnswers
<1>4. /\ proc[p].at = "on" /\ proc[p].chip.says = "checking"
      /\ proc[p].check = "asked"
  BY Mine DEF FeedAnswers, ProcOK, CheckOK
<1>5. UNCHANGED <<place, exe, new, old, gens, feed, lock>>
  BY DEF FeedAnswers, Files
<1> HIDE DEF r
<1> QED
  BY <1>1, <1>2, <1>3, <1>4, <1>5, KnowsMore

LEMMA DownloadedStep ==
  ASSUME UpdateIInv, NEW p \in Procs, Downloaded(p)
  PROVE  UpdateIInv'
<1> DEFINE r == [proc[p] EXCEPT !.check = "downloaded"]
<1>1. r \in Proc /\ r.at = proc[p].at /\ r.image = proc[p].image
      /\ r.check = "downloaded" /\ r.chip = proc[p].chip
      /\ r.latest = proc[p].latest
  BY Mine DEF Proc
<1>2. proc' = [proc EXCEPT ![p] = r]
  BY DEF Downloaded
<1>3. /\ proc[p].at = "on" /\ proc[p].chip.says = "checking"
      /\ proc[p].latest \in Versions /\ place # "package"
      /\ proc[p].check = "download"
  BY Mine DEF Downloaded, ProcOK, CheckOK
<1>4. UNCHANGED <<place, exe, new, old, gens, feed, lock>>
  BY DEF Downloaded, Files
<1> HIDE DEF r
<1> QED
  BY <1>1, <1>2, <1>3, <1>4, KnowsMore

LEMMA LockToStageStep ==
  ASSUME UpdateIInv, NEW p \in Procs, LockToStage(p)
  PROVE  UpdateIInv'
<1> DEFINE r == [proc[p] EXCEPT !.check = "staging"]
<1>1. r \in Proc /\ r.at = proc[p].at /\ r.image = proc[p].image
      /\ r.check = "staging" /\ r.chip = proc[p].chip
      /\ r.latest = proc[p].latest
  BY Mine DEF Proc
<1>2. proc' = [proc EXCEPT ![p] = r]
  BY DEF LockToStage
<1>3. /\ proc[p].at = "on" /\ proc[p].chip.says = "checking"
      /\ proc[p].latest \in Versions /\ place # "package"
  BY Mine DEF LockToStage, ProcOK, CheckOK
<1> HIDE DEF r
<1>4. proc'[p] = r /\ Installed' = Installed /\ lock' = p
  BY <1>2, Mine, Becomes DEF LockToStage, Files, Installed
<1>5. ProcOK(p)'
  BY <1>1, <1>3, <1>4, Mine
     DEF LockToStage, ProcOK, Holding, Swaps, SwapOK, ChipOK, CheckOK
<1> QED
  BY <1>1, <1>2, <1>5, FilesStay DEF LockToStage, Files

\* What a check that ends leaves of the terminal.
LEMMA ToldFields ==
  ASSUME UpdateIInv, NEW p \in Procs, NEW chip \in Chip, Told(p, chip)
  PROVE  /\ proc'[p] \in Proc /\ proc' = [proc EXCEPT ![p] = proc'[p]]
         /\ proc'[p].at = proc[p].at /\ proc'[p].image = proc[p].image
         /\ proc'[p].check = "none" /\ proc'[p].chip = chip
         /\ proc'[p].pick = proc[p].pick
<1> DEFINE r == [proc[p] EXCEPT !.chip = chip, !.check = "none",
                                !.latest = None]
<1> HIDE DEF Chip, StartStages
<1>1. r \in Proc /\ r.at = proc[p].at /\ r.image = proc[p].image
      /\ r.check = "none" /\ r.chip = chip /\ r.pick = proc[p].pick
  <2>1. 0 \in 0..Newest
    BY UpdatesAssumption
  <2>2. proc[p] \in Proc
    BY Mine
  <2> QED
    BY <2>1, <2>2 DEF Proc
<1>2. proc' = [proc EXCEPT ![p] = r]
  BY DEF Told
<1>3. proc'[p] = r
  BY <1>2, Mine, Becomes
<1> HIDE DEF r
<1> QED
  BY <1>1, <1>2, <1>3

LEMMA CheckFailsStep ==
  ASSUME UpdateIInv, NEW p \in Procs, CheckFails(p)
  PROVE  UpdateIInv'
<1>1. /\ proc'[p] \in Proc /\ proc' = [proc EXCEPT ![p] = proc'[p]]
      /\ proc'[p].at = "on" /\ proc'[p].image = proc[p].image
      /\ proc'[p].check = "none" /\ proc'[p].chip.says = "nothing"
  BY ToldFields, Mine DEF CheckFails, ProcOK, CheckOK
<1>2. Installed' = Installed /\ lock' # p
  BY Mine DEF CheckFails, Files, Installed
<1>3. ProcOK(p)'
  BY <1>1, <1>2, Mine DEF ProcOK, Holding, Swaps, SwapOK, ChipOK, CheckOK
<1> QED
  BY <1>1, <1>3, FilesStay DEF CheckFails, Files

LEMMA AvailableStep ==
  ASSUME UpdateIInv, NEW p \in Procs, Available(p)
  PROVE  UpdateIInv'
<1> DEFINE chip == Says("elsewhere", proc[p].latest)
<1>1. chip \in Chip /\ chip.says = "elsewhere"
  BY Mine DEF Says
<1> HIDE DEF chip
<1>2. Told(p, chip)
  BY DEF Available, chip
<1>3. /\ proc'[p] \in Proc /\ proc' = [proc EXCEPT ![p] = proc'[p]]
      /\ proc'[p].at = "on" /\ proc'[p].image = proc[p].image
      /\ proc'[p].check = "none" /\ proc'[p].chip = chip
  BY <1>1, <1>2, ToldFields, Mine DEF Available, ProcOK, CheckOK
<1>4. proc[p].at = "on" /\ proc[p].check = "fetched"
  BY Mine DEF Available, ProcOK, CheckOK
<1>5. UNCHANGED <<place, exe, new, old, gens, feed, lock>>
  BY DEF Available, Files
<1> QED
  BY <1>1, <1>3, <1>4, <1>5, KnowsMore
----------------------------------------------------------------------------
\* Pruning keeps what is newer than an image nothing newer than which is
\* installed.
LEMMA PruneKeeps ==
  ASSUME UpdateIInv, NEW p \in Procs
  PROVE  /\ Pruned(proc[p].image) \in [Versions -> Nat]
         /\ \A v \in Versions : Pruned(proc[p].image)[v] <= gens[v]
         /\ \A v \in Versions : gens[v] > 0 =>
              Pruned(proc[p].image)[v] > 0 \/ v <= Installed
         /\ \A v \in Versions :
              v > proc[p].image => Pruned(proc[p].image)[v] = gens[v]
<1>1. /\ gens \in [Versions -> Nat] /\ proc[p].image \in 0..Newest
      /\ Installed \in 0..Newest /\ proc[p].image <= Installed
  BY Mine DEF UpdateTypeOK, ProcOK
<1> QED
  BY <1>1, UpdatesAssumption DEF Pruned

\* A step that changes generations, and no other file but perhaps <exe>.old
\* and <exe>.new while the executable is there.
LEMMA StageMoves ==
  ASSUME UpdateIInv, NEW p \in Procs, NEW r \in Proc,
         proc' = [proc EXCEPT ![p] = r],
         UNCHANGED <<place, exe, feed>>,
         UNCHANGED old \/ (exe # None /\ old' \in 0..Newest),
         new' \in {Partial, None} \cup Versions,
         lock \in {p, Nobody}, lock' \in {p, Nobody},
         gens' \in [Versions -> Nat],
         \A v \in Versions : gens'[v] <= 1,
         place \in {"over", "aside"} =>
           \A v \in Versions : gens[v] > 0 => gens'[v] > 0 \/ v <= Installed,
         ProcOK(p)'
  PROVE  UpdateIInv'
<1> USE UpdatesAssumption
<1>1. UpdateTypeOK'
  BY DEF UpdateIInv, UpdateTypeOK
<1>2. Installed' = Installed /\ Installed \in 0..Newest
  BY DEF Installed, UpdateIInv, UpdateTypeOK
<1>3. AlwaysAnExecutable'
  BY DEF UpdateIInv, AlwaysAnExecutable, UpdateTypeOK
<1>4. StagedOnce'
  BY DEF StagedOnce
<1>5. \A q \in Procs \ {p} : proc'[q] = proc[q]
  BY DEF UpdateIInv, UpdateTypeOK
<1> QED
  BY <1>1, <1>2, <1>3, <1>4, <1>5, OneMoves

\* How many times each version is staged, before and after pruning.
LEMMA Once ==
  ASSUME UpdateIInv, NEW p \in Procs
  PROVE  /\ gens \in [Versions -> Nat]
         /\ \A v \in Versions : gens[v] <= 1
         /\ \A v \in Versions : Pruned(proc[p].image)[v] <= 1
         /\ Pruned(proc[p].image) \in [Versions -> Nat]
BY PruneKeeps, UpdatesAssumption DEF UpdateIInv, UpdateTypeOK, StagedOnce

\* One version fewer staged.
LEMMA OneLess ==
  ASSUME NEW G \in [Versions -> Nat], NEW v \in Versions, G[v] > 0,
         \A w \in Versions : G[w] <= 1
  PROVE  /\ [G EXCEPT ![v] = @ - 1] \in [Versions -> Nat]
         /\ \A w \in Versions : [G EXCEPT ![v] = @ - 1][w] <= 1
         /\ \A w \in Versions \ {v} : [G EXCEPT ![v] = @ - 1][w] = G[w]
BY UpdatesAssumption

\* The lock is free, or its holder's, when nobody else may hold it.
LEMMA NotHolding ==
  ASSUME UpdateIInv, NEW p \in Procs, proc[p].at = "started" \/ proc[p].at = "on",
         proc[p].check # "staging"
  PROVE  lock # p
BY Mine DEF ProcOK, Holding, Swaps

LEMMA NothingPendingStep ==
  ASSUME UpdateIInv, NEW p \in Procs, NothingPending(p)
  PROVE  UpdateIInv'
<1>1. /\ proc[p].at = "started" /\ lock = Nobody /\ exe # None
      /\ UNCHANGED <<place, exe, new, feed, lock>> /\ gens' = Pruned(proc[p].image)
      /\ old' \in 0..Newest
  BY Mine, UpdatesAssumption
     DEF NothingPending, ProcOK, SwapOK, UpdateTypeOK
<1>2. lock' = (IF lock = p THEN Nobody ELSE lock) /\ Installed' = Installed
  BY <1>1, Mine DEF Installed
<1>3. proc' = [proc EXCEPT ![p] = Running(@, Quiet)]
  BY DEF NothingPending
<1>4. ProcOK(p)' /\ Running(proc[p], Quiet) \in Proc
  BY <1>1, <1>2, <1>3, EntersSession
<1>5. new' \in {Partial, None} \cup Versions
  BY <1>1, Mine DEF UpdateTypeOK
<1> QED
  BY <1>1, <1>3, <1>4, <1>5, Once, PruneKeeps, StageMoves

LEMMA RefusedStep ==
  ASSUME UpdateIInv, NEW p \in Procs, Refused(p)
  PROVE  UpdateIInv'
<1> DEFINE G == Pruned(proc[p].image)
<1>1. PICK v \in Versions :
        /\ G[v] > 0
        /\ gens' = IF place = "readonly" THEN G ELSE [G EXCEPT ![v] = @ - 1]
  BY DEF Refused, NewestPending, Staged
<1>2. /\ proc[p].at = "started" /\ lock = Nobody
      /\ place \in {"package", "readonly"}
      /\ UNCHANGED <<place, exe, new, old, feed, lock>>
      /\ proc' = [proc EXCEPT ![p] = Running(@, Quiet)]
  BY DEF Refused, Files
<1>3. lock' = (IF lock = p THEN Nobody ELSE lock) /\ Installed' = Installed
  BY <1>2, Mine DEF Installed
<1>4. ProcOK(p)' /\ Running(proc[p], Quiet) \in Proc
  BY <1>2, <1>3, EntersSession
<1>5. G \in [Versions -> Nat] /\ \A w \in Versions : G[w] <= 1
  BY Once
<1>6. gens' \in [Versions -> Nat] /\ \A w \in Versions : gens'[w] <= 1
  <2> HIDE DEF G
  <2> QED
    BY <1>1, <1>5, OneLess
<1>7. new' \in {Partial, None} \cup Versions
  BY <1>2, Mine DEF UpdateTypeOK
<1> QED
  BY <1>2, <1>4, <1>6, <1>7, StageMoves

LEMMA UpToDateStep ==
  ASSUME UpdateIInv, NEW p \in Procs, UpToDate(p)
  PROVE  UpdateIInv'
<1>1. /\ lock = Nobody /\ proc[p].check = "fetched" /\ Told(p, Quiet)
      /\ UNCHANGED <<place, exe, new, old, feed, lock>>
      /\ gens' = Pruned(proc[p].image)
  BY DEF UpToDate, Files
<1>2. /\ proc'[p] \in Proc /\ proc' = [proc EXCEPT ![p] = proc'[p]]
      /\ proc'[p].at = "on" /\ proc'[p].image = proc[p].image
      /\ proc'[p].check = "none" /\ proc'[p].chip.says = "nothing"
  BY <1>1, ToldFields, Mine DEF ProcOK, CheckOK
<1>3. Installed' = Installed /\ lock' # p
  BY <1>1, Mine DEF Installed
<1>4. ProcOK(p)'
  BY <1>2, <1>3, Mine DEF ProcOK, Holding, Swaps, SwapOK, ChipOK, CheckOK
<1>5. new' \in {Partial, None} \cup Versions
  BY <1>1, Mine DEF UpdateTypeOK
<1> QED
  BY <1>1, <1>2, <1>4, <1>5, Once, PruneKeeps, StageMoves

\* A check that ends with the version staged.
LEMMA EndsStaged ==
  ASSUME UpdateIInv, NEW p \in Procs, Told(p, StagedOutcome(proc[p].latest)),
         proc[p].at = "on", proc[p].latest \in Versions, place # "package",
         UNCHANGED <<place, exe, new, old, feed>>,
         lock \in {p, Nobody}, lock' = Nobody,
         gens' \in [Versions -> Nat],
         \A v \in Versions : gens'[v] <= 1,
         \A v \in Versions : gens[v] > 0 => gens'[v] > 0 \/ v <= Installed,
         gens'[proc[p].latest] > 0
  PROVE  UpdateIInv'
<1> DEFINE chip == StagedOutcome(proc[p].latest)
<1>1. /\ chip \in Chip /\ chip.version = proc[p].latest
      /\ chip.says = IF place = "readonly" THEN "elsewhere" ELSE "staged"
  BY Mine DEF StagedOutcome, Says
<1>2. place \in Places
  BY Mine DEF UpdateTypeOK
<1> HIDE DEF chip
<1>3. Told(p, chip)
  BY DEF chip
<1>4. /\ proc'[p] \in Proc /\ proc' = [proc EXCEPT ![p] = proc'[p]]
      /\ proc'[p].at = "on" /\ proc'[p].image = proc[p].image
      /\ proc'[p].check = "none" /\ proc'[p].chip = chip
  BY <1>1, <1>3, ToldFields
<1>5. Installed' = Installed /\ lock' # p
  BY Mine DEF Installed
<1>6. ProcOK(p)'
  BY <1>1, <1>2, <1>4, <1>5, Mine
     DEF ProcOK, Holding, Swaps, SwapOK, ChipOK, CheckOK
<1>7. new' \in {Partial, None} \cup Versions
  BY Mine DEF UpdateTypeOK
<1> QED
  BY <1>4, <1>6, <1>7, StageMoves

LEMMA AlreadyStagedStep ==
  ASSUME UpdateIInv, NEW p \in Procs, AlreadyStaged(p)
  PROVE  UpdateIInv'
<1>1. /\ proc[p].check = "fetched" /\ lock = Nobody /\ place # "package"
      /\ proc[p].latest > proc[p].image
      /\ UNCHANGED <<place, exe, new, old, feed, lock>>
      /\ gens' = Pruned(proc[p].image)
  BY DEF AlreadyStaged, Files
<1>2. /\ proc[p].at = "on" /\ proc[p].latest \in Versions
      /\ proc[p].chip.says = "checking"
  BY <1>1, Mine DEF ProcOK, CheckOK
<1>3. CASE gens[proc[p].latest] > 0
  <2>1. gens'[proc[p].latest] > 0
    BY <1>1, <1>2, <1>3, PruneKeeps
  <2>2. Told(p, StagedOutcome(proc[p].latest))
    BY <1>3 DEF AlreadyStaged
  <2> QED
    BY <1>1, <1>2, <2>1, <2>2, Once, PruneKeeps, EndsStaged
<1>4. CASE ~(gens[proc[p].latest] > 0)
  <2> DEFINE r == [proc[p] EXCEPT !.check = "download"]
  <2>1. r \in Proc /\ r.at = proc[p].at /\ r.image = proc[p].image
        /\ r.check = "download" /\ r.chip = proc[p].chip
        /\ r.latest = proc[p].latest
    BY Mine DEF Proc
  <2>2. proc' = [proc EXCEPT ![p] = r]
    BY <1>4 DEF AlreadyStaged
  <2> HIDE DEF r
  <2>3. proc'[p] = r /\ Installed' = Installed /\ lock' # p
    BY <1>1, <2>2, Mine, Becomes DEF Installed
  <2>4. ProcOK(p)'
    BY <1>1, <1>2, <2>1, <2>3, Mine
       DEF ProcOK, Holding, Swaps, SwapOK, ChipOK, CheckOK
  <2>5. new' \in {Partial, None} \cup Versions
    BY <1>1, Mine DEF UpdateTypeOK
  <2> QED
    BY <1>1, <2>1, <2>2, <2>4, <2>5, Once, PruneKeeps, StageMoves
<1> QED
  BY <1>3, <1>4

LEMMA StageStep ==
  ASSUME UpdateIInv, NEW p \in Procs, Stage(p)
  PROVE  UpdateIInv'
<1> DEFINE G == Pruned(proc[p].image)
           v == proc[p].latest
<1>1. /\ proc[p].check = "staging" /\ lock' = Nobody
      /\ UNCHANGED <<place, exe, new, old, feed>>
      /\ gens' = IF G[v] > 0 THEN G ELSE [G EXCEPT ![v] = @ + 1]
      /\ Told(p, StagedOutcome(v))
  BY DEF Stage, Files
<1>2. /\ proc[p].at = "on" /\ v \in Versions /\ place # "package" /\ lock = p
  BY <1>1, Mine DEF ProcOK, CheckOK, Holding
<1>3. /\ G \in [Versions -> Nat] /\ \A w \in Versions : G[w] <= 1
      /\ \A w \in Versions : gens[w] > 0 => G[w] > 0 \/ w <= Installed
  BY Once, PruneKeeps
<1> HIDE DEF G
<1>4. /\ gens' \in [Versions -> Nat] /\ \A w \in Versions : gens'[w] <= 1
      /\ \A w \in Versions : gens[w] > 0 => gens'[w] > 0 \/ w <= Installed
      /\ gens'[v] > 0
  <2>1. CASE G[v] > 0
    BY <1>1, <1>2, <1>3, <2>1
  <2>2. CASE ~(G[v] > 0)
    <3>1. gens' = [G EXCEPT ![v] = G[v] + 1] /\ G[v] = 0
      BY <1>1, <1>2, <1>3, <2>2
    <3> QED
      BY <1>2, <1>3, <3>1
  <2> QED
    BY <2>1, <2>2
<1> QED
  BY <1>1, <1>2, <1>4, EndsStaged
----------------------------------------------------------------------------
(* The swap *)

\* A terminal that goes from one stage of its swap to another.
LEMMA Advances ==
  ASSUME UpdateIInv, NEW p \in Procs, NEW stage \in StartStages, At(p, stage)
  PROVE  /\ proc'[p] \in Proc /\ proc' = [proc EXCEPT ![p] = proc'[p]]
         /\ proc'[p].at = stage /\ proc'[p].image = proc[p].image
         /\ proc'[p].pick = proc[p].pick /\ proc'[p].chip = proc[p].chip
         /\ proc'[p].check = proc[p].check
<1> DEFINE r == [proc[p] EXCEPT !.at = stage]
<1>1. r \in Proc /\ r.at = stage /\ r.image = proc[p].image
      /\ r.pick = proc[p].pick /\ r.chip = proc[p].chip
      /\ r.check = proc[p].check
  <2> HIDE DEF StartStages, Chip, CheckStages
  <2> QED
    BY Mine DEF Proc
<1>2. proc' = [proc EXCEPT ![p] = r]
  BY DEF At
<1>3. proc'[p] = r
  BY <1>2, Mine, Becomes
<1> HIDE DEF r
<1> QED
  BY <1>1, <1>2, <1>3

\* What a terminal that swaps counts on.
LEMMA Swapping ==
  ASSUME UpdateIInv, NEW p \in Procs, proc[p].at \in Swaps
  PROVE  /\ lock = p /\ proc[p].check = "none" /\ proc[p].chip = Quiet
         /\ proc[p].pick \in Versions /\ gens[proc[p].pick] > 0
         /\ proc[p].image <= Installed /\ SwapOK(p)
BY Mine DEF ProcOK, Holding, SwapOK, CheckOK, Swaps

LEMMA PickNewestStep ==
  ASSUME UpdateIInv, NEW p \in Procs, PickNewest(p)
  PROVE  UpdateIInv'
<1> DEFINE G == Pruned(proc[p].image)
<1>1. PICK v \in Versions :
        /\ G[v] > 0 /\ gens' = G
        /\ proc' = [proc EXCEPT ![p] = [@ EXCEPT !.at = "copying", !.pick = v]]
  BY DEF PickNewest, NewestPending, Staged
<1>2. /\ proc[p].at = "started" /\ lock = Nobody /\ lock' = p /\ new' = None
      /\ UNCHANGED <<place, exe, old, feed>>
  BY DEF PickNewest
<1> DEFINE r == [proc[p] EXCEPT !.at = "copying", !.pick = v]
<1>3. r \in Proc /\ r.at = "copying" /\ r.image = proc[p].image
      /\ r.pick = v /\ r.chip = proc[p].chip /\ r.check = proc[p].check
  <2>1. v \in 0..Newest
    OBVIOUS
  <2> HIDE DEF Chip, CheckStages
  <2> QED
    BY <2>1, Mine DEF Proc
<1>4. proc' = [proc EXCEPT ![p] = r]
  BY <1>1
<1> HIDE DEF r
<1>5. proc'[p] = r /\ Installed' = Installed
  BY <1>2, <1>4, Mine, Becomes DEF Installed
<1>6. v > proc[p].image
  BY <1>1, Mine DEF Pruned
<1>7. exe = proc[p].image /\ exe # None /\ exe \in 0..Newest
  BY <1>2, Mine DEF ProcOK, SwapOK, UpdateTypeOK
<1>8. ProcOK(p)'
  <2>1. proc[p].check = "none" /\ proc[p].chip = Quiet
    BY <1>2, Mine DEF ProcOK, CheckOK
  <2> HIDE DEF G
  <2> QED
    BY <1>1, <1>2, <1>3, <1>5, <1>6, <1>7, <2>1, Mine
       DEF ProcOK, Holding, Swaps, SwapOK, ChipOK, CheckOK
<1> QED
  BY <1>1, <1>2, <1>3, <1>4, <1>8, Once, PruneKeeps, StageMoves

LEMMA CopyBeginsStep ==
  ASSUME UpdateIInv, NEW p \in Procs, CopyBegins(p)
  PROVE  UpdateIInv'
<1>1. /\ proc[p].at = "copying" /\ new' = Partial
      /\ UNCHANGED <<place, exe, old, gens, feed, lock, proc>>
  BY DEF CopyBegins
<1>2. Installed' = Installed /\ lock = p /\ ProcOK(p)
  BY <1>1, Mine, Swapping DEF Installed, Swaps
<1>3. ProcOK(p)'
  BY <1>1, <1>2 DEF ProcOK, Holding, SwapOK, ChipOK, CheckOK
<1>4. proc[p] \in Proc /\ proc' = [proc EXCEPT ![p] = proc[p]]
  BY <1>1, Mine DEF UpdateTypeOK
<1> QED
  BY <1>1, <1>2, <1>3, <1>4, Once, StageMoves

LEMMA CopyEndsStep ==
  ASSUME UpdateIInv, NEW p \in Procs, CopyEnds(p)
  PROVE  UpdateIInv'
<1>1. /\ proc[p].at = "copying" /\ new' = proc[p].pick /\ At(p, "copied")
      /\ UNCHANGED <<place, exe, old, gens, feed, lock>>
  BY DEF CopyEnds
<1>2. /\ proc'[p] \in Proc /\ proc' = [proc EXCEPT ![p] = proc'[p]]
      /\ proc'[p].at = "copied" /\ proc'[p].image = proc[p].image
      /\ proc'[p].pick = proc[p].pick /\ proc'[p].chip = proc[p].chip
      /\ proc'[p].check = proc[p].check
  BY <1>1, Advances
<1>3. /\ lock = p /\ proc[p].check = "none" /\ proc[p].chip = Quiet
      /\ proc[p].pick \in Versions /\ gens[proc[p].pick] > 0
      /\ proc[p].image <= Installed /\ SwapOK(p)
  BY <1>1, Swapping DEF Swaps
<1>4. Installed' = Installed
  BY <1>1 DEF Installed
<1>5. ProcOK(p)'
  BY <1>1, <1>2, <1>3, <1>4
     DEF ProcOK, Holding, Swaps, SwapOK, ChipOK, CheckOK
<1> QED
  BY <1>1, <1>2, <1>3, <1>5, Once, StageMoves

LEMMA RenameFailsStep ==
  ASSUME UpdateIInv, NEW p \in Procs, RenameFails(p)
  PROVE  UpdateIInv'
<1>1. /\ proc[p].at = "copied" /\ new' = None /\ lock' = Nobody
      /\ UNCHANGED <<place, exe, gens, feed>>
      /\ proc' = [proc EXCEPT ![p] = Running(@, Quiet)]
      /\ old' = IF place = "aside" THEN None ELSE old
  BY DEF RenameFails, GiveUp
<1>2. lock = p /\ exe # None /\ old \in 0..Newest
  BY <1>1, Swapping, Mine DEF Swaps, SwapOK, UpdateTypeOK
<1>3. Installed' = Installed
  BY <1>1, <1>2 DEF Installed
<1>4. ProcOK(p)' /\ Running(proc[p], Quiet) \in Proc
  BY <1>1, <1>2, <1>3, EntersSession
<1>5. old' \in 0..Newest
  BY <1>1, <1>2, UpdatesAssumption
<1> QED
  BY <1>1, <1>2, <1>4, <1>5, Once, StageMoves

LEMMA AppliedStep ==
  ASSUME UpdateIInv, NEW p \in Procs, Applied(p)
  PROVE  UpdateIInv'
<1> DEFINE v == proc[p].pick
           chip == Says("applied", v)
<1>1. /\ proc[p].at = "swapped" /\ lock' = Nobody
      /\ UNCHANGED <<place, exe, new, old, feed>>
      /\ gens' \in {gens, [gens EXCEPT ![v] = @ - 1]}
      /\ proc' = [proc EXCEPT ![p] = Running(@, chip)]
  BY DEF Applied, Files
<1>2. /\ lock = p /\ v \in Versions /\ gens[v] > 0 /\ exe = v
      /\ proc[p].image <= Installed
  BY <1>1, Swapping DEF Swaps, SwapOK
<1>3. chip \in Chip /\ chip.says = "applied" /\ chip.version = v
  BY <1>2 DEF Says
<1>4. Installed' = Installed /\ Installed = v
  BY <1>1, <1>2, UpdatesAssumption DEF Installed
<1> DEFINE r == Running(proc[p], chip)
<1>5. /\ r \in Proc /\ r.at = "on" /\ r.image = proc[p].image
      /\ r.check = "none" /\ r.chip = chip
  <2> HIDE DEF chip
  <2>1. proc[p] \in Proc
    BY Mine
  <2> QED
    BY <1>3, <2>1, RunningType
<1> HIDE DEF r, chip
<1>6. proc' = [proc EXCEPT ![p] = r]
  BY <1>1 DEF r
<1>7. proc'[p] = r
  BY <1>6, Mine, Becomes
<1>8. ProcOK(p)'
  BY <1>1, <1>2, <1>3, <1>4, <1>5, <1>7, Mine
     DEF ProcOK, Holding, Swaps, SwapOK, ChipOK, CheckOK
<1>9. /\ gens' \in [Versions -> Nat]
      /\ \A w \in Versions : gens'[w] <= 1
      /\ \A w \in Versions : gens[w] > 0 => gens'[w] > 0 \/ w <= Installed
  <2>1. CASE gens' = gens
    BY <2>1, Once
  <2>2. CASE gens' = [gens EXCEPT ![v] = @ - 1]
    <3>1. /\ gens' \in [Versions -> Nat] /\ \A w \in Versions : gens'[w] <= 1
          /\ \A w \in Versions \ {v} : gens'[w] = gens[w]
      BY <1>2, <2>2, Once, OneLess
    <3> QED
      BY <1>2, <1>4, <3>1
  <2> QED
    BY <1>1, <2>1, <2>2
<1>10. new' \in {Partial, None} \cup Versions
  BY <1>1, Mine DEF UpdateTypeOK
<1> QED
  BY <1>1, <1>2, <1>5, <1>6, <1>8, <1>9, <1>10, StageMoves

\* A step of the swap that changes the files beside the executable, or it.
LEMMA SwapMoves ==
  ASSUME UpdateIInv, NEW p \in Procs, NEW r \in Proc, proc[p].at \in Swaps,
         proc' = [proc EXCEPT ![p] = r],
         UNCHANGED <<place, gens, feed>>,
         exe' \in 0..Newest, old' \in 0..Newest,
         new' \in {Partial, None} \cup Versions,
         AlwaysAnExecutable', Installed <= Installed',
         lock' \in {p, Nobody}, NobodyStarts \/ exe' = exe,
         ProcOK(p)'
  PROVE  UpdateIInv'
<1> USE UpdatesAssumption
<1>1. UpdateTypeOK'
  BY DEF UpdateIInv, UpdateTypeOK
<1>2. StagedOnce'
  BY DEF UpdateIInv, StagedOnce
<1>3. \A q \in Procs \ {p} : proc'[q] = proc[q]
  BY DEF UpdateIInv, UpdateTypeOK
<1>4. lock = p
  BY Swapping
<1> QED
  BY <1>1, <1>2, <1>3, <1>4, OneMoves

LEMMA RenameOverStep ==
  ASSUME UpdateIInv, NEW p \in Procs, RenameOver(p)
  PROVE  UpdateIInv'
<1>1. /\ proc[p].at = "copied" /\ place = "over" /\ NobodyStarts
      /\ exe' = new /\ new' = None /\ At(p, "swapped")
      /\ UNCHANGED <<place, old, gens, feed, lock>>
  BY DEF RenameOver
<1>2. /\ proc'[p] \in Proc /\ proc' = [proc EXCEPT ![p] = proc'[p]]
      /\ proc'[p].at = "swapped" /\ proc'[p].image = proc[p].image
      /\ proc'[p].pick = proc[p].pick /\ proc'[p].chip = proc[p].chip
      /\ proc'[p].check = proc[p].check
  BY <1>1, Advances
<1>3. /\ lock = p /\ proc[p].check = "none" /\ proc[p].chip = Quiet
      /\ proc[p].pick \in Versions /\ gens[proc[p].pick] > 0
      /\ proc[p].image <= Installed /\ SwapOK(p)
  BY <1>1, Swapping DEF Swaps
<1>4. new = proc[p].pick /\ exe < proc[p].pick /\ exe # None /\ exe \in 0..Newest
  BY <1>1, <1>3, Mine DEF SwapOK, UpdateTypeOK
<1>5. Installed = exe /\ Installed' = proc[p].pick
  BY <1>1, <1>3, <1>4, UpdatesAssumption DEF Installed
<1>6. ProcOK(p)'
  BY <1>1, <1>2, <1>3, <1>4, <1>5, Mine
     DEF ProcOK, Holding, Swaps, SwapOK, ChipOK, CheckOK
<1>7. AlwaysAnExecutable' /\ exe' \in 0..Newest
      /\ new' \in {Partial, None} \cup Versions /\ old' \in 0..Newest
  BY <1>1, <1>3, <1>4, Mine DEF AlwaysAnExecutable, UpdateTypeOK
<1>8. proc[p].at \in Swaps /\ Installed <= Installed' /\ lock' \in {p, Nobody}
  BY <1>1, <1>3, <1>4, <1>5 DEF Swaps
<1> QED
  BY <1>1, <1>2, <1>6, <1>7, <1>8, SwapMoves

LEMMA RenameAsideStep ==
  ASSUME UpdateIInv, NEW p \in Procs, RenameAside(p)
  PROVE  UpdateIInv'
<1>1. /\ proc[p].at = "copied" /\ place = "aside" /\ NobodyStarts
      /\ old' = exe /\ exe' = None /\ At(p, "aside")
      /\ UNCHANGED <<place, new, gens, feed, lock>>
  BY DEF RenameAside
<1>2. /\ proc'[p] \in Proc /\ proc' = [proc EXCEPT ![p] = proc'[p]]
      /\ proc'[p].at = "aside" /\ proc'[p].image = proc[p].image
      /\ proc'[p].pick = proc[p].pick /\ proc'[p].chip = proc[p].chip
      /\ proc'[p].check = proc[p].check
  BY <1>1, Advances
<1>3. /\ lock = p /\ proc[p].check = "none" /\ proc[p].chip = Quiet
      /\ proc[p].pick \in Versions /\ gens[proc[p].pick] > 0
      /\ proc[p].image <= Installed /\ SwapOK(p)
  BY <1>1, Swapping DEF Swaps
<1>4. new = proc[p].pick /\ exe < proc[p].pick /\ exe # None /\ exe \in 0..Newest
  BY <1>1, <1>3, Mine DEF SwapOK, UpdateTypeOK
<1>5. Installed = exe /\ Installed' = exe
  BY <1>1, <1>4 DEF Installed
<1>6. ProcOK(p)'
  BY <1>1, <1>2, <1>3, <1>4, <1>5, Mine
     DEF ProcOK, Holding, Swaps, SwapOK, ChipOK, CheckOK
<1>7. AlwaysAnExecutable' /\ exe' \in 0..Newest
      /\ new' \in {Partial, None} \cup Versions /\ old' \in 0..Newest
  BY <1>1, <1>3, <1>4, UpdatesAssumption DEF AlwaysAnExecutable
<1>8. proc[p].at \in Swaps /\ Installed <= Installed' /\ lock' \in {p, Nobody}
  BY <1>1, <1>3, <1>4, <1>5 DEF Swaps
<1> QED
  BY <1>1, <1>2, <1>6, <1>7, <1>8, SwapMoves

LEMMA RenameInStep ==
  ASSUME UpdateIInv, NEW p \in Procs, RenameIn(p)
  PROVE  UpdateIInv'
<1>1. /\ proc[p].at = "aside" /\ NobodyStarts
      /\ exe' = new /\ new' = None /\ old' \in {None, old} /\ At(p, "swapped")
      /\ UNCHANGED <<place, gens, feed, lock>>
  BY DEF RenameIn
<1>2. /\ proc'[p] \in Proc /\ proc' = [proc EXCEPT ![p] = proc'[p]]
      /\ proc'[p].at = "swapped" /\ proc'[p].image = proc[p].image
      /\ proc'[p].pick = proc[p].pick /\ proc'[p].chip = proc[p].chip
      /\ proc'[p].check = proc[p].check
  BY <1>1, Advances
<1>3. /\ lock = p /\ proc[p].check = "none" /\ proc[p].chip = Quiet
      /\ proc[p].pick \in Versions /\ gens[proc[p].pick] > 0
      /\ proc[p].image <= Installed /\ SwapOK(p)
  BY <1>1, Swapping DEF Swaps
<1>4. new = proc[p].pick /\ old < proc[p].pick /\ exe = None /\ old \in Versions
  BY <1>1, <1>3 DEF SwapOK
<1>5. Installed = old /\ Installed' = proc[p].pick
  BY <1>1, <1>3, <1>4, UpdatesAssumption DEF Installed
<1>6. ProcOK(p)'
  BY <1>1, <1>2, <1>3, <1>4, <1>5, Mine
     DEF ProcOK, Holding, Swaps, SwapOK, ChipOK, CheckOK
<1>7. AlwaysAnExecutable' /\ exe' \in 0..Newest
      /\ new' \in {Partial, None} \cup Versions /\ old' \in 0..Newest
  BY <1>1, <1>3, <1>4, UpdatesAssumption DEF AlwaysAnExecutable
<1>8. proc[p].at \in Swaps /\ Installed <= Installed' /\ lock' \in {p, Nobody}
  BY <1>1, <1>3, <1>4, <1>5 DEF Swaps
<1> QED
  BY <1>1, <1>2, <1>6, <1>7, <1>8, SwapMoves

LEMMA RenameInFailsStep ==
  ASSUME UpdateIInv, NEW p \in Procs, RenameInFails(p)
  PROVE  UpdateIInv'
<1>1. /\ proc[p].at = "aside" /\ NobodyStarts
      /\ (exe' = old /\ old' = None) \/ UNCHANGED <<exe, old>>
      /\ new' = None /\ lock' = Nobody
      /\ proc' = [proc EXCEPT ![p] = Running(@, Quiet)]
      /\ UNCHANGED <<place, gens, feed>>
  BY DEF RenameInFails, GiveUp
<1>2. /\ lock = p /\ exe = None /\ old \in Versions /\ place = "aside"
  BY <1>1, Swapping DEF Swaps, SwapOK
<1>3. Installed' = Installed
  BY <1>1, <1>2, UpdatesAssumption DEF Installed
<1>4. ProcOK(p)' /\ Running(proc[p], Quiet) \in Proc
  BY <1>1, <1>2, <1>3, EntersSession
<1>5. AlwaysAnExecutable' /\ exe' \in 0..Newest
      /\ new' \in {Partial, None} \cup Versions /\ old' \in 0..Newest
  BY <1>1, <1>2, UpdatesAssumption DEF AlwaysAnExecutable
<1>6. proc[p].at \in Swaps /\ Installed <= Installed' /\ lock' \in {p, Nobody}
  BY <1>1, <1>3, Mine DEF Swaps
<1> QED
  BY <1>1, <1>4, <1>5, <1>6, SwapMoves

LEMMA ReleaseStep ==
  ASSUME UpdateIInv, Release
  PROVE  UpdateIInv'
<1>1. /\ feed' \in Versions
      /\ UNCHANGED <<place, exe, new, old, gens, lock, proc>>
  BY UpdatesAssumption DEF Release, Files, UpdateIInv, UpdateTypeOK
<1>2. UpdateTypeOK'
  BY <1>1 DEF UpdateIInv, UpdateTypeOK
<1> QED
  BY <1>1, <1>2
     DEF UpdateIInv, AlwaysAnExecutable, StagedOnce, ProcOK, Holding, SwapOK,
         ChipOK, CheckOK, Installed

LEMMA StutterStep ==
  ASSUME UpdateIInv, UNCHANGED updateVars
  PROVE  UpdateIInv'
BY DEF updateVars, UpdateIInv, UpdateTypeOK, AlwaysAnExecutable, StagedOnce, ProcOK,
       Holding, SwapOK, ChipOK, CheckOK, Installed
----------------------------------------------------------------------------
(* The theorems *)

LEMMA UpdateInductive == UpdateIInv /\ [UpdateNext]_updateVars => UpdateIInv'
<1> SUFFICES ASSUME UpdateIInv, [UpdateNext]_updateVars PROVE UpdateIInv'
  OBVIOUS
<1>1. CASE UNCHANGED updateVars
  BY <1>1, StutterStep
<1>2. CASE Release
  BY <1>2, ReleaseStep
<1>3. ASSUME NEW p \in Procs,
             \/ Start(p) \/ ApplyLater(p) \/ NothingPending(p) \/ Refused(p)
             \/ PickNewest(p) \/ CopyBegins(p) \/ CopyEnds(p) \/ CopyFails(p)
      PROVE  UpdateIInv'
  BY <1>3, StartStep, ApplyLaterStep, NothingPendingStep, RefusedStep,
     PickNewestStep, CopyBeginsStep, CopyEndsStep, CopyFailsStep
<1>4. ASSUME NEW p \in Procs,
             \/ RenameOver(p) \/ RenameAside(p) \/ RenameFails(p)
             \/ RenameIn(p) \/ RenameInFails(p) \/ Applied(p) \/ Die(p)
      PROVE  UpdateIInv'
  BY <1>4, RenameOverStep, RenameAsideStep, RenameFailsStep, RenameInStep,
     RenameInFailsStep, AppliedStep, DieStep
<1>5. ASSUME NEW p \in Procs,
             \/ CheckNow(p) \/ CheckFails(p) \/ FeedAnswers(p) \/ UpToDate(p)
             \/ Available(p) \/ AlreadyStaged(p) \/ Downloaded(p)
             \/ LockToStage(p) \/ Stage(p)
      PROVE  UpdateIInv'
  BY <1>5, CheckNowStep, CheckFailsStep, FeedAnswersStep, UpToDateStep,
     AvailableStep, AlreadyStagedStep, DownloadedStep, LockToStageStep,
     StageStep
<1> QED
  BY <1>1, <1>2, <1>3, <1>4, <1>5 DEF UpdateNext

LEMMA Always == UpdateSpec => []UpdateIInv
<1> QED
  BY UpdateInitIInv, UpdateInductive, PTL DEF UpdateSpec

(* Every variable of the update has its type.                              *)
THEOREM UpdateTypeCorrect == UpdateSpec => []UpdateTypeOK
<1>1. UpdateIInv => UpdateTypeOK
  BY DEF UpdateIInv
<1> QED
  BY <1>1, Always, PTL

(* However often a swap is cut short (install_over), the reader has a       *)
(* complete executable, at its path or beside it.                           *)
THEOREM ExecutableStays == UpdateSpec => []AlwaysAnExecutable
<1>1. UpdateIInv => AlwaysAnExecutable
  BY DEF UpdateIInv
<1> QED
  BY <1>1, Always, PTL

(* No version is staged twice by any number of terminals that check at once *)
(* (the second look of check_and_stage).                                    *)
THEOREM VersionsStagedOnce == UpdateSpec => []StagedOnce
<1>1. UpdateIInv => StagedOnce
  BY DEF UpdateIInv
<1> QED
  BY <1>1, Always, PTL

(* The header chip of every terminal (update_chip) is true of what a restart *)
(* finds, whatever the siblings have applied, pruned or staged meanwhile.    *)
THEOREM ChipsAreTrue == UpdateSpec => []ChipIsTrue
<1>1. UpdateIInv => ChipIsTrue
  BY DEF UpdateIInv, ProcOK, ChipOK, ChipIsTrue
<1> QED
  BY <1>1, Always, PTL

HIDE DEF Versions, None, Partial, Places, StartStages, CheckStages, Chip, Quiet
-----------------------------------------------------------------------------
(***************************************************************************)
(* Proofs about Login, for every number of flows, codes and polls, and     *)
(* for every set of accounts and modes.                                    *)
(*                                                                         *)
(* The inductive invariant follows a code from the approval that issued    *)
(* it to the member it signs in: an approval that was spent stays spent,   *)
(* each message of success speaks of one, and every flow that ended left   *)
(* a message that says how, behind the one that announced it.              *)
(***************************************************************************)

\* Who has approved the flow in a browser, by a code that was exchanged.
SpentBy(f, who) ==
  \E c \in Codes : code[c].flow = f /\ code[c].by = who /\ code[c].used

FlowOK ==
  /\ attempt.at # "off" => gen \in Flows
  /\ attempt.at \in {"exchanging", "verifying"} => attempt.code \in Codes
  /\ attempt.at = "verifying" =>
       code[attempt.code].flow = gen /\ code[attempt.code].used

MailOK ==
  \A i \in DOMAIN mail :
    /\ mail[i].gen <= gen
    /\ mail[i].what = "complete" => SpentBy(mail[i].gen, mail[i].as)

\* What announces a flow is not the last that is heard of it.
ReadyFirst ==
  \A i \in DOMAIN mail :
    (mail[i].gen = gen /\ mail[i].what = "ready") =>
      \/ attempt.at # "off"
      \/ \E j \in DOMAIN mail :
           j > i /\ mail[j].gen = gen /\ mail[j].what # "ready"

MemberOK == me # NoMember => gen \in Flows /\ SpentBy(gen, me)

LinksOK ==
  /\ \A f \in Flows :
       /\ f > gen => link[f].is = "unborn"
       /\ link[f].is = "unborn" => link[f].code = NoCode
  /\ attempt.at = "registering" => link[gen].is = "unborn"

PollsOK ==
  /\ IsFiniteSet(polls)
  /\ \A p \in polls : p.at = "read" => p.read \in Codes

TerminalType ==
  /\ gen \in 0..MaxFlow /\ attempt \in Attempt
  /\ mail \in Seq(Mail) /\ login \in Screens
  /\ me \in Accounts \cup {NoMember}

RelayType ==
  /\ link \in [Flows -> Link] /\ polls \subseteq Poll /\ handed \in [Flows -> Nat]

TerminalOK == /\ TerminalType /\ FlowOK /\ MailOK /\ ReadyFirst /\ MemberOK
              /\ FlowIsHeard
RelayOK == RelayType /\ LinksOK /\ PollsOK

LoginIInv == TerminalOK /\ RelayOK /\ code \in [Codes -> Code]
----------------------------------------------------------------------------
USE LoginAssumption DEF NoCode, Consumed, Flows, Codes, TaskStages

\* What is known of a code once it was issued.
CodesGrow ==
  \A c \in Codes :
    code[c].flow # NoCode =>
      /\ code'[c].flow = code[c].flow
      /\ code'[c].by = code[c].by
      /\ code[c].used => code'[c].used

LEMMA SpentStays ==
  ASSUME CodesGrow, NEW f \in Flows, NEW who, SpentBy(f, who)
  PROVE  SpentBy(f, who)'
<1>1. PICK c \in Codes : code[c].flow = f /\ code[c].by = who /\ code[c].used
  BY DEF SpentBy
<1>2. code'[c].flow = f /\ code'[c].by = who /\ code'[c].used
  BY <1>1 DEF CodesGrow
<1> QED
  BY <1>2 DEF SpentBy

\* Messages at the end of the queue, and at its head.
LEMMA AppendedMail ==
  ASSUME NEW s \in Seq(Mail), NEW m \in Mail
  PROVE  /\ Append(s, m) \in Seq(Mail)
         /\ DOMAIN s = 1..Len(s) /\ Len(s) \in Nat
         /\ DOMAIN Append(s, m) = 1..(Len(s) + 1)
         /\ \A i \in 1..Len(s) : Append(s, m)[i] = s[i]
         /\ Append(s, m)[Len(s) + 1] = m
  OBVIOUS

LEMMA TailOfMail ==
  ASSUME NEW s \in Seq(Mail), s # <<>>
  PROVE  /\ Tail(s) \in Seq(Mail)
         /\ Len(s) \in Nat \ {0}
         /\ DOMAIN s = 1..Len(s)
         /\ DOMAIN Tail(s) = 1..(Len(s) - 1)
         /\ \A i \in 1..(Len(s) - 1) : Tail(s)[i] = s[i + 1]
         /\ Head(s) = s[1] /\ s[1] \in Mail
  OBVIOUS

\* A terminal that stands still keeps its invariant while codes are issued.
LEMMA TerminalStays ==
  ASSUME LoginIInv, UNCHANGED terminal, CodesGrow
  PROVE  TerminalOK'
<1> USE DEF LoginIInv, TerminalOK, terminal
<1>1. TerminalType' /\ FlowIsHeard' /\ ReadyFirst'
  BY DEF TerminalType, FlowIsHeard, ReadyFirst
<1>2. FlowOK'
  BY DEF FlowOK, CodesGrow
<1>3. MailOK'
  <2> SUFFICES ASSUME NEW i \in DOMAIN mail
               PROVE  /\ mail[i].gen <= gen
                      /\ mail[i].what = "complete" =>
                           SpentBy(mail[i].gen, mail[i].as)'
    BY DEF MailOK
  <2>1. mail[i] \in Mail
    BY DEF TerminalType
  <2>2. mail[i].gen \in Flows
    BY <2>1 DEF Mail
  <2> QED
    BY <2>2, SpentStays DEF MailOK
<1>4. MemberOK'
  BY SpentStays DEF MemberOK
<1> QED
  BY <1>1, <1>2, <1>3, <1>4

\* A flow that goes on without a message.
LEMMA FlowGoesOn ==
  ASSUME LoginIInv, UNCHANGED <<gen, mail, login, me>>, CodesGrow,
         attempt.at # "off", attempt' \in Attempt, attempt'.at # "off", FlowOK'
  PROVE  TerminalOK'
<1> USE DEF LoginIInv, TerminalOK
<1>1. TerminalType' /\ FlowIsHeard' /\ ReadyFirst'
  BY DEF TerminalType, FlowIsHeard, ReadyFirst
<1>2. MailOK'
  <2> SUFFICES ASSUME NEW i \in DOMAIN mail
               PROVE  /\ mail[i].gen <= gen
                      /\ mail[i].what = "complete" =>
                           SpentBy(mail[i].gen, mail[i].as)'
    BY DEF MailOK
  <2>1. mail[i] \in Mail
    BY DEF TerminalType
  <2>2. mail[i].gen \in Flows
    BY <2>1 DEF Mail
  <2> QED
    BY <2>2, SpentStays DEF MailOK
<1>3. MemberOK'
  BY SpentStays DEF MemberOK
<1> QED
  BY <1>1, <1>2, <1>3

\* A flow that tells the terminal something, which is the end of it unless it
\* goes on.
LEMMA FlowTells ==
  ASSUME LoginIInv, UNCHANGED <<gen, login, me>>, CodesGrow, attempt.at # "off",
         NEW what \in {"ready", "failed", "complete", "unverified", "rejected"},
         NEW as \in Accounts \cup {NoMember}, Mails(what, as),
         attempt' \in Attempt, FlowOK',
         attempt'.at # "off" <=> what = "ready",
         what = "complete" => SpentBy(gen, as)'
  PROVE  TerminalOK'
<1> USE DEF LoginIInv, TerminalOK
<1> DEFINE m == [gen |-> gen, what |-> what, as |-> as]
<1>1. m \in Mail /\ mail' = Append(mail, m) /\ mail \in Seq(Mail) /\ gen \in Flows
  BY DEF Mail, Mails, FlowOK, TerminalType
<1>2. /\ mail' \in Seq(Mail)
      /\ DOMAIN mail = 1..Len(mail) /\ Len(mail) \in Nat
      /\ DOMAIN mail' = 1..(Len(mail) + 1)
      /\ \A i \in 1..Len(mail) : mail'[i] = mail[i]
      /\ mail'[Len(mail) + 1] = m
  BY <1>1, AppendedMail
<1>3. TerminalType'
  BY <1>2 DEF TerminalType
<1>4. FlowIsHeard'
  BY <1>2 DEF FlowIsHeard
<1>5. ReadyFirst'
  <2>1. CASE what = "ready"
    BY <2>1 DEF ReadyFirst
  <2>2. CASE what # "ready"
    BY <2>2, <1>2 DEF ReadyFirst
  <2> QED
    BY <2>1, <2>2
<1>6. MailOK'
  <2>1. ASSUME NEW i \in 1..Len(mail)
        PROVE  /\ mail[i].gen <= gen
               /\ mail[i].what = "complete" =>
                    SpentBy(mail[i].gen, mail[i].as)'
    <3>1. mail[i] \in Mail
      BY <1>1, <1>2
    <3>2. mail[i].gen \in Flows
      BY <3>1 DEF Mail
    <3> QED
      BY <3>2, <1>2, SpentStays DEF MailOK
  <2>2. gen <= gen' /\ m.gen = gen' /\ m.what = what /\ m.as = as
    BY <1>1
  <2> SUFFICES ASSUME NEW i \in 1..(Len(mail) + 1)
               PROVE  (/\ mail[i].gen <= gen
                       /\ mail[i].what = "complete" =>
                            SpentBy(mail[i].gen, mail[i].as))'
    BY <1>2 DEF MailOK, SpentBy
  <2>3. CASE i = Len(mail) + 1
    BY <2>2, <2>3, <1>2 DEF SpentBy
  <2>4. CASE i \in 1..Len(mail)
    BY <2>1, <2>4, <1>2
  <2> QED
    BY <2>3, <2>4, <1>2
<1>7. MemberOK'
  BY SpentStays DEF MemberOK
<1> QED
  BY <1>3, <1>4, <1>5, <1>6, <1>7

LEMMA FlowFails ==
  ASSUME LoginIInv, CodesGrow, attempt.at # "off", Fails
  PROVE  TerminalOK' /\ attempt'.at = "off"
<1>1. attempt' \in Attempt /\ attempt'.at = "off"
  BY DEF LoginIInv, TerminalOK, TerminalType, Fails, To, Attempt
<1>2. FlowOK'
  BY <1>1 DEF FlowOK
<1>3. UNCHANGED <<gen, login, me>> /\ Mails("failed", NoMember)
  BY DEF Fails
<1> QED
  BY <1>1, <1>2, <1>3, FlowTells

\* The relay keeps its invariant while no flow begins to register.
LEMMA RelayStays ==
  ASSUME LoginIInv, UNCHANGED <<gen, relay>>, attempt'.at # "registering"
  PROVE  RelayOK'
BY DEF LoginIInv, RelayOK, RelayType, LinksOK, PollsOK, relay

LEMMA CodesStay ==
  ASSUME UNCHANGED code
  PROVE  CodesGrow
BY DEF CodesGrow
----------------------------------------------------------------------------
\* What a step of the flow may use, and what it leaves.
LEMMA Attempts ==
  ASSUME LoginIInv
  PROVE  /\ attempt \in Attempt /\ attempt.at \in TaskStages
         /\ attempt.at # "off" => gen \in Flows
         /\ \A at \in TaskStages : [attempt EXCEPT !.at = at] \in Attempt
         /\ \A at \in TaskStages, c \in Codes \cup {NoCode} :
              [attempt EXCEPT !.at = at, !.code = c] \in Attempt
         /\ \A at \in TaskStages, n \in 0..MaxPoll :
              [attempt EXCEPT !.at = at, !.poll = n] \in Attempt
         /\ gen \in 0..MaxFlow /\ code \in [Codes -> Code]
         /\ link \in [Flows -> Link]
BY DEF LoginIInv, TerminalOK, RelayOK, TerminalType, RelayType, FlowOK, Attempt

LEMMA MovesTo ==
  ASSUME LoginIInv, NEW at \in TaskStages, To(at)
  PROVE  /\ attempt' \in Attempt /\ attempt'.at = at
         /\ attempt'.code = attempt.code
<1>1. attempt \in Attempt
  BY Attempts
<1> QED
  BY <1>1 DEF To, Attempt

\* A link of which one field changes.
LEMMA LinkChanges ==
  ASSUME LoginIInv, NEW f \in Flows, NEW l \in Link, link' = [link EXCEPT ![f] = l]
  PROVE  /\ link' \in [Flows -> Link] /\ link'[f] = l
         /\ \A g \in Flows \ {f} : link'[g] = link[g]
BY Attempts

LEMMA LinkIs ==
  ASSUME LoginIInv, NEW f \in Flows, NEW v \in {"live", "expired"},
         link' = [link EXCEPT ![f].is = v]
  PROVE  /\ link' \in [Flows -> Link]
         /\ link'[f].is = v /\ link'[f].code = link[f].code
         /\ \A g \in Flows \ {f} : link'[g] = link[g]
<1>1. link[f] \in Link
  BY Attempts
<1> DEFINE l == [link[f] EXCEPT !.is = v]
<1>2. l \in Link /\ l.is = v /\ l.code = link[f].code
  BY <1>1 DEF Link
<1>3. link' = [link EXCEPT ![f] = l]
  OBVIOUS
<1> HIDE DEF l
<1> QED
  BY <1>2, <1>3, LinkChanges

LEMMA LinkCode ==
  ASSUME LoginIInv, NEW f \in Flows, NEW c \in Codes \cup {Consumed},
         link' = [link EXCEPT ![f].code = c]
  PROVE  /\ link' \in [Flows -> Link]
         /\ link'[f].is = link[f].is /\ link'[f].code = c
         /\ \A g \in Flows \ {f} : link'[g] = link[g]
<1>1. link[f] \in Link
  BY Attempts
<1> DEFINE l == [link[f] EXCEPT !.code = c]
<1>2. l \in Link /\ l.is = link[f].is /\ l.code = c
  BY <1>1 DEF Link
<1>3. link' = [link EXCEPT ![f] = l]
  OBVIOUS
<1> HIDE DEF l
<1> QED
  BY <1>2, <1>3, LinkChanges

LEMMA LinkDenied ==
  ASSUME LoginIInv, NEW f \in Flows, link' = [link EXCEPT ![f].denied = TRUE]
  PROVE  /\ link' \in [Flows -> Link]
         /\ link'[f].is = link[f].is /\ link'[f].code = link[f].code
         /\ \A g \in Flows \ {f} : link'[g] = link[g]
<1>1. link[f] \in Link
  BY Attempts
<1> DEFINE l == [link[f] EXCEPT !.denied = TRUE]
<1>2. l \in Link /\ l.is = link[f].is /\ l.code = link[f].code
  BY <1>1 DEF Link
<1>3. link' = [link EXCEPT ![f] = l]
  OBVIOUS
<1> HIDE DEF l
<1> QED
  BY <1>2, <1>3, LinkChanges

\* The relay keeps its invariant when one link that is alive, or becomes so,
\* changes.
LEMMA LinkMoves ==
  ASSUME LoginIInv, NEW f \in Flows, UNCHANGED gen,
         link' \in [Flows -> Link], link'[f].is # "unborn", f <= gen,
         \A g \in Flows \ {f} : link'[g] = link[g],
         attempt'.at # "registering" \/ (attempt' = attempt /\ link[f].is # "unborn"),
         polls' \subseteq Poll, handed' \in [Flows -> Nat], PollsOK'
  PROVE  RelayOK'
<1> gen \in Int
  BY DEF LoginIInv, TerminalOK, TerminalType
<1>1. \A g \in Flows :
        /\ g > gen' => link'[g].is = "unborn"
        /\ link'[g].is = "unborn" => link'[g].code = NoCode
  <2> TAKE g \in Flows
  <2>1. CASE g = f
    BY <2>1
  <2>2. CASE g # f
    BY <2>2 DEF LoginIInv, RelayOK, LinksOK
  <2> QED
    BY <2>1, <2>2
<1>2. attempt'.at = "registering" => link'[gen'].is = "unborn"
  BY Attempts DEF LoginIInv, RelayOK, LinksOK
<1> QED
  BY <1>1, <1>2 DEF RelayOK, RelayType, LinksOK

LEMMA PollsStay ==
  ASSUME LoginIInv, UNCHANGED <<polls, handed>>
  PROVE  polls' \subseteq Poll /\ handed' \in [Flows -> Nat] /\ PollsOK'
BY DEF LoginIInv, RelayOK, RelayType, PollsOK

LEMMA BeginKeeps ==
  ASSUME LoginIInv, NEW mode \in Modes, Begin(mode)
  PROVE  LoginIInv'
<1> USE DEF LoginIInv, TerminalOK, Begin
<1>1. /\ attempt' \in Attempt
      /\ attempt'.at \in {"registering", "binding"}
      /\ gen' \in Flows /\ gen' = gen + 1 /\ gen \in 0..MaxFlow
  BY DEF TerminalType, Attempt
<1>2. TerminalType' /\ FlowIsHeard' /\ ReadyFirst' /\ FlowOK' /\ MemberOK'
  BY <1>1 DEF TerminalType, FlowIsHeard, ReadyFirst, FlowOK, MemberOK, Screens
<1>3. MailOK'
  <2> SUFFICES ASSUME NEW i \in DOMAIN mail
               PROVE  (/\ mail[i].gen <= gen
                       /\ mail[i].what = "complete" =>
                            SpentBy(mail[i].gen, mail[i].as))'
    BY DEF MailOK
  <2>1. mail[i] \in Mail /\ mail'[i] = mail[i]
    BY DEF TerminalType
  <2>2. mail[i].gen \in Flows
    BY <2>1 DEF Mail
  <2> QED
    BY <1>1, <2>1, <2>2 DEF MailOK, SpentBy
<1>4. RelayOK'
  BY <1>1 DEF RelayOK, RelayType, LinksOK, PollsOK, relay
<1> QED
  BY <1>2, <1>3, <1>4

LEMMA RegisteredKeeps ==
  ASSUME LoginIInv, Registered
  PROVE  LoginIInv'
<1>1. attempt' \in Attempt /\ attempt'.at = "waiting" /\ gen \in Flows
  BY Attempts, MovesTo DEF Registered
<1>2. FlowOK'
  BY <1>1 DEF FlowOK, Registered
<1>3. TerminalOK'
  BY <1>1, <1>2, CodesStay, FlowTells DEF Registered
<1>4. RelayOK'
  <2>1. /\ link' \in [Flows -> Link] /\ link'[gen].is = "live"
        /\ \A g \in Flows \ {gen} : link'[g] = link[g]
    BY <1>1, LinkIs DEF Registered
  <2>2. polls' \subseteq Poll /\ handed' \in [Flows -> Nat] /\ PollsOK'
    BY PollsStay DEF Registered
  <2>3. gen <= gen /\ gen' = gen
    BY <1>1 DEF Registered
  <2> QED
    BY <1>1, <2>1, <2>2, <2>3, LinkMoves
<1> QED
  BY <1>3, <1>4 DEF LoginIInv, Registered

LEMMA RouteMissingKeeps ==
  ASSUME LoginIInv, RouteMissing
  PROVE  LoginIInv'
<1>1. UNCHANGED <<relay, code, gen>>
  BY DEF RouteMissing, Fails
<1>2. TerminalOK' /\ attempt'.at # "registering"
  <2>1. CASE Fails
    BY <2>1, CodesStay, FlowFails, <1>1 DEF RouteMissing
  <2>2. CASE To("binding") /\ UNCHANGED <<gen, mail, login, me>>
    <3>1. attempt' \in Attempt /\ attempt'.at = "binding"
      BY <2>2, MovesTo
    <3>2. FlowOK'
      BY <3>1, <2>2, Attempts DEF FlowOK, RouteMissing
    <3> QED
      BY <3>1, <3>2, <2>2, <1>1, CodesStay, FlowGoesOn DEF RouteMissing
  <2> QED
    BY <2>1, <2>2 DEF RouteMissing
<1> QED
  BY <1>1, <1>2, RelayStays DEF LoginIInv

LEMMA RegisterFailsKeeps ==
  ASSUME LoginIInv, RegisterFails
  PROVE  LoginIInv'
<1>1. TerminalOK' /\ attempt'.at = "off" /\ gen' = gen /\ gen \in Flows
  BY CodesStay, FlowFails, Attempts DEF RegisterFails, Fails
<1>2. RelayOK'
  <2>1. CASE link' = link
    BY <1>1, <2>1, RelayStays DEF RegisterFails, relay
  <2>2. CASE link' = [link EXCEPT ![gen].is = "live"]
    <3>1. /\ link' \in [Flows -> Link] /\ link'[gen].is = "live"
          /\ \A g \in Flows \ {gen} : link'[g] = link[g]
      BY <1>1, <2>2, LinkIs
    <3>2. polls' \subseteq Poll /\ handed' \in [Flows -> Nat] /\ PollsOK'
      BY PollsStay DEF RegisterFails
    <3>3. gen <= gen /\ link'[gen].is # "unborn"
      BY <1>1, <3>1
    <3>4. attempt'.at # "registering" /\ gen' = gen /\ gen \in Flows
      BY <1>1
    <3> QED
      BY <3>1, <3>2, <3>3, <3>4, LinkMoves
  <2> QED
    BY <2>1, <2>2 DEF RegisterFails
<1> QED
  BY <1>1, <1>2 DEF LoginIInv, RegisterFails

LEMMA BoundKeeps ==
  ASSUME LoginIInv, Bound
  PROVE  LoginIInv'
<1>1. attempt' \in Attempt /\ attempt'.at = "listening"
  BY MovesTo DEF Bound
<1>2. FlowOK'
  BY <1>1, Attempts DEF FlowOK, Bound
<1>3. TerminalOK'
  BY <1>1, <1>2, CodesStay, FlowTells DEF Bound
<1> QED
  BY <1>1, <1>3, RelayStays DEF LoginIInv, Bound

LEMMA NotBoundKeeps ==
  ASSUME LoginIInv, NotBound
  PROVE  LoginIInv'
<1>1. UNCHANGED <<relay, code, gen>>
  BY DEF NotBound, Fails
<1>2. TerminalOK' /\ attempt'.at # "registering"
  <2>1. CASE Fails
    BY <2>1, CodesStay, FlowFails, <1>1 DEF NotBound
  <2>2. CASE To("pasting") /\ Mails("ready", NoMember) /\ UNCHANGED <<gen, login, me>>
    <3>1. attempt' \in Attempt /\ attempt'.at = "pasting"
      BY <2>2, MovesTo
    <3>2. FlowOK'
      BY <3>1, <2>2, Attempts DEF FlowOK, NotBound
    <3> QED
      BY <3>1, <3>2, <2>2, <1>1, CodesStay, FlowTells DEF NotBound
  <2> QED
    BY <2>1, <2>2 DEF NotBound
<1> QED
  BY <1>1, <1>2, RelayStays DEF LoginIInv

\* Codes: approvals, and what the OAuth server makes of an exchange.
LEMMA ApproveKeeps ==
  ASSUME LoginIInv, NEW f \in Flows, NEW who \in Accounts, Approve(f, who)
  PROVE  LoginIInv'
<1>1. PICK c \in Codes :
        /\ code[c].flow = NoCode
        /\ code' = [code EXCEPT ![c] = [flow |-> f, by |-> who, used |-> FALSE]]
  BY DEF Approve
<1>2. code' \in [Codes -> Code]
  BY <1>1, Attempts DEF Code
<1>3. CodesGrow
  BY <1>1, Attempts DEF CodesGrow
<1>4. TerminalOK'
  BY <1>3, TerminalStays DEF Approve
<1>5. RelayOK'
  BY DEF Approve, terminal, relay, LoginIInv, RelayOK, RelayType, LinksOK, PollsOK
<1> QED
  BY <1>2, <1>4, <1>5 DEF LoginIInv

\* A code that is marked as used.
LEMMA UsedGrows ==
  ASSUME LoginIInv, NEW c \in Codes, code' = [code EXCEPT ![c].used = TRUE]
  PROVE  /\ code' \in [Codes -> Code] /\ CodesGrow
         /\ code'[c].used /\ code'[c].flow = code[c].flow /\ code'[c].by = code[c].by
<1>1. code \in [Codes -> Code]
  BY Attempts
<1>2. code[c] \in Code
  BY <1>1
<1>3. [code[c] EXCEPT !.used = TRUE] \in Code
  BY <1>2 DEF Code
<1>4. /\ code'[c] = [code[c] EXCEPT !.used = TRUE]
      /\ \A d \in Codes \ {c} : code'[d] = code[d]
      /\ code' \in [Codes -> Code]
  BY <1>1, <1>3
<1>5. /\ code'[c].used /\ code'[c].flow = code[c].flow /\ code'[c].by = code[c].by
  BY <1>2, <1>4 DEF Code
<1> QED
  BY <1>4, <1>5 DEF CodesGrow

LEMMA ExchangedKeeps ==
  ASSUME LoginIInv, Exchanged
  PROVE  LoginIInv'
<1>1. attempt.code \in Codes
  BY DEF LoginIInv, TerminalOK, FlowOK, Exchanged
<1>2. /\ code' \in [Codes -> Code] /\ CodesGrow
      /\ code'[attempt.code].used /\ code'[attempt.code].flow = gen
  BY <1>1, UsedGrows DEF Exchanged
<1>3. /\ attempt' \in Attempt /\ attempt'.at = "verifying"
      /\ attempt'.code = attempt.code
  BY MovesTo DEF Exchanged
<1>4. FlowOK'
  BY <1>1, <1>2, <1>3, Attempts DEF FlowOK, Exchanged
<1>5. TerminalOK'
  BY <1>2, <1>3, <1>4, FlowGoesOn DEF Exchanged
<1> QED
  BY <1>2, <1>3, <1>5, RelayStays DEF LoginIInv, Exchanged

LEMMA ExchangeFailsKeeps ==
  ASSUME LoginIInv, ExchangeFails
  PROVE  LoginIInv'
<1>1. attempt.code \in Codes
  BY DEF LoginIInv, TerminalOK, FlowOK, ExchangeFails
<1>2. code' \in [Codes -> Code] /\ CodesGrow
  <2>1. CASE code' = code
    BY <2>1, Attempts, CodesStay
  <2>2. CASE code' = [code EXCEPT ![attempt.code].used = TRUE]
    BY <1>1, <2>2, UsedGrows
  <2> QED
    BY <2>1, <2>2 DEF ExchangeFails
<1>3. TerminalOK' /\ attempt'.at = "off" /\ gen' = gen
  BY <1>2, FlowFails DEF ExchangeFails, Fails
<1> QED
  BY <1>2, <1>3, RelayStays DEF LoginIInv, ExchangeFails

LEMMA VerifiedKeeps ==
  ASSUME LoginIInv, NEW what \in {"complete", "unverified", "rejected"}, Verified(what)
  PROVE  LoginIInv'
<1>1. /\ attempt.code \in Codes /\ code[attempt.code].flow = gen
      /\ code[attempt.code].used /\ code[attempt.code] \in Code
  BY Attempts DEF LoginIInv, TerminalOK, FlowOK, Verified
<1>2. PICK who \in Accounts \cup {NoMember} :
        who = IF what = "complete" THEN code[attempt.code].by ELSE NoMember
  BY <1>1 DEF Code
<1>3. what = "complete" => SpentBy(gen, who)'
  BY <1>1, <1>2 DEF SpentBy, Verified
<1>4. attempt' \in Attempt /\ attempt'.at = "off"
  BY MovesTo DEF Verified
<1>5. FlowOK'
  BY <1>4 DEF FlowOK
<1>6. /\ UNCHANGED <<gen, login, me>> /\ CodesGrow /\ attempt.at # "off"
      /\ Mails(what, who)
  BY <1>2, CodesStay DEF Verified
<1>7. TerminalOK'
  BY <1>3, <1>4, <1>5, <1>6, FlowTells
<1> QED
  BY <1>4, <1>7, RelayStays DEF LoginIInv, Verified
----------------------------------------------------------------------------
\* Polls.  One that arrives has an identity of its own: fewer than MaxPoll
\* are served.
LEMMA FreshPoll ==
  ASSUME LoginIInv, Cardinality(polls) < MaxPoll
  PROVE  \E i \in 1..MaxPoll : \A p \in polls : p.id # i
<1> SUFFICES ASSUME \A i \in 1..MaxPoll : \E p \in polls : p.id = i
             PROVE  FALSE
  OBVIOUS
<1>1. IsFiniteSet(polls) /\ polls \subseteq Poll
  BY DEF LoginIInv, RelayOK, RelayType, PollsOK
<1> DEFINE h == [p \in polls |-> p.id]
<1>2. h \in Surjection(polls, 1..MaxPoll)
  BY <1>1 DEF Surjection, Poll
<1>3. Cardinality(1..MaxPoll) <= Cardinality(polls)
  BY <1>1, <1>2, FS_Surjection
<1>4. Cardinality(1..MaxPoll) = MaxPoll
  BY FS_Interval
<1>5. Cardinality(polls) \in Nat
  BY <1>1, FS_CardinalityType
<1> QED
  BY <1>3, <1>4, <1>5

LEMMA LinksStay ==
  ASSUME LoginIInv, UNCHANGED <<gen, link>>,
         attempt' = attempt \/ attempt'.at # "registering"
  PROVE  link' \in [Flows -> Link] /\ LinksOK'
BY DEF LoginIInv, RelayOK, RelayType, LinksOK

LEMMA LiveLinks ==
  ASSUME LoginIInv, NEW f \in Flows, Live(f)
  PROVE  link[f].is # "unborn" /\ f <= gen
<1>1. gen \in Int
  BY DEF LoginIInv, TerminalOK, TerminalType
<1> QED
  BY <1>1 DEF Live, LoginIInv, RelayOK, LinksOK

LEMMA PollFields ==
  ASSUME LoginIInv, NEW p \in polls
  PROVE  p \in Poll /\ p.flow \in Flows /\ (p.at = "read" => p.read \in Codes)
BY DEF LoginIInv, RelayOK, RelayType, PollsOK, Poll

LEMMA PollLeaves ==
  ASSUME LoginIInv, NEW p \in polls, polls' = polls \ {p}
  PROVE  polls' \subseteq Poll /\ PollsOK'
BY FS_RemoveElement DEF LoginIInv, RelayOK, RelayType, PollsOK

LEMMA PollMoves ==
  ASSUME LoginIInv, NEW at \in TaskStages, NEW n \in 0..MaxPoll,
         attempt' = [attempt EXCEPT !.at = at, !.poll = n]
  PROVE  attempt' \in Attempt /\ attempt'.at = at
<1>1. attempt \in Attempt
  BY Attempts
<1>2. attempt' = [at |-> at, mode |-> attempt.mode, code |-> attempt.code,
                  poll |-> n]
  BY <1>1 DEF Attempt
<1>3. /\ attempt.mode \in {"auto", "relay", "loopback", "paste"}
      /\ attempt.code \in Codes \cup {NoCode}
  BY <1>1 DEF Attempt
<1> QED
  BY <1>2, <1>3 DEF Attempt

LEMMA PollAgainKeeps ==
  ASSUME LoginIInv, PollAgain
  PROVE  LoginIInv'
<1> DEFINE unused == CHOOSE i \in 1..MaxPoll : \A p \in polls : p.id # i
           poll == [id |-> unused, flow |-> gen, read |-> NoCode, at |-> "arrived"]
<1>1. unused \in 1..MaxPoll
  BY FreshPoll DEF PollAgain
<1> HIDE DEF unused
<1>2. /\ attempt' = [attempt EXCEPT !.at = "polling", !.poll = unused]
      /\ polls' = polls \cup {poll}
  BY DEF PollAgain, unused
<1>3. attempt' \in Attempt /\ attempt'.at = "polling"
  <2>1. unused \in 0..MaxPoll
    BY <1>1
  <2> QED
    BY <1>2, <2>1, PollMoves
<1>4. FlowOK'
  BY <1>3, Attempts DEF FlowOK, PollAgain
<1>5. TerminalOK'
  BY <1>3, <1>4, CodesStay, FlowGoesOn DEF PollAgain
<1>6. poll \in Poll
  BY <1>1, Attempts DEF PollAgain, Poll
<1> HIDE DEF poll
<1>7. polls' \subseteq Poll /\ PollsOK'
  <2>1. IsFiniteSet(polls')
    BY <1>2, FS_AddElement DEF LoginIInv, RelayOK, PollsOK
  <2>2. poll.at # "read"
    BY DEF poll
  <2> QED
    BY <1>2, <1>6, <2>1, <2>2 DEF LoginIInv, RelayOK, RelayType, PollsOK
<1>8. link' \in [Flows -> Link] /\ LinksOK'
  BY <1>3, LinksStay DEF PollAgain
<1> QED
  BY <1>5, <1>7, <1>8 DEF LoginIInv, RelayOK, RelayType, PollAgain

LEMMA PollFailsKeeps ==
  ASSUME LoginIInv, PollFails
  PROVE  LoginIInv'
<1>1. attempt' \in Attempt /\ attempt'.at = "waiting"
  <2>1. 0 \in 0..MaxPoll
    OBVIOUS
  <2> QED
    BY <2>1, PollMoves DEF PollFails
<1>2. FlowOK'
  BY <1>1, Attempts DEF FlowOK, PollFails
<1>3. TerminalOK'
  BY <1>1, <1>2, CodesStay, FlowGoesOn DEF PollFails
<1> QED
  BY <1>1, <1>3, RelayStays DEF LoginIInv, PollFails

LEMMA TimesOutKeeps ==
  ASSUME LoginIInv, TimesOut \/ RedirectedDenied
  PROVE  LoginIInv'
<1>1. /\ Fails /\ attempt.at # "off" /\ UNCHANGED <<relay, code>> /\ gen' = gen
  BY DEF TimesOut, RedirectedDenied, Fails
<1>2. TerminalOK' /\ attempt'.at = "off"
  BY <1>1, CodesStay, FlowFails
<1> QED
  BY <1>1, <1>2, RelayStays DEF LoginIInv

\* A flow that has its code.
LEMMA HasCode ==
  ASSUME LoginIInv, NEW c \in Codes, attempt.at # "off",
         attempt' = [attempt EXCEPT !.at = "exchanging", !.code = c],
         UNCHANGED <<gen, mail, login, me, code>>
  PROVE  TerminalOK' /\ attempt'.at = "exchanging"
<1>1. attempt \in Attempt
  BY Attempts
<1>2. attempt' \in Attempt /\ attempt'.at = "exchanging" /\ attempt'.code = c
  BY <1>1 DEF Attempt
<1>3. FlowOK'
  BY <1>2, Attempts DEF FlowOK
<1> QED
  BY <1>2, <1>3, CodesStay, FlowGoesOn

LEMMA RedirectedKeeps ==
  ASSUME LoginIInv, NEW c \in Codes, Redirected(c)
  PROVE  LoginIInv'
<1>1. TerminalOK' /\ attempt'.at = "exchanging"
  BY HasCode DEF Redirected
<1> QED
  BY <1>1, RelayStays DEF LoginIInv, Redirected

LEMMA PastedKeeps ==
  ASSUME LoginIInv, NEW c \in Codes, NEW bare \in BOOLEAN, Pasted(c, bare)
  PROVE  LoginIInv'
<1>1. TerminalOK' /\ attempt'.at = "exchanging"
  BY HasCode DEF Pasted
<1> QED
  BY <1>1, RelayStays DEF LoginIInv, Pasted

\* An answer, to the flow that waits for it or to nobody.
LEMMA AnswerTerminal ==
  ASSUME LoginIInv, NEW p \in polls, NEW at \in {"off", "waiting", "exchanging"},
         NEW what \in Codes \cup {NoCode}, at = "exchanging" => what \in Codes,
         Answered(p, at, what), UNCHANGED code
  PROVE  /\ TerminalOK' /\ gen' = gen
         /\ attempt' = attempt \/ attempt'.at # "registering"
<1>1. CASE ~Awaited(p)
  BY <1>1, CodesStay, TerminalStays DEF Answered, terminal
<1>2. CASE Awaited(p) /\ at = "off"
  BY <1>2, CodesStay, FlowFails DEF Answered, Awaited, Fails
<1>3. CASE Awaited(p) /\ at # "off"
  <2>1. attempt \in Attempt /\ attempt.at # "off"
    BY <1>3, Attempts DEF Awaited
  <2>2. /\ attempt' \in Attempt /\ attempt'.at = at /\ attempt'.code = what
        /\ UNCHANGED <<gen, mail, login, me>>
    BY <1>3, <2>1 DEF Answered, Attempt
  <2>3. FlowOK'
    BY <1>3, <2>1, <2>2, Attempts DEF FlowOK
  <2> QED
    BY <1>3, <2>1, <2>2, <2>3, CodesStay, FlowGoesOn
<1> QED
  BY <1>1, <1>2, <1>3

LEMMA ReadLinkKeeps ==
  ASSUME LoginIInv, NEW p \in polls, ReadLink(p)
  PROVE  LoginIInv'
<1> DEFINE q == [p EXCEPT !.at = "read", !.read = link[p.flow].code]
<1>1. q \in Poll /\ q.at = "read" /\ q.read \in Codes
  BY PollFields DEF ReadLink, Poll
<1>2. polls' = (polls \ {p}) \cup {q}
  BY DEF ReadLink
<1> HIDE DEF q
<1>3. IsFiniteSet(polls')
  BY <1>2, FS_RemoveElement, FS_AddElement DEF LoginIInv, RelayOK, PollsOK
<1>4. polls' \subseteq Poll /\ PollsOK'
  BY <1>1, <1>2, <1>3 DEF LoginIInv, RelayOK, RelayType, PollsOK
<1>5. TerminalOK'
  BY CodesStay, TerminalStays DEF ReadLink
<1>6. link' \in [Flows -> Link] /\ LinksOK'
  BY LinksStay DEF ReadLink, terminal
<1> QED
  BY <1>4, <1>5, <1>6 DEF LoginIInv, RelayOK, RelayType, ReadLink

LEMMA AnswerPlainlyKeeps ==
  ASSUME LoginIInv, NEW p \in polls, AnswerPlainly(p)
  PROVE  LoginIInv'
<1>1. PICK at \in {"off", "waiting"} :
        Answered(p, at, NoCode) /\ UNCHANGED <<link, handed, code>>
  BY DEF AnswerPlainly
<1>2. /\ TerminalOK' /\ gen' = gen
      /\ attempt' = attempt \/ attempt'.at # "registering"
  BY <1>1, AnswerTerminal
<1>3. polls' \subseteq Poll /\ PollsOK'
  BY <1>1, PollLeaves DEF Answered
<1>4. link' \in [Flows -> Link] /\ LinksOK'
  BY <1>1, <1>2, LinksStay
<1> QED
  BY <1>1, <1>2, <1>3, <1>4 DEF LoginIInv, RelayOK, RelayType

LEMMA HandOutKeeps ==
  ASSUME LoginIInv, NEW p \in polls, HandOut(p)
  PROVE  LoginIInv'
<1>1. p.flow \in Flows /\ p.read \in Codes
  BY PollFields DEF HandOut
<1>2. polls' \subseteq Poll /\ PollsOK'
  BY PollLeaves DEF HandOut, Answered
<1>3. CASE Live(p.flow) /\ link[p.flow].code = p.read
  <2>1. /\ TerminalOK' /\ gen' = gen
        /\ attempt' = attempt \/ attempt'.at # "registering"
    BY <1>1, <1>3, AnswerTerminal DEF HandOut
  <2>2. link[p.flow].is # "unborn" /\ p.flow <= gen
    BY <1>1, <1>3, LiveLinks
  <2>3. /\ link' \in [Flows -> Link] /\ link'[p.flow].is = link[p.flow].is
        /\ \A g \in Flows \ {p.flow} : link'[g] = link[g]
    BY <1>1, <1>3, LinkCode DEF HandOut
  <2>4. handed' \in [Flows -> Nat]
    BY <1>1, <1>3 DEF HandOut, LoginIInv, RelayOK, RelayType
  <2>5. RelayOK'
    BY <1>1, <1>2, <2>1, <2>2, <2>3, <2>4, LinkMoves
  <2> QED
    BY <2>1, <2>5 DEF LoginIInv, HandOut
<1>4. CASE ~(Live(p.flow) /\ link[p.flow].code = p.read)
  <2>1. Answered(p, "waiting", NoCode) /\ UNCHANGED <<link, handed, code>>
    BY <1>4 DEF HandOut
  <2>2. /\ TerminalOK' /\ gen' = gen
        /\ attempt' = attempt \/ attempt'.at # "registering"
    BY <2>1, AnswerTerminal
  <2>3. link' \in [Flows -> Link] /\ LinksOK'
    BY <2>1, <2>2, LinksStay
  <2> QED
    BY <1>2, <2>1, <2>2, <2>3 DEF LoginIInv, RelayOK, RelayType
<1> QED
  BY <1>3, <1>4
----------------------------------------------------------------------------
LEMMA DoneWithCodeKeeps ==
  ASSUME LoginIInv, NEW c \in Codes, DoneWithCode(c)
  PROVE  LoginIInv'
<1>1. code[c].flow \in Flows
  BY Attempts DEF DoneWithCode, Code
<1> DEFINE f == code[c].flow
<1>2. link[f].is # "unborn" /\ f <= gen
  BY <1>1, LiveLinks DEF DoneWithCode
<1>3. /\ link' \in [Flows -> Link] /\ link'[f].is = link[f].is
      /\ \A g \in Flows \ {f} : link'[g] = link[g]
  BY <1>1, LinkCode DEF DoneWithCode
<1>4. polls' \subseteq Poll /\ handed' \in [Flows -> Nat] /\ PollsOK'
  BY PollsStay DEF DoneWithCode
<1>5. TerminalOK' /\ gen' = gen /\ attempt' = attempt /\ code' = code
  BY CodesStay, TerminalStays DEF DoneWithCode, terminal
<1> HIDE DEF f
<1>6. RelayOK'
  BY <1>1, <1>2, <1>3, <1>4, <1>5, LinkMoves DEF f
<1> QED
  BY <1>5, <1>6 DEF LoginIInv

LEMMA DoneDeniedKeeps ==
  ASSUME LoginIInv, NEW f \in Flows, DoneDenied(f)
  PROVE  LoginIInv'
<1>1. link[f].is # "unborn" /\ f <= gen
  BY LiveLinks DEF DoneDenied
<1>2. /\ link' \in [Flows -> Link] /\ link'[f].is = link[f].is
      /\ \A g \in Flows \ {f} : link'[g] = link[g]
  BY LinkDenied DEF DoneDenied
<1>3. polls' \subseteq Poll /\ handed' \in [Flows -> Nat] /\ PollsOK'
  BY PollsStay DEF DoneDenied
<1>4. TerminalOK' /\ gen' = gen /\ attempt' = attempt /\ code' = code
  BY CodesStay, TerminalStays DEF DoneDenied, terminal
<1>5. RelayOK'
  BY <1>1, <1>2, <1>3, <1>4, LinkMoves
<1> QED
  BY <1>4, <1>5 DEF LoginIInv

LEMMA ExpireKeeps ==
  ASSUME LoginIInv, NEW f \in Flows, Expire(f)
  PROVE  LoginIInv'
<1>1. link[f].is # "unborn" /\ f <= gen
  BY LiveLinks DEF Expire
<1>2. /\ link' \in [Flows -> Link] /\ link'[f].is = "expired"
      /\ \A g \in Flows \ {f} : link'[g] = link[g]
  BY LinkIs DEF Expire
<1>3. polls' \subseteq Poll /\ handed' \in [Flows -> Nat] /\ PollsOK'
  BY PollsStay DEF Expire
<1>4. TerminalOK' /\ gen' = gen /\ attempt' = attempt /\ code' = code
  BY CodesStay, TerminalStays DEF Expire, terminal
<1>5. RelayOK'
  BY <1>1, <1>2, <1>3, <1>4, LinkMoves
<1> QED
  BY <1>4, <1>5 DEF LoginIInv

LEMMA HandleMailKeeps ==
  ASSUME LoginIInv, HandleMail
  PROVE  LoginIInv'
<1> USE DEF LoginIInv, TerminalOK
<1>1. /\ UNCHANGED <<gen, attempt, relay, code>> /\ mail # <<>>
      /\ mail' = Tail(mail) /\ mail \in Seq(Mail)
  BY DEF HandleMail, TerminalType
<1>2. /\ mail' \in Seq(Mail)
      /\ Len(mail) \in Nat \ {0}
      /\ DOMAIN mail = 1..Len(mail)
      /\ DOMAIN mail' = 1..(Len(mail) - 1)
      /\ \A i \in 1..(Len(mail) - 1) : mail'[i] = mail[i + 1]
      /\ Head(mail) = mail[1] /\ mail[1] \in Mail
  BY <1>1, TailOfMail
<1> DEFINE m == mail[1]
<1>3. m.gen \in Flows /\ m.as \in Accounts \cup {NoMember}
      /\ m.what \in {"ready", "failed", "complete", "unverified", "rejected"}
  BY <1>2 DEF Mail
<1>4. \/ m.gen # gen /\ UNCHANGED <<login, me>>
      \/ /\ m.gen = gen
         /\ me' = IF m.what = "complete" THEN m.as ELSE me
         /\ \/ m.what = "ready" /\ login' = "waiting"
            \/ m.what # "ready" /\ login' \in {"idle", "gone"}
  BY <1>2, <1>3 DEF HandleMail
<1>5. \A i \in 1..(Len(mail) - 1) : i + 1 \in 1..Len(mail)
  BY <1>2
<1> HIDE DEF m
<1>6. TerminalType'
  BY <1>1, <1>2, <1>3, <1>4 DEF TerminalType, Screens
<1>7. FlowOK'
  BY <1>1 DEF FlowOK
<1>8. MailOK'
  BY <1>1, <1>2, <1>5 DEF MailOK, SpentBy
<1>9. ReadyFirst'
  <2> SUFFICES ASSUME NEW i \in DOMAIN mail', mail'[i].gen = gen,
                      mail'[i].what = "ready", attempt.at = "off"
               PROVE  \E j \in DOMAIN mail' :
                        j > i /\ mail'[j].gen = gen /\ mail'[j].what # "ready"
    BY <1>1 DEF ReadyFirst
  <2>1. i \in 1..(Len(mail) - 1) /\ i + 1 \in DOMAIN mail /\ mail'[i] = mail[i + 1]
    BY <1>2, <1>5
  <2>2. PICK k \in DOMAIN mail :
          k > i + 1 /\ mail[k].gen = gen /\ mail[k].what # "ready"
    BY <2>1 DEF ReadyFirst
  <2>3. /\ k - 1 \in 1..(Len(mail) - 1) /\ k - 1 > i
        /\ (k - 1) + 1 = k
    BY <1>2, <2>1, <2>2
  <2>4. mail'[k - 1] = mail[k]
    BY <1>2, <2>3
  <2> QED
    BY <1>2, <2>2, <2>3, <2>4
<1>10. MemberOK'
  <2>1. CASE m.gen = gen /\ m.what = "complete"
    <3>1. SpentBy(gen, m.as)
      BY <1>2, <2>1 DEF MailOK, m
    <3> QED
      BY <1>1, <1>3, <1>4, <2>1, <3>1 DEF MemberOK, SpentBy
  <2>2. CASE ~(m.gen = gen /\ m.what = "complete")
    BY <1>1, <1>4, <2>2 DEF MemberOK, SpentBy
  <2> QED
    BY <2>1, <2>2
<1>11. FlowIsHeard'
  <2> SUFFICES ASSUME login' \in {"busy", "waiting"}, attempt.at = "off"
               PROVE  \E i \in DOMAIN mail' :
                        mail'[i].gen = gen /\ mail'[i].what # "ready"
    BY <1>1 DEF FlowIsHeard
  <2>1. PICK k \in DOMAIN mail :
          k > 1 /\ mail[k].gen = gen /\ mail[k].what # "ready"
    <3>1. CASE m.gen = gen
      <4>1. m.what = "ready"
        BY <1>4, <3>1
      <4> QED
        BY <1>2, <3>1, <4>1 DEF ReadyFirst, m
    <3>2. CASE m.gen # gen
      <4>1. login \in {"busy", "waiting"}
        BY <1>4, <3>2
      <4>2. PICK k \in DOMAIN mail : mail[k].gen = gen /\ mail[k].what # "ready"
        BY <4>1 DEF FlowIsHeard
      <4>3. k # 1
        BY <3>2, <4>2 DEF m
      <4> QED
        BY <1>2, <4>2, <4>3
    <3> QED
      BY <3>1, <3>2
  <2>2. k - 1 \in 1..(Len(mail) - 1) /\ (k - 1) + 1 = k
    BY <1>2, <2>1
  <2>3. mail'[k - 1] = mail[k]
    BY <1>2, <2>2
  <2> QED
    BY <1>2, <2>1, <2>2, <2>3
<1>12. RelayOK'
  BY <1>1 DEF RelayOK, RelayType, LinksOK, PollsOK, relay
<1> QED
  BY <1>1, <1>6, <1>7, <1>8, <1>9, <1>10, <1>11, <1>12
----------------------------------------------------------------------------
LEMMA InvariantInit ==
  ASSUME LoginInit
  PROVE  LoginIInv
<1> USE DEF LoginInit
<1>1. TerminalOK
  BY DEF TerminalOK, TerminalType, FlowOK, MailOK, ReadyFirst, MemberOK,
         FlowIsHeard, Attempt, Screens
<1>2. RelayOK
  BY FS_EmptySet DEF RelayOK, RelayType, LinksOK, PollsOK, Link
<1>3. code \in [Codes -> Code]
  BY DEF Code
<1> QED
  BY <1>1, <1>2, <1>3 DEF LoginIInv

LEMMA InvariantStep ==
  ASSUME LoginIInv, [LoginNext]_loginVars
  PROVE  LoginIInv'
<1>1. CASE \E mode \in Modes : Begin(mode)
  BY <1>1, BeginKeeps
<1>2. CASE \E f \in Flows : Expire(f)
  BY <1>2, ExpireKeeps
<1>3. CASE Serve
  BY <1>3, ReadLinkKeeps, AnswerPlainlyKeeps, HandOutKeeps DEF Serve
<1>4. CASE Browse
  BY <1>4, DoneDeniedKeeps, ApproveKeeps, DoneWithCodeKeeps, RedirectedKeeps,
     PastedKeeps, TimesOutKeeps DEF Browse
<1>5. CASE FlowSteps
  BY <1>5, RegisteredKeeps, RouteMissingKeeps, RegisterFailsKeeps, BoundKeeps,
     NotBoundKeeps, PollAgainKeeps, PollFailsKeeps, TimesOutKeeps,
     ExchangedKeeps, ExchangeFailsKeeps, VerifiedKeeps DEF FlowSteps
<1>6. CASE HandleMail
  BY <1>6, HandleMailKeeps
<1>7. CASE UNCHANGED loginVars
  <2>1. UNCHANGED <<terminal, relay, code, gen, attempt>>
    BY <1>7 DEF loginVars, terminal
  <2>2. TerminalOK'
    BY <2>1, CodesStay, TerminalStays
  <2>3. RelayOK'
    BY <2>1 DEF LoginIInv, RelayOK, RelayType, LinksOK, PollsOK, relay
  <2> QED
    BY <2>1, <2>2, <2>3 DEF LoginIInv
<1> QED
  BY <1>1, <1>2, <1>3, <1>4, <1>5, <1>6, <1>7 DEF LoginNext

LEMMA Invariant == LoginSpec => []LoginIInv
<1>1. LoginInit => LoginIInv
  BY InvariantInit
<1>2. LoginIInv /\ [LoginNext]_loginVars => LoginIInv'
  BY InvariantStep
<1> QED
  BY <1>1, <1>2, PTL DEF LoginSpec

(* Type correctness of the login flow, its messages and the relay            *)
(* (run_login_flow, AppMessage, LinkStore).                                  *)
THEOREM LoginTypeCorrect == LoginSpec => []LoginTypeOK
<1>1. LoginIInv => LoginTypeOK
  BY DEF LoginIInv, TerminalOK, RelayOK, TerminalType, RelayType, LoginTypeOK
<1> QED
  BY <1>1, Invariant, PTL

(* Whoever the terminal is signed in as approved the flow it shows, and that *)
(* approval was spent (login_generation, code_from_pasted, exchange_code).   *)
THEOREM OnlyThisFlowSignsIn == LoginSpec => []SignedInByThisFlow
<1>1. LoginIInv => SignedInByThisFlow
  BY DEF LoginIInv, TerminalOK, MemberOK, SpentBy, SignedInByThisFlow
<1> QED
  BY <1>1, Invariant, PTL

(* While the screen shows a flow under way, its task runs or how it ended is *)
(* among the messages that will count (begin_login, run_login_flow).         *)
THEOREM EveryFlowIsHeard == LoginSpec => []FlowIsHeard
<1>1. LoginIInv => FlowIsHeard
  BY DEF LoginIInv, TerminalOK
<1> QED
  BY <1>1, Invariant, PTL
----------------------------------------------------------------------------
(* The relay implements a box whose content is handed out once.              *)
Box == [f \in Flows |-> BoxOf(link[f])]

LEMMA BoxValues ==
  ASSUME NEW l \in Link
  PROVE  /\ l.is = "unborn" => BoxOf(l) = "unborn"
         /\ l.is = "expired" => BoxOf(l) = "closed"
         /\ l.is = "live" /\ l.code = NoCode => BoxOf(l) = "empty"
         /\ l.is = "live" /\ l.code = Consumed => BoxOf(l) = "taken"
         /\ l.is = "live" /\ l.code \in Codes => BoxOf(l) = "filled"
<1>1. l.is = "unborn" => BoxOf(l) = "unborn"
  BY DEF BoxOf
<1>2. l.is = "expired" => BoxOf(l) = "closed"
  BY DEF BoxOf
<1>3. l.is = "live" /\ l.code = NoCode => BoxOf(l) = "empty"
  BY DEF BoxOf
<1>4. l.is = "live" /\ l.code = Consumed => BoxOf(l) = "taken"
  BY DEF BoxOf
<1>5. l.is = "live" /\ l.code \in Codes => BoxOf(l) = "filled"
  BY DEF BoxOf
<1> QED
  BY <1>1, <1>2, <1>3, <1>4, <1>5

LEMMA BoxAt ==
  ASSUME NEW f \in Flows, \A g \in Flows \ {f} : link'[g] = link[g]
  PROVE  Box[f] = BoxOf(link[f]) /\ Box' = [Box EXCEPT ![f] = BoxOf(link'[f])]
<1>1. \A g \in Flows \ {f} : BoxOf(link[g])' = BoxOf(link[g])
  BY DEF BoxOf
<1>2. BoxOf(link[f])' = BoxOf(link'[f])
  BY DEF BoxOf
<1> QED
  BY <1>1, <1>2 DEF Box

LEMMA RegisterImplements ==
  ASSUME LoginIInv, attempt.at = "registering", handed' = handed,
         link' = [link EXCEPT ![gen].is = "live"]
  PROVE  gen \in Flows /\ Promise!Register(gen)
<1>1. gen \in Flows
  BY Attempts
<1>2. link[gen].is = "unborn" /\ link[gen].code = NoCode
  BY <1>1 DEF LoginIInv, RelayOK, LinksOK
<1>3. /\ link' \in [Flows -> Link] /\ link'[gen].is = "live"
      /\ link'[gen].code = NoCode
      /\ \A g \in Flows \ {gen} : link'[g] = link[g]
  BY <1>1, <1>2, LinkIs
<1>4. BoxOf(link[gen]) = "unborn" /\ BoxOf(link'[gen]) = "empty"
  BY <1>1, <1>2, <1>3, Attempts, BoxValues
<1>5. Box[gen] = "unborn" /\ Box' = [Box EXCEPT ![gen] = "empty"]
  BY <1>1, <1>3, <1>4, BoxAt
<1> QED
  BY <1>1, <1>5 DEF Box, Promise!Register, Promise!Move

LEMMA DoneWithCodeImplements ==
  ASSUME LoginIInv, NEW c \in Codes, DoneWithCode(c)
  PROVE  \E f \in Flows : Promise!Fill(f)
<1> DEFINE f == code[c].flow
<1>1. f \in Flows
  BY Attempts DEF DoneWithCode, Code
<1>2. link[f] \in Link /\ link[f].is = "live" /\ link[f].code # Consumed
  BY <1>1, Attempts DEF DoneWithCode, Live
<1>3. /\ link' \in [Flows -> Link] /\ link'[f].is = "live" /\ link'[f].code = c
      /\ \A g \in Flows \ {f} : link'[g] = link[g]
  BY <1>1, <1>2, LinkCode DEF DoneWithCode
<1>4. handed' = handed
  BY DEF DoneWithCode
<1> HIDE DEF f
<1>5. link[f].code = NoCode \/ link[f].code \in Codes
  BY <1>2 DEF Link
<1>6. BoxOf(link[f]) \in {"empty", "filled"} /\ BoxOf(link'[f]) = "filled"
  BY <1>1, <1>2, <1>3, <1>5, BoxValues
<1>7. Box[f] \in {"empty", "filled"} /\ Box' = [Box EXCEPT ![f] = "filled"]
  BY <1>1, <1>3, <1>6, BoxAt
<1> QED
  BY <1>1, <1>4, <1>7 DEF Box, Promise!Fill, Promise!Move

LEMMA ExpireImplements ==
  ASSUME LoginIInv, NEW f \in Flows, Expire(f)
  PROVE  Promise!Close(f)
<1>1. link[f] \in Link /\ link[f].is = "live"
  BY Attempts DEF Expire, Live
<1>2. /\ link' \in [Flows -> Link] /\ link'[f].is = "expired"
      /\ \A g \in Flows \ {f} : link'[g] = link[g]
  BY LinkIs DEF Expire
<1>3. \/ link[f].code = NoCode \/ link[f].code = Consumed
      \/ link[f].code \in Codes
  BY <1>1 DEF Link
<1>4. /\ BoxOf(link[f]) \in {"empty", "filled", "taken"}
      /\ BoxOf(link'[f]) = "closed"
  BY <1>1, <1>2, <1>3, BoxValues
<1>5. /\ Box[f] \in {"empty", "filled", "taken"}
      /\ Box' = [Box EXCEPT ![f] = "closed"]
  BY <1>2, <1>4, BoxAt
<1> QED
  BY <1>5 DEF Box, Expire, Promise!Close, Promise!Move

LEMMA DoneDeniedImplements ==
  ASSUME LoginIInv, NEW f \in Flows, DoneDenied(f)
  PROVE  Box' = Box /\ handed' = handed
<1>1. /\ link'[f].is = link[f].is /\ link'[f].code = link[f].code
      /\ \A g \in Flows \ {f} : link'[g] = link[g]
  BY LinkDenied DEF DoneDenied
<1>2. BoxOf(link'[f]) = BoxOf(link[f])
  BY <1>1 DEF BoxOf
<1>3. Box' = [Box EXCEPT ![f] = Box[f]]
  BY <1>1, <1>2, BoxAt
<1> QED
  BY <1>3 DEF Box, DoneDenied

LEMMA HandOutImplements ==
  ASSUME LoginIInv, NEW p \in polls, HandOut(p), link' # link \/ handed' # handed
  PROVE  \E f \in Flows : Promise!Take(f)
<1> DEFINE f == p.flow
<1>1. f \in Flows /\ p.read \in Codes
  BY PollFields DEF HandOut
<1>2. /\ Live(f) /\ link[f].code = p.read
      /\ link' = [link EXCEPT ![f].code = Consumed]
      /\ handed' = [handed EXCEPT ![f] = @ + 1]
  BY DEF HandOut
<1>3. link[f] \in Link /\ link[f].is = "live" /\ link[f].code \in Codes
  BY <1>1, <1>2, Attempts DEF Live
<1>4. /\ link' \in [Flows -> Link] /\ link'[f].is = "live"
      /\ link'[f].code = Consumed
      /\ \A g \in Flows \ {f} : link'[g] = link[g]
  BY <1>1, <1>2, <1>3, LinkCode
<1> HIDE DEF f
<1>5. BoxOf(link[f]) = "filled" /\ BoxOf(link'[f]) = "taken"
  BY <1>1, <1>3, <1>4, BoxValues
<1>6. Box[f] = "filled" /\ Box' = [Box EXCEPT ![f] = "taken"]
  BY <1>1, <1>4, <1>5, BoxAt
<1> QED
  BY <1>1, <1>2, <1>6 DEF Box, Promise!Take, Promise!Move

LEMMA StepImplements ==
  ASSUME LoginIInv, [LoginNext]_loginVars
  PROVE  Promise!Next \/ UNCHANGED <<Box, handed>>
<1> USE DEF Promise!Next
<1>1. ASSUME UNCHANGED <<link, handed>>
      PROVE  UNCHANGED <<Box, handed>>
  BY <1>1 DEF Box, BoxOf
<1>2. CASE \E mode \in Modes : Begin(mode)
  BY <1>1, <1>2 DEF Begin, relay
<1>3. CASE \E f \in Flows : Expire(f)
  BY <1>3, ExpireImplements
<1>4. CASE Serve
  <2>1. PICK p \in polls : ReadLink(p) \/ AnswerPlainly(p) \/ HandOut(p)
    BY <1>4 DEF Serve
  <2>2. CASE ReadLink(p) \/ AnswerPlainly(p)
    BY <1>1, <2>2 DEF ReadLink, AnswerPlainly
  <2>3. CASE HandOut(p)
    BY <1>1, <2>3, HandOutImplements
  <2> QED
    BY <2>1, <2>2, <2>3
<1>5. CASE Browse
  <2>1. CASE \E f \in Flows : DoneDenied(f)
    BY <2>1, DoneDeniedImplements
  <2>2. CASE \E f \in Flows, who \in Accounts : Approve(f, who)
    BY <1>1, <2>2 DEF Approve, relay
  <2>3. CASE \E c \in Codes : DoneWithCode(c)
    BY <2>3, DoneWithCodeImplements
  <2>4. CASE RedirectedDenied \/ \E c \in Codes :
               Redirected(c) \/ \E bare \in BOOLEAN : Pasted(c, bare)
    BY <1>1, <2>4 DEF RedirectedDenied, Redirected, Pasted, relay
  <2> QED
    BY <1>5, <2>1, <2>2, <2>3, <2>4 DEF Browse
<1>6. CASE FlowSteps
  <2>1. CASE Registered
    BY <2>1, RegisterImplements DEF Registered
  <2>2. CASE RegisterFails
    BY <1>1, <2>2, RegisterImplements DEF RegisterFails
  <2>3. CASE RouteMissing \/ Bound \/ NotBound \/ PollFails \/ TimesOut
    BY <1>1, <2>3 DEF RouteMissing, Bound, NotBound, PollFails, TimesOut, relay
  <2>4. CASE PollAgain \/ Exchanged \/ ExchangeFails
    BY <1>1, <2>4 DEF PollAgain, Exchanged, ExchangeFails, relay
  <2>5. CASE \E what \in {"complete", "unverified", "rejected"} : Verified(what)
    BY <1>1, <2>5 DEF Verified, relay
  <2> QED
    BY <1>6, <2>1, <2>2, <2>3, <2>4, <2>5 DEF FlowSteps
<1>7. CASE HandleMail
  BY <1>1, <1>7 DEF HandleMail, relay
<1>8. CASE UNCHANGED loginVars
  BY <1>1, <1>8 DEF loginVars, relay
<1> QED
  BY <1>2, <1>3, <1>4, <1>5, <1>6, <1>7, <1>8 DEF LoginNext

(* The relay of short links hands out the code of a link once at most, and   *)
(* only while the link lives: its two statements, its reloads and its lost    *)
(* answers implement the box (LinkStore::attachCode, consumeCode).           *)
THEOREM RelayHandsOutOnce == LoginSpec => HandsOutOnce
<1>1. LoginInit => Promise!Init
  BY DEF LoginInit, Promise!Init, BoxOf
<1>2. LoginIInv /\ [LoginNext]_loginVars
        => [Promise!Next]_<<[f \in Flows |-> BoxOf(link[f])], handed>>
  BY StepImplements DEF Box
<1> QED
  BY <1>1, <1>2, Invariant, PTL DEF LoginSpec, HandsOutOnce, Promise!Spec
=============================================================================
