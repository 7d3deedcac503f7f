------------------------------ MODULE Updates ------------------------------
(***************************************************************************)
(* Self update: the terminals of one machine share a directory of staged    *)
(* releases and the executable they were started from.  A check downloads   *)
(* the feed's release and stages it; the next start swaps it over the        *)
(* executable, before the terminal is touched.  A process may die anywhere, *)
(* and the kernel drops its lock with it.                                    *)
(***************************************************************************)
EXTENDS Integers, FiniteSets

CONSTANTS
  Procs,    \* the terminals, all started from the same path
  Nobody,   \* no process: the lock is free
  Newest    \* bound: versions are 1..Newest, in their SemVer order

ASSUME UpdatesAssumption ==
  /\ Nobody \notin Procs
  /\ Newest \in Nat \ {0}

VARIABLES
  place,   \* what classify_exe and install_dir_writable say of the path
  exe,     \* the version at the path, None when there is no file
  new,     \* <exe>.new
  old,     \* <exe>.old
  gens,    \* how many complete generations of a version are staged
  feed,    \* the release the feed names
  lock,    \* who holds the update lock
  proc     \* the terminals

updateVars == <<place, exe, new, old, gens, feed, lock, proc>>

Versions == 1..Newest
None == 0
Partial == -1      \* a copy that was cut short

\* An executable renamed over, one renamed aside, a directory that is not
\* the reader's, and a package directory.
Places == {"over", "aside", "readonly", "package"}

\* What the header chip tells the reader about a version.
Chip == [says: {"nothing", "checking", "staged", "applied", "elsewhere"},
         version: 0..Newest]
Quiet == [says |-> "nothing", version |-> None]
Says(what, v) == [says |-> what, version |-> v]

\* The start-up pass, then the session; and the check of a session.
StartStages == {"off", "started", "copying", "copied", "aside", "swapped",
                "on"}
CheckStages == {"none", "asked", "fetched", "download", "downloaded",
                "staging"}

Proc == [at: StartStages, image: 0..Newest, pick: 0..Newest, chip: Chip,
         check: CheckStages, latest: 0..Newest]
Loaded(at, image) ==
  [at |-> at, image |-> image, pick |-> None, chip |-> Quiet,
   check |-> "none", latest |-> None]
Off == Loaded("off", None)

UpdateTypeOK ==
  /\ place \in Places
  /\ exe \in 0..Newest /\ old \in 0..Newest
  /\ new \in {Partial, None} \cup Versions
  /\ gens \in [Versions -> Nat]
  /\ feed \in Versions
  /\ lock \in Procs \cup {Nobody}
  /\ proc \in [Procs -> Proc]

UpdateInit ==
  /\ place \in Places
  /\ exe = 1 /\ new = None /\ old = None
  /\ gens \in [Versions -> {0, 1}]     \* what earlier sessions left
  /\ feed \in Versions
  /\ lock = Nobody
  /\ proc = [p \in Procs |-> Off]

\* The next release goes with the one that runs.
PrunedTooFar(current) ==                               \* mutant
  [v \in Versions |-> IF v <= current + 1 THEN 0 ELSE gens[v]]

\* load_pending: what is no longer newer than the running version goes.
Pruned(current) == [v \in Versions |-> IF v <= current THEN 0 ELSE gens[v]]
Staged(G) == {v \in Versions : G[v] > 0}
NewestPending(v, G) == v \in Staged(G) /\ \A w \in Staged(G) : w <= v

Files == <<exe, new, old>>

\* The session begins; a check of its own is due unless it applied one.
Running(r, chip) ==
  [r EXCEPT !.at = "on", !.pick = None,
            !.chip = IF chip.says = "applied" THEN chip
                     ELSE Says("checking", None),
            !.check = IF chip.says = "applied" THEN "none" ELSE "asked"]
-----------------------------------------------------------------------------
(* The operating system loads the image; main then runs the pass. *)
Start(p) ==
  /\ proc[p].at = "off" /\ exe # None
  /\ proc' = [proc EXCEPT ![p] = Loaded("started", exe)]
  /\ UNCHANGED <<place, Files, gens, feed, lock>>

(* apply_pending_update: the lock is tried, never waited for. *)
ApplyLater(p) ==
  /\ proc[p].at = "started" /\ lock # Nobody
  /\ proc' = [proc EXCEPT ![p] = Running(@, Quiet)]
  /\ UNCHANGED <<place, Files, gens, feed, lock>>

NothingPending(p) ==
  /\ proc[p].at = "started" /\ lock = Nobody
  /\ Staged(Pruned(proc[p].image)) = {}
  /\ gens' = Pruned(proc[p].image)
  /\ old' \in {None, old}
  /\ proc' = [proc EXCEPT ![p] = Running(@, Quiet)]
  /\ UNCHANGED <<place, exe, new, feed, lock>>

Refused(p) ==
  /\ proc[p].at = "started" /\ lock = Nobody
  /\ place \in {"package", "readonly"}
  /\ LET G == Pruned(proc[p].image)
     IN \E v \in Versions :
          /\ NewestPending(v, G)
          /\ gens' = IF place = "readonly" THEN G ELSE [G EXCEPT ![v] = @ - 1]
  /\ proc' = [proc EXCEPT ![p] = Running(@, Quiet)]
  /\ UNCHANGED <<place, Files, feed, lock>>

\* The lock is given back before the files are touched.
PickNewestUnlocked(p) ==                               \* mutant
  /\ proc[p].at = "started" /\ lock = Nobody
  /\ place \in {"over", "aside"}
  /\ LET G == Pruned(proc[p].image)
     IN \E v \in Versions :
          /\ NewestPending(v, G)
          /\ gens' = G
          /\ proc' = [proc EXCEPT ![p] = [@ EXCEPT !.at = "copying",
                                                   !.pick = v]]
  /\ new' = None
  /\ UNCHANGED <<place, exe, old, feed, lock>>

PickNewest(p) ==
  /\ proc[p].at = "started" /\ lock = Nobody
  /\ place \in {"over", "aside"}
  /\ LET G == Pruned(proc[p].image)
     IN \E v \in Versions :
          /\ NewestPending(v, G)
          /\ gens' = G
          /\ proc' = [proc EXCEPT ![p] = [@ EXCEPT !.at = "copying",
                                                   !.pick = v]]
  /\ lock' = p
  /\ new' = None
  /\ UNCHANGED <<place, exe, old, feed>>
-----------------------------------------------------------------------------
(* install_over, one file operation at a time. *)
At(p, stage) == proc' = [proc EXCEPT ![p] = [@ EXCEPT !.at = stage]]

\* Bound: nobody is between being loaded and trying the lock when the
\* executable is replaced.  (A process that stood there through a sibling's
\* whole swap would take itself for current and install what it finds staged.)
NobodyStarts == \A p \in Procs : proc[p].at # "started"

\* A step that fails gives the lock back and leaves the session to check.
GiveUp(p) ==
  /\ lock' = Nobody
  /\ proc' = [proc EXCEPT ![p] = Running(@, Quiet)]

CopyBegins(p) ==
  /\ proc[p].at = "copying" /\ new = None
  /\ new' = Partial
  /\ UNCHANGED <<place, exe, old, gens, feed, lock, proc>>

CopyEnds(p) ==
  /\ proc[p].at = "copying" /\ new = Partial
  /\ new' = proc[p].pick
  /\ At(p, "copied")
  /\ UNCHANGED <<place, exe, old, gens, feed, lock>>

CopyFails(p) ==
  /\ proc[p].at = "copying" /\ new = Partial
  /\ GiveUp(p)
  /\ UNCHANGED <<place, Files, gens, feed>>

RenameOver(p) ==
  /\ proc[p].at = "copied" /\ place = "over" /\ NobodyStarts
  /\ exe' = new /\ new' = None
  /\ At(p, "swapped")
  /\ UNCHANGED <<place, old, gens, feed, lock>>

RenameAside(p) ==
  /\ proc[p].at = "copied" /\ place = "aside" /\ NobodyStarts
  /\ old' = exe /\ exe' = None
  /\ At(p, "aside")
  /\ UNCHANGED <<place, new, gens, feed, lock>>

RenameFails(p) ==
  /\ proc[p].at = "copied"
  /\ new' = None
  /\ old' = IF place = "aside" THEN None ELSE old
  /\ GiveUp(p)
  /\ UNCHANGED <<place, exe, gens, feed>>

RenameIn(p) ==
  /\ proc[p].at = "aside" /\ NobodyStarts
  /\ exe' = new /\ new' = None
  /\ old' \in {None, old}
  /\ At(p, "swapped")
  /\ UNCHANGED <<place, gens, feed, lock>>

\* The old file is put back, if that rename does not fail too.
RenameInFails(p) ==
  /\ proc[p].at = "aside" /\ NobodyStarts
  /\ \/ exe' = old /\ old' = None
     \/ UNCHANGED <<exe, old>>
  /\ new' = None
  /\ GiveUp(p)
  /\ UNCHANGED <<place, gens, feed>>

Applied(p) ==
  /\ proc[p].at = "swapped"
  /\ gens' \in {gens, [gens EXCEPT ![proc[p].pick] = @ - 1]}
  /\ lock' = Nobody
  /\ proc' = [proc EXCEPT ![p] = Running(@, Says("applied", @.pick))]
  /\ UNCHANGED <<place, Files, feed>>
-----------------------------------------------------------------------------
(* check_and_stage, in the session. *)
Told(p, chip) ==
  proc' = [proc EXCEPT ![p] = [@ EXCEPT !.chip = chip, !.check = "none",
                                        !.latest = None]]

\* staged_outcome.
StagedOutcome(v) == Says(IF place = "readonly" THEN "elsewhere" ELSE "staged",
                         v)

(* g u, when nothing known already answers it. *)
CheckNow(p) ==
  /\ proc[p].at = "on" /\ proc[p].chip = Quiet
  /\ proc' = [proc EXCEPT ![p] = [@ EXCEPT !.chip = Says("checking", None),
                                           !.check = "asked"]]
  /\ UNCHANGED <<place, Files, gens, feed, lock>>

(* Throttled, rate limited, offline, a draft; a download that is refused or *)
(* cut short, or whose sum does not match; a stage that cannot be written.  *)
CheckFails(p) ==
  /\ proc[p].check \in {"asked", "download", "staging"}
  /\ lock' = IF lock = p THEN Nobody ELSE lock
  /\ Told(p, Quiet)
  /\ UNCHANGED <<place, Files, gens, feed>>

FeedAnswers(p) ==
  /\ proc[p].check = "asked"
  /\ proc' = [proc EXCEPT ![p] = [@ EXCEPT !.check = "fetched",
                                           !.latest = feed]]
  /\ UNCHANGED <<place, Files, gens, feed, lock>>

UpToDate(p) ==
  /\ proc[p].check = "fetched" /\ proc[p].latest <= proc[p].image
  /\ lock = Nobody
  /\ gens' = Pruned(proc[p].image)
  /\ Told(p, Quiet)
  /\ UNCHANGED <<place, Files, feed, lock>>

Available(p) ==
  /\ proc[p].check = "fetched" /\ proc[p].latest > proc[p].image
  /\ place = "package"
  /\ Told(p, Says("elsewhere", proc[p].latest))
  /\ UNCHANGED <<place, Files, gens, feed, lock>>

\* Under the lock, before the download.
AlreadyStaged(p) ==
  /\ proc[p].check = "fetched" /\ proc[p].latest > proc[p].image
  /\ place # "package" /\ lock = Nobody
  /\ gens' = Pruned(proc[p].image)
  /\ IF gens[proc[p].latest] > 0
     THEN Told(p, StagedOutcome(proc[p].latest))
     ELSE proc' = [proc EXCEPT ![p] = [@ EXCEPT !.check = "download"]]
  /\ UNCHANGED <<place, Files, feed, lock>>

Downloaded(p) ==
  /\ proc[p].check = "download"
  /\ proc' = [proc EXCEPT ![p] = [@ EXCEPT !.check = "downloaded"]]
  /\ UNCHANGED <<place, Files, gens, feed, lock>>

LockToStage(p) ==
  /\ proc[p].check = "downloaded" /\ lock = Nobody
  /\ lock' = p
  /\ proc' = [proc EXCEPT ![p] = [@ EXCEPT !.check = "staging"]]
  /\ UNCHANGED <<place, Files, gens, feed>>

\* Nobody looks again after the download.
StageAgain(p) ==                                       \* mutant
  /\ proc[p].check = "staging"
  /\ gens' = [Pruned(proc[p].image) EXCEPT ![proc[p].latest] = @ + 1]
  /\ Told(p, StagedOutcome(proc[p].latest))
  /\ lock' = Nobody
  /\ UNCHANGED <<place, Files, feed>>

\* A sibling may have staged the same version meanwhile.
Stage(p) ==
  /\ proc[p].check = "staging"
  /\ LET v == proc[p].latest
         G == Pruned(proc[p].image)
     IN /\ gens' = IF G[v] > 0 THEN G ELSE [G EXCEPT ![v] = @ + 1]
        /\ Told(p, StagedOutcome(v))
  /\ lock' = Nobody
  /\ UNCHANGED <<place, Files, feed>>
-----------------------------------------------------------------------------
(* The process is closed, killed, or loses its power, at any instruction. *)
Die(p) ==
  /\ proc[p].at # "off"
  /\ proc' = [proc EXCEPT ![p] = Off]
  /\ lock' = IF lock = p THEN Nobody ELSE lock
  /\ UNCHANGED <<place, Files, gens, feed>>

Release ==
  /\ feed < Newest /\ feed' = feed + 1
  /\ UNCHANGED <<place, Files, gens, lock, proc>>

UpdateNext ==
  \/ Release
  \/ \E p \in Procs :
       \/ Start(p) \/ ApplyLater(p) \/ NothingPending(p) \/ Refused(p)
       \/ PickNewest(p) \/ CopyBegins(p) \/ CopyEnds(p) \/ CopyFails(p)
       \/ RenameOver(p) \/ RenameAside(p) \/ RenameFails(p) \/ RenameIn(p)
       \/ RenameInFails(p) \/ Applied(p) \/ Die(p)
       \/ CheckNow(p) \/ CheckFails(p) \/ FeedAnswers(p) \/ UpToDate(p)
       \/ Available(p) \/ AlreadyStaged(p) \/ Downloaded(p)
       \/ LockToStage(p) \/ Stage(p)

UpdateSpec == UpdateInit /\ [][UpdateNext]_updateVars
-----------------------------------------------------------------------------
(* There is always a complete executable to start: at the path, or, when a  *)
(* swap that renames it aside was cut short, next to it.                     *)
AlwaysAnExecutable ==
  exe \in Versions \/ (place = "aside" /\ old \in Versions)

(* No version is ever staged twice, however many terminals find, download   *)
(* and stage it at once.                                                     *)
StagedOnce == \A v \in Versions : gens[v] <= 1

\* What the reader has: a swap that was cut short left it aside.
Installed == IF exe = None THEN old ELSE exe

(* What the header chip promises is what a restart delivers: a version it   *)
(* calls staged is still staged, or already installed; one it calls applied *)
(* is installed.                                                             *)
ChipIsTrue ==
  \A p \in Procs :
    LET v == proc[p].chip.version
    IN /\ proc[p].chip.says = "staged" => Installed >= v \/ gens[v] > 0
       /\ proc[p].chip.says = "applied" => Installed >= v
=============================================================================
