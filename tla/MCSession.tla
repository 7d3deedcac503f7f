----------------------------- MODULE MCSession -----------------------------
(* Instances of Session for TLC. *)
EXTENDS Session, TLC

\* Requests of a kind are alike, and so are checks, sign-outs and members.
Alike == Permutations(Loads) \cup Permutations(Writes) \cup Permutations(Checks)
           \cup Permutations(Logouts) \cup Permutations(Accounts)

\* Generations are only compared with the current one of their kind; those of
\* no task are 0.
Current(gen, now) == IF gen = now THEN 1 ELSE 0
Seen(task, now) == IF task.at = "none" THEN task ELSE [task EXCEPT !.gen = Current(@, now)]
OfKind(kind) == CASE kind \in {"bootstrap", "verified"} -> app.bootstrap
                  [] kind = "login" -> app.login
                  [] OTHER -> app.session

UpToGenerations ==
  <<file, server,
    [app EXCEPT !.session = 1, !.bootstrap = 1, !.login = 1,
       !.request = [t \in Requests |-> Seen(@[t], app.session)],
       !.check = [k \in Checks |-> Seen(@[k], app.bootstrap)],
       !.flow = Seen(@, app.login),
       !.signout = [o \in Logouts |-> Seen(@[o], app.session)]],
    [i \in DOMAIN queue |->
       [queue[i] EXCEPT !.gen = Current(@, OfKind(queue[i].kind))]]>>
=============================================================================
