# A verification development of forumtui

forumtui is a terminal client for XenForo forums: a Rust workspace with a
library (`common`) and the terminal program (`wftui`), and a XenForo add-on
(`addon/`) that relays drafts and logins. This directory holds TLA+ modules of
its concurrent and stateful parts, the TLC runs that check them on small
instances, and TLAPS proofs of the theorems that hold for every instance.

## 1. Inventory

| Component | State | Operations | Talks to | Hard behaviours | Correct when |
|---|---|---|---|---|---|
| Draft store (`common/src/drafts.rs`) | one JSON file per site: owner, drafts, owed operations, per-slot fences, a revision counter | `activate`, `apply`, `relay_work`, `settle`, `merge_remote`, `erase`, `snapshot`, migration | every terminal on the machine, through a file lock | several processes, eviction at a limit, migration, counter width, foreign or broken files | operations are never reused or confused; an owed save has its words; a merge costs no unsynced words |
| Draft relay (`wftui/src/app/mod.rs`, `session.rs`, `msg.rs`, `actions.rs`) | drafts, pending operations, mutation fences of one process; sync and relay tasks | stash, discard, mirror a submission, `relay_draft`, `sync_drafts`, `merge_remote_drafts`, `select_draft_owner`, `clear_all_drafts`, end of session, exit | draft store, website, sibling processes through per-slot locks | races between lists, saves and acknowledgments; refused and lost requests; failing disk; session ends; account changes | no intent is forgotten or overtaken; words stay with their account; tasks end |
| Website side of the relay (`DraftController.php`) | a draft per member and slot | list, save, delete | terminals, the browser's editor | last writer wins | external, modelled as used |
| Token store (`common/src/token.rs`) | the grant file | load, save, compare-and-replace, compare-and-erase, quarantine | sibling processes | compare and replace under a lock, crash leftovers, corrupt file | no process overwrites or erases a newer grant |
| API session (`common/src/api.rs`) | cached grant, candidate grant, pause flag | `valid_token`, refresh, forget, verify and commit a recovered session | token store, gates, OAuth endpoint | single-use refresh tokens shared by siblings | a rejected refresh never destroys a sibling's good grant |
| Pacing (`common/src/ratelimit.rs`) | per gate: next free time, penalty | wait for one or several gates, penalise, poll | every request | lock order, reservation of several gates, arithmetic on clocks | spacing and penalties respected; no deadlock |
| Session lifecycle (`wftui/src/app/session.rs`, `msg.rs`) | generations of sessions, checks and logins; recovery window; retry prompt; tasks and message queue | begin, end, bootstrap, recheck, verify, recover, retry, log in, log out, one boundary for every failed call | all of the above | results of ended sessions, verdicts after a deadline, aborted tasks that still report, identity change under a session | nothing of an ended session acts; nothing waits for ever; there is always a way on |
| OAuth login (`common/src/oauth.rs`, `app/mod.rs` `begin_login`) | the flow of the latest login generation, its mode, its state and PKCE pair; the login screen | register a link, poll it, bind a listener, take a redirect or a pasted text, exchange, time out | add-on, browser, OAuth server | a flow given up while its answers are on their way, tabs of earlier flows | the member who is signed in approved the flow on the screen; no flow ends unheard |
| Account link (add-on `LinkStore`, `LinkController`, `StartController`, `DoneController`) | a row per link: code, denied, expiry | create, attach, consume by compare-and-clear, deny | terminals, browsers | polls read and clear in two statements; lost answers; reloaded tabs | a code is handed out once |
| Self update (`common/src/update.rs`, `app/update.rs`) | staged generations per version, the executable and the files next to it, a lock; a header chip per terminal | check, stage, prune, apply at the next start | sibling processes, the release feed | several processes over one executable; a process dies between two renames | there is always an executable; nothing is staged twice; the chip is true |
| Ask AI (`common/src/ai.rs`, `screens/ask.rs`, `actions.rs`) | chats on the stack, the one task, `ask_generation` | ask, stop, new chat, leave, ask again with the transcript | the add-on's proxy | frames of an aborted stream, chats buried under others, a session that ends | what stands under a question answers it; nothing streams that nobody waits for |
| Thread lists (`app/mod.rs`, `msg.rs`, `screens/browse.rs`) | node, window of pages, load sequence number, per list on the stack | open, page, fill, create a thread | API | replies out of order, a fill that extends a window since replaced | the rows are one window of one forum |
| Thread views (the same, `actions.rs`) | page, load id, kept place, writes under way | open, turn pages, reply, edit, like, delete | API | replies out of order, refused pages, a place kept for a view that is gone | a view that loads has its load on the way; a fresh one starts at the top |
| Inbox (`msg.rs`, `actions.rs`, `screens/social.rs`) | two lists, a pane, the mark of viewed alerts; conversations, replies, the form that starts one | open, switch, reload, mark, reply, submit | API | a list crosses a mark; names looked up one by one; rechecks in between | a conversation is started once, with the recipients confirmed; only what was meant is marked |
| Images (`images.rs`, `actions.rs`) | decoded pictures, requests under way, failures; files shared by terminals and sessions | demand of a frame, fetch, decode, retry, reset | website, disk | answers of earlier sessions, junk on disk, limits | private pictures stay with their session; what is wanted can come |
| Other screens and forms (`screens/*`) | search, library, profile, setup | open, load, submit | API | results of superseded loads | as thread lists |
| Editor, site resolution | see code | | | limits, arithmetic | pure or local |
| Markup, HTTP, terminal I/O, the add-on's AI proxy, packaging | | | | | not modelled |

`PROJECT.json` lists every component with its status and every hazard with the
line where it bites and the properties aimed at it.

## 2. Modules

| Module | Models | State |
|---|---|---|
| `DraftFile` | the data of the draft file and each `Store` call as a function from file to file | none |
| `DraftStore` | the file under any sequence of calls | `store` |
| `DraftFileProofs` | what each call of `DraftFile` keeps and bounds, for both proof modules below | |
| `DraftStoreProofs` | the theorems of `DraftStore` | |
| `DraftSync` | terminals, their tasks, the website and a browser over one draft file | see below |
| `DraftSyncProofs` | the inductive invariant and theorems of `DraftSync`, and that it implements `DraftStore` | |
| `Gates` | the pacing of requests: gates, their mutexes, penalties | see below |
| `Grants` | the token file, each terminal's client and recovery candidate, the OAuth server | see below |
| `GrantsProofs` | the inductive invariant and theorems of `Grants` | |
| `Session` | the App of one terminal, its tasks, and the queue their results come back through | see below |
| `SessionProofs` | the inductive invariant and theorems of `Session` | |
| `Updates` | terminals that share an executable and a directory of staged releases | see below |
| `Login` | login flows, browsers, the website's links, the OAuth server's codes | see below |
| `OneTimeCode` | what the relay of links promises; `Login` implements it | `box`, `handed` |
| `ServiceProofs` | the inductive invariants and theorems of `Gates`, `Updates` and `Login`, and that `Login` implements `OneTimeCode` | |
| `ThreadList` | the lists on the screen stack and their loads | see below |
| `ThreadView` | the thread views on the screen stack, their loads and writes | see below |
| `Inbox` | the Inbox, conversations, the form that starts one, and what the website records | see below |
| `AskAi` | chats, the task that streams an answer, its frames | see below |
| `ConversationProofs` | the inductive invariants and theorems of `AskAi` and `Inbox` | |
| `Images` | demand, workers, decoded pictures, the files on disk | see below |
| `ScreensProofs` | the inductive invariants and theorems of `ThreadList`, `ThreadView` and `Images` | |
| `MCDraftStore`, `MCDraftSync`, `MCGates`, `MCGrants`, `MCSession`, `MCTerminal` | the instances TLC runs | |

### DraftFile and DraftStore

Each `Store` call takes the file's lock, reads, changes and renames a new file
in place, so a call is one step and its effect is an operator
(`AfterActivate`, `AfterApply`, `AfterSettle`, `AfterMerge`, `AfterErase`);
`ReadLocked` is what every call starts from, with the migration of version 2
and the treatment of foreign and broken files. A call that fails after reading
leaves what `ReadLocked` left (`Inspect`).

Abstractions. A slot (`DraftKey`) is a number, ordered as its on-disk name;
`RemoteKeys` are the slots with an `xf_key`, all but edits. A text is a number:
texts typed later have larger ones, which is also their `saved_at`. Title,
label, attachment key and the edit fields travel with their text. `BigWords`
are the texts above `MAX_DRAFT_BYTES`, `None` is the empty text. `MaxDrafts` is
`MAX_DRAFTS`; `MaxRevision` is the last value of the 64-bit counter, which the
code refuses to pass, so that bound is the program's own.

`DraftStore` is the abstract specification: it says what the file may go
through without saying which process calls what and when.

### DraftSync

| Variable | Code |
|---|---|
| `store`, `diskOk` | `drafts.json`; whether it can be written |
| `app[p]` | `drafts`, `draft_owner`, `draft_epoch`, `draft_mutations`, `draft_operations`, `drafts_relay_absent` of `struct App`, and whether the session is live |
| `sync[p]` | the task of `sync_drafts`, then the list in `Msg::DraftsLoaded`, then its handler |
| `request[w]` | one `relay_draft_operation`: of the retry loop (slot 0) or of a `relay_draft` |
| `web`, `clock` | the website's rows; the number of texts so far |
| `intent`, `author` | auxiliary: when a slot's durable intent was formed; under whose account a text is typed |

`StashDraft`, `DiscardDraft` are the composer's exits; `relay = FALSE` is the
mirror of a submission in flight. `GoLive` is `select_draft_owner` and
`start_pollers`, with the erasure a changed identity brings. `EndSession`,
`SignOut`, `Exit` are the three ways out, which keep the composer still open.
`StartWork`/`Begin`, `WebsiteActs`, `SettleWork`, `LoseWork`, `RelayMissing`
are the life of a request; `SaveShield`, `TakeWork`, `RetryNext`, `AskList`,
`ListArrives`, `Merge`, `MergeEnds` are a sync. A merge handles one listed
draft a step, because other processes may write the file between two of them;
key presses of the same process wait (`Attentive`).

`Faults` names what the environment may do in a run: refuse a draft, lack the
relay, fail a request, fail the disk, exit, expire, sign out.

Known limits, beyond the abstractions of `DraftFile`:
- at most one composer is kept when a session ends; the code can hold several
  under other screens, each kept in the same way;
- a process runs one `sync_drafts` at a time: a second verification of a live
  session waits for the first to end;
- a `relay_draft` whose slot still has a waiting task of the same process takes
  that task's place: the first would find its revision superseded and end;
- a request whose task ended is never carried out later;
- an answer that changes the account goes through `GoLive` in one step
  (erase, then activate), as the handler does without awaiting.

### Gates

A gate is a number, its address, because `schedule` sorts gates by address.
`nextFree`, `penalty` and `holder` are a gate's `State` and who holds its mutex;
`req` is what each request is doing; `imposed` is auxiliary, the penalties so far.
`Lock` takes one mutex, `Probe` is `schedule(gates, false)` once all are taken,
`Claim` and `Reserve` are the check and the write of `schedule(gates, true)`,
`Proceed` and `Renew` are what `dispatch_token` does after the wait (claim the
slots, or start over because the token ran out meanwhile), `Abort` is a task
aborted while it sleeps or between two calls, `Answer` and `Penalize` are an
answer whose `Retry-After`, or whose success on a write, closes gates one by one.

The clock counts units and cannot represent instants past `LastInstant`;
`Fallback` stands for the minute `penalize` falls back to. `EndOfTime` and
`LastEvent` bound a run. `Prompt` makes the clock stand still while code can
run: `waits` needs it, since without it every slot could be found taken again
for ever, which is no deadlock of the code but a busy site; `gates` does not use
it, so that time may pass between any two steps. `pending_wait` only reads.

### Grants

| Variable | Code |
|---|---|
| `file` | `token.json`: a grant, nothing, one that does not parse (`Corrupt`), one for another site or client (`Foreign`) |
| `server` | what the OAuth server issued to whom, which refresh tokens it honours, which access tokens are revoked or ran out |
| `client[c]` | a `WfApiClient`: the main one of a terminal, and the private one of a recovery; the grant in memory and where the holder of the token mutex is in `valid_token` |
| `app[p]` | who the terminal shows, `requests_paused`, the stage of a recovery, `RecoveryTokens`, a login's grant not saved yet, a sign-out under way; `gained` is auxiliary |

A grant is the number of its access token, and its refresh token is a number as
well, that of the grant it first came with; `None` is a grant without one. Each
call of `token::Store` works under the store lock and is one step; a call made of
two (`load`, then `quarantine_*`; load, then `erase_if_refresh_token`) is two.
`valid_token` is `Enter`, the server's decision (`ServerRefreshes`,
`ServerRejects`), then `KeepRefreshed`, or `CheckSibling` and `ForgetRejected`.
A recovery is `Recheck`, `PrepareCandidate`, the candidate's own refreshes,
`VerifyRecovery` and `RecoveryVerified` (commit), which `RecoveryTimesOut` may cut
short anywhere. A login is `Exchange`, `SetTokens` or `LoginFails`, then `Restore`;
a sign-out `Logout`, `TakeTokens`, `Revoke`.

`Events` names what may happen in a run besides starts and requests: lost
requests and answers, failing disks, servers that omit `refresh_token`, exits,
sign-ins, sign-outs, abandoned logins.

Known limits:
- one refresh at a time per client (the token mutex), one candidate and at most
  one request that slipped past the pause check (`queued`) per terminal;
- a terminal signs out again only after its previous revocations ended;
- access tokens run out in the order of issue, `MaxGrant` of them in all;
- a commit waits while the old client's task is between the rejection and the
  erasure, a stretch without an await; a sibling's steps may fall in it;
- the requests that carry the tokens are not modelled, only `/me`.

### Session

| Variable | Code |
|---|---|
| `file` | the grant in `token.json`, which siblings change |
| `server` | the grants issued, to whom, and those revoked |
| `app` | `struct App`: `me`, the top screen (`top`), `session_generation`, `bootstrap_generation`, `login_generation` (`session`, `bootstrap`, `login`), `recheck_tried` (`tried`), the recovery window (`pending`), the retry prompt (`retry`), `logout_pending` (`leaving`); the client's grant and `requests_paused`; which requests a screen waits for (`busy`), whose data it shows (`shows`); and its tasks: `request`, `check` (a restore or a recheck), `flow` (a login), `signout` |
| `queue` | the messages sent and not handled, first in first out |

A task's result is one message with the generation its task started under;
`Handle` is `handle_msg`, whose arms compare that with the current one
(`HandleResult`, `HandleBootstrap`, `HandleVerified`, `HandleLogin`,
`HandleSignOut`). `Judged` is the boundary all failures pass: a 401 or a missing
token starts one recheck of the stored grant (`RecheckStoredSession`), and only
the second verdict, or a definitive one, ends the session (`EndSession`). A
recheck is `PrepareCandidate`, `VerifyRecovery`, and the commit in
`HandleVerified`. An aborted recheck still reports, because its `ReportGuard` is
dropped with it (`ReportDropped`). `Dispatch` and `Answer` are the two ends of a
request, `Refresh` its rotation of the grant, `Sibling` what happens to file and
server from outside.

`Loads` are the requests that are aborted with the session's tasks, `Writes`
those a composer keeps until they are answered, so that only what ends the
session aborts them.

Abstractions and known limits:
- one client record stands for the client before and after a commit: what
  replaces a client also aborts every task that used the old one;
- a rotation by the terminal itself, and the rejection of one, are single steps;
  how they interleave with siblings is the subject of `Grants`;
- a verified candidate is the grant on disk, its own rotation is in `Grants`;
- time is abstract: the recovery deadline may pass at any moment of its window,
  which covers every length of it;
- generations only grow; the view of `MCSession` keeps of each whether it is the
  current one of its kind, which is all the code asks;
- a handler that starts a check waits while `Checks` of them run, a task waits to
  report while `MaxQueue` messages wait;
- the polling intervals, changes of site (`setup_site`, `adopt_site`) and the
  drafts, which `DraftSync` has, are left out.

### Updates

| Variable | Code |
|---|---|
| `place` | what `classify_exe` and `install_dir_writable` say of the path: a rename over the executable works, it must be moved aside first (Windows), or the update is refused |
| `exe`, `new`, `old` | the file at the path, `<exe>.new`, `<exe>.old`: a version, nothing, or a copy cut short |
| `gens` | complete generation directories per version |
| `feed`, `lock` | the release the feed names; `UpdateLock` |
| `proc` | each terminal: where it is in `apply_pending_update`, `install_over` or `check_and_stage`, the version of its own image, what its check found, its chip |

Every file operation is an action, and `Die` may come between any two; the kernel
drops the lock. Versions are numbers in SemVer order. Checksums, the size limit
and the throttle are ways `CheckFails` happens, or its guard.

Bound `NobodyStarts`: no terminal is between being loaded by the kernel and trying
the lock while another replaces the executable. In the code that stretch is the
first lines of `main`. A process that stayed in it through a sibling's whole swap
would take itself for current; it may then put a version staged late over a newer
one, and where the executable is moved aside, after a sibling died between its two
renames, remove the only copy left. The properties and the theorems hold under
this bound.

### Login and OneTimeCode

| Variable | Code |
|---|---|
| `gen`, `login`, `me` | `login_generation`; the login screen; who the terminal is signed in as |
| `attempt` | `run_login_flow` of the latest generation; an older one is aborted, but what it sent stays in `mail` |
| `mail` | the messages of flows, first in first out, each with its generation |
| `link`, `polls` | the website's record of each flow's link; the polls it serves, those nobody waits for included |
| `code`, `handed` | the codes of the OAuth server; auxiliary: how many answers carried a link's code |

A poll is three steps: it arrives, `ReadLink` reads the row, `HandOut` is the
compare-and-clear of `consumeCode`. Tabs may be reloaded at any time and by any
account. The random state and the PKCE pair are abstracted to the flow they belong
to: a redirect or an address with another state is ignored, a code of another
flow is not exchanged. `Promise == INSTANCE OneTimeCode WITH Links <- Flows, box
<- ...` maps a link's row to a box that is unborn, empty, filled, taken or closed;
`HandsOutOnce` is `Promise!Spec`.

### ThreadList

| Variable | Code |
|---|---|
| `stack` | Home's list, the lists pushed over it, other screens: `node`, `page`, `loaded`, `last`, the load's number (`seq`), the fill's `budget`, `loading`, `error`, and the rows, by blocks (`held`) |
| `flight`, `nextSeq` | requests, each with its node, page, sequence number and whether it extends; `next_list_seq` |

One block of rows is one page of one load; `Height` is how many blocks fill a
screen and `FillBudget` how many pages a fill may add. The selection is left out: it
only bounds when a fill is wanted, which any frame may do.

### ThreadView

| Variable | Code |
|---|---|
| `views` | views, composers and other screens over Home |
| `loads`, `nextLoad` | page requests under way; `next_load_id` |
| `keep` | `keep_thread_position` |
| `writes` | likes, deletions, replies and edits on their way, by thread |

`Twins = FALSE` in the run: one thread is not open twice on the stack; section 6
says what happens when it is.

### Inbox

| Variable | Code |
|---|---|
| `pile` | the screens over Home: Inboxes (tab, pane, two lists with their load ids, `alerts_viewed`, `alerts_view_pending`, `alerts_view_id`), conversations, forms, replies, others |
| `calls`, `nextCall` | requests until their answer is handled; `next_load_id` |
| `epoch`, `paused` | `session_generation`; requests are paused while a session is rechecked |
| `alerts`, `told`, `created` | the website: alerts there are and viewed, conversations marked read, conversations started |
| `wanted`, `confirmed` | auxiliary: what the member asked to see or mark; the recipients of each submission |

Rows are left out: any conversation may be the first one of a list. Whether an Inbox
has room for its pane is a choice of each step, because the window may be resized
at any time. Texts are left out, names are those of different people.

### AskAi

| Variable | Code |
|---|---|
| `screens` | chats and other screens on the stack: `busy`, `seq`, their turns, each with its question, its answer, its state and whether it was asked again |
| `asking`, `askTask`, `task` | `ask_generation`; the task to abort; what each request has sent and whether it was aborted |
| `frames` | the channel of this session |
| `asked` | auxiliary: the question each request asks |

A task that is aborted may still send what it was about to send. Frames are
numbered, their text is not modelled.

### Images

| Variable | Code |
|---|---|
| `inflight`, `failed`, `cache` | the fields of `Images`; the cache in the order of use, `Kept` pictures at most |
| `disk` | per address: nothing, good bytes, junk |
| `jobs`, `arrived` | workers of this and of earlier sessions; `Msg::ImageLoaded` on its way |

`Workers` are the slots, of which the viewer's picture takes the first. Files on
disk may vanish or be replaced at any time, by pruning or by another terminal.

### MCTerminal

Updates, lists, views, the Inbox, chats, images and the login share no variable, and
no call of one is made inside a handler of another that the models keep; the run
`terminal` explores each of them from one initial state, `part` saying which one moves
and `StandStill` fixing the choices that would only multiply states. The Inbox is split
three ways (`WithinInbox`): its alerts with other screens over it, its conversations
with views and replies, and the form with the Inbox under it.

## 3. Runs

| Run | Bounds | Question |
|---|---|---|
| `store` | 3 slots (one an edit's), 2 accounts, 2 small texts and a big one, room for 2, revisions to 4 | operations, payloads and the limit from every first file, to the end of the counter; revisions are fresh and merges spare what is owed |
| `siblings` | 2 terminals, 1 slot, 2 texts, 3 revisions; failures, exits | nothing newer is retired by something older; merges replace only what the website has |
| `slots` | 1 terminal, 2 slots, room for 1, a big text, 2 revisions; refused and missing relays, failing disk, expiry | every step is a `DraftStore` call, under eviction and every fault |
| `accounts` | 2 terminals, 2 accounts; failures, exits, sign-outs | words never cross accounts, on disk or on the website |
| `ends` | 2 terminals, 1 slot, exits, fairness | tasks end; owed work is relayed or superseded |
| `gates` | 3 requests, the API gate alone or with the write gate, penalties of 1 and of 9 on a clock to 5 | spacing, penalties and no holes, time passing between any two steps |
| `waits` | 2 requests, penalties up to instant 2 of 9, fairness | two mutexes and late penalties never block a request for good |
| `grants` | 2 terminals, 2 members, 3 grants; lost requests, failing disks, sign-ins, sign-outs, exits in the middle of a refresh or a recovery | identity, what stays on disk (a sign-out takes only its own grant), what a recovery may not lose |
| `session` | 1 terminal, 2 members, 2 grants, a load and a post, 2 checks and 2 sign-outs at once, 2 messages in the queue; siblings, sign-ins, sign-outs, lost requests, deadlines | who is shown what, in whose name a post goes out, whether a sign-out, a wait or a recovery can hang |
| `terminal` | updates: 2 terminals, 3 versions. Lists: 2 nodes of 2 pages, 2 screens, 2 requests under way, 3 sequence numbers. Views: 2 threads of 2 pages, 3 screens, 3 loads. Chats: 3 generations, streams of 1 frame, 3 screens. Images: 2 addresses, one of them private, 2 sizes, 2 slots, a cache of 1, 2 sessions, 2 loads. Login: 2 flows, 2 codes, 2 polls at once, 2 accounts, all 4 modes. Inbox: 1 conversation, 2 people, 1 alert, 2 submissions, 2 screens, 3 requests, 4 load ids, 2 sessions | each part's own properties, see below |
| `stale_list`, `restart` | 1 terminal (`restart`: 2) | disagreements between the code and its own words, see section 6 |

What `terminal` shows:

| Property | Of | Shows |
|---|---|---|
| `AlwaysAnExecutable`, `StagedOnce`, `ChipIsTrue` | `Updates` | wherever processes die, a complete executable is at the path or next to it; nothing is staged twice; the chip keeps its promise |
| `RowsAreTheWindow` | `ThreadList` | the rows are consecutive pages of one load of one node |
| `LoadsSettle`, `FreshOpensAtTop` | `ThreadView` | a loading view has its load on the way, a settled one shows what it last asked for; a kept place goes to no other view |
| `StartedAsConfirmed`, `MarksAreMeant` | `Inbox` | a submission starts one conversation with exactly its recipients; the website is told only what the member saw |
| `AnswersTheQuestion`, `SettledStays`, `ChatsAndStreamsAgree` | `AskAi` | answers consist of their own request's frames, settled turns stay as they are, streams have a reader |
| `PrivateStaysPrivate`, `PicturesCanCome` | `Images` | no picture of members only crosses sessions; requests and bookkeeping agree, so that a wanted picture can come |
| `SignedInByThisFlow`, `FlowIsHeard`, `HandsOutOnce` | `Login` | the flow on the screen is the one that signs in; no busy screen without a flow; the relay implements `OneTimeCode` |

Why the bounds are enough: two processes are what a race over a lock or a file
needs, and the file does not know how many there are; two texts make one stale;
two slots and room for one make every merge or save evict; three revisions are
a save, its successor and a merge or discard between them. `siblings` and
`accounts` use the symmetry of processes and accounts, which are treated alike;
`ends` and `waits`, which check liveness, do not. Three requests on a gate put
one between two others, and the second gate makes them wait for several. Three
grants are one on disk, its successor, and a sibling's or another member's. In
`session` two grants are the one in memory and the one that replaced it, two
checks are an aborted one that has yet to report and its successor, two messages
are a verdict and a result that overtake each other in no order but theirs; a
request of each kind is enough because no handler relates two of them.
In `terminal`, three versions are one running, one staged and one released since; two
requests under way cross each other, a third load id tells the latest from both; two
screens are one that shows a thing and one that buries it (three for chats and views,
so that a buried one has a twin above another); a cache of one evicts at every
second picture; two flows are one given up and its successor.
Deadlock is checked wherever the model can always go on; `terminal` stops when its
sequence numbers are used up; `accounts` stops when
its texts and revisions are used up, `gates` and `waits` when the clock and the
requests are, the runs of `Grants` when the grants are.

Fairness (`TaskFairness`): weak fairness of each process's sync and of each
request. A spawned task runs, the event loop drains its queue, a request is
answered or times out (`http.rs` sets both timeouts). Nothing is assumed of the
member, the browser, or faults. The liveness properties also assume that exits
and sign-ins stop at some time (`SettlesDown`): a lock polled every 25 ms
(`mod.rs:483-489`) gives no order among those waiting for it, so siblings that
keep taking it and exiting can starve another.

`PacingFairness`: the clock moves, and the code between two awaits runs to its
end. `Proceed` has strong fairness: an access token lasts two hours, so it does
not run out again during each of infinitely many waits of one request.

## 4. Proofs

`DraftStoreProofs`, with the lemmas of `DraftFileProofs` about single calls, proves for all constants that satisfy the assumptions of
`DraftFile` (finitely many slots, natural numbers, `RemoteKeys` within `Keys`):

| Theorem | States |
|---|---|
| `TypeCorrect` | `Spec => []TypeOK` |
| `OperationsAreCurrent` | `Spec => []OperationIsCurrent` |
| `PayloadsMatch` | `Spec => []PayloadMatches` |
| `NobodysFilesAreEmpty` | `Spec => []NobodysFileIsEmpty` |
| `StaysBounded` | `Spec => []Bounded` |
| `RevisionsStayFresh` | `Spec => RevisionsAreFresh` |
| `MergesSpareOwed` | `Spec => MergeSparesOwed` |

None of the invariants is inductive alone: a version 2 file has owed deletions
instead of operations, a file without owner must not carry fences, and payloads
match only while fences do. The inductive invariant `Sound(store)` puts them
together: `Stored` (types), `Fenced` (no fence ahead of the counter, operations
carry their slot's fence), `Paid` (operations and texts match), `Small` (no
oversized text), `Emptied` (nobody's file is empty) and `Formed` (which fields
each format uses). `Within` (at most `MaxDrafts` texts) is added for `Bounded`:
`TrimBounds` shows that eviction leaves at most `MaxDrafts` slots, because the
eviction order is total and a slot survives only if fewer than `MaxDrafts`
others come before it. Each `Store` call has a lemma that it preserves
`Sound`; migration has its own, because it numbers slots by counting.

`DraftSyncProofs` proves for any number of terminals, accounts, slots and texts, and
whatever `Faults` there are:

| Theorem | States |
|---|---|
| `TypeCorrect` | `Spec => []TypeOK` |
| `ImplementsTheStore` | `Spec => UsesTheStore`, the refinement of `DraftStore` |
| `WordsStay` | `Spec => []WordsStayWithTheirAccount` |
| `NothingIsRetiredUnreflected` | `Spec => []SyncedMeansReflected` |
| `MergesSpareTheUnreflected` | `Spec => MergeReplacesOnlyReflected` |

The refinement is by steps: a step of a terminal leaves the file alone, or what it makes
of it is what one call of `DraftStore` makes of it (`Called`); so the theorems of `DraftStore` hold of
the file that terminals share. The inductive invariant is in three layers. `Shape`: the
file is `Sound`, what memory holds of it was minted by it, and no task or request
outlives its session. `WordsOK`: every text, in the file, in memory, in a list, in a
request or on the website, was typed under the account it is there for.
`Promised`: what a request carries out is the latest intent of its slot, or the file owes
something newer (`RequestsAreDue`), what was answered is on the website (`AnswersAreThere`),
and the slot's lock lets one request at a time do so (`OneAtATime`).

`ServiceProofs` treats three services that share nothing. Of `Gates` it proves, for any gates, spacings, lane sets, requests and penalties
that satisfy `GateAssumption`:

| Theorem | States |
|---|---|
| `TypeCorrect` | `Spec => []TypeOK` |
| `DispatchesAreSpaced` | `Spec => []Spaced` |
| `PenaltiesAreServed` | `Spec => []NoneUnderPenalty` |
| `WaitsLeaveNoHoles` | `Spec => []NoHoles` |

Its inductive invariant `GateIInv` adds three facts to the properties: `Locked` (a
request that is about to reserve holds the mutex of every gate it found free, and
they are free still), `Passed` (a gate is closed at least for the spacing of
every request that passed it) and `Charged` (a gate's penalty reaches as far as
every penalty imposed on it). Spacing follows because a request that reserves
at `time` found `nextFree` at or below it, and by `Passed` that is past every
earlier request; `NoneUnderPenalty` in the same way from `Charged`.

`GrantsProofs` proves for any number of terminals, members and grants, and whatever
`Events` may happen:

| Theorem | States |
|---|---|
| `TypeCorrect` | `Spec => []TypeOK` |
| `AlwaysAsMe` | `Spec => []ActsAsMe` |
| `RotationsAreKept` | `Spec => []RotationIsKept` |
| `LiveGrantsStay` | `Spec => LiveGrantStays` |

A number on disk says nothing of where it came from. `ClientOK` says what holds of a
client in each phase of a refresh: it asks with the grant it has, the one it is given speaks
for the same member, and after a rejection the refresh token is spent. `Follows(m, n)` is how
a grant comes from another: it has the same refresh token, or that of `m` is spent; once
true it stays true, and it is transitive along renewals (`FollowsOn`). With it, whatever
replaces a live grant on disk is its renewal (`LiveGrantStays`). `RotationIsKept` needs more:
a recovery trusts its cache if the file is the one it knows, so no file may come back once it is
gone. `Separate` says so: a grant that may yet be written waits in one place (a login, a
client that was answered, a cache) and was never in the file. Each action's lemma only says
what becomes of its own terminal; `Usually`, `Gains` and `Caches` carry the invariant
over to the others (`Quietly` covers the steps that bring no new grant).

`SessionProofs` proves for any number of members, requests, checks, sign-outs, grants and
messages:

| Theorem | States |
|---|---|
| `TypeCorrect` | `Spec => []TypeOK` |
| `AsAuthor` | `Spec => []PostsAsAuthor` |
| `OnlyMine` | `Spec => []ShowsOnlyMine` |
| `LoginComesBack` | `Spec => []SignOutEnds` |
| `AlwaysAWayOn` | `Spec => []NeverStuck` |
| `AllAwaited` | `Spec => []NothingWaitsForever` |
| `SignedOutUntilLogin` | `Spec => SignedOutStays` |

The inductive invariant says of everything under way what it may still do. `MemberOK` and
`RequestsOK`: the client's grant, and that of a request which was sent, speaks for the member signed
in. `ChecksOK`, `FlowOK` and `Heard`: as long as nobody is, the only verdict that can
count is that of a restore, or of a login while the Login screen is up, and there is one at
most (`OneVerdict`). `Moving`, and `Awaited` of every request a screen waits for: what must
still come is under way, or in the queue under the current generation. Whoever replaces
the client's grant ends the generation of all that was begun with the old one; `Lasts` says
when a message survives a change of the App, and `QueueStays`, `QueueGrows` and `QueueShrinks`
make of it facts about the queue. The limits on checks and on the queue are guards of the
model, so none of this depends on how large they are.

Of `Updates`, `ServiceProofs` proves for any set of terminals and any number of versions:

| Theorem | States |
|---|---|
| `UpdateTypeCorrect` | `UpdateSpec => []UpdateTypeOK` |
| `ExecutableStays` | `UpdateSpec => []AlwaysAnExecutable` |
| `VersionsStagedOnce` | `UpdateSpec => []StagedOnce` |
| `ChipsAreTrue` | `UpdateSpec => []ChipIsTrue` |

Its inductive invariant `UpdateIInv` is types, the first two properties, and `ProcOK` of every
terminal: a terminal in the middle of an update is the one that holds the lock, its own
image is not newer than what is installed, each stage of a swap finds the files as the
stage before left them (`SwapOK`), and what a check or a chip names is staged or installed
(`CheckOK`, `ChipOK`). `OthersKeep` says that a terminal that does not move keeps all
that, as long as nobody else touches the files while it swaps, replaces the
executable while it starts, or prunes what it was told of; `OneMoves` combines it with
what the moving terminal must show, so that each action's lemma is about one terminal.

Of `Login`, `ServiceProofs` proves for any accounts and modes and any number of flows, codes and
polls that satisfy `LoginAssumption`:

| Theorem | States |
|---|---|
| `LoginTypeCorrect` | `LoginSpec => []LoginTypeOK` |
| `OnlyThisFlowSignsIn` | `LoginSpec => []SignedInByThisFlow` |
| `EveryFlowIsHeard` | `LoginSpec => []FlowIsHeard` |
| `RelayHandsOutOnce` | `LoginSpec => HandsOutOnce`, the refinement of `OneTimeCode` |

Its inductive invariant `LoginIInv` follows a code from the approval that issued it to the member it
signs in. `FlowOK`: a flow that verifies holds a code issued for it and spent. `MailOK`:
no message is of a flow still to come, and one of success speaks of a spent approval of
its flow. `ReadyFirst`: behind the message that announces a flow that has ended stands one
that says how it ended, so that handling the first leaves the second (`FlowIsHeard` alone
is not inductive: it must survive the message that only turns the screen to waiting).
`MemberOK` is `SignedInByThisFlow` for a flow that exists. On the website's side,
`LinksOK` says that a link nobody registered holds nothing, and `PollsOK` that what a poll
has read is a code. An approval that was spent stays spent (`CodesGrow`, `SpentStays`), which
carries the invariant over every step of a browser. The refinement maps a link to a box
(`BoxOf`); a step of the terminal, the browser or a poll is one of the box or leaves it
alone. `PollAgain` needs an identity no poll under way has: `FreshPoll`, by counting.

`ScreensProofs` treats what the screens show while their loads are on the way. Of
`ThreadList` and `Images` it proves for all constants, of `ThreadView` for all with
`~Twins` (no thread open in two views at once; section 6 says what happens otherwise):

| Theorem | States |
|---|---|
| `RowsAreAlwaysTheWindow` | `ListSpec => []RowsAreTheWindow` |
| `LoadsAlwaysSettle` | `ViewSpec => []LoadsSettle` |
| `FreshAlwaysOpensAtTop` | `ViewSpec => FreshOpensAtTop` |
| `PrivateAlwaysStaysPrivate` | `ImageSpec => []PrivateStaysPrivate` |
| `PicturesCanAlwaysCome` | `ImageSpec => []PicturesCanCome` |

- Lists (`ListInv`): no number in a list or a request is of a load still to come (`Aged`),
  no two lists wait for one load (`Apart`), and a request that extends a list is only
  on its way where there are rows to extend (`Extends`): without that a second
  page could become the head of a list that looks as if its first had come. Which list
  a reply is for is decided twice, by forum and by number; `Apart` makes it one list.
- Views (`ViewInv`): a thread is open once, and a composer lies over the view it was opened
  from (`Arranged`); what is being sent is sent from the screen on top (`SentFromTop`), so
  that the screen a finished write closes is the one that sent it; a place other than the
  top is kept for a view that is still open and was read (`KeptForReader`), which is why
  no fresh one can claim it. The stack is the hard part: each action's lemma says what it
  did to the stack (one screen on top, one fewer, one changed) and cites a lemma about
  stacks.
- Pictures (`ImageInv`): what counts as on its way is, one to one, the loads and answers of
  this session (`OnTheirWay`, of which `OnePerLoad` derives the numbers); each load
  carries the session it asked under (`LoadOK`), and what is private never comes from disk.

`ConversationProofs` proves of `AskAi`, for any number of questions, frames and screens, and
of `Inbox`, for any conversations, alerts, screens and requests and finitely many members:

| Theorem | States |
|---|---|
| `AnswersAlwaysMatch` | `AskSpec => []AnswersTheQuestion` |
| `NoStreamGoesUnread` | `AskSpec => []ChatsAndStreamsAgree` |
| `SettledAlwaysStays` | `AskSpec => SettledStays` |
| `InboxInvariance` | `InboxSpec => []InboxInv`, with the type invariant |
| `StartedAlwaysAsConfirmed` | `InboxSpec => []StartedAsConfirmed` |
| `MarksAreAlwaysMeant` | `InboxSpec => []MarksAreMeant` |

Of `AskAi`, the inductive invariant `AskInv` follows an answer from the request to the turn. `WaitsOK`
says of a chat that waits: what its turn shows is the first frames its request sent, and
the rest are in the channel. For that the channel must keep each request's order, with
nothing behind its last frame (`InOrder`), questions must be asked by one chat each
(`TurnsApart`, `Asked`), and a turn once written must remain what some request sent
(`TurnOK`), though that request is stopped or its question asked again. `GoesOn` says what
may become of a request; every step keeps it, so that a turn that is not touched stays good.

Of `Inbox`, `InboxInv` has two strands. That a form starts one conversation, with its
recipients, rests on who waits: only the composer on top may be busy (`BusyOnTop`, which is
what `navigation_is_blocked` is for), so every search, creation or reply of this session was
sent by it (`SentByTop`), at most one of a kind and name (`OneEach`). Whom the form has
found and whom it still looks for are together those it named, and its counter is the
number of the latter (`Resolves`); hence the last answer alone sees the counter reach zero,
nothing else is on its way then (`CreateAlone`), and nothing was started for that
submission before (`NotStarted`). `StartedAsConfirmed` alone is not inductive: an answer that
lowers the counter could be of a try before. That marks are meant rests on `CallOK` (whatever
marks a conversation read was asked for) and on `AlertsOK`, which extends the property to
an Inbox that is only about to mark its alerts: a list that found alerts not viewed takes
back a mark older than itself (`Overtaken`), and one that found none holds viewed ones
only (`IdOK`). Most actions touch no composer: `ScreensStep` and `IdleStep` say once what
those keep, given that the screens they change stay screens of their kind (`InPlace`).

`NobodysFilesAreEmpty` and the seven type theorems say nothing that a run checks on
its own: the runs would only repeat what the proofs show for every instance.

Where a model limits how many things of a kind there are at once (grants, generations,
checks, messages), the theorems hold for every value of the limit.

Writing the proofs of `DraftSync` found an error in the model: a session that goes live
while the relay is known to be absent kept the data of the sync before it. `SyncAfter` now has
none, because `sync_drafts` returns at once.

The proofs of the screens changed how the models say things, and one thing they say: a
screen or a picture that a list holds once is taken out by its place and not by a filter
over the list, and a frame may use the pictures it paints in any order, where the model
used to fix one. The proofs of `Inbox` corrected `StartReply`: `push_screen` takes out the
topmost composer of that conversation, and refuses while it sends, where the model took out
every idle one.

Only model-checked: all liveness (`WorkEnds` and `OwedWorkIsRelayed` of `DraftSync`, those of
`Gates`), which the prover cannot treat. Every invariant and every action property of a
passing run is stated by a theorem.

## 5. What is not modelled

See `components` in `PROJECT.json`.

- Drawing, parsing of markup, terminal input and output, packaging, the HTTP client and
  the add-on's AI proxy are left out for good: they are pure I/O or functions of
  strings, with no state of their own to explore. Their failures are faults of the
  components above.
- The editor and the resolution of the site are local values with one writer; they
  would be pure operators against reference definitions.
- Search, the library, profiles and the setup screen load as thread lists do, each with
  a load id of its own; `Session` has their loads as one.
- Of the drafts: resuming a draft into a composer, and requests delivered after their
  task ended. Of composers: uploads.
- Of the login: the parsing of a redirect and the pages it is answered with.
- Of images: pixels, the terminal's image protocols, the age and size limits of the
  files (which the model lets vanish at any time).

## 6. Where the code and its words disagree

Each is one run that TLC ends with a counterexample, and a finding in
`PROJECT.json` that quotes the line.

- `stale_list`: a website list answered before a save, but handled after the
  save was acknowledged, replaces the newer words on disk.
- `restart`: two terminals refresh at the same expiry; the loser erases the file
  that still holds the spent grant, so that the winner's compare-and-replace
  finds nothing to replace, and its session does not survive a restart.
 
The models show more that the code's words do not quite rule out; no run states
these:

- a sign-out aborts a refresh of its own terminal that the server has already
  carried out, and then revokes the grant before it (`session.rs:665`): the new
  grant stays live on the server, on no disk;
- a request in flight while its own terminal rotates the grant, if the server
  refuses the old access token from then on, comes back as a 401 whose recheck
  finds the terminal's own grant on disk (`session.rs`), and so ends the session;

- a save refused by the website (`mod.rs:500`) is settled, and the website's
  older copy of that slot may then replace it;
- verifying the account again (`mod.rs:2235`) replaces the shield of a text that
  could not be saved by an older operation of the file, after which a list may
  replace the text in memory;
- closing an empty composer (`mod.rs:1850`) before the first website list arrived
  deletes the slot's website draft, which the terminal never showed;
- a recheck fails for the moment, a late rejection of the old grant starts a second, the
  member's `r` a third, all under one bootstrap generation. The success of one aborts
  another, whose `ReportGuard` still reports no token (`msg.rs:68`); that starts a recheck
  of the session just verified, which finds nothing newer on disk and ends it;
- thread lists: a Home list covered by a pushed list of the same node stays loading when
  the covering list takes its reply; a created thread re-points its list without
  marking it as loading, so that two pages of one load may be on their way, which the
  comment at `actions.rs:588` excludes; when a first page fails and a fill
  succeeds, rows of two forums stand together until the next load (which is why
  `RowsAreTheWindow` speaks of windows whose first page came); `r` on a Home list that
  never loaded asks for page 0;
- thread views: with one thread open twice on the stack, the clamp of a page beyond the
  last (`msg.rs:580-588`) asks on behalf of the upper view, and the lower one says
  "Loading" for good, in spite of the comment at `mod.rs:2681`; a place kept for one of
  the two is claimed by the other;
- chats: a busy chat that is buried under a second one loses its task when that one
  asks, and goes on spinning until Esc, in spite of the comment at `actions.rs:1169`;
- images: when more pictures than `LRU_CAP` are visible at once, each frame evicts what
  the next one asks for, and they are loaded again for ever;
- the Inbox: a list of alerts asked for before the mark, but answered by the website after
  it, hides a newer alert from the badge (`msg.rs:1042`); an Alerts tab that comes back
  to the top after its list was reloaded under another screen is not marked again, in
  spite of the comment at `mod.rs:1729`; Enter on the conversation a wide Inbox is still
  filling its pane with never marks it read (`mod.rs:2561`); with two Inboxes on the
  stack, the lower one's list may fill its pane with a conversation the upper one
  shows, `load_conversation` then marks the upper, and the lower pane waits for good
  (`actions.rs:779-790`).

## 7. Plan

1. Drafts: `DraftStore`, `DraftSync` and their proofs, done.
2. Token store and refresh: `Grants` and `GrantsProofs`, done.
3. Pacing: `Gates` and its part of `ServiceProofs`, done.
4. Session lifecycle: `Session` and `SessionProofs`, done.
5. `ThreadList`, `ThreadView`, `Inbox`, `Updates`, `Login` with `OneTimeCode`, `Images`
   and `AskAi`, with `ServiceProofs`, `ScreensProofs` and `ConversationProofs`: done.
6. Left to model: search, the library and profiles (loads that supersede one another, as
   in `ThreadList`); composers with uploads and resumed drafts, composed with `DraftSync`; the
   pure operators (version order, node depths, cursor arithmetic) against reference
   definitions.
7. Left to prove: of `ThreadView`, without `~Twins`, that a load settles wherever the thread is
   open once; of `Session` and `Grants`, an abstract specification of the session that both
   implement, once one is stated.
