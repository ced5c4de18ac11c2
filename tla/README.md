# Loza: a verification project

TLA+ models of [Loza](../src), TLC configurations that check them on small
instances, and TLAPS proofs of what matters most for every value of the
parameters. Source paths below are relative to `src/`.

Loza stores a user's files on a server (Rust, axum, Postgres and the file
system) and serves a desktop client (Tauri: a Rust process and a React page), an
iOS client and a public viewer of shared links. The part that can lose data is
the file store of the server, so it comes first.

## 1. Inventory

| Component | State | Operations | Speaks to |
|---|---|---|---|
| **File store**, `backend/src/handlers/files.rs`, `models/file.rs` | table `user_files` (path, id, kind, SHA-256); the directory `storage/<user>` | upload, download/view, delete, rename/move, copy, mkdir, batch, list, search, info | Postgres, file system, app socket (pushes) |
| **Reconciliation**, `backend/src/db/consistency.rs`, spawned in `main.rs` | a copy of the row paths, a position in the walk | one pass at every start, beside the handlers | the same rows and disk |
| **Share links**, `handlers/shares.rs` | table `file_shares` (link to a row id, token, password, active) | create, list, revoke, meta, unlock, list content, download | `user_files`, limiter |
| **Sessions**, `handlers/auth.rs`, `jwt.rs`, `db/repository.rs` | table `sessions` | login, touch on every request, refresh (delete, then create), logout, hourly clean-up | every handler |
| **Shared state**, `db/state.rs` | attempt windows, socket slots, registered sockets, samples | login and unlock limits, acquire/release slot, register, broadcast | handlers |
| **App socket**, `handlers/ws.rs`, `handlers/status.rs` | per connection: queue of 1024, user, last session check | requests with a limit of 10 s, pushes, status every 2 s, clean-up | shared state |
| **Calendar**, `handlers/calendar.rs` | table of events | list, create, update, delete over HTTP and socket | socket (pushes) |
| **Desktop socket client**, `app/src-tauri/src/ws_client.rs`, `calendar.rs` | sender, connected flag, pending requests | connect loop, request with time limit, drain, HTTP fallback | server socket |
| **Desktop session**, `auth.rs`, `session_store.rs`, `server_config.rs`, `lib.rs` | session file, server URL | login, check, silent refresh at start and every 6 h, logout | server |
| **Desktop transfers**, `transfers.rs`, `files.rs` | cancel tokens by id, partial downloads | upload, download, cancel, batch with fallback | server |
| **File browser**, `app/src/pages/dashboard/tabs/LozaTab.tsx` | open folder, history, listing, search, selection, clipboard, windows, and the numbers of the newest requests | gestures, answers, timers, change notifications | desktop process |
| **Transfer queue**, `OperationQueue.tsx` | cards, listeners | upload, download, cancel, retry, close | desktop process |
| **Link screens**, `ShareModal.tsx`, `SharesTab.tsx` | list of links, form | load, create, revoke | server, by the desktop process |
| **Pages**, `App.tsx`, `ProtectedRoute.tsx`, `ServerSetupPage.tsx`, `AuthPage.tsx`, `DashboardPage.tsx`, `SettingsPanel.tsx` | open page, form states, timers | set-up, login, check, logout, change of server | desktop process |
| **Share viewer**, `share-viewer-web/src` | screen, access cookie, folder, lightbox | open, unlock, navigate, preview, download | server |
| **iOS services**, `mobile/ios/Loza/Services` | socket loops, pending requests, event store | start, stop, request, reload, create | server |
| File viewer, calendar pages, status display, deployment scripts, container format | see section 6 | | |

What is hard in it:

- **rows and disk are two stores without a common transaction.** Each handler
  changes one, awaits, and changes the other; handlers of different requests
  interleave at each await, and nothing locks a path;
- **failure and restart**: an SQL statement, a disk operation or the body of an
  upload fails in the middle, the connection closes and the handler is dropped at
  an await, the server dies; what is left is for the next pass to repair;
- **the pass itself** works from an old copy of the rows while handlers run;
- **the clients work on answers that arrive later**, in any order, after the page
  they were asked for was left, while timers and notifications start more
  requests; some requests carry a number to recognise the newest, some do not;
- **several commands share one stored session**, which a refresh replaces on both
  sides in several steps;
- **a transfer is three actors**: a card, a command and a token, joined by events
  and by a cancellation from another thread;
- elsewhere: calendar requests with a time limit (a change is not repeated over
  HTTP when its answer does not come, `calendar.rs`), socket slots and queues at their limits, reconnecting loops.

What makes each component correct:

- file store: rows, disk and checksums agree when no request is running; a
  request takes effect at once or not at all; an incomplete upload is not
  visible; a link follows its node; nothing that is stored is harmed by somebody
  else's request;
- reconciliation: it ends, it leaves nothing unlisted, it repairs what a crash
  left, and it removes nothing that is listed;
- links: one that is revoked, or locked for this visitor, opens nothing; the
  owner's list tells the truth; a password goes along exactly if the form says so;
- sessions: a stored session is one its server knows, it is given up only when
  it is dead, a start comes to an end, one login runs at a time;
- browser: what is shown belongs to the open folder and is the newest answer;
- transfers: each card is ended by its transfer, a transfer leaves no token and
  no part file, a cancellation is heard.

`PROJECT.json` lists the components with their status and each hazard at its line.

## 2. Plan

| | Module | Models | Composes | State |
|---|---|---|---|---|
| 1 | `LozaPaths` | paths, prefixes, LIKE patterns | | done |
| 2 | `LozaTree`, `LozaSequential` | abstract specification: one tree, atomic requests; the tree a client sees in rows and disk | `LozaPaths`, 3 | done |
| 3 | `LozaFiles` | the file handlers, their interleavings and failures | `LozaPaths` | done |
| 4 | `LozaStorage` | crashes, restarts and the reconciliation pass beside the handlers | `LozaFiles` | done |
| 5 | `LozaPathsProofs`, `LozaFilesProofs`, `LozaSettingProofs`, `LozaStorageProofs` | lemmas, inductive invariant, theorems of 3 and 4 | 1, 3, 4 | done |
| 6 | `LozaBrowser` | the file browser in front of the server, calls and answers asynchronous | `LozaPaths`; its server refines `LozaTree` | done |
| 7 | `LozaLinks` | public links: the owner's screens, the server's rows, the visitor's page | | done |
| 8 | `LozaSession` | pages, commands and server rows of the desktop app's session | | done |
| 9 | `LozaTransfers` | queue, transfer commands, cancel tokens, progress events | `LozaSession` | done |
| 10 | `LozaBrowserProofs`, `LozaLinksProofs`, `LozaSessionProofs`, `LozaTransfersProofs` | inductive invariants and theorems of 6 to 9 | 6, 7, 8, 9 | done |

Two parts meet in `LozaTree`: `LozaFiles` implements it (`ImplementsTree`), and
`LozaBrowser`, which cannot carry the handlers' interleavings along, assumes a
server that carries out an item at a time and checks that this server is a
`LozaTree`, too (`ServerIsTree`). Each module has one run for its properties;
several bounds at a time are one run with several initial states.

## 3. The modules

### LozaPaths
A path is a non-empty sequence of names (`sanitize_path` accepts nothing else),
the user's root the empty sequence. `Under` is the code's
`starts_with(dir + "/")`; `LikeUnder` is the SQL `path LIKE dir || '/%'`, in which
the names of `dir` are patterns: the constant `Wild` says which names match
which. Only `_` is covered, which stays inside one segment; `%` is not.

### LozaFiles
State: `rows` (`user_files`), `disk` (the user's directory), `shares` (the row ids
links point to), `nextId` (fresh UUIDs), and `proc`, one record per handler with
its request, its position and the values it read. `issued`, `faults` count
towards the bounds; `answer` is a history variable with the last answer.

There is one action per SQL statement and per change of the disk, in the code's
order, with the code's early returns:

| Route | Steps |
|---|---|
| upload | `UploadCheck` (disk, not rows), `ParentRow`*, `UploadMakeParents`, `UploadCreateTemp`, `UploadStream`, `UploadPublish`, `UploadUpsert` |
| delete | `DeleteCheck` (rows), `DeleteDisk`, `DeleteRows` |
| rename, move | `ReadSource`, `CheckTarget` (rows), `TargetParents`, `RenameDisk`, `ParentRow`*, `RenameRows` |
| copy | `ReadSource`, `CheckTarget`, `TargetParents`, `CopyDisk`, `CopyInsert`, then `CopyRollback` or `CopyChildRows`, `ParentRow`*, `CopyResult` |
| mkdir | `MkdirCheck`, `ParentRow`*, `MkdirDisk`, `MkdirInsert` |
| share | `ShareLookup`, `ShareInsert` |

A read that only decides what the next step does is part of that step; the
existence check of an upload is a step of its own, because a whole transfer lies
between it and its use. Faults (`Faults` selects them, `MaxFaults` bounds them
together): `DbFails`, `DiskFails`, `DeleteFailsMidway`, `CopyFailsMidway` (with a
torn file), `UploadFails` (broken body, failed publication), `Abandon` (the
handler is dropped; the operation it awaited on the disk counts as done before).

Data is abstracted to a content per file, equal to its SHA-256. An upload being
written has the content `Partial`; a copy made of such a file has `Torn`, as has
the file at which a copy stopped. The upload writes through its open file, so it
finds its temporary file under any name: the last segment of the name is the
number of the request, which no client can use as a name.

Left out: symbolic links, sizes and times, MIME types, pushes, other users, quota
and permissions of the file system. `remove_dir_all`, `create_dir_all` and
`copy_dir_recursive` are one step each, or a fault that stops them half way. A
multipart body with several files is several uploads. Requests whose target is at
or below their source are refused before anything is read and are not enumerated.

### LozaTree
What the API promises: a set of entries and six atomic operations with their
preconditions. Missing parent directories come into being with the target.
`LozaSequential` holds the refinement mapping: what a client can see is the
rows with an entry of their kind on the disk; between the two halves of a rename
a row's entry is looked for at its new place. A mkdir inserts its parents' rows
first and a copy of a file its parents' rows last, so the view contains
the directories of whatever it contains.

### LozaStorage
Adds `rec`, the reconciliation pass (snapshot of the row paths, rows still to
compare, entries listed and still to deal with), and `calm`, which counts up to two whole
passes without a disturbance. `RecSnapshot`, `RecCheckRow`, `RecDeleteRow`,
`RecRowsDone`, `RecListMore`, `RecKeep`, `RecRemove`, `RecDone` are the awaits of
`reconcile_storage` and `remove_orphan_entries`. A directory's entries are those it
has when it is opened; one that appears before it is read to its end may be
listed, too. `RecFault` and `RecWalkFails` are the pass's failed statements and operations, `Crash` a restart of the process. Every start begins
with a pass, as in `main.rs`. `QuietRecovery` makes clients wait for the pass; the
server does not enforce it, it is how the promises of the pass are stated at
all. `PartName` are client names that end in `.loza-part`. A user whose root
directory does not exist is skipped by the code and not modelled.

**Fairness.** `Fairness == WF_allvars(RecStep)`: the pass is a spawned tokio task,
and the runtime polls a task that is ready. Nothing is assumed of the handlers:
an upload may wait for its client for ever, and `PassEnds` holds even so (for the
bounded number of entries that the requests of a run create).

### LozaBrowser
State: the server's tree (`tree`, with node ids) and the page's: `view`
(`currentPath`, `files`, `loading`, `error`), `hist`, `picked`, `clip`, `find`,
`win` (the windows), and what is on its way: `loads`, `searches`, `ops`, `push`
(a notification and the timer of 100 ms it starts).

| Code | Definitions |
|---|---|
| `loadFiles`, with `loadRequestRef` | `StartLoad`, `ListAnswered`, `ListFails`, `ListArrives` (`Applies`, `EndsLoading`), `Reload` |
| `handleNavigate`, `pushHistory`, `goBack`, `goForward` and the effects of a new path | `Navigate`, `GoTo`, `Pushed`, `Step`, `DoubleClick`, `MenuOpen`, `Crumb`, `GoBack`, `GoForward` |
| search effect with its timer of 300 ms and `searchRequestRef` | `Type`, `SearchTimer`, `SearchArrives`, `EndSearches`, `SearchRetry` |
| selection, clipboard | `Pick`, `PickAll`, `Cut`, `Copy`, `TopLevel` |
| delete, paste, uploads, dialogs | `Delete`, `Paste`, `Upload`, `ConfirmInput`, `ConfirmRename`, `CallReturns` |
| the two Escape listeners, windows (dialogs, preview, new-item menu, context menu) | `Escape`, `TopWindow`, `ContextMenu`, `Dismiss`, ... |
| `files-changed` listener | `PushArrives`, `PushTimer`, `PushLost` |
| `batch_files` and the handlers behind it | `Serve`, `ServeFails`, `After`, `Names`, `Hopeless` |

A request number that is only compared with the newest one is a flag `latest` that
a new request takes from the others; so no counter grows. Closures are modelled:
a call goes on with the folder and the paths it was made with (`from`, `to`),
not with the ones open when it returns. The guards of gestures come from the
JSX: what is `disabled`, what an overlay covers, which window takes the keyboard.
`strayed` records the two ways in which the listing may legitimately be old.

Left out: sort order, grid or list, the folder tree beside the listing (it loads
its own listings and only calls `handleNavigate`), the contents of files, a batch
of more than 1000 items, the fallback of `mutate_files` for a server without the
batch route, resizing. Removing one listener and adding the next when the folder
changes is one step.

### LozaLinks
State: the rows (`links`), the limiter's count of failed unlocks (`strikes`), the owner's open screen (`panel`)
with its calls (`pcalls`), the visitor's page (`visit`) with its calls (`vcalls`). Both
owner screens share the code that lists and revokes: `OpenPanel`, `Load`, `Revoke`,
`OwnerArrives`; `panel.at` says which is open, and only the window
over the browser makes links. `CreateLink` follows `handleCreate`: the password of the form
goes along, the switch is looked at only to ask for one. The server's handlers
`CreateServed`, `ListServed`, `RevokeServed`, `MetaServed` are one step each, the statement that
reads or changes the links; what goes before it, the lookup of the item (apart from the insertion in
`LozaFiles`) or of the link's owner, who never changes, does not move it. An unlock is
three: `UnlockFetched` (the row), `UnlockChecked` (the limiter), `UnlockServed` (the password, and the failure
that is recorded); it lives in `jobs`, at the server, and goes on there when its page is left or
gives up, or ends with the connection (`Abandoned`). So two guesses can both pass the limiter before
either is counted, and `strikes` may exceed `Strikes`. The content of a folder and a file are two steps:
`ContentChecked` looks at the row and the access token, `ContentServed` reads afterwards; a revocation
or the end of the token's day may come between them. The visitor's page follows `App`, `UnlockScreen`, `FolderScreen` and
`Lightbox`: `OpenPage`, `MetaArrives`, `Submit`, `UnlockArrives`, `OpenEntry`, `GoCrumb`, `ContentArrives`, `StepLightbox`, ...;
an effect's clean-up (`cancelled = true`) is the flag `live` of its call. `proven` records who has said a password, and `open` of a
call which links were in force when it was asked: `OnlyOpenLinksServe` says of an answered
content call that one of them had no password, or one that was said.

Left out: the expiry of a link (the code reads the clock before the row and judges both
at once, so it ends a link as a revocation does), what becomes at the server of a content request whose page
was left (it changes nothing), more than one visitor (the limiter counts by address), a link to a
single file beyond its download, a keyboard focus left behind the lightbox (Enter
on a folder's row opens it under the picture).

### LozaSession
State: what the app stores (`url`, `store`), the servers' rows with their
`public_id` (`line`), the tokens whose JWT has expired (`old`), the commands under way (`calls`),
the open `page`, the two forms (`setup`, `auth`) and the `section` of the dashboard.

A command is a record with its position `at`: `Begin` is what it reads first,
`Served` one statement of the server (a refresh is `Touch`, `DeleteRow`, `CreateRow`), `Fails` a
statement or an answer that fails, `Continue` what it does with the answer
(`CheckAnswered` is the loop of `get_current_user`, `RefreshAnswered` the end of
`refresh_session_silently`). A failure at `/auth/me` has two outcomes: the client keeps
the user it knows, or, if the statement that touches the session failed, hears that its token is
invalid (`handlers/auth.rs:169` makes a failed statement a missing row). `Tick` is the loop of `lib.rs`. The pages' steps are `SubmitAddress`,
`HealthAnswered`, `SetupReset`, `SubmitLogin`, `LoginReturns`, `AuthReset`, `AuthOver`, `CheckReturns`, `ClickLogout`, `LogoutReturns`,
`OpenSection`, `ChangeServer`; `Show` is what the router does. `Restart` ends the process anywhere; the requests
it had sent are not carried out later.

A page that was left does not act on an answer (`here`), but `navigate` in a
continuation still works as long as the window is the same (`window`). `amiss` records the events
after which a stored session may be unknown to the server: a failed request, a
revocation from elsewhere, refreshes of one session that overlap, a logout
overlapped by a command that stores one, a change of server.

### LozaTransfers
Extends `LozaSession`. State: `cards` (the queue, which lives and dies with the file
section), `runs` (transfers the page waits for: one per `await`, with the items still to
follow), `registry` (ids with a token), `cancels` and `events` under way, `parts` (part
files), `cloud` (files on the server).

`Transfer`, `Returns`, `EventArrives`, `Cancel`, `Close`, `Retry` are the page; `Opens`, `Responds`, `Chunk`,
`EndsOk`, `EndsError`, `EndsCancelled` the commands; `CancelServed` is `cancel_transfer`, on another thread.
`CancelToken::cancelled` is two steps, `LooksAtFlag` and `AwaitsWake`, because the flag is
read before the wake-up is registered; the branch of the request is taken between polls. An upload waits
for the token once, a download anew with each chunk. A
cancelled or failed upload may have been stored all the same. A
command rejects with a plain string, so `e?.message` is undefined and the branch for
`CANCELLED` is never taken: `StatusOf` turns every failure into an error, which also
replaces the card's "cancelled" and offers a retry.

Composition: each step of the sessions is a step of the desktop in which the
cards follow the section (`Follow`), the page is loaded anew (`WindowGoes`), or the process
ends (`ProcessGoes`, which leaves part files behind). The file is read into memory before its card is shown.

**Fairness.** `LinksSpec`: `WF(OwnerAnswers)`, the server and the page go on with the calls of the
owner; every call ends, with an answer or an error. `SessionSpec` and
`DesktopSpec`: `WF(CommandNext)`, because the client has a timeout of 30 s
(`lib.rs:93`). Transfers use a client without a timeout (`lib.rs:95`), so none is assumed
of them and nothing is claimed about their end. The browser's properties are about
safety and need none.

## 4. The runs

| Run | Instance | What it shows |
|---|---|---|
| `Sequential` | one handler, no faults, four requests out of uploads, deletes, mkdirs, renames and file copies over three names and two levels, empty storage | `TypeOK`; `Agree`: rows, kinds, checksums equal the disk after each request; `ImplementsTree`: each request is one atomic step of `LozaTree`; `NoLateRefusal`: a request is refused by its checks (a rename or a copy also by `create_dir_all`, which it calls first) or not at all; an upload that has inserted its parents' rows is not refused |
| `Create` | two handlers, three requests that add, one broken body | `SameTree`, `NoStrayTemp`, `StillServed`, `PublishedWhole`, `NodesStay` |
| `Interleavings` | two handlers, three requests of all kinds, two faults of all kinds | `KeysSound`, `UploadsAtomic`, `Confined` (no step touches rows or files outside what its request names), `LinkFollowsNode` |
| `Recovery` | one handler, three requests of all kinds, three faults of all kinds, quiet recovery | `PassCleans`, `TwoPassesReconcile`, `PassKeepsFiles` |
| `Chaos` | two handlers, two requests that change directories, one fault of all kinds, the pass beside them; one name is a pattern of another, one looks temporary | `RecTypeOK` (with the tree shape of the disk), `PassEnds` |
| `Browser` | a folder, a file in it and one beside it; users of seven habits (navigate; search and cut; cut, copy and paste; upload; pick and delete; rename and cut; windows) of two to five gestures, another client's change and a failed or lost message; two listings and two calls at a time | `LoadingTracksLatest`, `HistoryHere`, `FreshWhenQuiet`, `ResultsMatch`, `EscapeKeepsSelection`, `ServerIsTree`, `BrowserTypeOK` |
| `Links` | a folder with two pictures and a folder with one more; a link for everyone and one with a password; an owner alone (four or five gestures, two new links), a visitor alone, both at a time, with a failed call | `ListedWhenQuiet`, `LinkAsShown`, `CreatingEnds`, `OnlyOpenLinksServe`, `ViewerShowsPath`, `LightboxInRange`, `LinksTypeOK` |
| `Desktop` | nine starts: a first one with four gestures; with a stored session, fresh or a day old, and each two of gestures, a failure, a tick of the loop, a revocation, a restart; an open file section with one or two transfers, a cancellation, a gesture, a restart | `OneLogin`, `StoredIsLive`, `CheckEnds`, `NoOrphanCard`, `NothingLeft`, `RetryAlone`, `SessionTypeOK`, `TransfersTypeOK` |
| `CopyRace` | copy and upload to one path | `StillServed` violated: `files.rs:1194` |
| `LostCut` | two cuts and a paste | `CutReachesServer` violated: `LozaTab.tsx:648` |
| `LiveSession` | a start with a token a day old, nothing else | `LiveSessionKept` violated: `src-tauri/src/auth.rs:349` |
| `CancelLost` | one upload and one cancellation | `CancelHeard` violated: `transfers.rs:46` |

The violated properties are what a comment or a doc comment says;
`PROJECT.json` quotes each. They were found with the smallest instance, so that
the counterexample is short.

**Bounds.** Three names and two or three levels give a file, a directory with
it, an existing and a missing target directory, and a node below a renamed one.
Two handlers show every conflict between two requests; no step of a handler
depends on more than one other. Four sequential requests build a directory, fill
it, rename it and use the result. In `Recovery`, three faults are a fault inside a
request, a crash, and a second one during the repair. The cfgs say
`CHECK_DEADLOCK FALSE` because the bounded server stops when all requests are
sent.

In `Browser`, three gestures after a first are enough to leave a folder and come
back to it while two answers are on their way; a second folder level would only
repeat the first. In `Links`, three calls at a time are a creation, its list and one
more list, or an unlock of a page that was left, one of the page opened anew, and one guess more;
with `Strikes = 1` the second of two parallel wrong guesses is one too many. The run has
2.3 million states and takes about two minutes, the longest of all. In `Desktop`, eight tokens are more than the commands of any start
ask for, and three commands at a time are the loop's refresh, the check and
one that a gesture starts; a third transfer meets no state that two do not, since
transfers share only the registry, by id, and the section.

**What the passing runs leave out, and why.** `Create` has no deletes or renames:
with them, `NoStrayTemp`, `PublishedWhole` and `StillServed` are not what the
code does. If the directory of an upload is renamed while it streams, the
publication fails and the removal (`files.rs:501`) misses the temporary file,
which stays until the next pass; if that directory is copied meanwhile and the
copy renamed into its place, the torn copy of the temporary file is published.
`Sequential` leaves out copies of directories: the statement that should copy the
rows below the source (`files.rs:1207`, pattern `from/` without a `%`) matches
nothing, so `CopyChildRows` changes nothing, the copied files are not listed, and
the next pass deletes them. One pass does not always suffice, which is why
`TwoPassesReconcile` says two: of a copy cut off between the target's row
(`files.rs:1150`) and its parents' rows (`1220`) the first pass keeps the row and
then removes the unlisted directory with the file. After a rename cut off between
disk and rows, the pass deletes the old rows and then the moved files: both sides
agree, and the user's files are gone; the properties say so by not promising more.

**What the code does beyond the runs.** The constants can be set so that the
following appears; each is a disagreement between the code and one of its own comments, and each hazard is
listed at its line.

- Two overwriting uploads of one path at a time: one publishes last
  (`files.rs:500`), the other stores its checksum last (`523`); `Agree` fails.
- The upsert of an upload fails: the rollback `remove_file` is built and dropped
  without `.await` (`547`), so the file stays without a row until the next pass.
- A deletion fails between disk and rows, and a new file is uploaded to the path:
  the upsert (`523`) keeps the old row, and the old file's link serves the new one.
- A directory `a_` is renamed beside one called `ab`: the pattern `a_/%` (`1046`)
  matches the rows below both. `LinkFollowsNode` and `Confined` fail with such a `Wild`.
- A client's file is called `x.loza-part`: `consistency.rs:137` removes it at the
  next start. `PassKeepsFiles` fails with a client's name in `PartName`.
- A file is uploaded while the pass runs: the pass decides by its old copy of the
  rows (`consistency.rs:78`) and removes the file.
- The settings say that a change of server needs a new login (`SettingsPanel.tsx:38`);
  `clear_server_url` keeps the session, and the app is open again if the same server is named.

## 5. The proofs

`tlapm` checks every leaf; nothing is assumed but the constants' assumptions
(of the front ends: `StartsAssumption`, `StoredAssumption`, and for the browser
`AccountAssumption` and `SpareAssumption`)
and, in some theorems about the server, a hypothesis they state: that `Wild` is
the identity, that `PartName` is empty, that clients wait for the pass, or, in
`LozaSettingProofs`, which operations clients ask for, which faults happen and
whether requests overlap.
Section 4 says what the code does without each. `ServerIsATree` compares two
trees over all paths (`TreePaths = Path`), where a run asks about a few.

- `LozaPathsProofs`: lemmas on prefixes: a parent is shorter, a temporary name
  is no client path and determines its directory, `Rebase` keeps the suffix and
  the last name (unless the whole path is replaced), a pattern without wildcards is
  a prefix; "below" is transitive, irreflexive and linear above one path, and
  `Rebase` moves a subtree one to one. A set of paths has topmost elements
  (`TopmostPath`), by the least length: the order of the numbers is well-founded,
  which needs no induction theorem but the set of the counterexamples.
- `LozaFilesProofs`: the inductive invariant
  `Inv == ProcInv /\ RowInv /\ DiskInv` with the types, one lemma per action, and
  `FilesTypeCorrect == Spec => []TypeOK`.
  - *ProcInv*: a handler's request is well formed, it is at a step of its
    operation, and no two handlers have the same request number, nor one of the
    future. Without it two uploads could write one temporary file.
  - *RowInv*: rows have pairwise different paths and ids below `nextId`, links
    point to rows, and the row id a share handler holds is an old one.
  - *DiskInv*: a file with content `Partial` has as its last segment a request
    number already used, and not the number of an upload that has come to its
    publication. `UploadsAtomic` alone is not inductive: the publishing rename
    preserves it only because what it moves is complete, or torn and thereby no
    upload, and this holds because `UploadStream` completed every file with its
    number and `CopyDisk` never makes a `Partial` one.
  The second half of the module is what the steps of the handlers make of the
  disk: `TreeInv == Shaped(disk) /\ TempsInv /\ AcrossInv`. The tree is stated with
  ancestors, not parents: that whatever is on the disk has its parent on it is
  what the file system keeps, but to follow parents upwards would take an
  induction over paths in every proof. It is not inductive alone: an upload makes its temporary file in a
  directory that is still there only because it has just looked (`TempsInv`
  keeps the numbers of temporary files apart), and a rename keeps a tree only
  because it never moves one below itself (`AcrossInv`). It ends with
  what a step may touch, by operation (`RenameTouches`, `UploadTouches`,
  `RowsTouched`, ..., `HandlerConfined`).
- `LozaSettingProofs`: what holds as long as clients leave some operations out,
  for any storage, handlers and contents, and, last, what holds of one request at a time. `AskedInv` joins a handler to a
  request, so that a hypothesis on `Requests` is one on every step.
  - Nobody deletes or renames: rows stay (`RowsOutliveOverwrites`, `NodesStay`).
    Nobody copies either: `KeepsEntries`, since a publication replaces a file at
    most (`PublishedDisk`), and so `NothingStopsServing` (`StillServed`). Both for
    all faults; `CopyRace` shows what a copy changes.
  - Nobody renames or copies, deletions and all faults allowed: the bytes under a
    temporary name are those its upload has written (`WrittenInv`); nobody else's
    step can make such a file, because request numbers are unique (`OwnTempOnly`).
    Hence `WholeUploadsArePublished` (`PublishedWhole`) and, if no handler is
    dropped, `NoGarbage` (`NoStrayTemp`).
  - `ListingShowsTheDisk` (`SameTree`): nobody deletes, renames or copies, nothing but
    a body breaks, and there is one set `D` of paths that are directories, for
    all clients and the storage (`Agreeable(D)`; in `Create` it is `a`, `b` and
    `b/a`). `SameTree` speaks of quiet states; `Settled(D)` says it of all: a row
    without an entry is that of a directory a handler is about to make, an entry
    without a row that of a target about to be recorded, and of its directories
    a handler has made what its position says (`Made`). The refusals that
    would leave rows behind cannot happen (`CanMake`): this is what `D` is for.
    Each step is one of `Advances`, and `AdvanceKeeps` does the rest once.
  - One request at a time (`OneAtATime(F)`): one handler, no faults but bodies that
    break, `Wild` the identity, and a set `F` of last segments that no directory
    has or is given, from which every copy takes its source: a copy is of a file. (A
    directory's copy lists nothing of what is below it, see section 4; in
    `Sequential`, `F` is `{f}`.) `Agree` speaks of quiet states, so `SeqInv(F)` says
    of each stage of each operation how rows and disk differ there, and what the
    handler has found out that is still true (`Stage`): a rename between its halves
    has a disk that is the rows moved, an upload that makes the rows of its parents
    has those rows in advance. With it each check a handler has made still holds
    when it acts (`NothingInTheWay`), every step leads from stage to stage (the
    `...Ordered` lemmas), and so `EveryRequestAgrees` (`Agree`) and, if no body
    breaks either, `RefusalsComeFirst` (`NoLateRefusal`).
  - On the same invariant rests `HandlersImplementTheTree` (`ImplementsTree`), the
    refinement of `LozaTree`, for every set of paths that contains those that
    storage and requests name (`AllNamed`). The view of `LozaSequential`, a join of rows and
    disk, is at each stage one of the two (`ViewIsShown`): the disk while
    the rows run ahead or behind a deletion (`Behind`), the rows otherwise. Each step
    then changes nothing that is seen, or is one of `AddDir`, `Put`, `Drop`, `Move`,
    `CopyFile` (the `...Promised` lemmas). The step that shows a request's effect
    is the publication of an overwriting upload and the upsert of a new one, the
    removal from the disk, the update of the moved rows, and the row of a copy or
    a new directory; directories above a target may show before.
- `LozaStorageProofs`: the pass, its faults and crashes keep `Inv` and `TreeInv`.
  - From `Inv`: `StorageTypeCorrect`, `KeysAreSound`, `UploadsAreAtomic`, and with
    `Wild` the identity `LinksFollowNodes`.
  - From `TreeInv`: `DiskStaysATree` (`RecTypeOK`), and with `Wild` the identity
    `RequestsAreConfined` (`Confined`).
  - The pass decides by its copy of the row paths, which is stale as soon as a
    handler runs. `PassInv` says what an undisturbed pass (`rec.ok`) can rely on:
    the copy has all rows, and of what is on the disk nothing more
    (`CopyInv`); a row it has not looked at yet is in `Unchecked`; in the walk,
    what has no row is at or below an entry still to come (`Awaited`), what is
    listed has been visited from above (`AsListed`), and no request is under
    way (`AloneInv`). It gives `PassesClean` (`PassCleans`) and `PassesReconcile`
    (`TwoPassesReconcile`), both for `PartName = {}`. `PassesKeepFiles`
    (`PassKeepsFiles`) needs that no row is added behind the copy, which is what
    `QuietRecovery` grants (`QuietInv`).

- `LozaBrowserProofs`: `BrowserInv` says that one list request is the newest
  exactly while the page loads (`LoadsOk`), and that the history is a sequence
  of folders of which neighbours differ and the current one is open (`HistOk`).
  The page itself keeps only a number of its newest request, so
  `LoadingTracksLatest` (`SkeletonTracksLatest`) needs that no two calls on
  their way are the newest: each way to start one must retire the others first.
  `HistoryHere` (`HistoryLeadsHere`) holds since `pushHistory` cuts what is ahead
  before it appends, and `handleNavigate` returns for the folder one is in.
  - `TypesInv` has the types of page, requests and server. The server's tree is
    stated with ancestors, as the disk is; a new node's id is fresh because it
    carries `stamp`, which no id has yet; a cut is never empty because what was
    chosen has topmost paths. With it `BrowserTypeCorrect` and
    `EscapeLeavesSelection` (`EscapeKeepsSelection`, with the one exception of a cut or copy by
    the context menu, which closes it too), and `ServerIsATree`: each of `Removed`, `Made`,
    `Moved`, and the copies made of them, is, entry by entry, a change of
    `LozaTree`, for any item of any call.
  - `FreshWhenQuiet` (`QuietListingIsFresh`) speaks of quiet states. What every
    step keeps is `FreshInv`: unless something strayed, or a notification is on
    its way or its timer runs, the newest request asks for the open folder and
    what it has been answered is still the server's listing. A change of the
    tree breaks the last part and sends the notification in the same step.
  - `SearchInv` says of a search that still counts that it is for the open folder
    and, unless the next one's timer runs, for the term in the field, and of any
    answer that it fits its own request. It gives `ResultsAreTheFields`
    (`ResultsMatch`).
- `LozaLinksProofs`: two invariants. `VisitInv` is about the visitor's page: its
  screen says which call can be under way (`OneWay`), an unlocked page has had
  the password (`Proved`), and the one content call that counts is for the open
  folder (`FolderCalls`). `ViewerShowsPath` (`ViewerShowsItsPath`) is not
  inductive without the last: an answer is taken because its call is the
  latest, not because its path is compared. `OnlyOpenLinksServe`
  (`LinksServeWhenOpen`) uses `Proved` for the access token a served request
  carries, and that what was in force when the row was looked at was so when the page asked (links are only ever closed). `LightboxInv` adds that the picture index lies within the pictures
  of the folder that is shown (`LightboxShowsItsFolder`). `PanelInv` is about the form: no password is kept while the switch is
  off, which gives `LinkAsShown` (`LinksAreAsShown`). `ListedWhenQuiet`
  (`ListTellsTheLinks`) speaks of quiet states only; what every step keeps is
  `OwnerInv`: each difference between the list and the server's links has a
  call on its way, or an answer to come, that will remove it (`UpToDate`), and
  the panel waits for exactly the calls of its latest turn (`WaitsRight`).
  The theorem exempts lists that were under way at the same time (`crossed`): they carry no
  number, the code shows the one that arrives last, and the hazard stands.
  `LinksTypeCorrect` needs both, since ids and turns are counters of calls.
- `LozaSessionProofs`: `SessionInv == PageCalls /\ LoginShown`. `OneLogin`
  (`OneLoginAtATime`) holds since the login button is shut while the page shows
  `loading`; what could reopen it is the timer of an earlier error, so the
  invariant has to say that this timer is stopped whenever a login is under way,
  and that a page that is left forgets its calls. `CallsInv` adds that a token
  is given out once (`TokenInv`: tokens that are stored, on their way, or in
  rows are told apart, and no row has the token of an answer not yet heard) and
  that a page's commands belong to the page that is open (`PageOk`); it gives
  `SessionTypeCorrect`. `StoredIsLive` (`StoredSessionIsLive`) is not inductive:
  while a command runs, the stored token may be spent already. `LiveInv` says
  that then this command carries the successor, or is about to find out that
  there is none (`Live`), and that no two commands replace one row
  (`LinesApart`): where two do, one of them loses, which `amiss` records. It is a claim about one
  command at a time, with one server: failures, lost answers, sessions ended elsewhere, overlapping
  refreshes and every change of server are exempted until the next login.
- `LozaTransfersProofs`: `Inv` joins the cards with the commands. Ids tell cards
  and runs apart; a card whose id still runs is active or cancelled and waits in
  the section it was made in (`CardsOk`); an active card has such a run
  (`NoOrphanIn`); and what the commands keep belongs to a run (`KeptInv`). From
  it `TransfersTypeCorrect`, `RetriesRunAlone` (`RetryAlone`),
  `NoCardIsOrphaned` (`NoOrphanCard`), `TransfersLeaveNothing` (`NothingLeft`),
  and, with the lemmas of the sessions, `OneLoginBesideTransfers` and
  `SessionsBesideTransfers`: the composition keeps `OneLogin`, the types of the
  sessions and `StoredIsLive`. A retry ("root") is followed through all its
  transfers, since a card and the run it repeats have different ids.

The theorems are about every set of names, handlers, requests, contents,
servers, passwords, items, tokens and calls and every bound; the runs show the
same properties, and the ones below, on the instances above. They hold of the
safety of each specification and need no fairness. Only model-checked are the
liveness properties (`PassEnds`, `CreatingEnds`, `CheckEnds`), which the prover
does not reach.

## 6. Not modelled

Everything marked `not_modelled` in `PROJECT.json`, with its reason:

- the calendar (server, desktop commands, hook, pages) and with it the request
  channel of the sockets, which serves nothing else; of the sockets themselves
  only the change notification is modelled, as a message that may be lost. After the
  first disconnection it is lost for good: `clear_sender` (`ws_client.rs:117`, called at 227) drops
  the only sender of the channel, which `spawn_ws_loop` makes once, so in each later connection
  `rx.recv()` returns `None` at once and ends it, and file notifications stop as well as the
  calendar's requests;
- the sliding windows of the limiters, socket slots and load samples: counters
  of one actor each, behind a mutex;
- password hashing, JWTs beyond their age, byte ranges, MIME types, `file_info`;
- the file viewer and editor, the folder tree, the status display, styles;
- the iOS client, a second client of the same server;
- deployment scripts and the container format, which have no state.

## 7. Running

    tlc -workers 2 -config Sequential.cfg MCLozaSequential
    tlc -workers 2 -config Create.cfg     MCLozaFiles     # also Interleavings, CopyRace
    tlc -workers 2 -config Recovery.cfg   MCLozaStorage   # also Chaos
    tlc -workers 2 -config Browser.cfg    MCLozaBrowser   # also LostCut
    tlc -workers 2 -config Links.cfg      MCLozaLinks
    tlc -workers 2 -config Desktop.cfg    MCLozaDesktop   # also LiveSession, CancelLost
    for m in Loza*Proofs.tla; do tlapm $m; done

A mutant of a definition is written before it, under a comment that begins with
"Mutant"; `PROJECT.json` says which property each one breaks.
