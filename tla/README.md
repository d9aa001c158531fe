# chat-to-codex: TLA+ models and proofs

`chat-to-codex` (C2C) is a broker process on a developer's machine. It lets a remote chat
client (Claude, ChatGPT) read registered workspaces over MCP and *propose* patches and
commands, which become effective only when they are approved locally. This directory models
the parts of `src/` whose correctness depends on the order of things: what happens when calls
queue, files change under a patch, a process dies between two steps, an answer is lost, two
commands run at once, or what is read page by page changes between the pages.

Contents: [inventory](#inventory), [modules](#modules), [runs](#runs),
[fairness](#fairness), [proofs](#proofs),
[where code and documents disagree](#where-code-and-documents-disagree),
[what is not modelled](#not-modelled), [plan](#plan), [how to run](#how-to-run).

## Inventory

```
 chat client ──HTTPS──> cloudflared ──> broker process (one per installation)
                        (tunnel/)        ├ auth/ + pairing/   tokens, pairing codes
                                         ├ mcp/               stateless tools
 c2c CLI, Manager ──loopback admin API──>├ write-requests/    proposed patches
   │                                     ├ command-requests/  proposed commands
   │ spawn, probe, stop                  └ workspaces/        registry, sessions
   └ broker/installation-process.ts ── runtime record, owner lease, process table
```

Everything in the broker runs in one Node event loop: interleavings happen at `await`, at
callbacks of timers, child processes and streams, and between processes.

| Component | State it keeps | Operations | Interacts with | Hard behaviour | What makes it correct |
|---|---|---|---|---|---|
| Lifecycle mutex (`write-requests/lifecycle-mutex.ts`) | the promise `tail` | `run(work, signal)` | both request services | a caller aborts before, while or after it waits | one at a time, in order of arrival, no abort wedges the queue |
| Patch application (`write-requests/apply.ts`) | staged files, created directories, committed targets, all on disk | stage, mkdir, commit one by one, roll back, clean up | other programs that edit the workspace | any system call fails; edits between any two calls; crash | all or nothing, never undo someone else's work, name what could not be undone |
| Write requests (`write-requests/service.ts`, `store.ts`) | one durable record per request, `blocked` | create, approve, reject, list, read, host-confirmed write | mutex, apply, clock | expiry and pruning inside every operation; receipt cannot be saved; crash before the receipt | no write without a pending record, none over unreviewed content, every effect accounted for |
| Command runner (`command-requests/runner.ts`) | one child, two pipes, a deadline, one claimed interruption | the callbacks of Node's events | OS process, service | events in any order; process or pipe that never ends | truthful receipt, first claim wins, every run ends |
| Command requests (`command-requests/service.ts`, `store.ts`) | one durable record per request, `active`, `blocked`, `closing` | create, approve, reject, read, recover, close | mutex, runner, restart | claim or result persisted half; crash between claim and receipt; shutdown during a run | one attempt per request, one run at a time, nothing launched after a lost result |
| Authorization (`auth/store.ts`, `auth/oauth.ts`, `pairing/manager.ts`) | pairing session, pending requests, codes, tokens, the token file | pair, authorize, issue, refresh, revoke, revoke all | admin API, restart | the save fails after memory changed; the file is cut off | one grant per pairing, ended stays ended, issued is kept |
| Legacy migration (`auth/migration.ts`) | merged file, `migration.json` | read, write, note, restart | a broker that may run | a process of its own beside the broker | what was noted as merged is accepted; what it does to a running broker's file is exactly told |
| Broker lifecycle (`broker/installation-process.ts`, `process-identity.ts`, `bridge/runtime.ts`, `write-requests/owner.ts`, start-up and shutdown of `broker/server.ts`) | runtime record, owner lease, pids | ensure, restart, recover, stop | CLI, Manager, other brokers | commands race; pids are reused; a broker hangs | one broker answers and is recorded, only it is signalled, stopped means exited |
| Registry and sessions (`workspaces/*`, `broker/daemon.ts`) | registrations and TTL sessions in memory and on file, a binding file per directory | register, remove, create, heartbeat, end | CLI, MCP target resolution | two commands of one directory; removal during a session; a lost answer; a save that fails after memory changed | sessions are of registered workspaces and the one a directory is bound to |
| Worktrees and local targets (`workspace/worktrees.ts`, `local-target.ts`) | none; reads Git's records and pointers | discover, resolve, check again, resolve a local directory | sessions, every tool that names a worktree | the disk changes between selection, re-check and use; pointers Git cannot follow | four readers agree; a read is of what was a worktree of the workspace when it was looked at last |
| Tunnels (`tunnel/*`) | child process, URL, preference file | start, stop, restart, provision | cloudflared, broker | overlapping starts; late exit event | no process is lost; a start is answered |
| Health, lifecycle, endpoint (`admin/*`, `config/endpoint.ts`) | the endpoint file; each command a copy of the runtime file | check, fix, start, restart, recover, stop, set up, confirm | broker, tunnel, files shared with other commands | answers change between steps; a command works on what it read long ago | what is shown was served; what is stored was earned |
| Reading tools (`workspace/git-snapshot.ts`, `git.ts`, `search.ts`, `bulk-read.ts`, `manager.ts`, `ignore.ts`, `mcp/server.ts`) | none between two calls | thirteen paged or bounded reads | Git, ripgrep, the working tree | everything may change between two pages; six kinds of limits meet; a walk passes over what it cannot read | pages fit together, a cut is never silent, a read comes to its end |
| Manager console (`manager/*`) | snapshot, generations, one foreground action, one approval attempt | refresh, act, review, approve | broker over HTTP | superseded and late reads; lost answer | nothing stale is shown, polling goes on; an approval is not repeated blindly |
| Patch preparation (`write-requests/patch.ts`, `text-edits.ts`) | none | edits to a diff, a diff to the reviewed content | write requests, the working tree | the file changes between three readings; first and last lines, line ends, hunks that meet | the content is what the diff shows, the diff is what the edits mean |
| Output tail (`command-requests/output.ts`) | none | pure functions | command requests | boundaries | results meet their definition |
| CLI, legacy bridge, logs, configuration | none, or append-only | dispatch | all of the above | | outside these models, see [below](#not-modelled) |

`PROJECT.json` lists every component with its status, and the hazards at their lines.

## Modules

| Module | Models | Abstract specification |
|---|---|---|
| `LifecycleMutex` | the promise chain: promise *n* is created by the *n*-th call of `run`; `released` are the resolved ones; `pc` is where each call stands between its `await`s | `FifoLock` (who waits behind whom, and who holds) |
| `PatchApply` | one `commitPreparedPatch`, one action per system call, with edits of other programs, failing calls and a crash between any two | `PatchTransaction` (all-or-nothing replacement) |
| `WriteRequests` | the service over its store: an operation up to its first `await` is one action, after the expiry and pruning every operation starts with; an approval goes on file by file | `WriteLifecycle` (SPEC-002 section 15.1) |
| `CommandRunner` | one run: an action is one callback of Node, in every order Node can deliver them | `CommandRun` (the promises `started` and `done`) |
| `CommandRequests` | the service over its store, with half-done persists, restarts and recovery; a run is what `CommandRun` promises | `CommandLifecycle` (SPEC-004 section 8) |
| `PatchText` | one target as a sequence of characters and line ends; text edits to hunks and hunks to content are operators, the three readings of the file are actions | |
| `Authorization` | pairing, authorization code, tokens, their file; each HTTP handler is one action, because each is synchronous | |
| `AuthMigration` | extends `Authorization` with `c2c broker migrate-auth` as a second process, beside a broker that is down, starting or running | |
| `Tunnel` | the provider's two fields apart from the cloudflared processes they may be about; every event of a process is an action; both providers | |
| `EndpointRepair` | extends `Tunnel` with nine commands of the `c2c` program as processes with a program counter, the values each has read and still uses, and two files they share | |
| `Worktrees` | operators, no state: what Git and `worktrees.ts` say of a disk, where a disk is what is at each directory and which records each repository has | |
| `Sessions` | extends `Worktrees` with the registry, the sessions, the binding files and the commands that use them, and with remote calls that select a worktree, look at it again and read it, in three steps | |
| `Paging` | operators, no state: how each reading tool cuts a page out of a list of rows | what an uncut list would show |
| `RemoteReading` | extends `Paging` with a client that reads one thing page by page while branches, tree, ignore rules and registry change | |
| `ManagerConsole` | the status read, the foreground operation and the review of the interactive manager; an action is what runs between two `await`s | |
| `BrokerLifecycle` | brokers as stages of start-up and shutdown, commands as loops over the runtime record, pids that are reused | |
| `*Proofs` | the theorems about the module of that name; `PartsProofs` is about `CommandRunner`, `LifecycleMutex` and `PatchApply`, `RemoteReadingProofs` about `Paging` too, `AuthMigrationProofs` about `Authorization` too, `EndpointRepairProofs` about `Tunnel` too, `WorkspacesProofs` about `Worktrees`, `Sessions` and `ManagerConsole` | |
| `MC*` | constants and symmetry for TLC, and the parts that a run explores side by side | |

How the modules fit: `WriteRequests` and `CommandRequests` take from `LifecycleMutex` that
operations run one at a time in order, `WriteRequests` takes from `PatchApply` what
`PatchTransaction` promises, and `CommandRequests` has exactly the run that `CommandRun`
promises. Each promise is checked of the module that makes it (`ImplementsFifoLock`,
`ImplementsTransaction`, `ImplementsRun`). `EndpointRepair` and `Tunnel`, `Sessions` and
`Worktrees`, `RemoteReading` and `Paging`, and `AuthMigration` and `Authorization` are checked
composed: the actions of the one work on the variables, or with the operators, of the other.

Conventions. Data is abstracted to what properties tell apart: a file's content is the request
that wrote it, `"original"` or `"foreign"`; a token is a grant and a kind; a broker's name
stands for its pid, start time and admin token. History variables (marked as such) record what
the code does not remember, such as which effects a request left. The definitions marked
*Mutant* are the code with a plausible mistake in it; each property has one that violates it.

Some correspondences are not obvious from the code:

* In `WriteRequests` every handler first applies `Tidied`, because `expireAndPruneLocked` runs
  first inside the mutex in every operation, including reads.
* In `BrokerLifecycle` a broker's stages `loading`, `owner`, `listening`, `serving` are the
  points between the awaits of `startBroker`; `stopping`, `closed`, `cleared`, `released` those
  of `shutdown`; it may stay at any of them for ever, or exit.
* In `Tunnel` the value of `url` is the process whose line set it, so that "the address of a
  process that has gone" can be said; in the code it is only a string.
* In `Paging` a row has a size in bytes and a size in the JSON of an answer, which stand for the
  limits in bytes (`MAX_RETURNED_TEXT_BYTES`, `maxResponseBytes`, ...); the limits are small
  numbers in the configuration, in the proportions that make each of them bite.
* In `PatchText` a hunk is what `parseHunk` makes of its lines. The lines of a diff that
  `renderPatch` writes are prefixed, so no content can be read as a header or a marker, and
  writing and parsing come down to the ranges of the header and the no-newline marks.
* In `ManagerConsole` a generation counter is a flag: whether what it was compared with is still
  current.

## Runs

| Run | Question | Bounds, and why they are enough |
|---|---|---|
| `parts` | *run of a command*: complete output was seen, first claim wins, every run ends, `CommandRun` is implemented. *Mutex*: a FIFO lock that never wedges is implemented. *Patch*: `FailuresAreAccounted` (a handled failure restores, what is left is named), `ImplementsTransaction`. *Text*: `PreparedAsProposed`. *Lifecycle command*: `CommandsEnd` | run: none, its state space is finite. Mutex: 4 calls, 3 of them abortable: a holder, an aborted waiter in the middle, and waiters on both sides of it. Patch: 2 updates around a create below 2 missing directories, so that a failure at the last file has committed files of both kinds and directories to undo; 2 edits and 2 failures allow a failure during the rollback of a failure, and an edit before each. Text: every text of up to 3 characters and some of up to 6 lines, with either line end and mixed, one or two edits, diffs with and without context and miscounted ones, one rewriting that moves the lines; context 1 instead of 3, so that hunks of six lines meet and stay apart. Lifecycle command: 1 command, 2 brokers, 1 rewrite of the record |
| `patch_newline` | *violation*, see below | |
| `write` | effects accounted; every write has a pending record, over reviewed content, and none follows an unresolved rollback (`WritesAreAuthorized`); the lifecycle; the mutex is released | one manual and one host-confirmed request over the same 2 files, 2 handlers (so approvals queue behind each other), 1 edit, 1 failure, 1 crash, and a clock that reaches expiry and pruning |
| `command` | one unresolved run, none launched after a lost result, reads never go back, the lifecycle, the slot is freed, shutdown ends | 2 requests, 2 failing or half-done persists, 1 restart, a clock past the window: the second approval meets every state the first can leave |
| `command_unsynced` | *violation*, see below | |
| `authorization` | one grant per pairing, nothing survives revoke-all, ended stays ended, issued is kept, and what a migration noted as merged is accepted | 1 legacy file or none, 2 pairings, 2 requests, 2 grants, 2 failing saves, 2 starts, 1 expiry: rotation, also of a merged token, with a failed save, and a restart between; with a legacy file one of each of these, so that what a broker starts, ends or issues meets every step of the migration |
| `authorization_retry` | *violation*, see below | |
| `migration_again` | *violation*, see below | |
| `broker` | one broker answers, the serving one is recorded, only it is signalled, stopped has exited | 2 commands, 2 brokers, 2 pids and other programs that take them, 1 rewrite of the record, 1 round: two commands that spawn at once, a record that changes and a pid given away during each step of an inspection. Two rounds are in `parts`, for one command, and any number is in the theorems, which state these four properties |
| `endpoint` | no process of a lone start is lost and each is answered; an address a command asked for was served; the stored choice and the confirmation are earned | 2 of the nine commands at a time, 2 cloudflared processes, 2 brokers: overlapping starts, a late exit event after a new start, a broker replaced under a command |
| `endpoint_died` | *violation*, see below | |
| `workspaces` | *Sessions*: `SessionsAreAccounted`, `TargetsFit`. *Reading*: `PagesFit`, `EndedReadIsComplete`, `AnswerFits`, `EveryPageBrings`. *Console*: `StatusIsCurrent`, `ApprovalsAreSettled` | Sessions: 2 commands, 3 directories (a main root, one in it, one beside it), 3 events from outside, 2 sessions: the second command meets every state between two steps of the first, every save can fail, and a worktree can be removed and replaced between selection, re-check and read. Reading: 3 versions (a list longer than two pages with hidden rows, one that fills a page and one that a walk may pass over; the same with a row in front; none), 2 changes, 2 workspaces, pages of 1 or 2 rows or up to line 3, which two pages reach and a third one passes: every limit ends some page and every source changes between two pages. Console: 2 requests in one of 2 workspaces: an unsettled attempt and another request that could be approved |

`parts` and `workspaces` explore parts that share no state: a variable `part` says which one a
behaviour is about, and the others keep their initial state. A property of another part holds of
such a behaviour by that state; it is the behaviours of its own part that test it.

Each of these runs would report a wrong type as an error of evaluation, and the types of every
module are in the inductive invariant that TLAPS proves of it (`PatchText`, which has
no proof, excepted); in `PatchApply`, `Authorization`, `AuthMigration` and
`EndpointRepair` they are also a conjunct of a property above. Deadlock checking is off: every
one of these systems may stop (nobody calls, the request is resolved, the bounds are reached).
Symmetry is used only in runs without liveness properties, over sets whose elements the module
treats alike.

Where the code breaks a promise, the property excepts exactly the cases, which history
variables name:

* `unpair` and `migrate-auth` work on the token file beside a broker that is starting or running.
  `copied` are the tokens that such a process held when their end was saved (`EndedStaysEnded`);
  `overlooked` the pairings of which a process held something that a revoke-all on the file does
  not reach (`NothingSurvivesRevokeAll`); `lost` the tokens that a write tore out of the file or
  left out, and `unloaded` those that a running broker had not read (`KeptUntilEnded`,
  `MigratedAreRecognized`).
* `orphaned` are the workspaces whose registration or removal a failed save or a crash cut in
  half, `disturbed` the directories where two commands overlapped, where one was killed or left
  without an answer between a session and its binding, where the save of a session failed, or
  whose registration changed (`SessionsAreAccounted`). In each a session that nobody is bound to,
  or that belongs to no workspace, lives on until its TTL of 12 hours; outside of them none does.
* `failed` says that the last answer of a search has what ripgrep found before it failed
  (`EndedReadIsComplete`), `barren` at which positions a page brought nothing though another one
  was to follow (`EveryPageBrings`, which names the one tool and case).

Two constraints keep `workspaces` small. `RemoteCallsAlone`: while a remote call has a worktree
selected, no command is under way; they share the disk and the registry alone, and each of their
steps is met with both in other states. `OneSource`: a search is not followed further when its
pages came from two sources; what is still said of such a search, `EveryPageBrings`, depends on
the position and the version alone. The theorems have neither.

## Fairness

Only what the code schedules is assumed, and never that somebody calls, edits, fails or aborts.

* `LifecycleMutex!MutexFairSpec`: due callbacks run, and work that was started ends. The services
  await only file-system calls, target resolution and a run's `started`, which all settle.
* `WriteRequests!FairSpec`: weak fairness of the operation inside the mutex, for that reason.
* `CommandRunner!FairSpec`: the deadline timer and the answer (or time-out) of the termination
  helper. Nothing is assumed of the process or its pipes: `EveryRunEnds` holds for a process
  that ignores signals and a pipe that a descendant keeps open.
* `CommandRequests!FairSpec`: an approval resumes, queued completions get their turn, `close`
  returns, and a *claimed* run ends, as `CommandRunner` guarantees. That every run ends is no
  part of it; `SlotIsFreed` states it as its premise, and `ShutdownEnds` does without.
* `BrokerLifecycle!FairSpec`: weak fairness of a command's steps, strong fairness of the end of
  its wait for a spawned broker (the deadline of 20 s passes however often the wait looks
  again). None for brokers: `CommandsEnd` holds for brokers that hang.
* `Tunnel!TunnelFairness`: the 45 s timer of a start (`cloudflared.ts:54`). Nothing is assumed
  of cloudflared, which may print nothing and never exit.
* `RemoteReading`, `Sessions` and `ManagerConsole` have none. `EveryPageBrings` states the
  progress of a read as a bound on its pages, and `StatusIsCurrent` that a next status read is
  always under way, scheduled or owed, so neither needs fairness.

## Proofs

TLAPS proves the following for all values of the constants. Assumptions are those named in the
modules (such as `ConstantsAssumption`): disjointness of model values, bounds in `Nat`, how
directories nest, that a disk the user starts with has one record of a directory in each
repository. Bounds such as `MaxFaults` are arbitrary naturals, so the proofs cover any finite
number of failures, edits, crashes and restarts.

* **`WriteRequestsProofs`**: `EffectsAccounted`, `AppliedCompletely`, `WritesAuthorized` (every
  write has a pending record, over reviewed content, none after an unresolved rollback), and
  `Implements`: the records implement `WriteLifecycle`. The invariant `Accounting` separates
  what the holder of the mutex has written (`done`) from what earlier attempts left: `Holding`
  ties the holder's step to its record, to the prepared contents and to `blocked`; `Calls` says
  that an id belongs to one call and has no effect before its turn; `Effects` accounts for the
  rest.
* **`PartsProofs`**, of `CommandRunner`: `CompletedTruthfully`, `FailedWithoutProcess`,
  `CompleteOutput`, `ClaimsAreKept`, and `ImplementsCommandRun`. `EventOrder` records which
  events presuppose which, and that a claim either is being carried out or has ended the run.
  Of `PatchApply`: `FailuresAccounted` (a handled failure restores, what is left is named) and
  `ImplementsPatchTransaction`. `Ledger` says that a result is on disk only at a target marked as
  committed, that an unmarked target is as it was or edited by others, that a directory of ours
  is one recorded as made, and that rolling back passes each once: what it has passed is no
  longer committed or ours, or is named.
  Of `LifecycleMutex`: `MutexTypeCorrect`, `MutexExcludes`, `MutexIsFair`,
  `AbortedWorkNeverStarts`, `MutexIsFifo` (`FifoLock` is implemented, step by step). Mutual
  exclusion is not inductive: nothing in it says that an abandoned call passes its turn on only
  after its predecessor. `Chain` does: the resolved promises are a prefix `0..k` of those
  created, every promise belongs to one call, and a call that is granted or working has a
  resolved predecessor. Then two working calls would both be the owner of promise *k+1*.
* **`CommandRequestsProofs`**: `LaunchedOnce`, `AttemptsAreRecorded`, `OneRun`,
  `TruthfulReceipts`, `RunningOwned`, `NoLaunchAfterLost`, `ReadsStay` (an action property: what
  a client was shown is never taken back), and `Implements`: the records implement
  `CommandLifecycle`, step by step. `Ownership` says that an unresolved run of this broker is the
  active one's, that a launched request is durably past `pending`, that a service that is not
  serving holds nothing in memory, and that a lost result means `blocked`.
* **`AuthMigrationProofs`**: `OneGrant`, `RevokeAllIsComplete`, `EndedForGood`, `Kept` and
  `Recognized`, with `unpair` and the migration at work at any time, beside a broker that is
  down, starting or running. `OneGrantPerPairing` is not inductive: `Pairings` follows a pairing, which is a
  number given out in order, from the session over its code to its refresh token and says that
  it is at one place at a time, in memory, in the file and in what the migration is about to
  write. `Ends` adds that what was ended is not in what the migration is about to write either,
  unless it was copied before, and that what clients may still count on is in the file, and while
  a broker runs in its memory too, but for what it had not loaded.
* **`BrokerLifecycleProofs`**: `OneBroker`, `ServesRecorded`, `Signalled`, `Stops`. `Brokerage`
  ties the lease a broker holds, the pid it occupies and the record it published to what a
  command believes: a command that captured an identity captured the recorded broker's, or that
  broker has exited and cannot confirm it; a command about to clear a record, or to report a
  broker as stopped, has seen its pid without it. Exits only make these facts truer, because a
  broker that is gone never comes back.
* **`EndpointRepairProofs`**: `NoStray`, `FilesEarned`, `AskedServed`, for any number of processes,
  brokers and commands. `Tunneling` is about the provider alone: a process whose start met no
  other is the only one that runs, and a known address is that of a running process. `Earning`
  says what a command at each program counter has a right to believe: the address it is about to
  show or save was served while it worked unless it came from its copy of the runtime file, the
  one it is about to confirm was confirmed by the user or by a file of an older version, and a
  choice it is about to store is one whose host name the account has: routed to the tunnel, or
  answered to exist, which the code takes for a route.
* **`WorkspacesProofs`**, of `Sessions` and `Worktrees`: `SessionsAccounted` and
  `TargetsAlwaysFit`. `SessionsAreAccounted` is not inductive: `Accounts` adds that one command at
  a time works on a directory that is not disturbed, and what it knows there: a command that is
  about to make a session or clear a binding leaves no live session behind, one that sends a
  heartbeat or an end names the session the directory is bound to, one that is about to save a
  binding has the only live one. It says so of the
  sessions in memory and of those on file, which a failed save lets differ. For the registry,
  also in both, it needs that sorting and removing keep every other registration
  (`SortedByName`, `OthersStay`). `LookedAt` says that a worktree which a remote call has looked at
  again is still one of its workspace, until the disk changes. What the readers of worktrees say is proved
  of their operators on any disk (`IdsResolve`, `LocalIsDerived`, `NearestTarget`,
  `CurrentIsOwned`), with `ChangesKeepDisks` for the steps of the user.
  Of `ManagerConsole`: `StatusStaysCurrent` and `ApprovalsStaySettled`. `Answered` says what the
  operation under way was asked and answered, `Refreshing` which status read counts while which
  operation is at work, `Outstanding` that only the remembered attempt can have a receipt nobody
  has read.
* **`RemoteReadingProofs`**, of `RemoteReading` and `Paging`: `PagesOfAReadFit` (`PagesFit`),
  `SilentEndIsComplete` (`EndedReadIsComplete`: everything that could be read, unless the last
  answer came from a ripgrep that failed), `BulkAnswerFits` (`AnswerFits`) and
  `EveryPageBringsSomething` (`EveryPageBrings`: but for `read_file` behind a named end line), for every
  content of every version, every limit, budget and page size and any number of changes from
  outside. The loops of `Paging` are functions over the prefixes of a list; `LoopExists` and
  `SameLoop`, by a least counterexample, stand in for the induction that the provers cannot do.
  From them come what a sum is (`TotalIsNatural`), that what a walk shows of a list goes on from
  what it shows of a part of it (`ShownOfPart`), and that reading commits in batches loses none
  (`BatchesJoin`). One lemma per tool says that its page `Follows`: it has the next rows of what
  the version has, the next position is behind them, and a silent end has all of them. A failing
  ripgrep (`FailedSearchContinues`) and a `read_file` with an end line have their own, weaker ones.
  `PagesFit` is not inductive, because it speaks of reads whose pages came from one version and
  says nothing of the position. `ReadInv` adds that the position is behind exactly what was
  received as long as one version is read, that the pages of a tool tied to a commit are of that
  commit, that a comparison under way was allowed to continue, and that a bulk answer in the
  making fits with every file still to come refused. `ReadingBounds` assumes for this that an
  answer in which every file is refused is within the least budget.

Only model-checked:

* Liveness: `EveryRunEnds`, `CommandsEnd`, `MutexIsReleased`, `SlotIsFreed`, `ShutdownEnds`,
  `LoneStartIsAnswered`, and the liveness halves of `ImplementsFifoLock` and `ImplementsRun`. TLAPS
  1.4.5 has no support for fairness and `ENABLED`.
* `PatchText`'s `PreparedAsProposed`. Its operators are folds and selections of the libraries,
  nested in each other and with operators as parameters; what they compute for every text needs
  induction over data.

## Where code and documents disagree

Shown by runs that expect a violation:

* `command_unsynced`: the command store throws after its `rename` when the directory cannot be
  synced (`command-requests/store.ts:91-95`). A claim can so be durable as `running` although
  `approve` threw before it set `active`; the next approval claims another request. SPEC-004
  section 14 permits one `running` record. No command is launched twice, and none for the first
  request; the record stays until the broker restarts.
* `authorization_retry`: `revokeToken` forgets the token before it saves and returns when the
  token is not in memory. When the save throws, a repeated revocation is answered 200, nothing
  is written, and a restart accepts the token again.
* `endpoint_died`: when cloudflared ends by itself, its exit event clears the provider but not the
  public address in the runtime file. A repair then finds no tunnel, and `ensureBrokerTunnel`
  (`broker/daemon.ts:62`) answers with that address without asking the broker: the repair ends
  healthy and saves it, with no tunnel up. `docs/troubleshooting.md:9-10` says doctor restarts
  the tunnel.
* `migration_again`: when another legacy file appears, all legacy files are merged again, those
  merged before included, whose tokens may have been rotated or revoked since.

* `patch_newline`: what a hunk adds takes its line end from the lines it is about, or else from
  the line it starts at (`write-requests/patch.ts:356`). If the file is a single line without a
  line end, that is no line end at all: a diff that adds the final newline is prepared, reviewed
  and applied as no change (an added empty line vanishes the same way), one that adds lines is
  refused, and so are text edits that add a line. `spec-002-approved-local-patch-writes.md:833-834`
  says that the final newline follows the patch. `PreparedAsProposed` excepts exactly these files.

Met while modelling, without a run of their own:

* `revokeInstallationAuth` (`broker/daemon.ts:235`) works on the file when it finds no runtime
  record; a broker that has loaded the tokens and not yet written its record keeps them, and
  saves them again; a migration about to write does the same with its copy.
  `NothingSurvivesRevokeAll` excepts what they held (`overlooked`).
* `migrate-auth` (`cli/index.ts:1489`) reads and writes the token file beside a running broker. A
  token that the broker rotates or revokes between the read (`migration.ts:55`) and the write
  (`:82`) is accepted again after the restart, and a grant issued there is lost. Until the restart,
  which `--json` leaves out and which may fail, the broker has the old tokens, and its next save
  writes them over the merged ones, which are noted as merged and not merged again.
  `EndedStaysEnded`, `KeptUntilEnded` and `MigratedAreRecognized` except exactly these tokens.
* `routeDns` takes an error that says that the name exists for a route (`named-provision.ts:78-80`,
  `:163`): the named tunnel may be stored while its host name leads elsewhere, and whoever answers
  there passes the probe. `FilesAreEarned` allows it. A file of a version without
  `confirmedMcpUrl` counts its address as confirmed (`endpoint.ts:45-47`).
* `WorkspaceRegistry.remove` forgets the registration before it saves. When the save throws, or
  that of a session after it, the removal is answered 500 with the workspace unregistered and its
  sessions live; a repeated removal ends none of them, because nothing is registered any more
  (`registry.ts:163`, `broker/server.ts:288`). A registration whose save fails is one until the
  broker is restarted, and its sessions then belong to none.
* A worktree is checked again when it is selected (`targets.ts:34`) and read some awaits later
  (`mcp/server.ts:793`, `822`, `855`, `892`): what the user puts there in between is read.
  `TargetsFit` excepts a disk that changed in exactly this time.
* After a crash with every file replaced, the request that was applied is still pending; its
  next approval reports `stale`, which SPEC-002 describes as not applied. `EveryEffectAccounted`
  therefore counts a crash as an account of its own (`orphans`).
* `registry.register` derives the id from root *and* display name, so registering a root again
  under another name makes a second registration, though `workspaces/registry.ts:11` calls the
  id deterministic per canonical root. Which of the two `getByRoot` finds may change when the
  broker restarts, because the file is sorted by name.
* `endWorkspaceSession` clears the binding although the broker did not end the session, and a
  heartbeat whose answer is lost makes a second session: both leave one behind until its TTL.
* A bulk answer may exceed its budget by one byte: attempts are measured with `truncated: true`,
  the answer may say `false` (`AnswerFits` allows this byte). When every file is refused the answer
  is not measured: ten long paths of control characters, six bytes each in JSON, exceed the least
  budget of 16 KiB. `ReadingBounds` leaves them out.
* The exit code of ripgrep is ignored (`search.ts:329`): a search that failed half-way is reported
  as complete. `EndedReadIsComplete` excepts such an answer (`failed`). Ripgrep and the Node
  walk list in different orders, so a search that changes engines between pages mixes two lists.
* Both engines pass over what they cannot read and over files of more than 2 MiB
  (`search.ts:364-395`, `--max-filesize`), and `list_directory` over subdirectories it cannot read
  (`manager.ts:252-256`), without calling the answer truncated. `EndedReadIsComplete` speaks of what
  could be read (`frail` rows and `unread`); pages that could read different things count as pages
  from different sources.
* `read_file` with an `end_line` does not keep it at least at the start line (`manager.ts:189-191`,
  as `git_browse` does): a client that goes on from `nextStartLine` and names the same end line
  again receives no line, `truncated: true` and the same next line, for ever. `EveryPageBrings`
  excepts exactly this.
* `.c2cignore` and an omitted workspace argument are looked at anew for every page, and
  `git_list_branches`, `git_diff`, `git_search`, `read_file`, `search_workspace` and
  `list_directory` are not tied to a version: their pages may come from several. `PagesFit` says
  what is promised for which tool. The two Git calls of `git_diff` are not atomic; a browse that
  starts beyond the end returns the last line again; a cut inside a multi-byte character makes
  the offsets of `git_diff` drift (`git.ts:616`); `next_offset` may exceed the 10000 that the
  schema accepts.
* Two overlapping tunnel starts leave a process that no stop and no shutdown ends, and a process
  that timed out may exit after the retry and be taken for it (`cloudflared.ts:54-60,91`):
  `NoStrayTunnel` and `LoneStartIsAnswered` are stated for starts that meet no other. A failed
  second set-up of a named tunnel demotes a working choice to quick; a confirmation and an
  observation at the same time can lose one of the two writes of the endpoint file.
* `assertDerivedWorktreeCurrent` checks again that the pointers of an explicitly read worktree
  agree, but not that they are paths of this distribution.
* The console forgets an unknown approval attempt when it is closed.

## Not modelled

* **Data**: the syntax of a diff document (headers, metadata, lone carriage returns), encodings,
  size limits, UTF-8 cutting, path rules, several targets in one patch, the syntax of Git's
  output. Sequential and pure.
* **Presentation and dispatch**: admin routes that forward to a service with a module, CLI parsing
  and output, screens and layouts of the console, logs, receipts, HTML.
* **The legacy bridge** (`bridge/server.ts`): the per-workspace server of earlier versions, with
  the auth store, pairing and tunnel that are modelled for the broker.
* **Within worktrees**: symbolic links, bare or unborn commits, two records of one directory, a
  Git without `worktree list`, and the asynchronous reader of the console, which runs the same
  generators under a deadline.
* **Within reading**: path confinement (sequential), the detection of the project, context lines,
  `git status`.
* **Within other modelled files**: the per-IP rate limit of pairing, client registration beyond its
  save, PKCE and redirect checks (one choice: they match or not), HTML; file modes and symbolic
  links in `apply.ts` (a guard that fails for another reason); which signal reached the leader of
  an earlier broker's run; the snapshot that `authorizationStateUnknown` reports. A runtime record
  that cannot be read or locked ends a command like a cancellation. The duplicate-broker port
  guard of `startBroker` is unreachable on Linux, because the owner lease comes first; other
  platforms are left out.
* **Time**: expiry is a clock where a property depends on the order of times (`WriteRequests`,
  `CommandRequests`) and a choice elsewhere.

## Plan

Modules are parameterised by constants with named assumptions, have one action per operation,
and use no recursive operators where theorems are planned.

Done: `LifecycleMutex`, `PatchApply`, `WriteRequests`, `CommandRunner`, `CommandRequests`,
`Authorization`, `AuthMigration`, `BrokerLifecycle`, `Tunnel`, `EndpointRepair`, `Paging`,
`RemoteReading`, `Worktrees`, `Sessions`, `ManagerConsole`, `PatchText`, in this order: first what can damage
a workspace, then what can run a command, who may ask, who serves and under which address, and
then what is read, for which workspace, and how it is supervised.

Next, in this order:

1. A composition of `BrokerLifecycle` with `Authorization`: a broker loads the token file before
   it has the lease (`broker/server.ts:147`).
2. `OutputTail` (`command-requests/output.ts`) against a reference definition over bounded
   inputs; the rules of `preparePatch` about several targets of one patch.

Theorems to prove next: what `ApplyHunks` of `PatchText` makes of one hunk, once its folds are
functions over the prefixes of a list, like those of `Paging`.

## How to run

In this directory: `tlc -workers 2 -config X.cfg M` with the pairs listed under `runs` in
`PROJECT.json`, and `tlapm M.tla` for the modules named `*Proofs`. The longest run takes three
minutes on two cores, the longest proof some minutes.
