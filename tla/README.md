# Extreme Launcher: specifications

TLA+ models of the concurrent core of the C++ launcher (`src/launcher`), the
TLC runs that check them, and TLAPS proofs of all the safety properties that
hold in the runs: about the composite tasks that everything else in the
program is built on, download jobs, network requests and their cache, the staging
of instances, the instance list, the launch, the accounts, folders of resource
packs, the components of an instance and the self-updater.
`src/dotnet`, a rewrite of the launcher in another language, is not covered.

## The system

The launcher is one Qt process. Nearly all of its logic runs on the main
thread; what interleaves are the turns of the event loop: calls posted with
`Qt::QueuedConnection`, signals of network replies and timers, work that ends in
a worker thread and is reported by a signal, and what the user does in between.
A modal dialog is a nested event loop: the code below it on the stack waits
while everything else goes on. The self-updater is the exception: up to four
programs that share nothing but files.

| Component | State it keeps | Operations | What is hard, and what makes it correct |
| --- | --- | --- | --- |
| `tasks/Task` | `m_state`, abort flag | `start`, `abort`, `emitSucceeded/Failed/Aborted` | A task reports each run once; starting a running task is ignored. |
| `tasks/ConcurrentTask`, `SequentialTask`, `MultipleOptionsTask` | `m_queue`, `m_doing`, `m_done`, `m_failed`, `m_total_max_size` | `addTask`, `executeTask`, `executeNextSubTask`, `subTaskFinished`, `abort`, `clear` | All progress comes from posted calls: none may be lost, none may start too much, the outcome must agree with the sub tasks. |
| `net/NetJob` | the above, `m_try`, `m_manual_try`, `m_ask_retry` | rounds of retries, `emitFailed` with a question, `abort` | Retries move requests between the tables; the question is a nested event loop. |
| `net/NetRequest`, sinks, validators | `m_state`, `m_reply`, temporary file, cache entry | `executeTask`, reply signals, redirects, `abort` | The decision is spread over several signals; the target file may only change by a complete, verified transfer. |
| `net/HttpMetaCache` | index of entries, save timer | `resolveEntry`, `updateEntry`, `evictEntry`, `SaveNow` | Entries, files and the delayed index file drift apart, in particular over a crash. |
| `InstanceStaging` (in `InstanceList.cpp`) | staging folder, back-off series, timer | run the child, commit, retry, abort | Commits that fail half-way and are tried again; owners that go away. |
| `InstanceList` | instances, groups, collapsed groups, trash history, group file | load, group operations, trash and undo, delete, commit | Memory, folder and group file must agree over watcher events, failures and restarts. |
| `launch/LaunchTask`, `LaunchController` | steps, current step, state | `executeTask`, `onStepFinished`, `proceed`, `abort` | The steps that ran are finalized, in reverse, however the launch ends. |
| `minecraft/auth`, `launch/steps/ClaimAccount` | accounts, default, activity count, `m_refreshQueue`, `m_currentTask`, two timers, the steps of a flow | add, replace, remove, `fillQueue`, `requestRefresh`, `tryNext`, `AuthFlow`, login of a launch, claim | One queue serves the timer, the page and every login; whoever waits for an account must get an answer, whatever became of the flow. |
| `minecraft/mod/ResourceFolderModel` | rows, `m_resources_index`, update task and its scheduled successor, parse tasks with tickets, watcher | update, `onUpdateSucceeded`, `resolveResource`, `onParse...`, enable, delete, install | Results of tasks for rows that have changed or gone since. |
| `PackProfile`, `ComponentUpdateTask`, `meta` | components (version, requirements, volatile), task state, metadata in memory and on disk | edit, load, `resolveDependencies`, save | A fixed point over metadata that arrives in any order, in a list the user edits. |
| `updater` (`ExtremeExternalUpdater`, `ExtremeUpdater`, start-up in `Application`) | installation, backup, unpacked release, lock, two verdict markers | check, offer, download, lock, backup, unpack, hand over, install, verdict, next start | Every program may be killed in every file operation; what is left must be announced and the old release must survive. |
| settings, Java, importers, UI | | | Sequential, external or presentation; not modelled. |

Interactions: a `NetJob` is a `ConcurrentTask` of `NetRequest`s; a request and
the cache share the `MetaEntry`; a staging wrapper owns an `InstanceTask`, which
owns jobs, and commits into the `InstanceList`; a `ProgressDialog` posts the
`start()` of the task it was given and ends with that task's first outcome; a
launch asks the `AccountList` for a refresh before its first step and marks the
account as in use by one of its steps.

## Modules

`ConcurrentTask` models the three composite tasks. Each action is one turn of
the event loop or one call of the owner. `events` is Qt's queue of posted calls,
an entry being the receiver (the job, for `executeNextSubTask`; a sub task, for
`start`). `executeNextSubTask` is split by its early returns into
`SettleOptions` (the part `MultipleOptionsTask` puts before it), `SkipNext`,
`FinishJob` and `StartSubTask`. `deaf` remembers which sub tasks had their
`aborted()` signal disconnected by `abort()`. `kind` chooses the class, so that
one run covers all three.

`TaskPool` is the abstract specification: sub tasks with a phase, a width, and
outcomes that agree with the phases; it has no queue and no event loop.
`ConcurrentTask` implements it (`ImplementsPool`) with the phases read off the
four tables.

`NetJob` has the overridden `executeNextSubTask`, `abort` and `emitFailed`. The
operators of `executeNextSubTask` take the rest of the event queue, the value of
`m_try` and the number of open questions, because the code calls it from two
places: from a posted call and from the answer Yes.  A request is seen from
outside: it may settle inside `start()`, or open a reply that ends later, and it
answers `abort()` only while a reply is open.

`NetRequest` is one request from inside: `executeTask`, `downloadError`,
`handleRedirect`, `downloadReadyRead`, `downloadFinished`, `abort` with
`FileSink` and `MetaCacheSink`. The bytes received are abstracted to whether
they can still become the expected file. It extends `HttpMetaCache`, the index
of one path: the entry in memory (`stale`, checksums, modification time), the
index file written by `SaveNow` some time after a change, evictions by the owner,
changes of the file by other programs, and a crash or an ordinary end after
which the index is read again. The two share the entry and the file, so that a
request may find what an earlier request, an eviction or a crash left.

`InstanceStaging` is the wrapper around an instance task with the real
constants of its back-off, the commit with everything `FS::move`,
`FS::copy` and `FS::overrideFolder` may leave behind when they fail, and its two
owners: `MainWindow` (which runs the wrapper) and `ManagedPackPage` (which runs
the child).

`InstanceGroups` is the `InstanceList`: the instance folders, the list in memory
(`m_instances`, `m_instanceGroupIndex`, `m_groupNameCache`,
`m_collapsedGroups`, `m_trashHistory`) and `instgroups.json`. Each action is one
operation of the user with every load and save it makes, in the code's order:
`Commit` loads the list before it saves, `UndoTrashInstance` after. A save or a
read may fail; folders come and go on their own and the watcher reports it at
any later time; `InstFolderChanged` takes the list to another folder with what
some launcher left there (`Elsewhere`); `Restart` builds the list again from what
is on disk.
`MCInstanceGroups` instantiates it with interchangeable names.

`LaunchTask` is a launch from `LaunchController::launchInstance` on: the steps of
`LaunchTask` one after the other, `finalizeSteps`, `abort` and `proceed`, the
game's process (`LauncherPartLaunch` with `LoggedProcess`), and the controller
with its profiler. Steps are told apart by how they end and what `abort()` does
to them. The stack of modal boxes is a variable: a box is a nested event loop,
so steps end and start under it, and the code after it runs only when it is the
top one. `MCLaunchTask` gives the chains of steps.

`Accounts` is the `AccountList` with everything that works its queue: the timer
that fills it (`fillQueue`), `requestRefresh` by the page and by
`LaunchController::login`, `tryNext`, the running `AuthFlow` (its steps are
reduced to a reply that may never come before its time-out, fail softly, fail
hard or succeed, and to the profile it brings), the login dialog of the launch
with its Abort button, the check of the account's state afterwards, and
`ClaimAccount`. Accounts are removed while a flow holds them. `MCAccounts` gives
the accounts and their profiles.

`ResourceFolder` is one `ResourceFolderModel` and a page over it. Other programs
and the user change the folder; the watcher reports late. An update runs in a
worker and delivers the listing it made; parse tasks do the same for one file.
The signals of a task are posted one by one, so that an update may be applied
between the `failed` and the `finished` signal of a parse task, which is where
the row numbers of the one and the rows of the other meet. A file is a name with
a form: plain, disabled, or one of the numbered duplicates to which
`getUniqueResourceName` renames a disabled file that has an enabled twin. A deletion
from the page makes the resource forget its type first and may then fail
(`Resource.cpp:177`): the row keeps standing for a file that it cannot rename any
more, and a parse task of it that has not run yet fails.

`ComponentUpdate` is `PackProfile` with `ComponentUpdateTask`: `loadComponents`
with the entities it waits for, the slots of their tasks, `checkIfAllFinished`,
and `resolveDependencies` with `gatherRequirementsFromComponents`,
`getTrivialRemovals` and `getTrivialComponentChanges`, the recursion into another
round when something was added, and the save at the end. Nothing else runs
during a loop of the code over the list, so a pass of the loop may be a step of
its own: obsolete components leave one by one, and in the phase `add` the missing
ones are inserted one by one, at the places that were computed for the list
before the first insertion, as in the code. The metadata, what each
version requires and suggests, is a constant; the entities in memory and on disk
are variables. Offline, an entity on disk counts as loaded only if its checksum is
known, that is, if the list of versions it belongs to was read since the start.
Edits of the list may come while an update runs, and a restart reads the list
again. `MCComponentUpdate` gives five components with conflicting
wishes.

`Updater` is the launcher (start-up, check, offer), the installed updater
(`extremeupdater` up to the start of the new one) and the updater of the
unpacked release, over the installation, the backup folders, the unpacked
release and the marker files. A file is abstracted to the release it came from,
to `None`, or to `Torn` when its copy was cut off. Each program may be killed
between its operations and inside a copy. An operation that may fail has a
parameter that says whether it did, and what follows is what the code makes of
it:

| Operation | Code | What a failure leads to |
| --- | --- | --- |
| release list | `ExtremeUpdater.cpp:1284` | the updater ends, or goes on with the pages that did parse |
| download | `868` | the archive of an earlier attempt is used, or the updater ends |
| write the lock | `974`, `1040` | ignored: the update goes on with the lock that was there, or with none |
| read the manifest (backup, install) | `1091`, `639` | the built-in names, or the names that lie in the target |
| copy a file to the backup, remove it | `1158` | logged; it stays where it is |
| unpack, start the new updater | `1063`, `1082` | the updater ends and leaves the lock |
| copy a file of the release | `683` | remembered in `error` |
| copy the log to a verdict marker | `715`, `719` | ignored: no marker |
| remove the lock | `722` | ignored: the next start finds it |
| remove a lock or marker at the start | `Application.cpp:934` on | ignored |

A write that throws instead (the change log at 1036, the path of the backup at 1142, the
unpack marker at 1065) ends the program at that place, which is a kill. The
dialog of an offer is open as long as the user likes, and `offered`, the release
it was opened with, is the one that `InstallOffered` hands to the updater,
whatever has been installed since (`ExtremeExternalUpdater.cpp:316`).
`MCUpdater` gives three releases: enough to install one, install the same again
from an offer made before, and back both up for a third.

The theorems about a module `M` and their proofs are in `M_proofs`, which extends
it: there is one for `ConcurrentTask`, `NetJob`, `NetRequest` (with
`HttpMetaCache`), `LaunchTask`, `Accounts` and `Updater`. `InstanceList_proofs` is
about `InstanceStaging` and `InstanceGroups`, and `InstanceContent_proofs` about
`ResourceFolder` and `ComponentUpdate`.

## Runs

| Run | What it asks | Bounds |
| --- | --- | --- |
| `ConcurrentTask` | lost wake-ups, outcome, order, orphans, termination, refinement | 4 sub tasks (2 not abortable), 2 slots, 2 runs of the job: enough for a slot to be taken while another is working, a queue behind both, and a reuse |
| `NetJob` | tables, number of attempts, outcome, termination | 3 requests, 2 slots (a queue behind two at work), 2 manual retries: every automatic round is followed by a question twice |
| `NetRequest` | reports, commits, cache entry, saved evictions | 2 starts and 1 redirect: a restart follows every way a first start can end; 2 requests of the path; modification times up to 3, so that a file may change before, between and after them |
| `InstanceStaging` | success, retries, end | back-off 1 to 16 as in the code, 7 commits (5 are possible before the report, the rest after it) |
| `InstanceGroups` | what survives a restart, groups of new and restored instances, reference counts | 2 instances, 2 groups (an instance of the group and one outside it, a group to rename to), 1 item in the trash, counts up to 2; another folder has no group file, or one with all instances in one collapsed group, and is never one that was left |
| `LaunchTask` | finalization, abort, the game's word, termination | a chain with every kind of step in the code's order, one with two tasks in a row; with and without profiler |
| `Updater` | a broken installation is announced, the old release survives, success is true | 3 releases, each with an executable, an updater and the manifest (an installed release, one that is installed over it, maybe twice, and one whose backup meets the first two); updaters started, kills and failed operations are at most 4 together: one update that goes wrong in two ways and its repetition, or two updates and two faults; release 2 may be skipped; one installed updater and one updater of a release at a time, which may overlap |
| `Accounts` | the list's books, the queue is worked off, logins are answered | 3 accounts of which two have the same profile, 1 launch, 1 act on the page: a refresh by the timer, one by a login and a removal or addition meet |
| `AccountsGame` | (violated) no account is refreshed while a game uses it | same |
| `ResourceFolder` | rows and index, an open page ends up with the folder's content | 2 names, of which 1 is a pack, 1 parse slot (so that one waits), 2 changes of the folder, and 2 duplicates of a name, which is as many as 2 changes can make |
| `ResourceFolderAssert` | (violated) the assertion of `onParseFailed` | same |
| `ComponentUpdate` | success means that requirements are met, every update ends | 5 components in 2 versions, 3 edits: one before, one during and one after an update |

The violated runs are disagreements between the code and its own words; they
are described under `findings` in `PROJECT.json`.

Deadlock is not checked: all of these systems come to rest.

### Properties

The comment in front of each property says what it promises. Those that relate
most are:

- `NoLostWakeup`, `NoOrphans` (`ConcurrentTask`): progress comes from posted calls
  only, and each must find its sub task in the right table.
- `FreshEntryMatchesFile`, `EvictionHolds` (`NetRequest`): the entry a request
  trusts describes the file that is there, over crashes and changes from outside;
  what was evicted and saved is downloaded again.
- `RestartKeeps`, `GroupSticks`, `CountsKept` (`InstanceGroups`): memory, folder
  and group file over failing saves, late reports and restarts.
- `CleanedUp`, `NothingStartsAfterAbort` (`LaunchTask`).
- `QueueServed`, `LoginAnswers` (`Accounts`): no account stays in the queue and no
  dialog stays open for ever.
- `IndexMatches`, `ListAgrees` (`ResourceFolder`).
- `SuccessMeansResolved` (`ComponentUpdate`): after the last round nothing that a
  component requires is missing or of another version, whatever order the
  metadata came in.
- `BrokenIsFlagged`, `OldKept`, `SuccessMeansInstalled` (`Updater`).

### Fairness

Liveness is checked under weak fairness of the event loop (a posted call is
delivered), of the work of each sub task or reply (a reply always finishes, a
stuck one by the transfer timeout), of a running timer, and of the user
answering a modal question. A process of a launch ends by itself, except for a
game that still waits for its word; nothing is assumed of a profiler. Nothing is
assumed of calls an owner may never make (adding, aborting, starting).

- `Accounts`: the queue timer and the refresh timer fire, a reply comes or its
  time-out does, posted calls and the steps of a login are served. Nothing is
  assumed of the user.
- `ResourceFolder`: posted signals are served, worker tasks run, the watcher
  reports a change in the end.
- `ComponentUpdate`: the load tasks of the metadata end, one way or the other
  (`NetJob` and `NetRequest` are the reason), and the task's own steps follow.
- `Updater`: none; its properties are safety properties, since nobody promises
  that the user starts the launcher again.

### Abstractions that matter

- Progress, status texts, speeds and headers are left out.
- `NetJob` iterates hash tables; the order is chosen freely.
- Whether a failed request "found its host" (`isOnline`) is chosen freely, so a
  question may or may not be asked.
- Servers: a 304 is only sent to a request that named a cached file; answers
  with neither a body nor status 200 or 203 are left out.
- The trash history and the reference counts are bounded; an instance restored
  under another name takes any free one.
- `RestartKeeps` and `GroupSticks` are conditional, and the conditions are where
  the code really loses a group: an instance restored from the trash is skipped
  by the save that should write its group (`InstanceList.cpp:386`), and a list
  that has read no group file reads its own in the middle of a commit
  (`InstanceList.cpp:626`).
- A new instance folder without a readable group file leaves the index as it is
  (`InstanceList.cpp:841`): its instances show the groups that instances of the
  same name had in the old one, and the trash still restores into the old folder
  while the list counts what it restored. `CountsKept` leaves out that step.
- After the outcome of a staging wrapper is reported its timer may still fire
  until the owner has let go of it; the real window is smaller.
- A job that is aborted with nothing in flight emits `aborted()` without leaving
  the state it is in (`ConcurrentTask.cpp:75`), so a second report may follow;
  `SingleOutcome` says that this is the only way to a second one.

- `HttpMetaCache`: how old an entry is, is a choice. A request that asked "not
  modified since?" while `EvictAll` deletes the file answers success with no
  file; `SuccessMeansFile` leaves out what such an eviction wiped. An empty body
  with status 200 keeps the old checksum of the entry.
- `Updater`: archives unpack or say so (`Truncated = FALSE`); otherwise
  `BrokenIsFlagged` and `OldKept` are false, because `tar`'s exit status is not
  looked at. What the code really
  loses is kept out of the properties by two history variables, and is:
  - `unguarded`, for `BrokenIsFlagged` and `SuccessMeansInstalled`. A lock that
    cannot be written is not missed (`ExtremeUpdater.cpp:1040`), and a kill then
    leaves a broken installation without a word; the same is true of a failure
    whose marker cannot be copied while the lock is removed all the same (715,
    722). A user who goes on past the warning has removed it. A release whose
    manifest cannot be read is installed by the names that lie in the target,
    most of which the backup has just moved away, and this counts as success. And
    two updaters may be at work at once, when the user had the lock removed or
    the second went on over it (see below): the first that ends removes the lock of
    both. From where the lock is next taken with none of this, the promise holds
    again.
  - `spoiled`, for `OldKept`. It stands for a file that could not be copied or
    removed, a manifest that could not be read, and for a stale updater: the
    release it was given, by a dialog or by the command of one, is no newer
    than the one installed by the time it takes the lock, or it has probed the
    version of a release before another put an older one in place. Such an updater
    installs a release over itself; cut off there, it leaves torn files that
    the next update copies over the only good backup of the same version. TLC
    finds this loss in the bounds of the run when `Stale` is left out of
    `TakeLock`: release 2 is installed while a second offer of it is
    open, the reinstallation is killed while it copies the manifest, and the
    backup before release 3 overwrites `backup_2`.

  A list of releases that does not parse calls `fail()`, which only posts the end
  of the event loop, and `run()` goes on (`Lists` has `"malformed"`); a message box
  opened later returns at once, with the answer that means going on past a lock. The
  confirmation of a foreign lock compares a button with `QMessageBox::AcceptRole`
  (`ExtremeUpdater.cpp:1025`), so every answer given by pressing a button aborts,
  Ignore included; the model does the same.
- `Accounts`: an aborted task keeps the state Working of its account, and a
  refresh that is aborted or whose account is deleted stops the queue, since
  `tryNext` only listens to `succeeded` and `failed` (`AccountList.cpp:632`);
  `QueueServed` speaks of the queue until then (`cut`). An active account that is
  replaced or removed is never counted out (`lost`). `ClaimAccount` reports
  nothing when the account is gone (`ClaimAccount.cpp:17`), and such a launch
  does not end; the launch is modelled up to the claim.
- `ResourceFolder`: parse tasks keep a reference to their resource and their
  `abort()` is a flag; after the resource is deleted they may read anything, so
  such a task has any name and any outcome. `slipped` remembers that a result was
  filed under a name that no row has: `m_resources_index` then gives row 0 for that
  name, and the list may stay wrong. `clashed` remembers that a row was renamed to
  the name that another row still has: with an enabled file and a disabled
  twin, the twin becomes `.duplicate` and gets a row; if that file goes away and a
  disabled twin is written again, switching the enabled file off before the next
  update renames it to the same `.duplicate`, and two rows have one name.
  TLC finds this with 1 name and 4 changes when `~clashed` is left out of
  `IndexMatches`, which speaks of the time before. Only rows with a plain or
  disabled file are renamed from the page. `mistaken` remembers a loss on the way
  of deletion: `Resource::destroy` sets the type to unknown and then fails to
  delete the file (`Resource.cpp:179`); a parse task of the resource that had not
  started finds no type it can read and fails
  (`LocalResourcePackParseTask.cpp:39`), and `onParseFailed` takes out the row of a pack
  that is still there. The folder has not changed, so nothing asks for another
  update, and the page does not show the pack until it is opened again or
  something else in the folder changes. TLC finds this in the run's bounds when `~mistaken` is
  asked of `ListAgrees`, which speaks of the other cases.
- `ComponentUpdate`: a call of `getLoadedVersion` with its nested event loop is one
  step. A component whose metadata arrives under another name makes
  `resolveDependencies` recurse for ever, and one whose place in the list has gone
  ends the program: neither is in the enumerated inputs. Which lists of versions were read
  before an update goes offline is chosen freely for each load. `loadComponents`
  restores `volatile` from a key that `save` does not write (it writes
  `cachedVolatile`, `PackProfile.cpp:143` reads `volatile`); the model does the same.

### Not kept as runs

These follow from the models with other constants or by reading, and are
described here rather than checked:

- `clear()` leaves `m_doing` as it is (`ConcurrentTask.cpp:99`): an aborted job that
  is cleared and started again may never end (`ConcurrentTask` with
  `ReuseAborted = TRUE`).
- The retry question is a nested event loop in which the job may end
  (`NetJob.cpp:167`), so a question may be on screen about a job that has failed.
- A failed write deletes `m_output_file`, and the request goes on with the null
  pointer (`FileSink.cpp:85`).
- A commit that fails after it has copied leaves an instance folder behind
  (`InstanceList.cpp:1012`).
- `ManagedPackPage` runs the child and not the wrapper (`ManagedPackPage.cpp:209`), so
  what it reports is not the commit.

## Proofs

### Composite tasks

All safety properties that the run `ConcurrentTask` checks are also proved, for
any finite set of sub tasks, any limit, any of the three classes and any number
of runs of the job. The assumptions are those `ConcurrentTask` states of its
constants: the sub tasks are finitely many and none of them is the job, the
limit is not zero. Only `NoWakeupIsLost` and `SuccessIsHonest` are about an
owner who does not use an aborted job again (`ReuseAborted = FALSE`): with reuse
they are false, because `clear()` leaves `m_doing` as it is (TLC finds both with
`ReuseAborted = TRUE`). The other five hold whatever the owner does after an
abort.

| Theorem | Statement | Why it needs an invariant |
| --- | --- | --- |
| `TypeCorrect` | `Spec => []TypeOK` | |
| `OneOutcome` | `Spec => []SingleOutcome` | `AbortedFirst`: a job that reported and still runs was aborted with nothing in flight |
| `NoWakeupIsLost` | `Spec => []NoLostWakeup` | `Wakeup`: what is in `m_doing` is alive or was disconnected by `abort()`; a disconnected sub task means the job has ended; a job that never ran has nothing in flight; a running job has a posted call or something in flight |
| `NothingIsOrphaned` | `Spec => []NoOrphans` | `InPlace`: a sub task waits, is posted or runs, one at a time and once. `Slots`: the one-at-a-time classes have one entry in `m_doing`; as long as nothing was disconnected, a `MultipleOptionsTask` has a single posted call or a single sub task that will post it; and a job that is not running has an empty `m_doing` unless it was aborted. `Begun`: what was disconnected has been started or is still in `m_doing`, so it is not waiting to be started |
| `SuccessIsHonest` | `Spec => []HonestSuccess` | `Accounted`: until the first report, what was added is in `m_queue`, `m_doing` or `m_done`, and `m_failed` says how it ended. `OneGood`: the first good option stops the search. `DeafTold`: a job that disconnected sub tasks did not report success |
| `OneAfterTheOther` | `Spec => []TriedInOrder` | `InOrder`: the queue is the rest of what was added, from a frontier on; before it everything ended as expected, behind it nothing was touched. `AddedRuns`: what an aborted run left in `m_doing` was not added for this one |
| `JobIsAPool` | `Spec => ImplementsPool` | `Tidy`, the part of these that holds with reuse as well (`AbortedFirst`, `Begun`, `InPlace`, `Slots`, `Placed`): each action is a step of `TaskPool` or a stutter |

Every part of these invariants was model-checked on three sub tasks before it
was proved, the parts of `Tidy` also with an owner who uses aborted jobs again.

### Staging

For any back-off series and any number of attempts, from the assumption
`BackoffAssumption` that the series is not empty.

| Theorem | Statement | Why it needs an invariant |
| --- | --- | --- |
| `RetriesAreTimed` | `Spec => []BackoffOK` | `Wrapped`: a page never starts the wrapper, which reports only once, at its end; nothing was tried before the child has started; and what replaces an instance is whole in the staging folder when the child has ended |
| `SuccessIsACommit` | `Spec => SuccessCommits` | the same: before its report the wrapper has said nothing, so the one report Success is that of the commit; and it is the whole of a new instance that replaces the old one |

### Download jobs

For any finite set of requests, any limit other than zero and any number of
manual retries (`RequestsAssumption`, `LimitsAssumption`).

| Theorem | Statement |
| --- | --- |
| `RetriesAreKept` | `Spec => []RetriesOK` (types, tables, bounds on the attempts) |
| `SuccessIsOfAll` | `Spec => []HonestSuccess` |

The retries move requests from `m_failed` back to `m_queue`, and the code never
counts the attempts of a request, so the bounds follow only from a count of
rounds. `Rounds` bounds the attempts from above by `Budget`, the tries of this
round and three for every question that was answered; a request that still waits
has one left. `Whole` bounds them from below: with `joined`, the round in which a
request was handed in, one that has not succeeded was attempted in each round,
the present one included unless it waits. `Placed` says that the posted starts in
the event queue are just the requests of `m_doing` without a reply, which is what
makes an attempt and a place in a table go together. `Afterwards` keeps what a
question on screen stands for, because the job may end under it.

### Requests and the cache

For any number of starts, redirects, requests and changes of the file.

| Theorem | Statement |
| --- | --- |
| `OneReportPerStart` | `Spec => []ReportsOK` (which includes `TypeOK`) |
| `SuccessIsJustified` | `Spec => []SuccessMeansFile` |
| `FreshEntryIsTrue` | `Spec => []FreshEntryMatchesFile` |
| `EvictionIsKept` | `Spec => []EvictionHolds` |

`FreshEntryMatchesFile` speaks of the entry in memory; over a crash it depends on
the index file, and that on every entry that was ever saved. `Describes` is the
part that both have in common and that no change of the file can break: an entry
made for the present modification time has the checksum of the file, and times
only grow. `Current` adds what holds after `resolveEntry` has compared them.
`UnderWay` is the request's side: when the server was asked whether something
changed, there is an entry to keep, and an error that is forgiven (a cached file
may be used offline) is forgiven over a file. `Buried` follows an eviction from
memory to the saved index. `SuccessMeansFile` is part of the invariant.

### Launch

For any chains of steps that begin with a plain one (`LaunchesAssumption`).

| Theorem | Statement |
| --- | --- |
| `TypeCorrect` | `Spec => []TypeOK` |
| `LaunchIsCleanedUp` | `Spec => []CleanedUp` |
| `AbortIsKept` | `Spec => NothingStartsAfterAbort` |

`AbortIsKept` needs to know why the current step cannot succeed after an abort
was accepted: `Stopped` says that all that is left then is a process that was
killed, or a game that still waits for its word and was told to end. `OneProcess`
ties the process to the step, and `InTurn` the steps that passed to the current
one; it is what gives "only succeeds when every step did".

### Instance list

For finite sets of instances and groups and any other folders
(`GroupsAssumption`).

| Theorem | Statement |
| --- | --- |
| `TypeCorrect` | `Spec => []TypeOK` |
| `RestartBringsBack` | `Spec => RestartKeeps` |
| `NewInstanceIsGrouped` | `Spec => GroupSticks` |
| `CountsStayRight` | `Spec => CountsKept` |

`RestartKeeps` compares a state with the one after a restart and says nothing
about how the file came to be what it is. The invariant is `Saved`: as long as
there is a readable group file, it agrees with the list about the group and the
look of every instance that was listed at the last save. The case it has to make
room for is a list that has not looked into the file yet and has nothing of its
own to say. `CountsKept` is shown per operation, from two lemmas on how the number
of members of a group changes when one entry, or all entries of a group, change.

### Accounts

For any finite set of accounts, list of loaded ones, chains of refresh steps,
acts of the user and bounds (`AccountsAssumption`).

| Theorem | Statement |
| --- | --- |
| `TrackIsKept` | `Spec => []ListOK` |

`ListOK` says that the activity count is right and that the list is alive: a
timer runs or a flow that will go on with the queue does, unless that flow was
aborted or its account destroyed. Each `requestRefresh`, `tryNext` and answer of a
flow touches the queue, the task and the timers at once, so the invariant
(`IInv`, twelve named parts) is about how these go together: an account is in the
queue once, except for the default one, which the timer's `fillQueue` appends
without looking (`QueueOK`; no account is there twice while the timer that fills
the queue is armed, and only then may it be filled); nothing happens before the
list was loaded (`BootFirst`); what was not added yet is untouched (`Fresh`); and
each use of an account belongs to a launch (`UsesOK`).

### Updater

For any set of files, any number of releases with any manifests, any number
of updaters, kills and failed operations, and release lists that arrive,
break off or do not parse. `BrokenInstallIsFlagged` and
`SuccessIsAnInstallation` assume `Ordinary`: archives unpack or say so, and each
release names its manifest among its files (it then lists the files to copy;
without one the code takes the names that lie in the target).
`OldReleaseIsKept` assumes `Covering`, which adds that the names built into the
updater cover the rest of a release. TLC refutes `OldKept` without the first and
without the last: an incomplete archive may install an older executable, whose
version names a folder that is in use, and a file that the built-in list leaves
out is overwritten without a copy when a backup was cut off after the manifest
had been moved. What the theorems leave out besides is in `unguarded` and
`spoiled`, that is, in the properties, and described above.

| Theorem | Statement |
| --- | --- |
| `TypeCorrect` | `Spec => []TypeOK` |
| `BrokenInstallIsFlagged` | `Ordinary` implies `Spec => []BrokenIsFlagged` |
| `SuccessIsAnInstallation` | `Ordinary` implies `Spec => SuccessMeansInstalled` |
| `OldReleaseIsKept` | `Covering` implies `Spec => []OldKept` |

The first two properties are not inductive: an updater that overlaps with another
one could take files away under it, and remove its lock. `Held` says that the
lock is there as long as somebody works, and that nobody replaces files while the
updater of a release does, unless `unguarded` says so. The two parts need
each other: the lock keeps a second updater out, and a lock is removed
only by a program that works alone. `OnTheWay` follows a release from the archive
to the installation: what is still in the list of files to copy lies whole in the
unpacked release, and what is not is in place. So the list being empty without an
error means a complete release, and every other ending leaves the lock or the
fail marker. Taking the lock starts the account anew, over whatever an earlier
update left, which is why `Held` and `OnTheWay` speak of the programs at work and
`BrokenIsFlagged` itself is part of the invariant.

`OldKept` needs another invariant, `Placed`, because a second attempt chooses the
backup folder by the version of the executable it finds. There are two phases.
In `Whole` the files of the last complete release are untouched or moved, no other
file has taken their place, and whoever backs up writes to the folder of this
release or an older one, for a release that is newer. Starting the updater of
that release ends it, for good: in `Away` all of the files are in those folders,
and whatever can be run, in the installation or in the unpacked release, is of a
later version, so no program at work will write to them again. An updater that
waits at the question about the lock while a release is completed finds itself in
`Whole` for that release; if it goes on to install the same or an older one it is
stale, and that is `spoiled`.

### Resource folders

For any finite set of names, any of them packs or there at the start, any number
of parse slots, changes of the folder, duplicates and visits
(`FolderAssumption`).

| Theorem | Statement |
| --- | --- |
| `FolderIsTyped` | `FolderSpec => []FolderTypeOK` |
| `RowsAreFound` | `FolderSpec => []IndexMatches` |

The list is edited by position: `applyUpdates` removes rows from the back and
appends others, a failed parse takes its row out, a rename gives a row a new name
in place, and each time `m_resources_index` is built again or patched. What
`IndexMatches` says makes the names of the rows distinct, and that is what must not
be lost. The events that carry positions and tickets are followed by `EventsTyped`
and `PoolTyped`: the end of an update, the start and the end of a parse task are in
the queue at most once (`Once`), and each task waits in the pool, runs, or has
ended, one at a time. A rename could give a row the name of its twin: it cannot
when the twin is plain or disabled, since the code never lists both of them
(`RowsApart`: neither the listing an update made nor the rows hold a name
switched on and off at once), and `clashed` excludes the duplicates, whose rows
may outlive their files. The sorted sequences of the model (rows that leave,
names that are appended, tickets) are described in lemmas by what they contain,
not by how they are computed.

### Components

For any components, metadata, list and number of edits; of the constants only
their types, finitely many versions and that the list names no uid twice
(`ComponentAssumption`). Circular and contradictory requirements are included.

| Theorem | Statement |
| --- | --- |
| `ListIsTyped` | `Spec => []TypeOK` |
| `SuccessIsResolved` | `Spec => []SuccessMeansResolved` |

`SuccessMeansResolved` is about the end of an update and must be kept until the
next one: what the user adds, removes or sets takes the report back, and moving a
component disturbs nothing. It rests on what happened
rounds before. `Proper` keeps each uid to one place, although the task
inserts at places computed earlier (`ToAddTyped`: those places are in the list,
and what is still to be inserted is not in it). `LoadedWell` ties the list to the
metadata: a component that counts as loaded has cached the requirements of just
the version it has (`Sound`), one that does not has a load of its own that has not
been answered (`Awaited`), and when actions are performed or dependencies resolved all are
loaded. The last round then finds no component to remove, none to change
and none to add, and the requirements it gathered from the caches are those of
the metadata. A result that is filed with another component and metadata that did
not arrive break `LoadedWell`, and are excluded by `misfiled` and `blind`.

### Model-checked only

- Liveness (among them `ListAgrees` and `UpdateEnds`): temporal properties under
  fairness, and `ENABLED`, are out of the prover's reach.
- `RefreshSparesGames` and the assertion of `onParseFailed` are violated.

Every invariant above was checked by TLC on a small instance, in most cases the
one of the module's run, before it was proved.

## Not modelled

- Updater: the installers of Windows, AppImage, flatpak, the command line; folders
  as entries of a manifest, of which a copy may leave a part; a log that cannot be
  read when the launcher starts, which ends the launcher.
- A launch whose account has left the list by the time it is claimed waits for
  ever (`ClaimAccount.cpp:17`). No property is about it: the step emits nothing, so
  there is no answer to promise.
- Accounts: the account file, offline and deleted accounts, what the steps
  exchange with the servers. "Force account refresh" is an ordinary one.
- Resource folders: packs that are folders, batches of rows, the overrides of
  `ModFolderModel` (its metadata index).
- Components: patch files, customizing and reverting, jar mods, agents, problems,
  the composed launch profile, the delay of the save.
- Instances: whether the ungrouped instances are collapsed; what a child of
  `InstanceStaging` does (creation, import, copy); what a step of a launch does.
- Settings, Java detection, external tools, news, translations, screenshots, the
  clients of the mod platforms and all that is only displayed: sequential code,
  parsing of foreign formats, or processes outside the program.

## Plan

1. (done) composite tasks, download jobs, requests, staging; `InstanceGroups`;
   `LaunchTask`; `HttpMetaCache` with crash and restart under the requests;
   `Accounts`; `ResourceFolder`; `ComponentUpdate`; `Updater`.
2. (done) proofs: the safety properties of every module that the runs check, and
   the refinement of `TaskPool` by `ConcurrentTask`.
3. Left to model: see above; first the overrides of `ModFolderModel`, then what the
   children of `InstanceStaging` do.
