# Watchpost Agent: specifications, checks and proofs

This directory holds TLA+ specifications of the Watchpost Agent, a Go service
that collects telemetry of a host and delivers it to a Watchpost server. The
specifications are translated from the code; `file:line` references are to the
repository. `tlc -config X.cfg M` runs one of the model checks below, and
`tlapm M.tla` checks the proofs of a module.

## 1. The system

### Components, their state and their operations

| Component | Code | State | Operations | Modules |
|---|---|---|---|---|
| State store | `internal/state` | `agent.json`; in each process `Store.data` under `Store.mu` | Open, Snapshot, Update, Reset, Reload, RecoverFile, saveState | `AgentState`, `AtomicStore`, `Store` |
| Delivery | `internal/telemetry` | the queue, sequence counter, backoff and loss counter in the state | Send: enqueue, flush, markFailure | `Delivery`, `Channel` |
| Pairing client | `internal/pairing` | connection, previous credential, pending request and revocation flag in the state | Request, Poll, Unpair, RetryPendingRevocation, Rotate | `Pairing` |
| Service and commands | `cmd/watchpost-agent`, `internal/app` | none of their own | deliveryLoop; web handlers (the launcher's included); CLI commands | `Agent` |
| Watchpost server | not in the repository | requests, credentials, last sequence, batches received | approve, observe, rotate, unpair | `Watchpost` |
| Accounts and sessions | `internal/auth` | accounts and sessions in the state; `Manager.sessions` and `failures` under `Manager.mu` | Setup, Login, Authenticate, Logout, RevokeUserSessions, ChangePassword, CreateAccount, ClearSessions | `Sessions` |
| First-run provisioning | `internal/auth`, `cmd/watchpost-agent/main.go` | the bootstrap token and the first administrator in the state | provisionSetupToken, SetupRequired, Setup, the command `setup`, resets | `FirstRun` |
| Service manager | `internal/service/service.go` | executable, unit file, `.rollback`, `.prior-active`, `.preinstall`; what systemd has loaded, enabled and started | install/upgrade, update, rollback, uninstall, start, stop, restart, enable, disable | `Lifecycle` |
| Listeners | `cmd/watchpost-agent/listen.go`, `main.go`, `internal/service/service.go` | the listener a unit records; the environment file | resolveListener, installOptions, BuildUnit, the start of the process | `UnitConfig` |
| Data directory | `internal/service/datadir_linux.go` | a directory and the way to it | inspectDataDir, ensureServiceAccount, establishDataDir | `DataDir` |
| HTTP access control | `internal/app/app.go` | none | clientAllowed, resolveClientIP, sameOrigin, require | `Access` |
| Reset command | `cmd/watchpost-agent/main.go` | timestamped backups | resetLocalState | `Recovery` (its RecoverFile in `Store`) |
| Operation contracts, web assets, packaging | | none | | none |

### How they interact

Every component keeps its durable state in the one `agent.json`. The service is
one process with many goroutines (the delivery loop and one per web request)
that share a `Store`. Each CLI command is a process of its own that opens the
same file and writes it back whole. `Update` is the only way to change the
state: under `Store.mu` it copies the memory, applies a callback, saves the copy
and then replaces the memory. Nothing coordinates two processes: the service
picks up what a command has saved when it calls `Reload`, at every cycle of the
loop, at every login and at every request for the setup page.

Pairing and delivery follow one pattern: take a `Snapshot`, wait for an HTTP
answer without any lock, and `Update` whatever the state is by then.

### Hard behaviour

* Concurrency: the memory changes between a snapshot and the update that relies
  on it; `Reload` reads the file before it takes the lock; a command and the
  service overwrite each other's saves.
* Failure: any save, collection or HTTP call may fail; an answer may be lost
  after the server acted on it; a process may die between two steps; any file
  operation or systemctl call of an installation or a reset may fail, or the
  command may be killed between two of them.
* Others on the machine: the data directory's ancestors are renamed, its leaf is
  exchanged, two installations run at once, the environment file is edited.
* The network in between: proxies, trusted or not, and headers that a client wrote.
* Ordering: batches are sent oldest first and must use sequences above those
  Watchpost has seen; a rotated credential replaces the old one only after its
  first use; an audit entry must be saved before a session changes.
* Limits: 256 batches and 8 MiB of queue, batches older than 24 hours, five
  failed logins in five minutes.
* Progress: a queue drains and a revocation completes once network and disk
  recover.

The full list, each at its line and with the properties that cover it, is under
`hazards` in `PROJECT.json`.

### What makes each component correct

* Store: every operation is one atomic step for its users; the file is never
  torn, and never owned by a user the service is not.
* Delivery: no batch is lost silently, order and sequence ranges are kept, and
  the queue drains.
* Pairing: authority is not dropped locally while Watchpost accepts it; a
  connection is whole; an overlap of two credentials ends only when the server
  has ended it; a revocation is completed.
* Sessions: the throttle bounds failures, the two locks cannot deadlock, a
  session begins or ends after the save that records it.
* Service manager: install and update are transactions; rollback brings the old
  version back.
* First run: a bootstrap token makes at most one administrator, the first one
  stays, and a door that asks for a key has one.
* Listeners: what the operator selected is recorded, and what is recorded is what
  the service listens at.
* Data directory: an installation changes nothing it did not make or find to be
  the service's, and leaves nothing behind when it refuses.
* Access control: the client's address and the page's origin are the real ones.
* Reset: nothing is lost that is not in a backup, and a failure changes nothing.

## 2. The modules

```
AgentState ── Watchpost ── Delivery ── Pairing ── Agent ─┬─ MCAgent
 (state.go)   (external)  (telemetry)  (pairing) (main,  ├─ AgentProofs ── LoopProofs
                                                   app)  └─ implements Channel

AtomicStore ◄─ implemented by ─ Store ── MCStore, StoreProofs
Lifecycle ── MCLifecycle, LifecycleProofs
Sessions ──┬─ SessionsProofs
Access ────┼─ AccessProofs
           └─ MCWeb
DataDir ─────┬─ DataDirProofs ─┐
UnitConfig ──┤                 │
FirstRun ────┼─ MCMachine ─────┴─ MachineProofs
Recovery ────┘
```

The first row is one specification in layers, each of which EXTENDS the one
before. A task is a goroutine or the main function of a command; `pc[t]` says
where it is; `snap[t]` is the part of a snapshot it will still read; `reply[t]`
is the credential in an answer it holds. One action is one stretch between two
points where another task may act: a lock, a save, an HTTP request.

**AgentState.** The record `State` has the fields of `state.State` that pairing
and delivery use. `backoff` stands for `NextRetryAt` (and for
`ConsecutiveFailures`, which sets only the length of the delay). `Update`
replaces the file and the memory of the task's process in one step and
`SaveFails` neither; `ReloadRead` and `ReloadPublish` are the two halves of
`Reload`.

**Watchpost.** External: what the agent's code relies on. A credential `<<r, n>>`
is the n-th issued for request `r`. Observations are accepted from a live
credential, for the post of its pairing, if the batch is known already or begins
above the last sequence. First use of a replacement retires older credentials;
an unused replacement may lapse.

**Delivery.** `Send`: `SendStart` (snapshot), the collection, `Enqueue` or
`EnqueueRefused`, the backoff test, then `flush`: `FlushHead` (snapshot, stale
test), a post with the current and if refused with the previous credential, and
`SaveDelivered` or `MarkFailure`. Each operator such as `DeliveredWithCurrent`
is one Update callback. Time is a count of collections: batches are stamped with
`clock`, and `horizon` is the last stamp older than 24 hours. What a metric's
value is, is left out: a batch is its post, its stamp and its range of samples,
and `Size` and `Bytes`, its samples and those of a queue, stand for the encoded
bytes that the limit of 8 MiB is about.

**Pairing.** `Request`, `Poll`, `Unpair`, `RetryPendingRevocation`, `Rotate`,
each with its snapshot, the answers it may get (lost ones included) and its save.

**Agent.** The delivery loop (`Wake`, `Reloaded`, `Cycle`), the operations of web
handlers and commands, crashes, what the owner does at Watchpost, the
properties and the fairness. `Operations` gives each task the operations it may
perform in an instance. `SaveSettings` stands for every Update that neither
pairing nor delivery reads: the settings, the launcher's links, `configure`.

**Channel.** What delivery promises of one connection: batches wait in the order
of their collection, Watchpost receives the oldest (perhaps again), and a batch
stops waiting when it was received, when it was too old, which is counted, or
with the connection. It knows no credential, memory, loop or retry. Under the
refinement mapping of `Agent` (`Durable`) the channel is the queue in the file
and what Watchpost has; memories, snapshots and answers are stuttering.

**AtomicStore and Store.** `AtomicStore` states what the packages above rely on:
the vocabulary `AgentState` is written in. `Store` has every step of
`saveState`: the temporary file, its content, `preserveFileOwnership`, the
rename and the assignment to `Store.data`, with the lock, the user each process
runs as, failures, and deaths between two steps. A state of the agent is an
abstract value; `Change` says which value an update makes of which. Under the
refinement mapping the memory a reader sees changes at the rename
(`MemoryBar`), although it is assigned a step later, under the lock.

**Sessions.** `Manager` with its two locks. `mu` and `smu` are the holders of
`Manager.mu` and `Store.mu`; `disk`, `mem` and `model` are the accounts (and
stored sessions) in the file, in the store and in gantry-core's model, which
`Reload` copies one to the next; `sessions` are those accepted. A password is a
number, 0 for an account that is not there. An audit entry is part of the save
that records it; a save of the entry alone is the job `"audit"`.

**Lifecycle.** A command is the list `todo` of its remaining calls, built from
what the command found (`prior`). `Succeed` performs the first; the actions
`...Fails` say where a failure leads: for install to the restore closure
(`RestoreInstall`, whose own failures are collected), for update to
`restoreAfterFailedUpdate`, for the others to an error. `Effect` and `Failure`
are what a call makes of the machine when it succeeds, and what it may leave
behind when it does not. A service of an unhealthy version may crash at any
time, `verify` succeeds only for a healthy one.

**DataDir.** `service install` prepares the data directory in three parts:
`inspectDataDir` opens the parent without following links, looks at the leaf and
keeps the descriptors (`fd`); the account is created; `establishDataDir` makes,
binds, chmods and chowns a missing leaf, or sets the mode of the one it found,
through the descriptors. One action is one system call. Several installations
run at once, any call fails, an installation is killed, and meanwhile
`AncestorsChange` leads the path elsewhere and `UserReplaces` exchanges what a
directory of a user holds. The parents of root that nobody else may write
(`SafeParent`) are changed by installations only.

**UnitConfig.** `ResolveListener` is resolveListener over flags and variables,
with both forms of each, the legacy variable, empty values and conflicts.
`InstallOptions` reads a recorded unit back for what the flags leave open;
`BuildUnit` is what the unit records; `Listens` is what a process started from
the unit binds under the environment file of that moment. The operator's shell,
the environment file and the unit change at any time. An address is a host, a
port and whether blanks surround it, for the code trims it in one place and not
in another.

**FirstRun.** `StartWithToken` provisions a token (provisionSetupToken), `Setup`
checks it, `CreateAdministrator` and `Consume` are the two saves that follow,
with `ReloadRead`, `ReloadPublish` and `ReloadModel` of the page that asks whether a
setup is due, the command `setup` with a memory of its own, both resets, failing
saves and kills between any two. All of it overlaps as it does in the code. The
code has three races here, and the history variable `raced` records which of them
have happened: a Reload has published what the file no longer said (`"reload"`), a
reset has fallen into a setup (`"reset"`), a save was made from a copy that was not
the file's (`"save"`). A property names the races the code does not survive, and
promises the rest; section 5 says what each race breaks. That a token's time is
over is one of the reasons of `CheckRefused`, which is possible at any time.

**Recovery.** `resetLocalState`: the backup, RecoverFile as one save, the
ownership, and the way back (truncate, rewrite or remove), each failing or
killed. Files other than `agent.json` are written in place, so a kill leaves a
`Part`.

**Access.** A request goes from its client over proxies to the agent: `Send`
chooses the client, what it forges and what it asks for, `Forward` is a proxy
(it appends the address it was contacted from), `Answer` is `require`. The
agent's decisions are operators of the headers and the immediate peer;
`RealClient` and `target` are what was really the case. The forwarding header is one
list: the code reads the first line of that name only (`Header.Get`, app.go:350),
so a proxy that adds a second line instead of extending the first is outside the
model.

**MCWeb.** One instance of `Access` and `Sessions`, which share no variable, as
MCMachine is of its four parts.

**MCMachine.** One instance of four modules that share no variable (`DataDir`,
`UnitConfig`, `FirstRun`, `Recovery`, whose names are kept apart for it). A
behaviour has the steps of one `part`, from every state that part may begin in,
while the others rest: since no part reads or changes another's variables, every
behaviour of a part is covered, and none is multiplied by the others'.

## 3. The runs

| Run | Instance | What it shows |
|---|---|---|
| AgentLoop | the loop and a web handler that unpairs and saves settings; overlap, aging, revocation, lapse, disk faults, one crash | `HeadAcceptable`, `OldestFirst`, `ConnectionWhole`, `QueueBounded`, `NoSilentLoss`, `OverlapKept`, `AuthorityRetained` |
| AgentCli | from a first run: loop, web handler that resets and reloads, and a CLI process that pairs, polls, sends and rotates; disk faults | `TypeOK`, `SequencesDisjoint` although two processes overwrite each other |
| AgentLive | the loop alone, fair; disk faults, one crash | `ImplementsChannel`, `QueueDrains`, `RevocationCompletes` |
| FullQueueWedge | loop alone, fair, queue of one | `QueueDrains` is violated |
| ReloadRace | loop and a web handler that pairs again | `NoSilentLoss` is violated |
| StaleSave | service and a CLI process | `AuthorityRetained` is violated |
| Store | service with two goroutines, a root command, a file that may be missing or damaged | `FileWhole`, and `Store` implements `AtomicStore` |
| Lifecycle | two healthy versions, a bad one, two units, one interrupt | `TypeOK`, `InstallTransactional`, `UpdateAllOrNothing`, `RollbackRestarts` |
| StaleRollback | the same without interrupts | `RollbackRestores` is violated |
| TokenReused | first run: two requests, one token, no reset | `SingleUse` is violated |
| Web | access: two clients, the host itself and three proxies, five configurations; sessions: two concurrent requests, two accounts | `ClientIsReal`, `PolicyOnRealClient`, `OwnPageOnly`; `FailuresBounded`, `LockOrder`, `SavedFirst` |
| Machine | data directory, listener, first run and reset, side by side | `TypeOK` of the four; `RefusalLeavesNothing`, `NeverAdopts`, `CleanupRemovesOwn`, `Established`; `RuntimeIsRecorded`, `SelectionHonoured`, `LoopbackComesUp`; `TokenUsedOnce`, `KeyForTheDoor`, `FirstAdministratorKept`, `LastTokenOnly`; `OriginalRetained`, `FailureRestores`, `SuccessPreserves` |

Every property of a passing run has a mutant, a definition marked "Mistake" in
the modules: with it in place of the definition it stands beside, the same run
finds the property violated.

### Bounds

Bounds are constants named `Max...` that appear in guards.

* AgentLoop: three collections of one or two samples against a queue of two
  batches and three samples: a batch is queued behind another, ages and is
  dropped, the bound in batches and the one in bytes refuse in turn (two wide
  batches are too many bytes, three narrow ones too many batches), and sequences
  go on after a failed save. Two credentials are one overlap, the most the loop
  can see.
* AgentCli: two collections of one or two samples, so that a queue holds two
  batches whose ranges may overlap or leave a gap; one request, since a reset
  drops a connection as a second one would, and two credentials, so that the
  command rotates beside the loop. The constraint `ReloadOrRotate` stops at
  a state in which a handler's reload is under way and the command rotates, has
  rotated or is about to: together they are too many states.
* AgentLive: a queue of three, never full, since a full one is what
  FullQueueWedge is about; after `MaxClock` collections a cycle goes on without
  a new batch (`EnqueueBeyondBound`), or the bound itself would stop delivery.
* Store: three tasks in two processes are one pair that shares a lock and one
  pair that does not; two changes let an update be undone by an older one. The
  state 1 lacks the collectors' defaults, so Open and Reload complete it.
* Lifecycle: two healthy versions and two units are an old and a new one; a
  third version is unhealthy. Nothing bounds the number of commands. One
  interrupt leaves any half-way state to every later command.
* Web, sessions: a limit of one login failure instead of five keeps the place where
  the throttle bites within reach; one session ever created, two passwords.
  Requests are interchangeable, so the instance uses symmetry (no liveness is
  checked there; in Lifecycle it exchanges healthy versions and units, in
  Machine installations, the objects found and requests).
* Web, access: two proxies on the way and two forged entries are the shortest path on
  which a forged entry, a trusted hop and an untrusted one meet; the
  configurations have no list, lists without trusted proxies, and both.
* Machine: two installations race for one safe parent, one of a user's stands
  beside it, and one object of each kind and owner may be found; two hosts and
  two ports in all combinations of flags and variables, five environment files;
  two requests, two tokens, two administrators and one reset by the web interface
  or of the stopped service, so that a token, its successor and a reset between
  them meet, and two setups overlap; three resets of a file that changes twice.

What these bounds leave open, the proofs below settle, but for liveness.

### Fairness

Only AgentLive and FullQueueWedge assume fairness (`FairSpec`). The loop task is
scheduled (weak fairness of its steps together), which Go's scheduler and the
ticker of `deliveryLoop` justify. Strong fairness of single outcomes says that
what can fail succeeds again and again: a collection, a Reload, a save, an answer
of Watchpost (a refusal of a credential it does not know included), and that a
backoff, which is at most five minutes (telemetry.go:186-201), is over at some of
the cycles. Crashes, losses and failures are not fair and may happen or not. With
a disk or a network that never recovers nothing drains, and nothing in the code
says otherwise.

Two properties make an exception for a replacement credential that lapsed unused
(`Lapsed`): its 401 is taken for a revocation while the previous credential is
still accepted (section 5), so `AuthorityRetained` and `RevocationCompletes`
promise nothing then.

## 4. What is proved

Every invariant and every action property of the passing runs, and both
refinements, are theorems: for every value of the constants that satisfies the
named assumptions, and therefore for every number of tasks, collections,
crashes, retries, installations or commands. The eight proof modules:

**AgentProofs.** `TypeCorrect`, `SequencesAreDisjoint` and `QueueStaysBounded`:
`TypeOK`, `SequencesDisjoint` and `QueueBounded` for any processes and any
operations. The properties speak of files and memories, but an Update builds the
file from a memory, a Reload builds a memory from a file it has read earlier, and
an approval takes its post from an answer: the inductive invariant `IInv` adds
that what a reloading task holds is whole (`Whole`: contiguous and within the
bounds), that a posting task holds a batch, that a request whose approval is in
hand has a post, and that every live credential belongs to an approved request.
Each Update callback has a lemma that it preserves `Good` states; each action has
a lemma that it preserves `IInv`. `Bytes` is a recursive function; that appending
a batch adds its size and dropping the head subtracts it (`BytesOfMore`,
`BytesOfTail`) is by induction over the prefixes of the queue, with the
well-foundedness of `<` on the naturals for a set (`EveryNat`) in place of the
library's induction rule, which takes an operator.

**LoopProofs.** What holds of the delivery loop with or without handlers that
unpair and save settings. `LoopWithUnpairing` says which compositions are meant
(one process, paired to begin with; handlers that unpair and save; time, the
owner and a lapse outside), and has the instance of AgentLoop as a case;
`LoopAlone` has that of AgentLive. They are hypotheses about which operations
are performed, and are needed: with a re-pairing or a second process beside the
loop the properties fail (ReloadRace, StaleSave).

* Under `LoopWithUnpairing`: `HeadStaysAcceptable`, `OldestGoesFirst`,
  `ConnectionStaysWhole`, `NothingLostSilently`, `OverlapsStay`,
  `AuthorityStays`.
* Under `LoopAlone`: `LoopIsAChannel` (`Spec => ImplementsChannel`): every step of the agent, crashes, lost answers and failed
  saves included, is a step of `Channel` or none.

The difficulty is that a Reload publishes a file it read before an unpairing
cleared it, so the file, the memory and what a Reload has read need not agree.
The inductive invariant `LoopInv` says how far they differ: any two of them are
alike in connection and queue, or one of them is as an unpairing leaves it
(`Match`); and each is sound by itself (`Sound`): it is in order, its batches are
known to Watchpost in order of age, and either it is paired with a queue that
Watchpost takes, or it is unpaired, holds at most the one batch that was being
collected, and nothing authorises the agent any more. To this it adds what the
loop knows at each of its labels (`Doing`: the batch in hand is still the head
or the state was cleared; a batch that was accepted is among those received; a
fallback is tried only when the current credential is dead) and what an unpairing
knows (`Ending`). Soundness depends on Watchpost and the clock only through a
record (`World`), so that a lemma per change of the world (`SoundWanes`,
`SoundTakesHead`) and one per callback carry it through every action. TLC checked
`LoopInv` and `AloneInv` on the instances of AgentLoop and AgentLive first.
Alone, the memory is the file and a Reload changes nothing (`AloneInv`), from
which each step maps: an enqueue to `Collect`, both outcomes of an accepted post
to `Receive`, the save after it to `Release`, a stale head to `Drop`, a day to
`Age`, a completed revocation to `Close`.

**LifecycleProofs.** `LifecycleTypeCorrect`, `InstallIsATransaction`,
`UpdateIsAllOrNothing`, `RollbacksRestart`, for any versions, units and number of
commands and interrupts. A command is the list of its remaining calls, so the
inductive invariant (`IInv`) goes through the lists of install, update and
rollback call by call, forward and on their way back: a stage says which calls
are left (`Keeping`, `Loading`, `Reverting`...) and what those already made have
left on the machine the command found (`Keepsake`, `Written`, `Saved`,
`Settled`). A service of an unhealthy version may crash at any stage, so what a
stage says of the activity it says of healthy versions (`Runs`). The
transactions are facts about the last stage of each command.
`RollbacksRestoreUnlessStarted` states the limits of the violation StaleRollback
shows: a rollback that reports success leaves no other version running than the
one it put back, unless it found the service active and the update it undoes had
not.

**StoreProofs.** `FileAlwaysWhole` and `StoreIsAtomic` (`Spec =>
ImplementsAtomicStore`), for any number of processes, goroutines, users and
states. The inductive invariant (`StoreInvariant`) ties every task between two
steps of a save to what it holds: an updating task owns its process's lock and
its `next` is a change of the memory as it still is; an opening or recovering
task is alone in its process; the temporary file holds `next` once written and
belongs to the owner of the directory once handed over. From it follows that at
most one task of a process is between rename and assignment, so that the mapped
memory is well defined, and that each step is a step of `AtomicStore` or none.

**SessionsProofs.** `FailuresAreBounded`: the count of failures plus the logins in
progress never exceeds the limit by more than the other requests (`Throttled`),
by counting with the finite-set theorems. `LocksAreOrdered`: `LockOrder`,
strengthened by where each kind of request may hold `Manager.mu`.
`SavesComeFirst`: the action property, from an invariant that a task about to
change the sessions has saved, or is one of the two requests that go on without
their save and then only end sessions: one that has expired or is unknown, and,
after a saved reset, all.

**AccessProofs.** `ResolvesTheClient`, `ListsBindTheClient` and `AcceptsOwnPages`,
for chains and headers of any length and every configuration. The invariant reads
the header as the agent will: some entries of the client's own, then the path but
for its last hop (`Chained`), and the last hop passes on how the client addressed
the first (`Addressed`).

**DataDirProofs.** `RefusalsLeaveNothing`, `AdoptsNothing`, `RemovesOwn` and
`ServiceHasDirectory`, for any number of concurrent installations, parents and
objects. The invariant (`Good` of each installation) says what it knows through
its descriptors at each call: that its parent is safe, that a directory it is
about to accept is the service's and still the entry or removed by its maker
(`Still`), that a directory it made is where it made it (`Holding`) and nowhere
else (`Owned`). A safe parent changes by installations only, which is why the
entry of one installation survives every step of another.

**MachineProofs.** The other three parts, and the four side by side.

* Listeners: `RuntimeRecorded` is inductive with the types, because what a unit
  records wins over every environment file (`ExecStartWins`, `ListensRecorded`).
  `SelectionIsHonoured` follows from the cases of resolveListener.
  `LoopbackListens`: whichever install, edit, start or restart leads to it, a
  service whose unit records a loopback address listens there, whatever the
  environment file says (`LoopbackUnit`); addresses with blanks are left out.
* First run: `TokensUsedOnce`, `DoorHasKey`, `AdministratorStays` and
  `LastTokenMakes`, for any number of requests, tokens and resets, and with every
  overlap the code has. The invariant has a part that always holds (`Order`: at
  most one setup is under way), one that only an old Reload breaks (`Door`: a setup
  that has saved its administrator still has him in the memory), and one that any
  of the three races breaks (`Tokens`: a token that can still make an
  administrator has made none).
* Reset: `BackupsRetain`, `FailuresRestore` and `SuccessesPreserve`, for any number
  of resets and edits. The invariant (`Between`) says at each call of the command
  that the file is what was read (`Untouched`), that what may be overwritten is in
  a backup (`BackedUp`), what replaced it (`Replaced`), and how many calls have
  failed on the way back (`WayBack`).
* `PartsSideBySide`: every behaviour of `MCMachine` is one of each of its four
  parts, so the theorems about the parts hold of the composition as well;
  `PartsTypeCorrect` is its `TypeOK`.

The assumptions are the ones named in the modules: constants have their types,
markers such as `None` are not members of the sets they mark. Where an assumption
is no ASSUME of its module it is a hypothesis of the theorem (`DataDirAssumption
=> (DataDirSpec => ...)`), and MCMachine assumes it (`PartsAssumption`), so that
TLC evaluates each of them in the runs. One hypothesis is about the system and
not about constants' types: which operations stand beside the loop
(`LoopWithUnpairing`, `LoopAlone`). The runs of section 5 show what happens without
it.

### Only model-checked

* The liveness properties, `QueueDrains` and `RevocationCompletes`: they need
  fairness of single actions, and ENABLED is out of the prover's reach.
* The five violations, which are counterexamples and no theorems.

## 5. Where the code and its documentation disagree

Five runs show one each, and `PROJECT.json` lists them as findings:

* FullQueueWedge: `Send` returns the error of a refused enqueue before it flushes
  (telemetry.go:42-44), so a full queue is never delivered again.
* ReloadRace: `Reload` reads the file outside the lock (state.go:222) and undoes
  an Update that was saved in between.
* StaleSave: a process writes its memory over what another has saved
  (state.go:251).
* StaleRollback: a rollback of an update that was made while the service was
  stopped leaves the new version running if it was started since
  (service.go:1267).
* TokenReused: a page that asks whether a setup is due publishes, after a setup
  has saved its administrator, what it read before (auth.go:165, state.go:222);
  the administrator is gone and his token makes another, although README.md:174
  calls it single-use.

Others were met while modelling and confirmed by a counterexample, without a run
of their own.

Delivery and pairing:

* The loss counter of a refused enqueue is raised on a copy that the returned
  error discards (telemetry.go:58-61); HANDOVER.md:72-73 says it is incremented.
* After a 202 the batch removed is the head of that moment, not the one that was
  sent (telemetry.go:147-149): two concurrent `Send` calls may remove an unsent
  batch.
* A batch may name the post of the connection before (telemetry.go:74), if a
  re-pair is saved between the snapshot and the enqueue.
* A Reload may bring back a connection that was cleared, or clear a revocation
  that was marked pending, in between its read and its publication.
* A rotation saved while a post is in flight breaks the overlap: which of the two
  credentials was used is judged by the older snapshot (telemetry.go:156-165).
* `Unpair` clears the connection of the moment its answer arrives, which may be a
  newer one (pairing.go:171). A 401 counts as revoked although the other
  credential of an overlap may be live, as it is when a replacement lapsed unused
  (pairing.go:208-211). A rotation answered after an unpair leaves a credential
  without a post (pairing.go:242-247).
* A failed collection stops delivery of what is queued (telemetry.go:45); when the
  save that drops a stale head fails, flush tries the same head again without a
  pause (telemetry.go:108); two processes that open a missing file draw two
  installation IDs (state.go:199).

Accounts and first run:

* Account creation, password change and setup save the change and its audit entry
  one after the other (auth.go:355-366, 192-201, 393-399); README.md:180-184 says
  they share one save. README.md:189-190 says that sessions are held in memory
  only; they are stored in `LocalAuth.Sessions` as well, and expired ones that are
  never presented again are not removed.
* The Reload of a login may bring a session back into the file after its logout
  (auth.go:225); a login checked against an old password may store its session
  after the change.
* The bootstrap token is consumed in a save of its own after the administrator's
  (auth.go:192-201); README.md:177-178 says "consumed atomically with the first
  administrator's creation". A failed second save, or a kill between the two, does
  no harm: the stored administrator closes the door to the token that is left
  (`TokenUsedOnce`, `KeyForTheDoor`). The races do.
* `"reload"`: what TokenReused shows breaks `SingleUse`, and an old file published
  after a reset brings the token back that the reset withdrew (`LastTokenOnly`).
  Published between the two saves of a setup, the old file takes the administrator
  away and the second save still consumes his token: an exposed service asks for a
  token that it refuses (`KeyForTheDoor`).
* `"reset"`: a reset and a page's Reload that fall between the check of the token
  (auth.go:188) and the first save (auth.go:192) let the token that was withdrawn
  make an administrator (`LastTokenOnly`), and another if it made the one who was
  reset (`SingleUse`).
* `"save"`: the service overwrites the administrator that `setup` has created in the
  file meanwhile, or `setup` his (auth.go:183; `FirstAdministratorKept`). When
  `setup` has read the file before a setup and a reset, its save brings the token
  back, and a setup that loaded the accounts before that Reload makes a third
  administrator with it (`SingleUse`).
* A service that was reset by its web interface, or whose token has expired, asks
  for a token that cannot be had before it is started again (auth.go:188).

Service:

* README.md:86-88 says that an unchanged installation that is inactive or disabled
  receives lifecycle steps; service.go:831-833 returns at once. An install killed
  after it wrote the unit leaves a state the next install takes for up to date
  without a daemon-reload. A rollback whose second rename fails, and whose way
  back fails, leaves no executable (service.go:1264).
* README.md says that the environment file is checked again before the service is
  started or restarted; only `Status` does so (service.go:1003), and start and
  restart accept one that has become writable since (service.go:958-971).
* README.md:46-47 says that values "are trimmed once"; an address in one value is
  validated with its blanks removed and recorded with them (listen.go:99, 122). An
  install with it reports success and the service cannot bind. `LoopbackComesUp`
  says nothing of such addresses.
* A reinstall that names only a port or a listener drops the recorded environment
  file (InstallOptions looks at recorded values only if nothing was selected).
* An installation killed between mkdirat and fchown leaves a directory of root
  that every later installation refuses. `establishDataDir` compares kind and mode
  of what it binds with what it made (datadir_linux.go:160), not its identity: in
  a parent that only root may write, nothing else can be there, although the
  comment above it says that "even another ordinary directory" is detected.

## 6. What is not modelled

* A power failure: the code does not sync `agent.json`, and what a file system
  then holds is outside these models. A process death is modelled everywhere.
* Cookies and password hashing, which gantry-core does and which keep no state of
  the agent.
* Creation of the environment file, validation of a rendered unit, status and
  logs, which change nothing these properties read. The service manager is
  therefore listed as modelled in part.
* Names of paths and texts of errors; parsing of `/proc`, flags, addresses and CIDRs;
  the launcher's list of links: data no property looks at.
* The table of operations, templates, static assets and packaging: no state.
* A forwarding header in several lines of one name, of which the code reads the
  first (app.go:350).
* The details of the backoff's length.
* Operating systems without systemd, where the service commands only refuse.

## 7. Plan

Done, in this order: delivery, pairing and their composition; the store in steps
and its refinement; the service manager; accounts and sessions; the abstract
channel the loop implements; the first run, the listeners, the data directory,
the reset command and access control; then the proofs of every safety property
of the runs, and of both refinements.

What is left:

1. `Lifecycle`: the pairing of a rollback copy with its marker, across commands
   (an update writes both, and only the copy is removed when the marker fails).
2. The hypotheses of `LoopProofs` made weaker: a handler that polls an approval
   when no Reload overlaps it; a command that only reads.
3. Lock-out: whether a second rotation before the first use of a replacement can
   leave the agent without a live credential.
4. `FirstRun` and `Sessions` over the steps of `Store` instead of atomic saves.
