# Tart Oven in TLA+

Tart Oven (`src/`) is a Go server that runs macOS and Linux virtual machines
with the `tart` command: a dashboard starts, stops and suspends them, a
scheduler rotates them through run windows, agents lease them, snapshots copy
them. This directory holds its TLA+ models, the TLC configurations that check
them, and proofs that TLAPS checks. `PROJECT.json` lists the runs, the mutants
that each property detects, the source lines every definition translates, the
hazards, the findings and the theorems.

## The system

One `Manager` (`internal/server/types.go:353`) holds all state, guarded by one
mutex `mu`. Everything slow (tart, SSH, the guest agent) is done without the
mutex; a goroutine that works on a VM marks it in `m.busy` first. So a step of
the models is one section under `mu`, or one call of `tart` outside it, and
everything interleaves at that grain.

| Part | State it keeps | Operations | Talks to | What makes it correct |
|---|---|---|---|---|
| VM operations `vmops.go`, `tart.go` | `vms[n].State`, timers, `Suspendable`; `busy`, `opStart`, `runningCmds` | doRun, doStop, doSuspend, failOp, finishVMRun, healStuck | tart; called by handlers, scheduler, leases, snapshots | one operation per VM; nobody else writes the record meanwhile; a wedged operation is recovered; ceiling and family rule |
| Reconciliation `reconcile.go`, `run.go` | none of its own | reconcile (from nearly everywhere), monitor every 10 s | `tart list` | records converge to tart; transient states and timers survive |
| Scheduler `scheduler.go`, configuration `handlers.go` | `lastSequential`, `Paused`, `MaxConcurrent`, hours, exclusions | tick, pause/resume, settings | VM operations, inline | expired VMs stop, every VM gets its turn, never more than the limit, paused means paused |
| Leases `lease.go`, `agentapi.go` | `VM.Lease`, `agentOps`, `reaping` | create, wait, exec, extend, destroy, reap | tart clone/delete, doRun | a VM is destroyed once and only after its lease; failures leave no VM behind |
| Snapshots `snapshots.go` | `VM.Snapshots`, `VM.SnapshotOf` | take, restore, promote, delete, rename | tart clone/rename/delete, doRun | no state in which the original is lost; records and tart agree on families |
| Create batches, names `vmmanage.go`, `vmname.go` | `tasks`, `batches`, `reservedNames` | create, cancel, name | tart create/clone/set | names unique; a cancelled batch stops; settings reach the VM |
| History, persistence `types.go`, `persistence.go` | `history`, `state.json` | append, close, prune, load, save | VM operations, restart | one open entry per running VM, also after a crash |
| Token and sessions `auth.go` | token hash, sessions | log in, set, reload | token file | no session survives its token |
| Restore images, OCI pulls `ipsw.go`, `ocipull.go` | cached list, download in flight | refresh, pull | network, tart pull | one download for many callers; one pull per image |
| Events `events.go` | subscribers | broadcast | browsers | a slow reader sees the last state in the end |
| Guest execution, host name, installer `guestexec.go`, `guestagent.go`, `hostname.go`, `ssh.go` | agent/SSH flags | exec, probe, rename guest | guests | (commands in a guest) |
| MDM, golden images, TLS, setup, updates, performance, MCP, CLI, web | little | | | (I/O and formatting) |

Hard behaviours, with the line where each bites, are the `hazards` of
`PROJECT.json`. The recurring ones: two goroutines on one VM; a decision taken
under the mutex and acted on after it; a `tart list` applied late; operations
that outlive `maxOpAge`; commands that fail halfway.

## The modules

| Module | Role |
|---|---|
| `VmLife` | abstract specification: what a client may rely on about the `State` shown for each VM |
| `AgentVM` | abstract specification: what an agent may rely on about each VM it asks for |
| `Lifecycle` | VM operations, reconcile, recovery: detailed, with tart and its failures |
| `Scheduler` | scheduler and configuration among users, over the states `VmLife` describes |
| `Leases` | VMs leased to agents: provisioning, extension, reaping, destruction, with users and restarts |
| `Snapshots` | a VM and its snapshots: take, delete, restore, delete and rename of the VM, reconcile's bookkeeping, state.json |
| `Builds` | create batches, their tasks and names, the rename that competes for names |
| `Access` | the access token, agent tokens and sessions, with the command line beside the server |
| `Images` | the shared download of the restore image list |
| `Feed` | the dashboard's events |
| `History` | the run history and the one-shot enrolment through crashes and restarts |
| `Settings` | the configuration: load, defaults, handleConfig, HTTPS |
| `Guest` | probes, commands and the host name of a guest |
| `Services` | the last six in one specification |
| `MCLifecycle`, `MCScheduler`, `MCLeases`, `MCSnapshots`, `MCBuilds`, `MCServices` | constants for TLC |
| `VmLifeProofs`, `LifecycleProofs`, `SchedulerProofs`, `LeasesProofs`, `SnapshotsProofs`, `BuildsProofs`, `AccessProofs`, `ServicesProofs` | theorems; those on `Images`, `Feed`, `History`, `Settings`, `Guest` are in `ServicesProofs` |

`Lifecycle` and `Scheduler` are joined by `VmLife`. `Lifecycle` shows that the
code of the operations makes the states move as `VmLife` says; `Scheduler` and
`Leases` use operations at that level (a claim, an effect, an outcome, a
transient state in between); `Scheduler` shows that scheduler and users together
still implement `VmLife`. `AgentVM` is what `Leases` promises an agent about what it
is `told` of a VM, in the order in which its provisioning `prov` goes: which answers
are final and which are not.

### Lifecycle

*State.* `rec[n]` is the `*VM` in `m.vms` cut down to State, Suspendable and
whether StopAt is set; State "absent" is a name not in the map, "unset" a record
whose State is still "". `busy`, `overdue` are `m.busy` and the operations
whose `opStart` is older than `maxOpAge`. Each goroutine has a `pc`, the VM it
works `on`, the locals it keeps (`susp`), whether the `*VM` pointer it took is
still the one in the map (`held`; reconcile may drop the record and make
another) and the list it has read but not applied (`view`). tart is external:
`tart[n]` is what `tart list` would say, `live[n]` whether the session or the
saved memory was launched with `--suspendable`, `procs` the names whose
registered process runs the VM.

*Actions*, in the code's order. doRun: `RunClaim` (guards, busy, "starting"),
`RunRefused`, `RunDeferred`; `RunFails` (failOp); `RunLaunch`; `RunUp`, or
`RunGiveUp` and `RunAbort` when no IP came. doStop: `StopClaim`, `StopAsk` (clean
shutdown), `StopTart`, `StopKill`, `StopDone`. doSuspend: `SuspendClaim`,
`SuspendFails`, `SuspendTart`, `SuspendDone` (finishVMRun). Deleting: `DeleteCheck`,
`DeleteTart`. Reconciling: `Heal`, `ReconList` (outside the mutex), `ReconApply`.
Surroundings: `Ages`, `GuestPowersOff`, `TartCreates`.
Every tart call may fail or time out with or without its effect.

*Abstractions.* Probing, the Info column, auto-enroll and the recon command
after an operation change nothing these actions branch on. Names, addresses,
errors and times are left out; a StopAt is set or not. Only VMs without
snapshots are deleted here.

### Scheduler

VMs are numbers in the alphabetical order of their names. `stopAt` is "none",
"ahead" or "past". What tick reads of the clock, the disk and the memory is
`host`. Tick's locals are `toStop` and `pick`: the candidates, the mode and the
cursor are read under the lock, so the pick is made there, although the code
computes it after the stops. `job` is the inline doStop or doRun.
`Wait`/`IntervalEnds` are the loop's timer in two parts, since a saved
configuration makes it start anew (`reload`). `TickPlan`, `TickStop`, `TickStart`,
`TickEnds` are the tick; `Configure` is handleConfig with the timers it clears or
sets and the tick that resuming spawns. `Outside` says whether users and tart
itself also start, stop and delete VMs.

A busy VM is one in a transient state: in `Lifecycle` that is `OpInv`, proved for
operations that keep within `maxOpAge`.

### Leases

Each agent VM has a goroutine that provisions it ("prov"), one that the reaper
starts for it ("reaper"), an agent's DELETE ("caller"), and a "user" of the
dashboard. `pc` says for each of them and each VM what it does next, `held`
whether it still has the record that is in the map, `seen` the list it has read
for reconcile. `state`, `lease`, `busy`, `op` are the record's State and Lease,
`m.busy`, and the Phase of `m.agentOps`; "ghost" is a failed entry that
failAgentVM made because none was left, so it has no owner. `tart` is what tart
has, `used` the names given out (allocVMName never gives one twice), `others` the
VMs without a lease that run, `orphan` the clones whose server was replaced.

`Create` is startAgentVM; `CloneWorks`, `CloneFails`, `HandOver`, `Judge`, `Fail`
are provisionAgentVM and failAgentVM; `RunClaim` to `RunAbort` and `StopClaim` to
`StopFails` are doRun and doStop, for whoever calls them; `WaitEnds`, `Check`,
`StopRefused`, `DeleteWorks` to `Forget` are destroyLeasedVM with the reconcile at
its end; `ReapLeases`, `CallerDestroys`, `UserDeletes` start it. `MonitorLists` and
`MonitorApplies` are the monitor's reconcile. A lease is "fresh", then "late",
the time in which an agent extends it, then "expired".

What an agent is told (`Seen`, agentViewOf) is read from the entry, the lease and the
record. Booting and ready are one answer, "up", of which a client can conclude
little: a VM is called ready as soon as it runs and its guest answers
(agentapi.go:140-148), although its provisioning waits on and may yet call it failed;
and it is called booting again when the guest stops answering. A VM without a lease
whose provisioning is still at work answers 404 (agentapi.go:120, 311) and may be
called failed afterwards. `AgentVM` allows both. What it forbids is in its header: a
failure after the provisioning ended, a second clone, a "stopped" while it is
provisioned, and anything but "none" for a VM that was told gone when its provisioning
was over.

*Abstractions.* doRun and doStop keep within `maxOpAge` here; agent VMs are not
suspended or renamed. state.json is taken to hold what the records held when
the server stopped; a restart's reconcile comes before it serves, as in
`run.go`. Validation, exec, a request's wait and the shared folders touch no state
of a lease and are left out. The reaper's set `reaping` is `pc` of its goroutine.

### Snapshots

*State.* A VM is named by `<<b, k>>`: `b` itself (k = 0) or its snapshot number k;
`Aside` is the name a restore gives the VM it replaces. `tart` says which VMs
exist and which are copies not reported as made. `of` is the records: "absent",
"regular", or the VM it is flagged a snapshot of (`VM.SnapshotOf`); `snaps` is the
entries of the originals (`VM.Snapshots`); `file` is both as state.json has them.
`up` is what runs. `loc` is each goroutine's position and locals; a goroutine is
a request of one kind ("take", "delete", "restore", "rename"), or the monitor.

`shared` is auxiliary: a copy was given a name that another request still works on.

*Actions*, in the code's order. Taking: `TakeAsk`, `TakeName`, `Register` (the checks of
startSnapshot, allocVMName and the registration are three sections, and nothing is
checked again), `Clone` (with tart
set), `Undo`, `Finish` or `GiveUp` and `Clean`. Deleting a snapshot: `DropClaim`,
`Erase`, `Forget` or `Keep`; the VM: `DeleteAsk`, `DeleteNext` for each snapshot,
`DeleteOwn`. Restoring: `RestoreAsk`, `MoveAside`, `MoveOnto`, `PutBack`, `DropAside`,
`Record`, `Clear`. Renaming: `RenameAsk`, `Rename`, `Carry`, and followRename's
`Plan`, `Follow`, `Shift`, `Point`, `Save`. Each ends in its own reconcile, `ListTart`
and `Reconcile`, which the monitor repeats. Around them `Run`, `Stop`, `Restart`.
Every tart call may fail with or without its effect.

*Abstractions.* A start and a stop are one step, and what runs is known: the
steps and what can go wrong with them are Lifecycle's. They save all records, as
doRun and doStop do; other savers are left out. Memory snapshots are copies like
others. A restore's name for the replaced VM is unique in the code and one name
here, so that no restore gets past `MoveAside` while one is left over.

### Builds

*State.* `disk` is what tart has, `rec` the records with the settings a batch
writes, `reserved`, `tasks`, `batches` the Manager's. A task in the list is the
batch it works for, or "over"; `tagged` and `cancelled` say whether the running
task of a batch carries the batch's id and whether its context is cancelled,
`doomed` the tasks that cancelBatch has collected and not yet cancelled. A name is a
number, so that all requests compete for the same expansions.

*Actions.* `Create`; then createVMs section by section: `Check`, `Alloc` or
`NameError`, `BeginTask`, `TagTask`, `MakeVM`, `SetVM`, `WriteSetting` for each setting,
`FinishVM`, and the two reconciles with `Release` between them. A rename:
`AskRename`, `TartRename`, `MoveRecord`, `EndRename`. Users and others: `CancelBatch` and
`CancelCollected`, `CancelTask`, `Delete`, `OtherTask`, `MonitorLists`, `MonitorApplies`.

*Abstractions.* Nothing here takes a busy flag; what else happens to the VMs is
in the modules above. Templates are alike. tart's commands may fail, and do when
their task was cancelled.

### Access, Images, Feed, History, Settings, Guest

Six parts that keep state of their own, each with its requests, goroutines,
clock and restarts. `Services` puts them into one specification: `part` says which
of them moves. As modelled they share no variable, and none waits for another;
so nothing is lost by looking at one at a time, and its behaviours are those of
the six. Their fairness is that of the part that moves.

- `Access`: `file` is auth.json and agent-tokens.json, whose content is the number
  of the write that made it; the number is also its modification time; two
  writes within the clock's resolution, which the code cannot tell apart, are left
  out. `value`, `mtime`, `loaded` are the cache, `mu` authState.mu. A
  look at a file is `Stat`, then `Load`; the writers are `Write` (the temporary file),
  `Rename`, `RemoveFile`, `RemoveAgents`, `ReadAgents`, `Clear`, in the server under the
  lock for the access token only, in other processes without it. `held` collects
  what the file meant since a request came, `sessions` is what authState.hash was when
  each session was given, to a login that matched it or an earlier one.
- `Images`: `flight` is ipswFlight, `fetching` the downloads under way, `ended` those
  whose channel is closed. `Join`, `FetchWorks` or `FetchFails`, `CloseDone`, `WakeUp` or
  `GiveUp`, `Answer`; `DayPasses`, `Start`.
- `Feed`: the state is the number of its last change; `Snapshot` and `Broadcast` are
  the two sections of broadcast, `Subscribe`, `Greet`, `Receive` are handleEvents.
- `History`: a boot is one call of doRun, its entry has its number. `Run`,
  `LaunchFails`, `BootFails`, `ComesUp`, `TakeAutoEnroll`, `RunAutoEnroll` are a boot,
  `StopDone` the section of doStop and finishVMRun that closes an entry, `Restart`
  load, the reconcile of Run and closeStaleHistory. `saved` is state.json, written in
  the sections in which the code saves.
- `Settings`: fields by the place where handleConfig and load treat them alike, with
  the values that the checks there tell apart. `Prepare` is a POST up to the lock with
  prepareTLSFields, which goes on in `LookUp` when the managed pair is meant, and ends in
  `Validate`; `Apply` is the rest. `SelfSign` is the POST for a new certificate, which ends
  in `Select`. `pem` and `pemTmp` are the managed key and certificate and their temporary
  files; whoever signs writes and renames first the key, then the certificate
  (`WritePem`, `RenamePem`, `PemFails`), without a lock. `Reload` is a restart with load's
  repairs (`Loaded`) and startupTLS (`Startup`). `Files` are the files a first start may find.
- `Guest`: `answers` is what the guest answers, `gone` agentProbedSinceBoot, `setting`
  hostnameBusy. `AskAgent`, `NoteAgent`, `AskSSH` are a probe, `WatchWakes` and its
  companions the watch after a boot, `Begin`, `CallAgent`, `AgentAnswered`, `CallSSH`,
  `Finished`, `EndApply` the host name's command through execInGuest.

## What the runs check

| Run | Instance | Question |
|---|---|---|
| `LifeCap` | 2 VMs, room for one | do operations exclude each other and own the state they wrote (`MutualExclusion`, `TransientOwned`, the inductive `OpInv`), does `Lifecycle` implement `VmLife`, and are starts bounded as the ceiling and the family rule mean (`StartsBounded`)? |
| `LifeHeal` | 1 VM, operations may outlive maxOpAge or hang, fair monitor | does a wedged VM leave its transient state, do records converge to tart, has every busy flag an owner that will clear it? |
| `SchedOps` | a VM and its snapshot, 2 ticks, users | do ticks keep to VMs they claimed and stop before they start (`JobsInFlight`), is what is due stopped in the end (`ExpiredStops`), does `Scheduler` implement `VmLife`? |
| `SchedAlone` | 3 VMs, limit 1, the scheduler alone, any hours, disk and memory | do its starts keep to MaxConcurrent, does sequential mode reach every VM? |
| `LeaseSafe` | 1 agent VM, an agent that destroys it, one other VM, a restart | is only a VM reaped whose lease is over (`NeverReapedEarly`), is what its owner is told of a VM as `AgentVM` says (`ViewSpec`), does `LeaseInv`, from which both are proved, hold? |
| `LeaseEnds` | 1 agent VM, a user who runs, stops and deletes it | is its clone protected (`CloneProtected`), does its provisioning end, is it gone after its lease (`Reaped`)? |
| `SnapSafe` | a VM with room for one snapshot; take, delete, restore and users at once | is no VM lost, whatever calls fail (`NoneLost`), does a copy under way keep its flags (`CopyProtected`), does `FlagsInv`, from which it is proved, hold? Each as long as no name was `shared`, which the code does not exclude (see below). |
| `SnapListed` | a VM, a snapshot and two names; renames, users, a restart, fair monitor | is a flagged snapshot on its original's list again and again, or unflagged (`Listed`)? |
| `Builds` | a batch of two, a rename, two names, a list of one task | do requests never work on one name (`NamesApart`, and the inductive `NameInv`), does a cancelled batch begin nothing (`CancelledStops`), do batches end whatever fails (`BatchEnds`), and have the VMs there are records in the end (`Shown`)? |
| `Services` | two requests or goroutines of each kind, two or three writes, changes, names | see below |

`Services` asks of `Access` whether a changed token counts at once (`TakesEffect`) and
whether a session lets a browser in only if it was given while a token was known that
the file held since the request came (`SignedOut`); of `Images` whether downloads are shared and old
lists not reported as new (`OneDownload`, `NewerList`); of `Feed` whether dashboards
show the last state in the end (`LastShown`); of `History` whether entries are closed
once, also by restarts, without closing that of the run under way (`StaleClosed`),
and enrolments happen once (`EnrollOnce`); of `Settings` whether restarts change
nothing (`SettingsKept`) and whether HTTPS is switched on with a certificate and a
key of one pair, and with the managed pair only if it loaded since the POST came
(`CheckedPair`); of `Guest` whether the name noted is the guest's
(`AppliedTrue`) and arrives (`NameLands`). `ServicesInv` joins the six inductive
invariants from which the proofs derive these.

*Bounds.* One VM is enough for what operations do to each other on a VM, and two
goroutines on operations beside two that reconcile give every pairing (three
operations at once add only a third that is refused). The ceiling and the family
rule relate VMs in pairs: two VMs with `HardMax` 1 make the ceiling decide in
`LifeCap`, two of one family with `HardMax` 2 make the family rule decide in
`SchedOps`. Rotation needs three VMs for a turn to be skipped. The hours, the disk and the
memory change in `SchedAlone` only, where they matter to the choice of a VM; to a tick
among users a VM outside the hours is one more whose window is over. Ticks are
bounded by `Ticker`: a resumption with no goroutine left waits. Agent VMs meet
only in the count of slots, which `others` (up to `MaxOthers`) stands for as
well, so one agent VM is enough; each goroutine is there once for a VM.
`MaxRestarts` 1 lets a restart fall between any two steps; a second one finds
what the first could have found. `LeaseEnds` has no restarts: one restart merely
begins anew. Of each kind of request on a VM and its snapshots one is in flight at
a time, and one snapshot is enough: snapshots meet only through the original,
its list and its flags. `SnapSafe` has no restart, which only drops requests
there, and `SnapListed` no other request than rename, of which its restarts make
the most: a rename leaves records in memory that the file names differently. In `SnapSafe`
nobody asks for more once a name was shared (`Onward`): the properties say nothing of
what follows but that what runs on loses no VM.
In `Builds` two VMs for two names make names run out when a
rename takes one, and a list of one task drops the batch's own. In `Services` two
writes of a token are the two between which a session can fall, two requests and
one other process are two that look and one that writes, a login and a request of
any other kind; three changes by two
goroutines fill a queue of two (eight in the code); two boots of one VM are a run
whose entry a failed start left open, and the next one; two POSTs, of settings or
of a self-signing, and a restart meet in every order, with two signings, or one after
a crash that left a key without its certificate. `Guest` has one boot: of the next one only
the cached answer matters, which is a matter of the way a command takes. The fields
of `Settings` do not meet, except for HTTPS and a daily window, so that a few stand
for all (`Sample`). Nothing else is bounded: the state spaces are finite and
explored completely.

*Symmetry* is used for the goroutines of `LifeCap`, which checks no liveness.

*Fairness.* `Lifecycle!MonitorRuns`: the monitor's ticker and time go on, and
`tart list`, which has a 20 s timeout, works again and again. No operation is
assumed to progress: they may hang for ever in `tart`. `Scheduler!FairSpec`: the
loop and its ticks go on, run windows pass, and an operation ends, since every
wait in it has a deadline. Nobody is assumed to use the server. `Leases!FairSpec`:
the reaper's and the monitor's loops go on, leases run out, each goroutine that
has begun goes on, and tart, asked again and again to stop or to delete a VM,
does it in the end (strong fairness, of the server's goroutines only); no user,
agent or restart is assumed. `Snapshots!FairSpec`: requests and the monitor's loop
go on, and `tart list` works again and again. `Builds!FairSpec`: goroutines go on and
tart's commands end, with any outcome; nobody has to ask, cancel or delete anything.
`Services`: the monitor broadcasts for ever, an open dashboard reads what it is sent,
and the goroutines of a boot go on, since all their calls have deadlines. `Reaped` allows for somebody who works on the VM
again and again, since the reaper leaves a busy VM alone.

Runs that expect a violation state what a comment says and the code does not
keep; they are the findings of `PROJECT.json`:

- `LifeTogether`: a snapshot is started while its original, marked "stopping",
  still runs, both with one MAC address.
- `LeaseLost`: a list read before the clone existed, applied between the clone
  and the start, drops the record with its lease; the VM runs without one.

The models show other consequences of the same gaps, without runs of their own: the
tick that resuming spawns starts a second VM beside one that the loop's tick is
starting, with a limit of one, against scheduler.go:45-46 (`SchedAlone` with two
members in `Ticker`); a list read before a start ended and applied after it clears the run window of a
VM that runs (`Reconciled`, reconcile.go:14); Run on a VM that runs already rewrites
`Suspendable`, so that it can be suspended although its memory cannot be restored
(`RunUp`, vmops.go:510);
doRun's ceiling leaves out VMs that are stopping just as the family rule does
(`SlotFree`); `StopAsk` goes on to "stopped" when a `tart list` fails, because
isRunning drops its error; a tick's list may name a VM that a user has restarted
since (`TickStop`); resuming leaves the old run window of a VM that was started by
hand while the scheduler was paused (`TimerAfter`); a tick planned before a pause
stops its VMs after it (`TickStop`); failAgentVM clears the busy flag of whoever
works on the VM (`Fail`); the slot promised to a VM being cloned is not promised
to users (`Room` counts without it); a clone that outlives its server makes a VM
without a lease (`OrphanEnds`). A VM may be told ready to its agent and failed later,
or answer 404 and then be failed (`AgentVM!Fails`; agentapi.go:140-148, 311).

Between the check of startSnapshot and allocVMName a restore may begin, and free the
name of the snapshot it restores; the copy gets that name, and the restore's deferred
setBusy (snapshots.go:361-366) clears the copy's flag while tart clones, against
snapshots.go:181. Unflagged, the half-made copy can be started, restored or deleted, and
two requests work on one VM. `Snapshots` reaches this and notes it in `shared`
(`TakeName`); `CopyProtected`, `FlagsInv` and the last part of `NoneLost` hold until then.

A family can also break up, against snapshots.go:24-29 and the repository's
README.md:196, in ways `Snapshots` shows. A list read before a copy was made and
applied after it was finished drops its record; the next list makes it a regular
VM, which is scheduled and may run beside its original. A list applied during a
restore, or between tart's rename and `Carry`, does the same to the snapshots of
the record it drops. followRename takes a snapshot's new name without reserving
it: a snapshot that is taken under it in between loses its busy flag at `Point`,
and if its copy fails, `Undo` deletes the snapshot that was moved there. That is
why `CopyProtected` and `NoneLost` are checked without rename.

From the other modules: a list read before a batch's VM, or a renamed one, existed
drops its record with its settings (`Builds!Synced`; handlers.go:674-677 wants it
kept). A guest command that fails and writes what reads like a missing agent is run
again over SSH (`Guest!AgentAnswered`; guestexec.go:120-123 says it must not). A probe
that answers after the next boot has begun decides how that one is asked
(`NoteAgent`). A host name that changes while another is being set waits for the next
boot or change (`Refuse`). A login that matched the old token and gets its session after
another request has dropped the sessions keeps it (`NewSession`; auth.go:408-420 does not
look at the token again), against auth.go:93, 441-442 and cli.go:132, by which browsers
that signed in with the old token are out; such a session counts as one of the token
known when it was given, and ends with that. Two signings at once, or a crash between
the two renames (tls.go:98-101), leave a managed key and certificate that do not belong
together: POSTs that switch HTTPS on with them are refused, but a pair that was
checked before may be stored after, and a server that starts with it stops at
startupTLS until it is made anew (`RenamePem`, `Startup`). Two agent tokens added at once
may leave one
(`Access!ReadAgents`), and two saves of a file share its temporary file. Two POSTs,
one that switches HTTPS on and one that sets a pair while it is off, both checked
before either is applied, may leave a pair that was never checked
(`Settings!Prepare`; the repository's README.md:442). A stop after a start that failed
closes the failed start's entry, or an older one, when the failed start left its own
open (`History!Close`).

## What is proved

For every set of VMs, goroutines, families, and ceilings:

- `VmLifeProofs`: at most `HardMax` VMs are starting, one of each family
  (`BoundedStarts`).
- `LifecycleProofs`: `TypeCorrect`; and for operations that keep within `maxOpAge`
  (`SlowOps = {}`) `OneOperationPerVM`, `TransientStatesOwned`,
  `LifecycleImplementsVmLife` and, carried over from `BoundedStarts` by it,
  `StartsStayBounded`. The inductive invariant is `OpInv`: an operation in
  flight has its flag, its record and the state it wrote; no two are on one VM;
  a flag has an operation; a VM without a flag is in a settled state. Mutual
  exclusion alone is not inductive: that an operation still holds the record it
  claimed needs reconcile to have left it alone, which needs the flag.
  `NoFlagLeftBehind` holds whatever operations are slow. `OpInv` itself is
  `OpInvAlways`.
- `SchedulerProofs`: `TypeCorrect`, with the lemmas `FirstExists` and `NextInTurn`
  that nextSequential returns the next candidate in turn; `TicksKeepToTheirJobs`,
  inductive as it stands with the types; `SchedulerImplementsVmLife`, from the
  types; `SchedulerAloneKeepsCap` for one tick at a time with nobody else at
  work, from `AloneInv`: a busy VM is the tick's own job, and while a pick
  stands there is room beside the VMs that are active and not about to stop.

- `LeasesProofs`: `TypeCorrect`, `ClonesAreProtected`, `LeasesAreHonoured`,
  `LeasesImplementAgentVM` and `GivenUpStays`, for any number of agent VMs, slots and
  restarts. The inductive invariant is `LeaseInv`, itself `LeaseInvAlways`. That a
  clone is protected needs that nobody else is past waiting for it (`ClonedAlone`),
  which needs its flag; and that it began with nothing at work on its name
  (`UnusedIdle`). That the reaper is never early needs that whom it waits for is late
  already (`ReaperIsLate`), since agents extend only leases that are not over. That
  every step is a step of `AgentVM`, or one that changes no answer, needs `OpsWell`: while a
  provisioning may still report, no entry says that it is over, and where its entry
  was dropped the lease went before, so that the agent was told "none" since; a VM whose
  clone is written keeps entry, flag, record and lease, so that only a restart comes
  between. The abstract steps are one VM's `Ask`, `Cloned`, `Succeeds` or `Fails`, and
  for a set of VMs `Change` or `Restart`; `prov` is where the goroutine of its
  provisioning is, so that a failure reported after a 404, or after "ready", is the
  step `Fails`. `GivenUpStays` (a VM that is told gone once its provisioning is over is
  told nothing else again) is the part of it that an agent's clean-up rests on.
- `SnapshotsProofs`: `TypeCorrect` for everything, renames included; and while
  nobody renames (`"rename" \notin Op`: with renames the code does not keep it)
  `CopiesAreProtected` and `NoneIsLost`, for any names, numbers of snapshots and
  restarts. The inductive invariant is `FlagsInv`, itself `FlagsAreKept`. That a copy
  keeps its flag needs that whoever clears a flag set it: the VMs that the requests
  work on are apart (`ClaimsApart`), which needs that each is flagged when another
  looks (`HasItsFlags`). That a copy keeps its record needs that a list leaves flagged
  records alone, and that a record of a snapshot has a name made of its original's
  (`OwnName`), in memory as in the file. That no VM is lost needs `KeptInv` as well
  (`CopiesAreUnmade`): what the undoing of a copy deletes was never reported as made,
  and a snapshot that a restore has moved to its original's place is no longer under
  its own name when the original goes.
- `BuildsProofs`: `NamesStayApart` and `CancellationHolds`, for any number of batches,
  renames and names, from `NameInv`, itself `NameInvAlways`. Names apart is not
  inductive alone: that the least free name is nobody's needs that a goroutine has a
  name exactly in the steps from its reservation to its release, whatever it does
  in between, and that a rename knows in which of them it is; a step that makes a VM
  finds its name free on the disk because every other maker has another name. Of
  cancellation it needs that a batch is in `m.batches` exactly while its goroutine runs.
- `AccessProofs`: `TakesEffectAlways` and `SignedOutAlways`, for any number of requests,
  other processes and writes, from `AccessInv`. While the modification time known is the
  file's, the value cached is the meaning of that file (`VersionsWell`); every
  session was given while the token last read was known, since what reads another drops
  them all; and a request about to look its session up has seen the file held that token
  since it came, unless somebody with the lock has changed the token and will drop the
  sessions before letting go (`Anew`).
- `ServicesProofs`, one invariant for each part:
  `OneDownloadAlways` and `NewerListAlways` from `ImagesInv` (downloads are numbered as they
  begin, and a request waits for one later than the list it found);
  `EnrollOnceAlways` and `StaleClosedAlways` from `HistoryInv` (the arming of a VM is used by
  the flag, by one boot about to enrol, or by an enrolment made, and state.json says
  the same at every step; entries are in the order of their starts);
  `ConfigValidAlways`, `SettingsKeptAlways` and `CheckedPairAlways` from `SettingsInv`
  (handleConfig stores nothing that load repairs, and a POST that switches HTTPS on
  carries two files of one pair, the managed one only if it loaded since it came:
  `SaverWell`);
  `AppliedTrueAlways` from `GuestInv` (the flag `setting` has one goroutine, and the name
  it runs with is the guest's from its command to its note; of each boot's watch and
  probes it is known what they have seen).
  `PartsKeepTheirPromises` carries all of these, and those of `Access`, over to
  `ServicesSpec`: a step of a part leaves the others alone, so every behaviour of
  `Services` is one of each part. `ServicesInvAlways` is their conjunction.

Every safety invariant and every action property of a passing run is a theorem.

The assumptions are the named ones of the modules: finite sets of VMs, positive
limits, bounds that are natural numbers, goroutines of different kinds being
different, fields in a request that are settings, names that are not the constants
that stand for "none". Those of the theorems on `Lifecycle` (`SlowOps = {}`) and
`Snapshots` (no renames; and, within the properties, no shared name) are in their
statements: the code does not keep them otherwise. Bounds on counts (`MaxBoots`, `MaxWrites`, `MaxRestarts`, ...) are any
natural number in the proofs.

Liveness under fairness, ENABLED and what recursive definitions compute stay with
TLC: `WedgedHeals`, `Converges`, `ExpiredStops`, `EveryOneRuns`, `Reaped`,
`ProvisioningEnds`, `Listed`, `BatchEnds`, `Shown`, `LastShown` and `NameLands` are
model-checked only. The type invariants are no properties of a run of their own
where the inductive invariant of the run contains them: `TypeCorrect` proves them.

## Not modelled

- OCI pulls, enrolment in an MDM and its profiles, golden images, the installer of
  the guest agent, the Info column: sequences of commands run by tart or in a guest,
  with their progress. Their state is a task in the list (`Builds!OtherTask`) and texts;
  what goes wrong in them is what the commands say.
- Who may call which path, the lockout after failed logins, when sessions and
  leases expire by the clock: guards and times without an interleaving of their own.
- Setup wizard, update check, self control, performance figures, the command line
  beyond its token commands, the MCP server, the web pages: input, output and
  formatting.
- The migration of records that older versions wrote, a state file older than the
  last drop of a record, and a save that fails for a full disk: save works here.

## Plan

1. `NoneLost` and `CopyProtected` with renames, for the requests that a rename cannot
   meet: which of the claims hold while followRename is between `Plan` and `Save`.
2. What holds of `Lifecycle` when operations outlive `maxOpAge`: that a healed VM's late
   operation changes no record but its own.
3. The safety part of the liveness arguments, as the measures by which `BatchEnds` and
   `Reaped` come to their end.
