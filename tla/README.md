# A formal model of caz.nix

`caz.nix` is the configuration of a home server and of the machines around it,
together with the programs that keep the server running unattended: a release
updater that deploys signed NixOS generations and rolls them back, a website
updater with its own journal, backups, an alert queue, a door-lock manager, and
the administration of two game servers. This directory holds TLA+ models of those
programs, the TLC runs that check them, and proofs that TLAPS checks.

## 1. Inventory

### Release updater
`scripts/stage-server-release.sh`, `modules/nixos/release-updater.nix`

* State: `accepted-release.json`, `failed-release.json` (one record), the system
  profile, the boot entry, `/run/current-system`, the Nix store and its roots,
  `update.lock`, the container maintenance lock, the shell variables of a run
  (above all `rollback_required`), the queued notices.
* Operations: a deploying run started by the daily timer or by an operator
  (optionally with `--force`): lock, discovery and gates, verification, build,
  maintenance lock, adoption or supervised activation, rollback, exit traps.
* Neighbours: GitHub (releases appear and are withdrawn), the Nix daemon and its
  weekly garbage collector, systemd (timer, three-hour timeout), the server health
  gate, the pre-deployment backup, Docker prune (maintenance lock), the
  notification queue, the operator's `nixos-rebuild`.
* Hard: it supervises the replacement of the very system it runs on; it can be
  terminated, killed or cut off by a power failure at every step; traps re-enter
  the rollback; two runs overlap; the collector runs meanwhile.
* Correct when: one run at a time touches the live system; a rollback that says it
  succeeded did; what is recorded as accepted was verified, live, and not older;
  what may be restored is not collected; every run ends and the timer converges.

### Website updater
`packages/website-updater/src/*.ts`, `modules/nixos/website.nix`

* State: `state.json` (current, previous, pending, generations, quarantined, held),
  the `current` symlink, `public/releases/<commit>`, `metadata/<commit>`.
* Operations: `update` (hourly timer), `preview`, `rollback`, `resume`, `retry`; each
  begins with `recover`. All of them run under one exclusive `flock`.
* Hard: every operation can stop between any two durable writes (exception, signal,
  ten-minute timeout, power failure), also inside a recovery or a removal.
* Correct when: visitors always get a complete site; the journal always tells what is
  served; what a recovery or a rollback needs is never removed; holds, quarantines
  and the refusal of downgrades survive all of this; the hourly update settles.

### Pre-deployment backup, server health gate, maintenance lock
`scripts/pre-deploy-backup.sh`, `scripts/check-server-health.sh`,
`scripts/check-deployment-storage.py`, `modules/nixos/container-runtime.nix`

* State: the units stopped for the archive, archives and their retention; the clock and
  the samples of the health loops; the lock shared with Docker prune.
* Hard: signals around `systemctl stop` and inside the EXIT trap, SIGKILL; a retention cut halfway;
  pruning of images while containers are down; samples around a deadline, single bad samples.

### Release notifications
`scripts/release-notifications.py`

* State: a directory of events, a delivery lock. Operations: `enqueue` (from the
  updater), `drain` (every minute). Hard: crashes between delivery and removal,
  expiry, head-of-line blocking, clock steps.
* Correct when: a notice is handed over or has expired, never merely lost; in order;
  twice only because a delivery was interrupted; nothing blocks the queue for ever.

### Schlage lock codes
`home-assistant/custom_components/schlage_local/*`

* State: the codes on the lock (also changed at its keypad), names and events kept by
  Home Assistant, one asyncio lock per door. Operations: list, add, remove, rename,
  reveal, settings. Hard: lost acknowledgements, cancellation, reload, concurrent
  keypad changes.

### Device network
`packages/device-network/*.py`, `modules/nixos/device-network.nix`

* State: a network namespace, its links and rules, an ownership marker. Operations:
  `prepare`, `up`, `down`, `health`. Hard: crashes between two kernel objects, a
  configuration that changes meanwhile, a host whose uplinks come up at the same time, somebody else's namespace of the same name.
* Correct when: a device interface that is up is confined; it can always be brought
  back, and is by a stop; only an interface that nobody used is taken; a failed start recovers.

### Factorio and Minecraft administration
`scripts/factorio-admin.py`, `scripts/factorio-prepare.py`, `modules/nixos/factorio.nix`,
`modules/nixos/minecraft.nix`

* State: whitelist, operators, ban list, saves, archives, mods, the `saves` link,
  whether the server runs. Operations: whitelist and operator edits, backup, health,
  the preparation before each start. Hard: edits around a stopped server that systemd
  restarts by itself, lists written by root and read by a dynamic user, check-then-act without a lock
  (Minecraft), failures in between.
* Correct when: nothing changes under a running game; the server is left as it was
  found; nobody unlisted can join; operators are whitelisted; no world is lost; any
  start that is left alone, and can read its lists, ends in a running game.

### Secondary backups
`scripts/copy-secondary-backups.sh`: validate all sources, copy all, then prune.

### HVAC automations
`home-assistant/packages/hvac.yaml`: automations that share a script of mode `single`.

### Release publishing and CI
`scripts/publish-release.sh` (a resumable draft), build and classification scripts.

### Everything else
Private-data migrations (one-off, sequential), gateways, monitoring and network
policy (declarative configuration of other programs), hosts, desktop and bootstrap
(static). These have no transitions of their own and are not modelled.

## 2. Modules

| Module | What it is |
|---|---|
| `ServerRelease` | the release updater, its runs, its environment, its properties |
| `MCServerRelease` | its instance for TLC: the generation installed by hand and two releases |
| `ServerReleaseProofs` | the theorems about `ServerRelease`: its inductive invariant and what follows from it |
| `SupervisedRelease` | what the release updater promises of its host: supervised trials |
| `SupervisedReleaseProofs` | the refinement of `SupervisedRelease`, and that runs end and do not wait for each other |
| `SiteTransaction` | what the website updater promises: an atomic switch |
| `WebsiteDeployment` | the website updater, its properties, its inductive invariant, the refinement |
| `MCWebsiteDeployment` | its instance for TLC |
| `WebsiteDeploymentLive` | the same with a world that becomes calm, and fairness |
| `WebsiteDeploymentProofs` | the theorems about `WebsiteDeployment` |
| `StateBackup` | the backup script and every user of the container maintenance lock |
| `MCStateBackup` | its instance for TLC |
| `StateBackupProofs` | the theorems about `StateBackup` |
| `SchlageManager` | the manager of the keypad codes, its transport, its panels and the lock |
| `MCSchlageManager` | its instance for TLC |
| `SchlageManagerProofs` | the theorems about `SchlageManager` |
| `NoticeOutbox` | what the queue of deployment notices promises |
| `ReleaseNotifications` | the queue, its drains and Alertmanager; refines `NoticeOutbox` |
| `ReleaseNotificationsProofs` | the theorems about `ReleaseNotifications`, the refinement among them |
| `FactorioServer` | the game server under systemd, its preparation, the commands around a stop |
| `MCFactorioServer` | its instance for TLC |
| `FactorioServerProofs` | the theorems about `FactorioServer` |
| `DeviceNetwork` | `prepare`, `up` and `down` of the device network under systemd |
| `DeviceNetworkProofs` | the theorems about `DeviceNetwork` |

### ServerRelease
A release is its GitHub id; `PathOf` gives the store path its signed manifest names
(two releases may build the same path). `pc[p]` is the step of the run `p` (`Timer` or
`Operator`), `job[p]` its shell variables: `armed` is `rollback_required`, `rooted` the
garbage-collector root of line 722, `handler` the function that called
`rollback_deployment` (`fail_and_rollback` leaves the traps installed,
`cleanup_after_activation` resets them first), `touched` and `recorded` are history.
Each action is the command or short run of commands between two points where the
script can fail or be interrupted; `map` in `PROJECT.json` gives the lines. Commands that
fail do so as a choice: before the activation through `set -e` and
`cleanup_before_activation` (`Command`), during it through the explicit tests or the exit
trap. `rollback_deployment` is called in a condition, so `set -e` is off inside it: a
record that cannot be written does not stop it, and a failed `jq` even puts an empty file in the place of the old
record (`WriteFailedState`, `Malformed`). A malformed quarantine refuses every unforced run, a malformed
`accepted-release.json` every run (`Illegible`); the script cannot write the latter, which it renames only after
`jq` has succeeded under `set -e`, so `legible` is lost to a disk or a hand alone (`Spoil`, at most once and
for good). Renames are taken to be atomic and durable.
`switch-to-configuration` sets the boot entry and then the live system and may stop
anywhere (`SwitchTo`). `Terminate` is SIGTERM or SIGINT, `Kill` is SIGKILL or a signal
without a trap, `Reboot` starts the boot entry and forgets locks and processes.
A notice is assumed to be queued when the script asks for it; the queue is another
component.

`Supervised` says that all of this is a `SupervisedRelease`, which knows the accepted release, where the three
pointers of the system lead, whether what runs was verified, and the trial under way; it has no runs, locks, traps
or shell variables. The trial is that of the run with the lock, from the garbage-collector root of the previous
generation on (`Trial`): the release it goes towards, the generation it would go back to, and its phase, which
follows from the step and the result of the rollback (`TrialPhase`, `Outcome`). `Leave` is the end of
that run, or a reboot.

### WebsiteDeployment
A generation is its release id; tag, commit and id are one to one. Every action is one
durable step: a write of `state.json` (`atomicJson`), the rename of the symlink, the rename
of a tree, one step of a recursive removal (whole, partial, absent). `Stop` ends the
operation before any of them, which covers exceptions, signals, the timeout and power
failures; exceptions that follow from the state (`stored` throws, the link differs) are
branches of the actions. In memory the state is assigned right before it is written, so one
copy is enough. Ages are left open: `Expired` lets pruning take any set it is
allowed to take. The order in which several expired generations are removed is open.
The operations are serialised by the kernel's `flock`, so there is one process.
Staging directories are not modelled: nothing reads one that a crash left behind.

### StateBackup
`pc[s]` is the step of the script `s`: `deploy`, the child of the updater, which has
inherited the updater's lock (`CAZ_CONTAINER_MAINTENANCE_LOCK_HELD`, the open descriptor),
and `manual`, an operator's run that takes the lock itself. `holders` are the processes
that have the open file description of the lock: it is free when all of them are gone, so a
child that outlives a killed updater still keeps Docker prune out. `stopped[s]` is
`stopped_units`, `cur[s]` the unit of the iteration: the stop and its recording are two
steps. `Signal` ends a script through its EXIT trap where one is installed and through
nothing else elsewhere; `Kill` is SIGKILL, or a signal that arrives inside the trap, and may leave any part of what
systemctl was asked for done. `left` is history: the units that a script which ended so, or before it had recorded
them, has left down. Retention lists the archives once (`ListArchives`) and removes the surplus one by one, the newest
of it first (`RemoveArchive`, `surplus[s]`). The Minecraft and Factorio archives are one step that may fail.
A container is removed with its unit's stop (`docker run --rm`), so `Prune` removes the image of
every unit that is not active. A crashed unit is `activating` until systemd has restarted it.
The updater appears here only with its steps around the lock; `ServerRelease` has the rest.

### SchlageManager
`op[s]` is the command of the browser session `s`, `shown[s]` the snapshot its panel may still
edit. Each Bluetooth exchange is one step: identifiers are listed, their contents are read,
then a write, then the same two reads again; what the manager decides between two awaits is
part of the step before. `codes` is the lock itself, which also changes at the keypad (`Keypad`) and
which assigns any free identifier. The answer to a write may be lost, illegible or a
refusal, with or without the effect. `manager` counts reloads: each `Manager` has its own copy of
labels and log (`names`, `log`), its own asyncio lock (`holder`) and its own revision key, and
a command of an old one goes on; `store` is what the last save wrote. `bus` is the
pairing's operation lock, held across exchanges only by the auto-lock compare-and-set.
`reached` (commands that changed the lock) is history, and so is `entered`, the
commands that made an entry in each manager's log: `Recorded` asks that a command's entry was made, and that only a
log that is full has dropped it since.

### ReleaseNotifications
A notice is its number in the order of publication. `writing` is the temporary file of `enqueue`,
`queue` the directory, `name[e]` the time at the head of a file's name. `drain[d]` is a run of `drain`:
the files of its batch (`sorted(...)[:20]`, read once) that are not yet done and the `endsAt` of the request under
way. `enqueue` does not take the delivery lock, so a notice may appear at any step of a drain and sort before the
batch. Time ticks, and `SetBack` sets it back: `recordedAt` may then lie in the future, and Alertmanager
refuses an alert that would end before it starts. A lost answer and a kill end the run with the
alert accepted and the file still there (`cut` counts these). `Promise` says that all of this is a
`NoticeOutbox`, in which a notice is waiting until it is handed over or expired, and
notices are handed over in order unless the clock was set back.

### FactorioServer
`unit` is what systemd makes of `factorio.service`: a step of its start, `running`, `waiting` (for
`RestartSec`; systemd calls it `activating`), `stopping` or `inactive`. A start is `initialize` (three lists), the mods,
the world, the `saves` link, the game. `files[l]` says who owns a list, since `write_json` keeps the owner of a
list that exists, and a new one belongs to whoever writes it: the service's dynamic user in a start, root in a
command. A start fails on a list of root's or a malformed one (`StartRaises`), a command on a malformed one
(`EditRaises`), and only a hand mends either (`HandRepair`). The first state is an empty state directory (`New`) or
one with the original world and lists of its own (`Inherited`). `job[s]` is a run of `factorio-access`: it takes the maintenance lock, reads the
state of the unit once, stops it, checks the result, edits or archives, and starts the unit in
its `finally`. The unit goes on by itself between these steps. Deployments take the same lock, stop and start the unit
and may declare another world. `Lower` gives the lower case of a name, because `access` compares
names in lower case and stores them as they were written. `archives` counts the archives that are kept. A world's save is `none`, `fresh` or `played`.

### DeviceNetwork
`unit` is the state of the service or the step of the command systemd runs for it: `prepare` and
`up` in a start, `down` after a stop or a failed start. Each `ip`, `sysctl`, `iptables` and each write of a file is one
step (the accepting rules are one), which may fail or be the last one before a timeout (`UpCut`, `DownCut`). `place`,
`up` and `addressed` are the interfaces as the kernel has them; `applied` is the configuration that `prepare` put
into the runtime directory, `config` the private one, which may change or be invalid at any time. A configuration is the
interface it names. The host raises and addresses an interface of its own at any time, before or after the start looks
at it (`HostRaises`: dhcpcd, with which nothing orders the service); `unused` remembers what the check of `up` found
down and unaddressed. Other people may enter the namespace, put a link into it, or own one of the
same name. `cut` remembers that `down` was killed after it deleted the namespace.

## 3. Runs

| Run | Shows |
|---|---|
| `server_release` | safety of the release updater and the refinement of `SupervisedRelease` (`Supervised`): `MaxRelease = 2`, any three disruptions |
| `server_release_live` | `RunsEnd`, `Settles` (or a record that only an operator gets past): two releases, one disruption, fair |
| `accept_or_restore` | finding: a recorded release is rolled back |
| `website` | safety of the website updater and the refinement of `SiteTransaction`; `RollbackPossible` includes that the two generations differ (`PreviousDiffers`) |
| `website_live` | `UpdateSettles` once the world is calm |
| `retried_release_installs` | finding: a partial tree blocks its release for good |
| `state_backup` | safety of the backup and of the shared lock (`ImagesKept`, `PausedStayDown`, `NoUnitLeftDown`, `NewestArchivesKept`), and that every waiter for the lock gets it (`LockUsersProceed`) |
| `schlage_manager` | `ChangeVerified`, `WritesLogged` (in `Consistent`), `WriteAsShown` |
| `schlage_live` | `CommandsEnd`: every command ends and frees its locks |
| `release_notifications` | `OncePerInterruption` (in `Consistent`), the refinement of `NoticeOutbox` (`Promise`), `QueueDrains` |
| `factorio_server` | `GuardInForce` and `OperatorsWhitelisted` (in `Consistent`), `ChangedWhileDown`, `LeftAsFound`, `ProgressKept`, `ComesUp` |
| `device_network` | `NothingLost` and `OthersSpared` (in `Consistent`), `Confined`, `StopReturns`, `Recovers` |

`Consistent` is a module's type invariant together with the invariants that say what its data
mean (for `ServerRelease`, `SingleSupervisor`).

**Bounds.** `MaxRelease = 2` allows an older and a newer release beside the generation installed by
hand; a release whose store path already runs without being accepted arises through
`ManualSwitch`. `MaxDisruptions` bounds failed commands, signals, reboots,
withdrawals and manual switches together: three of them reach a failed activation, an
interrupted rollback, and an intervention afterwards. The garbage collector, the
publication of releases, the second run and the other holder of the maintenance lock
are not disruptions and are not counted. The website has three releases, one more than the
retention of two, so that pruning has something to remove and something to spare; `Stop`
is unbounded. The website's liveness run takes one release less and
the release updater's one disruption, because their question is about one run after the last
disturbance. The backup has two units (one recorded, one
not), three archive names with a retention of one, so that retention has something to remove
while the other script waits, and two backups one after the other leave a surplus of two, between whose removals a script
can be cut; signals, kills, crashes and reboots are unbounded. The lock has two
identifiers and two PINs (a code can be replaced and the list can be full), a log of two entries
so that it is cut, four commands, one change at the keypad, one fault and one reload:
a violation needs at most one of each around one write. The queue has three notices, one of them an old
announcement, a batch of two, and two drains, so that a batch ends before the queue and a notice is published
into a batch; the clock has four values against a window of two and a horizon of one, so that notices expire, and
one step back makes one refusable. The game server has two administrators with two commands between them, one
player under two spellings (whitelisted or not to begin with, so that a grant and a revocation are enough to confuse the spellings), two worlds and one mod, and any two disturbances: a command that is killed or fails while
the unit restarts by itself needs both. The device network has the host's uplink and two other interfaces, so that
the configuration can change to a right and to a wrong one, and any six disturbances; with six a service
can fail, be cut in its cleanup, meet a foreign namespace and still be required to recover.

**Fairness.** A started shell or Node process executes its next command (`WF` on `Work`). The
timer starts runs for ever (`OnCalendar`, `Persistent`). Docker prune ends and frees the
maintenance lock; `flock` queues its waiters, so a run that waits while the lock is free
again and again gets it (`SF`). For the website the hourly timer does not find the lock taken
by an operator every single time (`SF` on `Begin("update")`). In the release updater health checks and downloads may
fail, as one of the bounded disruptions, and nothing else is assumed of them; `website_live` asks what happens once the
world is calm (`WebsiteDeploymentLive`): from then on no operation is cut short, a failed
download included, and nothing is published or configured, while health checks fail as they like. The backup script's commands end, with any result; waiters of the
lock are queued (`SF` on taking it). Exchanges with the door lock end (`asyncio.timeout`), and
the event loop runs every task; an asyncio lock serves its waiters in order (`SF` on `Acquire`). The
timer starts a drain a minute after the last, a request ends within its timeout, and Alertmanager does not refuse for
ever what it could accept (`SF` on `Submit`). systemd carries out the jobs of the game server; nothing is assumed of the
commands. No fairness is assumed of the hand that repairs a list or a
record: `ComesUp` and `Settles` name what needs one instead. A failed device network is started again, and visitors leave its namespace.

**Findings.** The violations are disagreements between the documentation and the code
that TLC exhibits: see `findings` in `PROJECT.json` for the lines.

More behaviours are visible in the models and are no run of their own:

* a unit between `systemctl stop` and the append to `stopped_units` stays stopped when the backup
  ends there (`Stop`, `Record`, `Signal`), although docs/server-updates.md lets the backup pause
  applications only briefly;
* a SIGKILL of the backup, or a signal that arrives inside its EXIT trap, leaves recorded units down too (`Kill`,
  `left`); `NoUnitLeftDown` says that there is no other way;
* a failed write of the quarantine can leave it empty, and then no unforced run gets past it, whatever is published,
  until an operator forces one (`WriteFailedState`, `Illegible`, `NeedsOperator`);
* a list that a command had to create belongs to root, and every later start of the game fails on it until a hand gives it
  back (`Replaced`, `StartRaises`): it takes a first start that is stopped before it has written its lists, and then
  an edit, as in docs/factorio.md;
* a configured uplink that dhcpcd has not raised yet passes the check of `up` and is taken (`Check`, `HostRaises`),
  although docs/device-network.md:85 says that startup refuses an interface that is up or already addressed; it asks never
  to configure the uplink, and `StopReturns` says that a stop gives it back;
* a unit that is `activating` while the backup visits it is not stopped and may run under the archive
  (`Pause`, `Up`);
* the quarantine has one record: when a later release has failed too, an unforced run retries the first one if it is
  the latest again (`WriteFailedState`, `AlreadyDecided`);
* an auto-lock write that cannot be verified is not recorded in the management log, as code changes
  are (`AutoLockWrite`); after a reload during a command, the old manager and the new one
  overwrite each other's log in the store (`Reload`, `SaveEvent`); a label survives an unverified removal and shows on the next code
  with the same identifier (`Unverified`, `Apply`);
* a notice recorded before the clock was set back is refused and blocks the queue until the time comes again
  (`Accepts`, `FirstFiles`); `QueueDrains` holds because it does come;
* a killed `factorio-access` leaves the server stopped, since SIGTERM ends Python without its
  `finally` (`Kill`); `LeftAsFound` is about commands that are not killed;
* a start of the device network that is cut between `ip netns add` and the marker leaves a namespace that
  `up` refuses and `down` does not remove (`Stranded`), and one whose `down` is killed before it removes
  the marker would delete the next namespace of that name, whoever owns it (`cut`). Both end with a reboot.

## 4. Proofs

`WebsiteDeploymentProofs` proves, for every set of releases and every retention of at least
two (`WebsiteAssumption`), that `IInv` is invariant, and from it the type invariant, the safety
invariants and the three action properties of the run `website`, and that the updater
refines `SiteTransaction` (`AtomicSwitch`). `IInv` and the strengthenings of the other modules were checked
by TLC on the instances of section 3 before they were proved.

The safety invariants are not inductive alone. `IInv` adds what the argument needs:
`MetadataOutlivesSite` (metadata is published before its site and removed after it),
`PendingIntact` (the candidate of a pending activation is complete and is not the
accepted release, so either side of the switch may be served), `StepFacts` (what each step may
rely on: in particular that while a removal runs neither the accepted nor the previous
generation is among the doomed), and `OperationFacts` (the hold, the quarantine and the
order of ids that were consulted at the start still hold when the link is switched:
this needs that nothing else runs under the lock). `TypeStep` and `CoreStep` have one step
per action. `NoveltyStep` says that only `Switch` and `Accept` bring anything new into
the link or the accepted release; the action properties and the refinement follow from it.

`StateBackupProofs` proves the same kind of facts about `StateBackup`, for any units, any
archive names and any positive retention (`BackupAssumption`): `IInv` is invariant, so are
`ImagesKept` and `PausedStayDown`, and no script leaves a unit down that it has stopped, save in the ways that
`left` records (`NoUnitLeftDown`). `ImagesKept` alone is not inductive: that prune finds no stopped unit
follows from who holds the lock (`LockFacts`, which has to say that the child of a killed updater is
still a holder), and that a unit's image is there when it is stopped follows from its having run
(`ImageFacts`). `TypeStep`, `LockStep` and `CoreStep` have one step per action. What
starting units and the end of a script do are lemmas of their own (`StartTypes`, `ExitTypes`, `ExitLeaves`).
`LeftStep` needs that a script which no longer has a unit in hand has none down (`UnitFacts`). That only archives with
enough newer ones are deleted (`NewestKept`) needs that the surplus of a script that is cut anywhere in its removals is still
beyond the newest ones (`SurplusFacts`, `SurplusStep`), which the lock secures against the other backup.

`ServerReleaseProofs` proves all safety properties of the run `server_release`, for any number of releases, any
store paths, two runs and any bound (`ReleaseAssumption`). `RunFacts(p)` is what the run `p` knows: that it has the
lock (`LockFacts`), how its variables fit its step (`JobFacts`), that the comparison and the quarantine it consulted at
the start still hold and that it could read them (`DecisionFacts`), how far the release is live (`DeployFacts`) and how far the previous
generation is back (`RestoreFacts`). A run that is not past its lock has touched nothing (`Fresh`), so a step of one run
cannot disturb the other (`OthersStep`); a step of `p` keeps `RunFacts(p)` (`SelfStep`, one step per action);
and the world, the garbage collector above all, keeps it too (`WorldStep`). The handlers that several actions call have
lemmas of their own: `RollbackBegins` for every failure under the traps, `RollbackDecided` for every result.
`RollbackComplete` needs `JobFacts` because a signal re-enters a rollback that already has a result.

`SupervisedReleaseProofs` proves that the updater implements `SupervisedRelease` (`DeploymentsSupervised`), from the
invariant of `ServerReleaseProofs`. Only the run with the lock has a trial, so the steps of the other run and of the world
are stutters or steps of the host; each step of the run with the lock is mapped to the step of the trial it
takes (`Forward`, `Back`, `Deployed`, `Again`), and each way it ends to `Leave`, which ends a trial in any phase, since a
SIGKILL or a reboot may cut it off (`LeaveStep`, `WorldSupervised`): that a run which ends by itself has come to an outcome is
`NothingHalfDeployed`.

`ReleaseNotificationsProofs` proves for any number of notices, any batch, window and horizon that a notice is
accepted more than once only for as many times as a drain was interrupted, and that the queue refines
`NoticeOutbox` (`NoticesDelivered`). Every acceptance is accounted for by a cut or by the file that a run is about to
remove (`AcceptanceFacts`). That notices leave in order needs that the files of a batch precede the rest of the
queue, which holds until the clock is set back (`OrderFacts`); that a batch starts with the oldest file
(`BatchFirst`) follows from its cardinality.

`FactorioServerProofs` proves for any administrators, names, worlds and mods the safety of the run `factorio_server`.
A command beyond the lock has it, so nobody else starts or stops the unit, and it knows whether it found the server
up (`CommandFacts`); the rest of the argument is what a start has prepared before the game reads it, and that the lists
it has got past are its own (`GuardFacts`).

`DeviceNetworkProofs` proves for any interfaces `Consistent`, `Confined` and `StopReturns`. `NothingLost` and `Confined`
are not inductive alone: only an interface that the check found unused is moved, with all others at home (`LinkFacts`), each step of `up` hands on what it has established
(`UpFacts`), and a marker without a namespace has one cause, a cleanup that was cut (`DownFacts`).

`SchlageManagerProofs` proves for any sessions, identifiers, PINs and bounds the safety of the run `schlage_manager`.
`WritesLogged` needs that the number of a command tells it apart from every other (`NumberFacts`) and that a command
which has changed the codes has its read-back, and so its entry, still ahead (`ReachedFacts`); that an entry once
logged stays, or the log is full, is a fact about sequences (`LoggedEntry`, `RecordedStays`). `WriteAsShown` needs what
a command remembers of the list it was sent from (`ShownFacts`) and of the lock while nobody else
touches it (`QuietFacts`). The actions are many and most of them do one of four things to a command, begin it, give
it the lock, go on or end it: `StepKinds` says so once, and the lemmas about locks and numbers use that.

**About the prover.** The SMT translation of tlapm 1.4.5 simplifies an intersection of two enumerated sets, such
as `{a} \cap {b}`, to the empty set whatever `a` and `b` are, and mistranslates an `EXCEPT` with several paths into
records, such as `[f EXCEPT ![x].a = 1, ![x].b = 2]`. The modules write `a \notin S`, whole records and nested `EXCEPT`s
instead. A function whose values are `<<>>` is mistranslated too, so that value has a name (`NoEvents`) which is not
expanded where such a function is built. Two checks guard against a proof that holds for such a reason. Each
mutant of section 5 that breaks a proved property was put in place of its definition: the proof then fails at the action it changes. And each leaf
was asked to prove `FALSE` from the same facts: it cannot, except where the text argues by contradiction
(as in `AcceptedChanges` and `BatchFirst`).

**Liveness.** That something happens under fairness is out of TLAPS's reach: `RunsEnd`, `Settles`, `UpdateSettles`,
`LockUsersProceed`, `CommandsEnd`, `QueueDrains`, `ComesUp` and `Recovers` are only model-checked. Each of them rests on two
kinds of facts that do not speak of fairness, and those are proved, for every instance, at the end of the proof modules:

* *each step leads on*: a rank of the step, or the rank and a set that only shrinks, goes down with every step that is made, whatever
  fails and whatever signal arrives. `RunsShorten` (a run of the release updater, through its traps), `OperationsAdvance`
  (an operation of the website updater, its recovery included), `ScriptsAdvance` (a backup), `CommandsShorten` (a
  command of the lock manager; a command of the game server), `DrainsGetOn` (a drain), `StartsGetOn` (a start of the
  game), `CommandsAdvance` (a start or a cleanup of the device network);
* *who is waited for is at work*: `LocksOrdered` (the two locks of the release updater; the asyncio lock and the operation lock
  of the door lock), `HolderWorks` (the maintenance lock, also in the hands of a surviving child), `LockInUse` (the
  delivery lock), `WaitsAnswered` (the results a game server's command waits for).

What the end of such a sequence is good for is proved where it is not evident. An update of the website that is not cut
short has settled the matter: no activation is pending, and the release it chose is accepted, rejected or
damaged; so its recovery never gives up (`UpdateConcludes`). A start of the device network that is not cut short fails only
for a cause that is not the network's own doing, save a marker that waits for its cleanup (`StartFailsForCause`), and a
cleanup that is not cut short, and finds the namespace there and empty, leaves all that the next start
needs (`CleanupHelps`); these two are the argument for `Recovers`.
What is left to TLC is that a step which waits is enabled (an `ENABLED`), and that fairness then makes it happen.
These facts are no properties of a run in section 3; TLC has found them to hold on the
instances of the runs (of the release updater with two disruptions).

**Induction.** The induction theorems of the library take an operator as a parameter and cannot be used. Over the natural numbers the
well-founded order can be: `Smallest` (`ReleaseNotificationsProofs`) derives from it that a non-empty set of numbers has a least one, which is how
the oldest file of a queue of any length is found. No recursive definition is the subject of a theorem.

Every property of a passing run that is not a liveness property is proved.

## 5. Mutants

The operators whose comment begins with `Mutant` are plausible bugs of the
definition that follows them. Each property is violated when the mutant named for it in
`PROJECT.json` replaces that definition.

## 6. Plan

1. Proofs: what the promises `SupervisedRelease`, `NoticeOutbox` and `SiteTransaction` mean on their own, as invariants of
   the abstract specifications that the refinements carry over.
2. `ServerHealth`: the deadline and the stabilization window of the health gate, which `ServerRelease`
   takes as one step with either result.
3. `SecondaryBackup` (validate, copy, prune), `WorldBackup` and `MinecraftAccess`, `PublishRelease`,
   `HvacSchedule`.

## 7. Not modelled

* The server health gate, the secondary backups, Minecraft's access and world backup, the HVAC
  automations and the resumable publication of a release: they have transitions, and are in the plan.
* `protocol.py` (the TLV codec of the door lock), `privacy.py`, the configuration flow: pure
  functions and forms; the manager is modelled from what the codec returns.
* `health`, `list`, `--check-only`, `--status`: they read and change nothing.
* `proxy` and `generate` of the device network, `local-integrations.py`: one `exec`, and links
  written once at boot.
* `check-deployment-storage.py`: compares a figure with a limit; its result is a command that may fail.
* The migrations of private data, which an operator runs once by hand, one after the other.
* Gateways, monitoring, network policy, hosts, desktop and bootstrap: declarations without transitions.
