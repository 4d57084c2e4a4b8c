---------------------------- MODULE ServerRelease ----------------------------
(***************************************************************************)
(* The release updater of the homeserver: scripts/stage-server-release.sh, *)
(* started by the daily timer of modules/nixos/release-updater.nix or by   *)
(* the operator on the command line.                                       *)
(*                                                                         *)
(* A run takes the updater lock, decides whether the latest release may be *)
(* deployed, verifies and builds it, waits for the container maintenance   *)
(* lock, and then either adopts the release (it already runs) or activates *)
(* it under supervision and, when anything goes wrong, restores the        *)
(* previous generation.  Every command that can fail does so as a          *)
(* nondeterministic choice, a run can be terminated (SIGTERM, which the    *)
(* script traps), killed or cut off by a power failure at every step, and  *)
(* the Nix garbage collector runs whenever it likes.                       *)
(*                                                                         *)
(* A release is its GitHub id.  PathOf gives the Nix store path its signed *)
(* manifest names; two releases may share one.                             *)
(***************************************************************************)
EXTENDS Naturals, Sequences, FiniteSets

CONSTANTS
    MaxRelease,      \* the last release GitHub will publish
    Paths,           \* Nix store paths of system generations
    BasePath,        \* the generation installed before any release
    PathOf,          \* the store path of a release
    Timer,           \* the run the systemd timer starts
    Operator,        \* the run an operator starts
    NoOne,           \* the holder of a free lock
    Other,           \* Docker prune, or another holder of the maintenance lock
    MaxDisruptions   \* bound: failures, signals and interventions per behaviour

Releases == 1 .. MaxRelease
Procs == {Timer, Operator}

ASSUME ReleaseAssumption ==
    /\ MaxRelease \in Nat \ {0}
    /\ BasePath \in Paths
    /\ PathOf \in [Releases -> Paths]
    /\ Timer # Operator
    /\ NoOne \notin Procs \cup {Other}
    /\ Other \notin Procs
    /\ MaxDisruptions \in Nat

VARIABLES
    latest,          \* the release GitHub's "latest" answers with, 0 for none
    accepted,        \* accepted-release.json: the release it names, 0 for none
    legible,         \* whether accepted-release.json is absent or well formed
    failed,          \* failed-release.json: the release and rollback status
    profile,         \* /nix/var/nix/profiles/system
    boot,            \* the boot loader's default entry
    running,         \* /run/current-system
    store,           \* the generations present in /nix/store
    updateLock,      \* holder of update.lock
    maintenanceLock, \* holder of the container maintenance lock
    pc,              \* the step each run is at
    job,             \* the shell variables of each run
    verified,        \* history: the running generation passed the full gate
    disruptions      \* failures, signals and interventions so far

records == <<accepted, legible, failed>>
system  == <<profile, boot, running, verified>>
locks   == <<updateLock, maintenanceLock>>
vars    == <<latest, records, system, store, locks, pc, job, disruptions>>

NoFailure == [release |-> 0, status |-> "none"]

\* What is left of a record that could not be written.
Malformed == [release |-> 0, status |-> "malformed"]

RollbackStatus == {"not-needed", "failed", "profile-restore-failed",
                   "activation-failed", "store-path-mismatch",
                   "health-check-failed", "succeeded"}

Notices == {"failed", "deployed", "rolled-back", "rollback-failed"}

NoJob == [release |-> 0, force |-> FALSE, previous |-> BasePath,
          armed |-> FALSE, rooted |-> FALSE, handler |-> "none",
          status |-> "not-needed", touched |-> FALSE, recorded |-> FALSE,
          notices |-> <<>>]

\* Steps under the traps of line 191: nothing live has been changed yet.
PreActivation == {"discover", "preflight", "verify", "build", "maintenance",
                  "recheck", "preHealth", "backup", "arm", "adoptProfile",
                  "adoptBoot", "adoptHealth", "adoptRecord", "adoptClear"}
\* Steps under the traps of line 790.
Activation == {"activate", "switch", "compare", "health", "record", "clear",
               "commit", "notifyDeployed"}
Rollback == {"rbMark", "rbProfile", "rbSwitch", "rbCompare", "rbHealth",
             "rbFinal", "rbSettle", "rbNotify"}
Steps == {"idle", "lock", "cleanupBefore", "end"}
           \cup PreActivation \cup Activation \cup Rollback

Jobs == [release : Releases \cup {0}, force : BOOLEAN, previous : Paths, armed : BOOLEAN,
         rooted : BOOLEAN, handler : {"none", "fail", "cleanup"}, status : RollbackStatus,
         touched : BOOLEAN, recorded : BOOLEAN, notices : Seq(Notices)]

TypeOK ==
    /\ latest \in Releases \cup {0}
    /\ accepted \in Releases \cup {0} /\ legible \in BOOLEAN
    /\ failed \in [release : Releases \cup {0},
                   status : RollbackStatus \cup {"none", "in-progress", "malformed"}]
    /\ profile \in Paths
    /\ boot \in Paths
    /\ running \in Paths
    /\ store \in SUBSET Paths
    /\ updateLock \in Procs \cup {NoOne}
    /\ maintenanceLock \in Procs \cup {NoOne, Other}
    /\ pc \in [Procs -> Steps]
    /\ job \in [Procs -> Jobs]
    /\ verified \in BOOLEAN
    /\ disruptions \in 0 .. MaxDisruptions

Init ==
    /\ latest = 0
    /\ accepted = 0 /\ legible = TRUE
    /\ failed = NoFailure
    /\ profile = BasePath
    /\ boot = BasePath
    /\ running = BasePath
    /\ store = {BasePath}
    /\ updateLock = NoOne
    /\ maintenanceLock = NoOne
    /\ pc = [p \in Procs |-> "idle"]
    /\ job = [p \in Procs |-> NoJob]
    /\ verified = FALSE
    /\ disruptions = 0

-----------------------------------------------------------------------------
(* Helpers of the steps *)

Target(p) == PathOf[job[p].release]

Goto(p, step) == pc' = [pc EXCEPT ![p] = step]

\* One failure, signal or intervention; the bound keeps them finite.
Disrupted ==
    /\ disruptions < MaxDisruptions
    /\ disruptions' = disruptions + 1

\* A command before activation: the next step, or exit through `set -e`.
Command(p, step, next) ==
    /\ pc[p] = step
    /\ \/ Goto(p, next) /\ UNCHANGED disruptions
       \/ Goto(p, "cleanupBefore") /\ Disrupted

\* The timer's runs queue notices, the operator's stay quiet.
Notify(p, notice) ==
    IF p = Timer THEN Append(job[p].notices, notice) ELSE job[p].notices

\* Mutant: the maintenance lock outlives its run.
EndedKeepingMaintenance(p) ==
    /\ pc' = [pc EXCEPT ![p] = "idle"]
    /\ job' = [job EXCEPT ![p] = NoJob]
    /\ updateLock' = IF updateLock = p THEN NoOne ELSE updateLock
    /\ UNCHANGED maintenanceLock

\* Process exit: the kernel frees the locks and the work directory is gone.
Ended(p) ==
    /\ pc' = [pc EXCEPT ![p] = "idle"]
    /\ job' = [job EXCEPT ![p] = NoJob]
    /\ updateLock' = IF updateLock = p THEN NoOne ELSE updateLock
    /\ maintenanceLock' = IF maintenanceLock = p THEN NoOne ELSE maintenanceLock

\* `switch-to-configuration switch`: the boot entry, then the live system.
\* It may stop at any point, report an error after doing it all, or report
\* success with the live system left alone (the script compares the paths).
SwitchTo(p, path, done, broken) ==
    /\ boot' \in {boot, path}
    /\ running' \in IF boot' = path THEN {running, path} ELSE {running}
    /\ verified' = (verified /\ running' = running)
    /\ \/ boot' = path /\ Goto(p, done) /\ UNCHANGED job
       \/ broken
    /\ IF running' = path /\ pc'[p] = done
         THEN UNCHANGED disruptions ELSE Disrupted

\* fail_and_rollback: the traps stay armed while the rollback runs.
BeginRollback(p) ==
    /\ Goto(p, "rbMark")
    /\ job' = [job EXCEPT ![p].handler = "fail"]

\* Mutant: the exit trap forgets the rollback.
ExitTrapWithoutRollback(p) ==
    /\ job' = [job EXCEPT ![p].handler = "cleanup"]
    /\ Goto(p, "end")

\* cleanup_after_activation: the traps are reset first.
ExitTrap(p) ==
    /\ job' = [job EXCEPT ![p].handler = "cleanup"]
    /\ Goto(p, IF job[p].armed THEN "rbMark" ELSE "end")

-----------------------------------------------------------------------------
(* Start, lock and the gates *)

\* The timer never passes --force.
Start(p) ==
    /\ pc[p] = "idle"
    /\ \E force \in BOOLEAN :
         /\ p = Timer => ~force
         /\ job' = [job EXCEPT ![p].force = force]
    /\ Goto(p, "lock")
    /\ UNCHANGED <<latest, records, system, store, locks, disruptions>>

\* Mutant: flock's result is ignored.
TakeUpdateLockAnyway(p) ==
    /\ pc[p] = "lock"
    /\ updateLock' = p
    /\ Goto(p, "discover")
    /\ UNCHANGED <<latest, records, system, store, maintenanceLock, job,
                   disruptions>>

TakeUpdateLock(p) ==
    /\ pc[p] = "lock"
    /\ IF updateLock = NoOne
         THEN updateLock' = p /\ Goto(p, "discover")
         ELSE UNCHANGED updateLock /\ Goto(p, "end")
    /\ UNCHANGED <<latest, records, system, store, maintenanceLock, job,
                   disruptions>>

\* Mutant: off by one.
PredatesByTwo(release) == release + 1 < accepted

Predates(release) == release < accepted

\* Mutants: the quarantine is not consulted; any quarantine blocks.
OnlyAccepted(p, release) == ~job[p].force /\ release = accepted
AnyQuarantine(p, release) ==
    ~job[p].force /\ (release = accepted \/ failed # NoFailure)

AlreadyDecided(p, release) ==
    /\ ~job[p].force
    /\ release \in {accepted, failed.release}

\* "Refusing to use malformed state": the record of the accepted release stops
\* every run, that of the quarantine the unforced ones.
Illegible(p, release) ==
    \/ ~legible
    \/ failed = Malformed /\ ~job[p].force /\ release # accepted

Discover(p) ==
    /\ pc[p] = "discover"
    /\ \/ /\ IF latest = 0 THEN UNCHANGED disruptions ELSE Disrupted
          /\ Goto(p, "cleanupBefore")
          /\ UNCHANGED job
       \/ /\ latest # 0
          /\ job' = [job EXCEPT ![p].release = latest]
          /\ Goto(p, IF Predates(latest) \/ Illegible(p, latest) THEN "cleanupBefore"
                     ELSE IF AlreadyDecided(p, latest) THEN "end"
                     ELSE "preflight")
          /\ UNCHANGED disruptions
    /\ UNCHANGED <<latest, records, system, store, locks>>

Preflight(p) ==
    /\ Command(p, "preflight", "verify")
    /\ UNCHANGED <<latest, records, system, store, locks, job>>

Verify(p) ==
    /\ Command(p, "verify", "build")
    /\ UNCHANGED <<latest, records, system, store, locks, job>>

\* A build that succeeds has put the manifest's store path into the store.
Build(p) ==
    /\ Command(p, "build", "maintenance")
    /\ store' = IF pc'[p] = "maintenance" THEN store \cup {Target(p)} ELSE store
    /\ UNCHANGED <<latest, records, system, locks, job>>

TakeMaintenanceLock(p) ==
    /\ pc[p] = "maintenance"
    /\ maintenanceLock = NoOne
    /\ maintenanceLock' = p
    /\ Goto(p, "recheck")
    /\ UNCHANGED <<latest, records, system, store, updateLock, job, disruptions>>

Recheck(p) ==
    /\ Command(p, "recheck",
               IF running = Target(p) THEN "adoptProfile" ELSE "preHealth")
    /\ job' = IF pc'[p] = "cleanupBefore" THEN job
              ELSE [job EXCEPT ![p].previous = running]
    /\ UNCHANGED <<latest, records, system, store, locks>>

-----------------------------------------------------------------------------
(* Adoption of a release that already runs *)

AdoptProfile(p) ==
    /\ Command(p, "adoptProfile", "adoptBoot")
    /\ profile' = IF pc'[p] = "adoptBoot" THEN Target(p) ELSE profile
    /\ UNCHANGED <<latest, records, boot, running, verified, store, locks, job>>

AdoptBoot(p) ==
    /\ Command(p, "adoptBoot", "adoptHealth")
    /\ boot' \in IF pc'[p] = "adoptHealth" THEN {Target(p)} ELSE {boot, Target(p)}
    /\ UNCHANGED <<latest, records, profile, running, verified, store, locks, job>>

AdoptHealth(p) ==
    /\ Command(p, "adoptHealth", "adoptRecord")
    /\ verified' = (pc'[p] = "adoptRecord")
    /\ UNCHANGED <<latest, records, profile, boot, running, store, locks, job>>

\* write_accepted_state: the atomic rename, then the removal of the
\* quarantine record.
AdoptRecord(p) ==
    /\ Command(p, "adoptRecord", "adoptClear")
    /\ accepted' = IF pc'[p] = "adoptClear" THEN job[p].release ELSE accepted
    /\ UNCHANGED <<latest, legible, failed, system, store, locks, job>>

AdoptClear(p) ==
    /\ Command(p, "adoptClear", "end")
    /\ failed' = IF pc'[p] = "end" THEN NoFailure ELSE failed
    /\ UNCHANGED <<latest, accepted, legible, system, store, locks, job>>

-----------------------------------------------------------------------------
(* Supervised activation *)

PreHealth(p) ==
    /\ Command(p, "preHealth", "backup")
    /\ UNCHANGED <<latest, records, system, store, locks, job>>

Backup(p) ==
    /\ Command(p, "backup", "arm")
    /\ UNCHANGED <<latest, records, system, store, locks, job>>

\* The storage recheck, the garbage-collector root of the previous
\* generation, and rollback_required=true.
Arm(p) ==
    /\ Command(p, "arm", "activate")
    /\ job' = IF pc'[p] = "activate"
                THEN LET armed == [job EXCEPT ![p].armed = TRUE] IN [armed EXCEPT ![p].rooted = TRUE]
                ELSE job
    /\ UNCHANGED <<latest, records, system, store, locks>>

\* nix-env --set fails if the collector took the path since the build.
Activate(p) ==
    /\ pc[p] = "activate"
    /\ \/ /\ Target(p) \in store
          /\ profile' = Target(p)
          /\ job' = [job EXCEPT ![p].touched = TRUE]
          /\ Goto(p, "switch")
          /\ UNCHANGED disruptions
       \/ /\ IF Target(p) \in store THEN Disrupted ELSE UNCHANGED disruptions
          /\ ExitTrap(p)
          /\ UNCHANGED profile
    /\ UNCHANGED <<latest, records, boot, running, verified, store, locks>>

Switch(p) ==
    /\ pc[p] = "switch"
    /\ SwitchTo(p, Target(p), "compare", BeginRollback(p))
    /\ UNCHANGED <<latest, records, profile, store, locks>>

\* Mutant: the running path is not compared with the release.
CompareNothing(p) ==
    /\ pc[p] = "compare"
    /\ Goto(p, "health")
    /\ UNCHANGED <<latest, records, system, store, locks, job, disruptions>>

Compare(p) ==
    /\ pc[p] = "compare"
    /\ IF running = Target(p)
         THEN Goto(p, "health") /\ UNCHANGED job
         ELSE BeginRollback(p)
    /\ UNCHANGED <<latest, records, system, store, locks, disruptions>>

Health(p) ==
    /\ pc[p] = "health"
    /\ \/ /\ verified' = TRUE
          /\ Goto(p, "record")
          /\ UNCHANGED <<job, disruptions>>
       \/ /\ verified' = FALSE
          /\ Disrupted
          /\ BeginRollback(p)
    /\ UNCHANGED <<latest, records, profile, boot, running, store, locks>>

\* write_accepted_state runs under `set -e`: its failure exits the script.
Record(p) ==
    /\ pc[p] = "record"
    /\ \/ /\ accepted' = job[p].release
          /\ job' = [job EXCEPT ![p].recorded = TRUE]
          /\ Goto(p, "clear")
          /\ UNCHANGED disruptions
       \/ /\ Disrupted
          /\ ExitTrap(p)
          /\ UNCHANGED accepted
    /\ UNCHANGED <<latest, legible, failed, system, store, locks>>

\* Mutant: rollback_required is not reset.
ClearStillArmed(p) ==
    /\ pc[p] = "clear"
    /\ failed' = NoFailure
    /\ Goto(p, "notifyDeployed")
    /\ UNCHANGED <<latest, accepted, legible, system, store, locks, job, disruptions>>

Clear(p) ==
    /\ pc[p] = "clear"
    /\ \/ /\ failed' = NoFailure
          /\ Goto(p, "commit")
          /\ UNCHANGED <<job, disruptions>>
       \/ /\ Disrupted
          /\ ExitTrap(p)
          /\ UNCHANGED failed
    /\ UNCHANGED <<latest, accepted, legible, system, store, locks>>

Commit(p) ==
    /\ pc[p] = "commit"
    /\ job' = [job EXCEPT ![p].armed = FALSE]
    /\ Goto(p, "notifyDeployed")
    /\ UNCHANGED <<latest, records, system, store, locks, disruptions>>

NotifyDeployed(p) ==
    /\ pc[p] = "notifyDeployed"
    /\ job' = [job EXCEPT ![p].notices = Notify(p, "deployed")]
    /\ Goto(p, "end")
    /\ UNCHANGED <<latest, records, system, store, locks, disruptions>>

-----------------------------------------------------------------------------
(* rollback_deployment: it is called in a condition, so `set -e` is off and *)
(* a record that cannot be written does not stop the restoration.           *)

\* When jq fails, on a full disk say, the empty file it leaves takes the place of
\* the record; when mktemp or mv fails the old record stays.
WriteFailedState(p, status) ==
    \/ /\ failed' = [release |-> job[p].release, status |-> status]
       /\ UNCHANGED disruptions
    \/ failed' \in {failed, Malformed} /\ Disrupted

RbMark(p) ==
    /\ pc[p] = "rbMark"
    /\ WriteFailedState(p, "in-progress")
    /\ job' = [job EXCEPT ![p].status = "failed"]
    /\ Goto(p, "rbProfile")
    /\ UNCHANGED <<latest, accepted, legible, system, store, locks>>

Abandon(p, status) ==
    /\ job' = [job EXCEPT ![p].status = status]
    /\ Goto(p, "rbFinal")

RbProfile(p) ==
    /\ pc[p] = "rbProfile"
    /\ \/ /\ job[p].previous \in store
          /\ profile' = job[p].previous
          /\ Goto(p, "rbSwitch")
          /\ UNCHANGED <<job, disruptions>>
       \/ /\ IF job[p].previous \in store
               THEN Disrupted ELSE UNCHANGED disruptions
          /\ Abandon(p, "profile-restore-failed")
          /\ UNCHANGED profile
    /\ UNCHANGED <<latest, records, boot, running, verified, store, locks>>

RbSwitch(p) ==
    /\ pc[p] = "rbSwitch"
    /\ SwitchTo(p, job[p].previous, "rbCompare", Abandon(p, "activation-failed"))
    /\ UNCHANGED <<latest, records, profile, store, locks>>

\* Mutant: the restored path is not compared with the previous generation.
RbCompareNothing(p) ==
    /\ pc[p] = "rbCompare"
    /\ Goto(p, "rbHealth")
    /\ UNCHANGED <<latest, records, system, store, locks, job, disruptions>>

RbCompare(p) ==
    /\ pc[p] = "rbCompare"
    /\ IF running = job[p].previous
         THEN Goto(p, "rbHealth") /\ UNCHANGED job
         ELSE Abandon(p, "store-path-mismatch")
    /\ UNCHANGED <<latest, records, system, store, locks, disruptions>>

RbHealth(p) ==
    /\ pc[p] = "rbHealth"
    /\ \/ /\ verified' = TRUE
          /\ Abandon(p, "succeeded")
          /\ UNCHANGED disruptions
       \/ /\ verified' = FALSE
          /\ Disrupted
          /\ Abandon(p, "health-check-failed")
    /\ UNCHANGED <<latest, records, profile, boot, running, store, locks>>

RbFinal(p) ==
    /\ pc[p] = "rbFinal"
    /\ WriteFailedState(p, job[p].status)
    /\ Goto(p, IF job[p].handler = "fail" THEN "rbSettle" ELSE "rbNotify")
    /\ UNCHANGED <<latest, accepted, legible, system, store, locks, job>>

\* Line 782, only in fail_and_rollback.
RbSettle(p) ==
    /\ pc[p] = "rbSettle"
    /\ job' = [job EXCEPT ![p].armed = FALSE]
    /\ Goto(p, "rbNotify")
    /\ UNCHANGED <<latest, records, system, store, locks, disruptions>>

\* Mutant: every rollback is announced as complete.
RbNotifySuccess(p) ==
    /\ pc[p] = "rbNotify"
    /\ job' = [job EXCEPT ![p].notices = Notify(p, "rolled-back")]
    /\ Goto(p, "end")
    /\ UNCHANGED <<latest, records, system, store, locks, disruptions>>

RbNotify(p) ==
    /\ pc[p] = "rbNotify"
    /\ job' = [job EXCEPT ![p].notices =
                 Notify(p, IF job[p].status = "succeeded"
                             THEN "rolled-back" ELSE "rollback-failed")]
    /\ Goto(p, "end")
    /\ UNCHANGED <<latest, records, system, store, locks, disruptions>>

-----------------------------------------------------------------------------
(* Exit and interruption *)

CleanupBefore(p) ==
    /\ pc[p] = "cleanupBefore"
    /\ job' = [job EXCEPT ![p].notices = Notify(p, "failed")]
    /\ Goto(p, "end")
    /\ UNCHANGED <<latest, records, system, store, locks, disruptions>>

End(p) ==
    /\ pc[p] = "end"
    /\ Ended(p)
    /\ UNCHANGED <<latest, records, system, store, disruptions>>

\* SIGTERM: systemd's stop or three-hour timeout, or an operator's signal.
Terminate(p) ==
    /\ Disrupted
    /\ \/ /\ pc[p] \in PreActivation
          /\ Goto(p, "cleanupBefore")
          /\ UNCHANGED job
       \/ /\ pc[p] \in Activation \cup Rollback
          /\ job[p].handler # "cleanup"
          /\ ExitTrap(p)
    /\ UNCHANGED <<latest, records, system, store, locks>>

\* SIGKILL, or SIGTERM where the traps are not installed or already reset.
Kill(p) ==
    /\ pc[p] # "idle"
    /\ Disrupted
    /\ Ended(p)
    /\ UNCHANGED <<latest, records, system, store>>

\* A power failure or a reboot starts the boot loader's default entry.
Reboot ==
    /\ Disrupted
    /\ running' = boot
    /\ verified' = FALSE
    /\ pc' = [p \in Procs |-> "idle"]
    /\ job' = [p \in Procs |-> NoJob]
    /\ updateLock' = NoOne
    /\ maintenanceLock' = NoOne
    /\ UNCHANGED <<latest, records, profile, boot, store>>

-----------------------------------------------------------------------------
(* The environment *)

Publish ==
    /\ latest < MaxRelease
    /\ latest' = latest + 1
    /\ UNCHANGED <<records, system, store, locks, pc, job, disruptions>>

\* The newest release is deleted on GitHub and an older one becomes latest.
Withdraw ==
    /\ Disrupted
    /\ latest > 1
    /\ latest' \in 1 .. latest - 1
    /\ UNCHANGED <<records, system, store, locks, pc, job>>

\* nixos-rebuild switch, also to an older generation.  The operator does not
\* rebuild while an updater runs.
ManualSwitch ==
    /\ Disrupted
    /\ \A p \in Procs : pc[p] = "idle"
    /\ \E path \in Paths :
         /\ profile' = path
         /\ boot' = path
         /\ running' = path
         /\ store' = store \cup {path}
    /\ verified' = FALSE
    /\ UNCHANGED <<latest, records, locks, pc, job>>

\* A disk or a hand spoils the record of the accepted release: write_accepted_state
\* renames it into place only when jq has succeeded.
Spoil ==
    /\ Disrupted
    /\ accepted # 0
    /\ \A p \in Procs : pc[p] = "idle"
    /\ legible' = FALSE
    /\ UNCHANGED <<latest, accepted, failed, system, store, locks, pc, job>>

\* Mutant: the previous generation is not rooted.
RootsWithoutPrevious == {profile, boot, running}

Roots == {profile, boot, running}
           \cup {job[p].previous : p \in {q \in Procs : job[q].rooted}}

CollectGarbage ==
    /\ store # store \cap Roots
    /\ store' = store \cap Roots
    /\ UNCHANGED <<latest, records, system, locks, pc, job, disruptions>>

OtherTakesMaintenance ==
    /\ maintenanceLock = NoOne
    /\ maintenanceLock' = Other
    /\ UNCHANGED <<latest, records, system, store, updateLock, pc, job, disruptions>>

OtherFreesMaintenance ==
    /\ maintenanceLock = Other
    /\ maintenanceLock' = NoOne
    /\ UNCHANGED <<latest, records, system, store, updateLock, pc, job, disruptions>>

-----------------------------------------------------------------------------

\* What the script does on its own, TakeMaintenanceLock apart.
Work(p) ==
    \/ TakeUpdateLock(p) \/ Discover(p) \/ Preflight(p) \/ Verify(p) \/ Build(p)
    \/ Recheck(p)
    \/ AdoptProfile(p) \/ AdoptBoot(p) \/ AdoptHealth(p) \/ AdoptRecord(p)
    \/ AdoptClear(p)
    \/ PreHealth(p) \/ Backup(p) \/ Arm(p)
    \/ Activate(p) \/ Switch(p) \/ Compare(p) \/ Health(p) \/ Record(p)
    \/ Clear(p) \/ Commit(p) \/ NotifyDeployed(p)
    \/ RbMark(p) \/ RbProfile(p) \/ RbSwitch(p) \/ RbCompare(p) \/ RbHealth(p)
    \/ RbFinal(p) \/ RbSettle(p) \/ RbNotify(p)
    \/ CleanupBefore(p) \/ End(p)

Next ==
    \/ \E p \in Procs :
         \/ Start(p) \/ Work(p) \/ TakeMaintenanceLock(p)
         \/ Terminate(p) \/ Kill(p)
    \/ Reboot \/ Publish \/ Withdraw \/ ManualSwitch \/ Spoil \/ CollectGarbage
    \/ OtherTakesMaintenance \/ OtherFreesMaintenance

Spec == Init /\ [][Next]_vars

\* The timer fires every day, the shell executes its next command, another
\* holder of the maintenance lock finishes, and flock serves every waiter.
Fairness ==
    /\ WF_vars(Start(Timer))
    /\ \A p \in Procs : WF_vars(Work(p)) /\ SF_vars(TakeMaintenanceLock(p))
    /\ WF_vars(OtherFreesMaintenance)

FairSpec == Spec /\ Fairness

-----------------------------------------------------------------------------
(* Properties *)

\* The generation that runs, that the profile names and that boots next.
Live(path) == running = path /\ profile = path /\ boot = path

\* Once one run of the updater is past its lock no other run is, so the
\* records, the profile and the live system have a single writer.
InRun(p) == pc[p] \in PreActivation \cup Activation \cup Rollback
SingleSupervisor == \A p, q \in Procs : InRun(p) /\ InRun(q) => p = q

\* The records keep their form, with one writer.
Consistent == TypeOK /\ SingleSupervisor

\* While a rollback may still be needed the generation it would restore is in
\* the store, whenever the garbage collector runs (lines 720-724).
RollbackTargetKept ==
    \A p \in Procs : job[p].armed => job[p].previous \in store

\* A rollback reports success only when the previous generation runs, is what
\* the profile names, boots next, and passed the full health gate.
RollbackComplete ==
    \A p \in Procs :
        pc[p] \in Rollback /\ job[p].status = "succeeded" =>
            Live(job[p].previous) /\ verified

\* The end of a run that reached the live system.
Whole(p) ==
    pc[p] = "end" /\ job[p].touched =>
        \/ accepted = job[p].release /\ Live(Target(p)) /\ verified
        \/ job[p].status = "succeeded" /\ Live(job[p].previous) /\ verified
        \/ job[p].status \notin {"not-needed", "failed", "succeeded"}

\* A run that reached the live system and ends on its own, terminated or not,
\* has either accepted its release, live and verified, or attempted the
\* rollback and knows how that went: it never leaves half a deployment.
NothingHalfDeployed == \A p \in Procs : Whole(p)

\* The notices of a run at its end.
Truthful(p) ==
    pc[p] = "end" =>
        /\ Len(job[p].notices) <= 1
        /\ job[p].notices = <<"deployed">> =>
             accepted = job[p].release /\ Live(Target(p)) /\ verified
        /\ job[p].notices = <<"rolled-back">> => Live(job[p].previous) /\ verified
        /\ job[p].notices = <<"failed">> => ~job[p].touched

\* A run queues at most one outcome notice, however often it is interrupted
\* while it handles a failure, and the notice is true of the live system.
NoticesTruthful == \A p \in Procs : Truthful(p)

\* The accepted record never goes back to an older release, whatever GitHub
\* answers and however runs of the timer and the operator overlap.
AcceptedNeverRegresses == [][accepted' >= accepted]_vars

\* A release is recorded as accepted only while it runs, boots next, and has
\* passed the full health gate in this very activation.
AcceptanceEarned ==
    [][accepted' # accepted => Live(PathOf[accepted']) /\ verified]_vars

\* A run goes live only after it could read the records, and without --force only
\* with a release newer than the accepted one and other than the quarantined one,
\* as they are at that time.
UnforcedDeploysOnlyNew ==
    [][\A p \in Procs :
         pc[p] = "arm" /\ pc'[p] = "activate" =>
             /\ legible
             /\ ~job[p].force =>
                  /\ job[p].release > accepted
                  /\ failed # Malformed /\ job[p].release # failed.release]_vars

\* Every run ends: neither lock, no rollback and no trap leaves one behind.
RunsEnd == \A p \in Procs : pc[p] # "idle" ~> pc[p] = "idle"

\* A record that stops the daily timer until an operator sees to it: --force gets
\* past a malformed quarantine, and a success removes it.
NeedsOperator == ~legible \/ failed = Malformed

\* Once failures stop, the latest release is accepted, quarantined, or older than
\* the accepted one: the daily timer gets there by itself, unless a failure has
\* left a record that it cannot read.
Settled == latest \in {0, failed.release} \/ latest <= accepted
Settles == []<>(Settled \/ NeedsOperator)

\* What docs/server-updates.md:14 promises: "accept release, or restore and
\* health-check the previous generation".  A run does not restore the
\* previous generation after it recorded the release as accepted.
AcceptOrRestore ==
    \A p \in Procs : ~(job[p].recorded /\ pc[p] \in Rollback)

\* The trial of SupervisedRelease: what the run with the lock is doing to the
\* live system, from the root of the previous generation on, and how it ended.
Outcome(p) ==
    IF job[p].status = "not-needed" THEN "deployed"
    ELSE IF job[p].status = "succeeded" THEN "restored" ELSE "stuck"

TrialPhase(p) ==
    IF pc[p] \in {"notifyDeployed", "rbFinal", "rbSettle", "rbNotify", "end"} THEN Outcome(p)
    ELSE IF pc[p] \in Rollback THEN "back" ELSE "forward"

Trial ==
    IF updateLock \in Procs /\ job[updateLock].rooted
      THEN [phase |-> TrialPhase(updateLock), to |-> Target(updateLock),
            back |-> job[updateLock].previous]
      ELSE [phase |-> "none", to |-> BasePath, back |-> BasePath]

\* The updater supervises what it deploys, whatever fails, is terminated or is
\* killed: SupervisedRelease says what that means (docs/server-updates.md:12-14).
Supervision == INSTANCE SupervisedRelease WITH trial <- Trial
Supervised == Supervision!Spec

-----------------------------------------------------------------------------
(* The inductive invariant (ServerReleaseProofs) *)

\* A run that has not reached the live system.
Fresh(p) ==
    /\ ~job[p].armed /\ ~job[p].rooted /\ ~job[p].touched
    /\ job[p].status = "not-needed" /\ job[p].notices = <<>>

\* A run past the lock has it; one that ends has it or has done nothing.
LockFacts(p) ==
    /\ InRun(p) \/ pc[p] = "cleanupBefore" => updateLock = p
    /\ pc[p] = "end" => updateLock = p \/ Fresh(p)

\* What a run's variables say of its step: above all that a rollback which is
\* interrupted is either still to be done, or done and only to be announced.
JobFacts(p) ==
    /\ pc[p] \in {"idle", "lock", "cleanupBefore"} \cup PreActivation => Fresh(p)
    /\ pc[p] \in (Activation \ {"notifyDeployed"}) \cup (Rollback \ {"rbNotify"}) => job[p].armed
    /\ pc[p] = "notifyDeployed" => ~job[p].armed
    /\ pc[p] \in Activation \cup Rollback \/ job[p].armed => job[p].rooted
    /\ pc[p] \in Activation => job[p].status = "not-needed"
    /\ pc[p] # "end" => job[p].notices = <<>>
    /\ pc[p] \in {"rbProfile", "rbSwitch", "rbCompare", "rbHealth"} => job[p].status = "failed"
    /\ pc[p] \in {"rbFinal", "rbSettle", "rbNotify"} => job[p].status \notin {"not-needed", "failed"}

\* What was decided at the start still holds when it is acted upon.
DecisionFacts(p) ==
    /\ pc[p] \in (PreActivation \ {"discover"}) \cup Activation \cup Rollback => job[p].release # 0
    /\ pc[p] \in (PreActivation \ {"discover"}) \cup Activation => job[p].release >= accepted /\ legible
    /\ ~job[p].force /\ pc[p] \in {"preflight", "verify", "build", "maintenance", "recheck",
                                   "preHealth", "backup", "arm"} =>
         job[p].release # accepted /\ job[p].release # failed.release /\ failed # Malformed
    /\ pc[p] \in {"clear", "commit", "notifyDeployed"} => accepted = job[p].release

\* What a run knows of the system: how far a release is live in each step.
DeployFacts(p) ==
    /\ pc[p] \in {"preHealth", "backup", "arm"} => job[p].previous = running
    /\ pc[p] \in {"adoptProfile", "adoptBoot", "adoptHealth", "adoptRecord", "adoptClear",
                  "health", "record", "clear", "commit", "notifyDeployed"} => running = Target(p)
    /\ pc[p] \in {"adoptBoot", "adoptHealth", "adoptRecord", "adoptClear",
                  "switch", "compare", "health", "record", "clear", "commit", "notifyDeployed"} =>
         profile = Target(p)
    /\ pc[p] \in {"adoptHealth", "adoptRecord", "adoptClear",
                  "compare", "health", "record", "clear", "commit", "notifyDeployed"} =>
         boot = Target(p)
    /\ pc[p] \in {"adoptRecord", "adoptClear", "record", "clear", "commit", "notifyDeployed"} =>
         verified

RestoreFacts(p) ==
    /\ job[p].armed => job[p].previous \in store
    /\ pc[p] \in {"rbSwitch", "rbCompare", "rbHealth"} => profile = job[p].previous
    /\ pc[p] \in {"rbCompare", "rbHealth"} => boot = job[p].previous
    /\ pc[p] = "rbHealth" => running = job[p].previous
    /\ pc[p] \in Rollback /\ job[p].status = "succeeded" => Live(job[p].previous) /\ verified

Stored == profile \in store /\ boot \in store /\ running \in store

RunFacts(p) ==
    /\ LockFacts(p) /\ JobFacts(p) /\ DecisionFacts(p) /\ DeployFacts(p) /\ RestoreFacts(p)
    /\ Whole(p) /\ Truthful(p)

IInv == TypeOK /\ Stored /\ \A p \in Procs : RunFacts(p)
=============================================================================
