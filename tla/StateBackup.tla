---------------------------- MODULE StateBackup ----------------------------
(***************************************************************************)
(* The pre-deployment backup (scripts/pre-deploy-backup.sh) and the other  *)
(* users of the container maintenance lock: the deploying updater          *)
(* (scripts/stage-server-release.sh) that runs the backup as its child,    *)
(* and the weekly Docker prune (modules/nixos/container-runtime.nix).      *)
(*                                                                         *)
(* A unit's container is removed whenever it is not active (the generated  *)
(* units run `docker run --rm'), so only the lock keeps its image.  An     *)
(* image is abstracted to its presence; a unit that is not a container is  *)
(* a unit whose image nobody asks about.                                   *)
(***************************************************************************)
EXTENDS Integers, FiniteSets, SequencesExt

CONSTANTS Units,        \* CAZ_BACKUP_PAUSE_UNITS
          Retention,    \* CAZ_BACKUP_RETENTION_COUNT
          Archives,     \* names an archive may have; its size bounds the directory
          None

ASSUME BackupAssumption ==
  /\ Retention \in Nat \ {0}
  /\ None \notin Units

VARIABLES unit,     \* unit[u]: its systemd state
          images,   \* the units whose image is in the store
          holders,  \* the processes with the lock's open file description
          updater,  \* the step of the deploying run
          switching,\* units the activation has stopped and will start
          prune,    \* the step of docker-prune.service
          pc,       \* pc[s]: the step of the backup script s
          todo,     \* todo[s]: units of the loop at line 58 still to visit
          cur,      \* cur[s]: the unit of the present iteration
          stopped,  \* stopped[s]: stopped_units
          surplus,  \* surplus[s]: how many of the listed archives are still to go
          left,     \* history: units that a script cut short has left down
          archives  \* published archives, oldest first

vars == <<unit, images, holders, updater, switching, prune,
          pc, todo, cur, stopped, surplus, left, archives>>
lockVars == <<holders, updater, switching, prune>>
scriptVars == <<pc, todo, cur, stopped, surplus>>

\* The script run by the updater, and by an operator in a shell of his own.
Scripts == {"deploy", "manual"}

UnitStates == {"active", "activating", "inactive", "failed"}
UpdaterSteps == {"idle", "wait", "held", "backup", "activate", "switch", "health"}
PruneSteps == {"idle", "wait", "prune"}
\* Steps at which the script's EXIT trap is installed (lines 55 to 102).
Trapped == {"pause", "stop", "record", "collect", "tar", "publish", "restart"}
ScriptSteps == {"idle", "lock", "apps", "cleanup", "list", "retain"} \cup Trapped

Init ==
  /\ unit = [u \in Units |-> "active"]
  /\ images = Units
  /\ holders = {}
  /\ updater = "idle"
  /\ switching = {}
  /\ prune = "idle"
  /\ pc = [s \in Scripts |-> "idle"]
  /\ todo = [s \in Scripts |-> {}]
  /\ cur = [s \in Scripts |-> None]
  /\ stopped = [s \in Scripts |-> {}]
  /\ surplus = [s \in Scripts |-> 0]
  /\ left = {}
  /\ archives = <<>>

Goto(s, step) == pc' = [pc EXCEPT ![s] = step]

---------------------------------------------------------------------------
(* The updater's use of the lock.                                          *)

\* Bound: a run starts while the directory has room for it and for another.
Room == Len(archives) + 2 <= Cardinality(Archives)

\* A child that survived its parent still has the update lock (fd 9), so the
\* next run gives up.
UpdaterStart ==
  /\ Room
  /\ updater = "idle"
  /\ pc["deploy"] = "idle"
  /\ updater' = "wait"
  /\ UNCHANGED <<unit, images, holders, switching, prune, scriptVars, left, archives>>

UpdaterLock ==
  /\ updater = "wait"
  /\ holders = {}
  /\ holders' = {"updater"}
  /\ updater' = "held"
  /\ UNCHANGED <<unit, images, switching, prune, scriptVars, left, archives>>

\* Mutant: the updater does not say that it holds the lock.
DeployEntryUntold == "lock"

\* Where the child starts: the updater tells it that the lock is held.
DeployEntry == "apps"

\* The child inherits the open file description of the lock.
RunBackup ==
  /\ updater = "held"
  /\ updater' = "backup"
  /\ holders' = holders \cup {"deploy"}
  /\ Goto("deploy", DeployEntry)
  /\ UNCHANGED <<unit, images, switching, prune, todo, cur, stopped, surplus, left, archives>>

\* The activation stops the units whose definition changed and starts them
\* again.  (A rollback is a second such pair and adds nothing here.)
SwitchStop ==
  /\ updater = "activate"
  /\ \E S \in SUBSET {u \in Units : unit[u] = "active"} :
       /\ unit' = [u \in Units |-> IF u \in S THEN "inactive" ELSE unit[u]]
       /\ switching' = S
  /\ updater' = "switch"
  /\ UNCHANGED <<images, holders, prune, scriptVars, left, archives>>

\* Starting units, each with its own result; docker pulls what is missing.
StartUnits(S) ==
  \E result \in [S -> {"active", "activating", "failed"}] :
    /\ unit' = [u \in Units |-> IF u \in S THEN result[u] ELSE unit[u]]
    /\ images' = images \cup {u \in S : result[u] = "active"}

SwitchStart ==
  /\ updater = "switch"
  /\ StartUnits(switching)
  /\ switching' = {}
  /\ updater' = "health"
  /\ UNCHANGED <<holders, prune, scriptVars, left, archives>>

\* A preflight failure or an adoption, or the end of the health gate.
UpdaterExit ==
  /\ updater \in {"held", "health"}
  /\ updater' = "idle"
  /\ holders' = holders \ {"updater"}
  /\ UNCHANGED <<unit, images, switching, prune, scriptVars, left, archives>>

\* The updater alone is killed while its child runs on.
UpdaterKilled ==
  /\ updater = "backup"
  /\ updater' = "idle"
  /\ holders' = holders \ {"updater"}
  /\ UNCHANGED <<unit, images, switching, prune, scriptVars, left, archives>>

---------------------------------------------------------------------------
(* docker-prune.service                                                    *)

PruneStart ==
  /\ prune = "idle"
  /\ prune' = "wait"
  /\ UNCHANGED <<unit, images, holders, updater, switching, scriptVars, left, archives>>

\* Mutant: the upstream unit, which takes no lock.
PruneLockWithoutLock ==
  /\ prune = "wait"
  /\ prune' = "prune"
  /\ holders' = holders \cup {"prune"}
  /\ UNCHANGED <<unit, images, updater, switching, scriptVars, left, archives>>

PruneLock ==
  /\ prune = "wait"
  /\ holders = {}
  /\ holders' = {"prune"}
  /\ prune' = "prune"
  /\ UNCHANGED <<unit, images, updater, switching, scriptVars, left, archives>>

Prune ==
  /\ prune = "prune"
  /\ images' = {u \in images : unit[u] = "active"}
  /\ prune' = "idle"
  /\ holders' = holders \ {"prune"}
  /\ UNCHANGED <<unit, updater, switching, scriptVars, left, archives>>

---------------------------------------------------------------------------
(* The backup script.                                                      *)

ManualStart ==
  /\ Room
  /\ pc["manual"] = "idle"
  /\ Goto("manual", "lock")
  /\ UNCHANGED <<unit, images, lockVars, todo, cur, stopped, surplus, left, archives>>

\* Mutant: a script that runs without waiting for the lock.
LockAnyway(s) ==
  /\ pc[s] = "lock"
  /\ holders' = holders \cup {s}
  /\ Goto(s, "apps")
  /\ UNCHANGED <<unit, images, updater, switching, prune, todo, cur, stopped, surplus, left, archives>>

Lock(s) ==
  /\ pc[s] = "lock"
  /\ holders = {}
  /\ holders' = {s}
  /\ Goto(s, "apps")
  /\ UNCHANGED <<unit, images, updater, switching, prune, todo, cur, stopped, surplus, left, archives>>

\* The end of the script: its variables and file descriptors are gone.  A live updater
\* goes on to the activation or, under set -e, ends too.
Exit(s, ok) ==
  /\ Goto(s, "idle")
  /\ todo' = [todo EXCEPT ![s] = {}]
  /\ cur' = [cur EXCEPT ![s] = None]
  /\ stopped' = [stopped EXCEPT ![s] = {}]
  /\ surplus' = [surplus EXCEPT ![s] = 0]
  /\ IF s = "deploy" /\ updater = "backup"
     THEN /\ updater' = IF ok THEN "activate" ELSE "idle"
          /\ holders' = holders \ (IF ok THEN {s} ELSE {s, "updater"})
     ELSE /\ updater' = updater
          /\ holders' = holders \ {s}
  /\ UNCHANGED <<switching, prune>>

\* Minecraft and Factorio make their own archives; a failure ends the script.
Applications(s) ==
  /\ pc[s] = "apps"
  /\ \/ /\ Goto(s, "pause")
        /\ todo' = [todo EXCEPT ![s] = Units]
        /\ UNCHANGED <<lockVars, cur, stopped, surplus>>
     \/ Exit(s, FALSE)
  /\ UNCHANGED <<unit, images, left, archives>>

\* `systemctl is-active' is false for a unit that is activating.
Pause(s) ==
  /\ pc[s] = "pause"
  /\ \E u \in todo[s] :
       /\ todo' = [todo EXCEPT ![s] = @ \ {u}]
       /\ IF unit[u] = "active"
          THEN Goto(s, "stop") /\ cur' = [cur EXCEPT ![s] = u]
          ELSE UNCHANGED <<pc, cur>>
  /\ UNCHANGED <<unit, images, lockVars, stopped, surplus, left, archives>>

Paused(s) ==
  /\ pc[s] = "pause"
  /\ todo[s] = {}
  /\ Goto(s, "collect")
  /\ UNCHANGED <<unit, images, lockVars, todo, cur, stopped, surplus, left, archives>>

\* The stop job; the command may fail before or after the unit is down.
Stop(s) ==
  /\ pc[s] = "stop"
  /\ \/ Goto(s, "record") /\ unit' = [unit EXCEPT ![cur[s]] = "inactive"]
     \/ Goto(s, "cleanup") /\ unit' = [unit EXCEPT ![cur[s]] = "inactive"]
     \/ Goto(s, "cleanup") /\ UNCHANGED unit
  /\ UNCHANGED <<images, lockVars, todo, cur, stopped, surplus, left, archives>>

Record(s) ==
  /\ pc[s] = "record"
  /\ stopped' = [stopped EXCEPT ![s] = @ \cup {cur[s]}]
  /\ cur' = [cur EXCEPT ![s] = None]
  /\ Goto(s, "pause")
  /\ UNCHANGED <<unit, images, lockVars, todo, surplus, left, archives>>

\* No configured path exists, or a temporary archive cannot be made.
Collect(s) ==
  /\ pc[s] = "collect"
  /\ \E next \in {"tar", "cleanup"} : Goto(s, next)
  /\ UNCHANGED <<unit, images, lockVars, todo, cur, stopped, surplus, left, archives>>

Tar(s) ==
  /\ pc[s] = "tar"
  /\ \E next \in {"publish", "cleanup"} : Goto(s, next)
  /\ UNCHANGED <<unit, images, lockVars, todo, cur, stopped, surplus, left, archives>>

Publish(s) ==
  /\ pc[s] = "publish"
  /\ \E a \in Archives \ ToSet(archives) : archives' = Append(archives, a)
  /\ Goto(s, "restart")
  /\ UNCHANGED <<unit, images, lockVars, todo, cur, stopped, surplus, left>>

\* restart_services; the command succeeds when every unit starts.
Restart(s) ==
  /\ pc[s] = "restart"
  /\ StartUnits(stopped[s])
  /\ Goto(s, IF \A u \in stopped[s] : unit'[u] = "active" THEN "list" ELSE "cleanup")
  /\ UNCHANGED <<lockVars, todo, cur, stopped, surplus, left, archives>>

\* What the list at line 104 holds beyond the newest archives.
ListArchives(s) ==
  /\ pc[s] = "list"
  /\ surplus' = [surplus EXCEPT ![s] = IF Len(archives) > Retention THEN Len(archives) - Retention ELSE 0]
  /\ Goto(s, "retain")
  /\ UNCHANGED <<unit, images, lockVars, todo, cur, stopped, left, archives>>

\* Mutant: the list of archives is sorted the wrong way round.
RemoveNewest(s) ==
  /\ pc[s] = "retain"
  /\ surplus[s] > 0
  /\ archives' = RemoveAt(archives, Retention + 1)
  /\ surplus' = [surplus EXCEPT ![s] = @ - 1]
  /\ UNCHANGED <<unit, images, lockVars, pc, todo, cur, stopped, left>>

\* One rm of the loop at line 114: of the surplus, the newest goes first.
RemoveArchive(s) ==
  /\ pc[s] = "retain"
  /\ surplus[s] > 0
  /\ archives' = RemoveAt(archives, surplus[s])
  /\ surplus' = [surplus EXCEPT ![s] = @ - 1]
  /\ UNCHANGED <<unit, images, lockVars, pc, todo, cur, stopped, left>>

Retained(s) ==
  /\ pc[s] = "retain"
  /\ surplus[s] = 0
  /\ Exit(s, TRUE)
  /\ UNCHANGED <<unit, images, left, archives>>

\* Those of S that the script leaves down.
LeavesDown(S) == left' = left \cup {u \in Units : u \in S /\ unit'[u] = "inactive"}

\* Mutant: the trap restarts nothing.
CleanupWithoutRestart(s) ==
  /\ pc[s] = "cleanup"
  /\ Exit(s, FALSE)
  /\ UNCHANGED <<unit, images, archives>>
  /\ LeavesDown({cur[s]})

\* The EXIT trap: start what is recorded as stopped, whatever comes of it.  A
\* unit that went down without being recorded stays down.
Cleanup(s) ==
  /\ pc[s] = "cleanup"
  /\ StartUnits(stopped[s])
  /\ LeavesDown({cur[s]})
  /\ Exit(s, FALSE)
  /\ UNCHANGED archives

\* The first signal ends the script through the trap, where one is installed, or
\* at once (a failed rm of the retention does the same).  A stop job that
\* systemctl has submitted goes ahead without it.
Signal(s) ==
  /\ pc[s] \notin {"idle", "cleanup"}
  /\ IF pc[s] \in Trapped
     THEN /\ Goto(s, "cleanup")
          /\ \/ UNCHANGED unit
             \/ pc[s] = "stop" /\ unit' = [unit EXCEPT ![cur[s]] = "inactive"]
          /\ UNCHANGED <<lockVars, todo, cur, stopped, surplus>>
     ELSE /\ Exit(s, FALSE)
          /\ UNCHANGED unit
  /\ UNCHANGED <<images, left, archives>>

\* SIGKILL, and any signal within the trap: nothing more is started, except what
\* systemctl has asked systemd for by then.
Kill(s) ==
  /\ pc[s] # "idle"
  /\ \/ UNCHANGED <<unit, images>>
     \/ pc[s] = "stop" /\ unit' = [unit EXCEPT ![cur[s]] = "inactive"] /\ UNCHANGED images
     \/ pc[s] \in {"restart", "cleanup"} /\ \E S \in SUBSET stopped[s] : StartUnits(S)
  /\ LeavesDown(stopped[s] \cup {cur[s]})
  /\ Exit(s, FALSE)
  /\ UNCHANGED archives

---------------------------------------------------------------------------
(* systemd and the machine.                                                *)

\* A service dies and systemd schedules its restart (Restart=always).
Crash(u) ==
  /\ unit[u] = "active"
  /\ unit' = [unit EXCEPT ![u] = "activating"]
  /\ UNCHANGED <<images, lockVars, scriptVars, left, archives>>

\* `docker run' pulls an image that is missing.
Up(u) ==
  /\ unit[u] = "activating"
  /\ unit' = [unit EXCEPT ![u] = "active"]
  /\ images' = images \cup {u}
  /\ UNCHANGED <<lockVars, scriptVars, left, archives>>

\* Everything but the archives starts afresh.
Reboot ==
  /\ unit' = [u \in Units |-> "activating"]
  /\ holders' = {}
  /\ updater' = "idle"
  /\ switching' = {}
  /\ prune' = "idle"
  /\ pc' = [s \in Scripts |-> "idle"]
  /\ todo' = [s \in Scripts |-> {}]
  /\ cur' = [s \in Scripts |-> None]
  /\ stopped' = [s \in Scripts |-> {}]
  /\ surplus' = [s \in Scripts |-> 0]
  /\ left' = {}
  /\ UNCHANGED <<images, archives>>

---------------------------------------------------------------------------

Script(s) ==
  \/ Lock(s) \/ Applications(s) \/ Pause(s) \/ Paused(s) \/ Stop(s) \/ Record(s)
  \/ Collect(s) \/ Tar(s) \/ Publish(s) \/ Restart(s)
  \/ ListArchives(s) \/ RemoveArchive(s) \/ Retained(s) \/ Cleanup(s)

Next ==
  \/ UpdaterStart \/ UpdaterLock \/ RunBackup \/ SwitchStop \/ SwitchStart
  \/ UpdaterExit \/ UpdaterKilled
  \/ PruneStart \/ PruneLock \/ Prune
  \/ ManualStart \/ Reboot
  \/ \E s \in Scripts : Script(s) \/ Signal(s) \/ Kill(s)
  \/ \E u \in Units : Crash(u) \/ Up(u)

Spec == Init /\ [][Next]_vars

\* Started commands go on; the switch starts what it stopped; whoever waits in
\* flock while the lock is free again and again gets it.
Fairness ==
  /\ \A s \in Scripts : WF_vars(Script(s)) /\ SF_vars(Lock(s))
  /\ WF_vars(RunBackup \/ SwitchStop \/ SwitchStart \/ UpdaterExit) /\ SF_vars(UpdaterLock)
  /\ WF_vars(Prune) /\ SF_vars(PruneLock)

LiveSpec == Spec /\ Fairness

---------------------------------------------------------------------------
(* Properties.                                                             *)

TypeOK ==
  /\ unit \in [Units -> UnitStates]
  /\ images \subseteq Units
  /\ holders \subseteq {"updater", "deploy", "manual", "prune"}
  /\ updater \in UpdaterSteps
  /\ switching \subseteq Units
  /\ prune \in PruneSteps
  /\ pc \in [Scripts -> ScriptSteps]
  /\ todo \in [Scripts -> SUBSET Units]
  /\ cur \in [Scripts -> Units \cup {None}]
  /\ stopped \in [Scripts -> SUBSET Units]
  /\ surplus \in [Scripts -> Nat]
  /\ left \subseteq Units
  /\ archives \in Seq(Archives)

\* The steps at which units recorded in stopped_units are down.
Down == {"pause", "stop", "record", "collect", "tar", "publish", "restart", "cleanup"}

\* While a backup has a unit stopped, and while an activation has, no image of
\* such a unit is pruned: the reason for the shared lock given in
\* container-runtime.nix and in docs/server-updates.md.
ImagesKept ==
  /\ \A s \in Scripts : pc[s] \in Down => stopped[s] \subseteq images
  /\ switching \subseteq images

\* What the script has paused stays down until it starts it again itself: no
\* other user of the lock starts it under the archive.
PausedStayDown ==
  \A s \in Scripts : pc[s] \in Down \ {"cleanup"} =>
    \A u \in stopped[s] : unit[u] = "inactive"

\* Who has the lock, by what each process is doing; the child of the updater
\* shares it, everyone else is alone.
LockFacts ==
  /\ "prune" \in holders <=> prune = "prune"
  /\ "manual" \in holders <=> pc["manual"] \notin {"idle", "lock"}
  /\ "deploy" \in holders <=> pc["deploy"] # "idle"
  /\ "updater" \in holders <=> updater \notin {"idle", "wait"}
  /\ "prune" \in holders => holders = {"prune"}
  /\ "manual" \in holders => holders = {"manual"}
  /\ pc["deploy"] # "lock"
  /\ pc["deploy"] # "idle" => updater \in {"idle", "backup"}

\* A unit that runs has its image, and so has one that is being stopped.
ImageFacts ==
  /\ \A u \in Units : unit[u] = "active" => u \in images
  /\ \A s \in Scripts : pc[s] \in {"stop", "record"} => cur[s] \in images

UnitFacts ==
  /\ \A s \in Scripts : pc[s] \in {"idle", "lock", "apps"} => stopped[s] = {}
  /\ \A s \in Scripts : pc[s] = "record" => unit[cur[s]] = "inactive"
  /\ \A s \in Scripts : pc[s] \notin {"stop", "record", "cleanup"} => cur[s] = None
  /\ \A s \in Scripts : pc[s] \in {"list", "retain"} => \A u \in stopped[s] : unit[u] # "inactive"
  /\ updater # "switch" => switching = {}

\* However a script ends, no unit it has stopped stays down: a unit is down only
\* while the script that will start it, or the activation that stopped it, is at
\* work.  The exceptions are in left: a script that was killed, or signalled again
\* in its trap, and a stop that was cut before line 61 recorded it.
NoUnitLeftDown ==
  \A u \in Units : unit[u] = "inactive" =>
    u \in switching \cup left \/ \E s \in Scripts : u \in stopped[s] \cup {cur[s]}

\* The archives still to go are surplus, and the oldest ones.
SurplusFacts == \A s \in Scripts :
  pc[s] = "retain" => surplus[s] = 0 \/ surplus[s] + Retention <= Len(archives)

\* The inductive invariant behind ImagesKept, PausedStayDown and NoUnitLeftDown:
\* it needs to know who has the lock, the surviving child of a killed updater
\* included.
IInv ==
  /\ TypeOK /\ LockFacts /\ ImageFacts /\ UnitFacts /\ SurplusFacts
  /\ ImagesKept /\ PausedStayDown /\ NoUnitLeftDown

\* Only archives with Retention newer ones are ever deleted, in any interleaving
\* of two backups.  A cut between two of the deletions leaves an older archive
\* after a newer one is gone, and never too few of the newest (lines 104-116).
NewestArchivesKept ==
  [][\/ archives' = archives
     \/ \E a \in Archives : archives' = Append(archives, a)
     \/ \E i \in 1 .. (Len(archives) - Retention) : archives' = RemoveAt(archives, i)]_vars

\* Everybody that waits for the lock, and the updater that waits for a child
\* that uses the same lock, goes on: nobody waits on himself or on a cycle.
LockUsersProceed ==
  /\ prune = "wait" ~> prune = "idle"
  /\ pc["manual"] = "lock" ~> pc["manual"] = "idle"
  /\ updater \in {"wait", "backup"} ~> updater \notin {"wait", "backup"}
============================================================================
