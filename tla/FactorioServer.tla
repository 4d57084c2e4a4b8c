--------------------------- MODULE FactorioServer ---------------------------
(***************************************************************************)
(* The Factorio server under systemd: its start (factorio-admin.py         *)
(* initialize, then factorio-prepare.py, in the preStart of                *)
(* modules/nixos/factorio.nix), and the commands around a stopped server   *)
(* (factorio-admin.py whitelist, operator, backup), which share the        *)
(* maintenance lock with deployments.                                      *)
(*                                                                         *)
(* Upstream's unit has Restart=always and saves the game on a stop.  The   *)
(* lists are changed by these commands only, as docs/factorio.md asks.     *)
(***************************************************************************)
EXTENDS Integers

CONSTANTS Sessions,        \* runs of factorio-access, by hand or by a timer
          Names, Lower,    \* names as written, and their lower case
          Guard,           \* GUARD
          Worlds, Mods,    \* worlds that are ever declared; mods of the manifest
          Legacy,          \* the directory saves from before worlds were declared
          None,
          Deployment, NoOne,
          Keep,            \* seven
          MaxCommands,     \* bound on the commands given
          MaxDisruptions   \* bound on failures, kills, reboots, damage and changes of the world

ASSUME FactorioAssumption ==
    /\ Guard \notin Names /\ Legacy \notin Worlds /\ None \notin Worlds \cup {Legacy}
    /\ Deployment \notin Sessions /\ NoOne \notin Sessions \cup {Deployment}
    /\ Lower \in [Names -> Names] /\ \A n \in Names : Lower[Lower[n]] = Lower[n]
    /\ Keep \in Nat \ {0} /\ MaxCommands \in Nat /\ MaxDisruptions \in Nat

VARIABLES
    unit, result,              \* step or state of factorio.service, and its Result
    files,                     \* files[l]: the owner of list l, or "missing" or "malformed"
    whitelist, admins, banned, \* what the lists say; whether Guard is banned
    declared,                  \* homelab.factorio.world
    saves,                     \* saves[w]: the game in worlds/w/saves
    active,                    \* what saves is: None, Legacy or the world it links to
    next,                      \* whether .saves-next exists
    mods,                      \* mods[m]: the archive in the mod directory
    archives,                  \* how many backups there are
    lock,                      \* the holder of the maintenance lock
    job,                       \* job[s]: step, command, running, error
    commands, disruptions

lists == <<files, whitelist, admins, banned>>
world == <<declared, saves, active, next>>
session == <<lock, job, commands>>
vars == <<unit, result, lists, world, mods, archives, session, disruptions>>

Starting == {"guard", "admins", "ban", "mods", "world", "select", "link", "replace", "load"}
Up == Starting \cup {"running", "waiting"}

Lists == {"whitelist", "adminlist", "banlist"}

Idle == [step |-> "idle", command |-> "access", running |-> FALSE, error |-> FALSE]

\* The state directory of a first start that was cut short, or of a server from
\* before worlds were declared, with one member, whose name the game has put in
\* lower case.
New ==
    /\ files = [l \in Lists |-> "missing"]
    /\ whitelist = {} /\ admins = {} /\ banned = FALSE
    /\ active = None

Inherited ==
    /\ files = [l \in Lists |-> "service"]
    /\ \E n \in Names : Lower[n] = n /\ whitelist = {Guard, n}
    /\ admins = {} /\ banned = TRUE
    /\ active = Legacy

Init ==
    /\ unit = "inactive" /\ result = "success"
    /\ New \/ Inherited
    /\ declared \in Worlds
    /\ saves = [w \in Worlds |-> "none"]
    /\ next = FALSE
    /\ mods = [m \in Mods |-> "absent"]
    /\ archives = 0
    /\ lock = NoOne /\ job = [s \in Sessions |-> Idle]
    /\ commands = 0 /\ disruptions = 0

Disrupt ==
    /\ disruptions < MaxDisruptions
    /\ disruptions' = disruptions + 1

-----------------------------------------------------------------------------
(* initialize: three atomic replacements, by the start as the dynamic user of  *)
(* the service and by every edit as root                                       *)

\* The list that a step of initialize reads.
ListRead(step) == CASE step = "guard" -> "whitelist"
                    [] step = "admins" -> "adminlist"
                    [] step = "ban" -> "banlist"

\* Root reads every file, the service its own; nobody reads a malformed list.
Reads(user, l) == files[l] \in {"missing", "service", user}

\* A replaced list keeps its owner; a new one belongs to its writer, with mode 0600.
Replaced(user, l) == files' = [files EXCEPT ![l] = IF @ = "missing" THEN user ELSE @]

WhitelistGuard(user) ==
    /\ Reads(user, "whitelist") /\ Replaced(user, "whitelist")
    /\ whitelist' = whitelist \cup {Guard}
    /\ UNCHANGED <<admins, banned>>

CreateAdmins(user) ==
    /\ Reads(user, "adminlist") /\ Replaced(user, "adminlist")
    /\ UNCHANGED <<whitelist, admins, banned>>

\* Mutant: a whitelist that has an entry is taken to be initialized.
BanGuardOnce(user) ==
    /\ Reads(user, "banlist") /\ Replaced(user, "banlist")
    /\ banned' = (banned \/ whitelist = {Guard})
    /\ UNCHANGED <<whitelist, admins>>

BanGuard(user) ==
    /\ Reads(user, "banlist") /\ Replaced(user, "banlist")
    /\ banned' = TRUE
    /\ UNCHANGED <<whitelist, admins>>

-----------------------------------------------------------------------------
(* The start of the unit *)

StartUnit == unit' = "guard" /\ result' = "success"

StartGuard ==
    /\ unit = "guard" /\ unit' = "admins"
    /\ WhitelistGuard("service")
    /\ UNCHANGED <<result, world, mods, archives, session, disruptions>>

StartAdmins ==
    /\ unit = "admins" /\ unit' = "ban"
    /\ CreateAdmins("service")
    /\ UNCHANGED <<result, world, mods, archives, session, disruptions>>

StartBan ==
    /\ unit = "ban" /\ unit' = "mods"
    /\ BanGuard("service")
    /\ UNCHANGED <<result, world, mods, archives, session, disruptions>>

\* PermissionError on a list that root has created, ValueError on a malformed one.
StartRaises ==
    /\ unit \in {"guard", "admins", "ban"} /\ ~Reads("service", ListRead(unit))
    /\ unit' = "waiting" /\ result' = "failure"
    /\ UNCHANGED <<lists, world, mods, archives, session, disruptions>>

\* An archive with the pinned checksum is kept, any other fetched and verified.
Install ==
    /\ unit = "mods"
    /\ \E m \in Mods : mods[m] # "good" /\ mods' = [mods EXCEPT ![m] = "good"]
    /\ UNCHANGED <<unit, result, lists, world, archives, session, disruptions>>

ModsInstalled ==
    /\ unit = "mods" /\ unit' = "world"
    /\ \A m \in Mods : mods[m] = "good"
    /\ UNCHANGED <<result, lists, world, mods, archives, session, disruptions>>

\* Mutant: a world that is not in use is taken to be missing.
NotInUse(w) == active # w

Missing(w) == saves[w] = "none"

\* The game creates a save in a staging directory, which is renamed.
CreateWorld ==
    /\ unit = "world" /\ unit' = "select"
    /\ saves' = IF Missing(declared) THEN [saves EXCEPT ![declared] = "fresh"] ELSE saves
    /\ UNCHANGED <<result, lists, declared, active, next, mods, archives, session, disruptions>>

\* An old directory makes way for the link; it is kept under another name.
SelectWorld ==
    /\ unit = "select"
    /\ unit' = IF active = declared THEN "load" ELSE "link"
    /\ active' = IF active = Legacy THEN None ELSE active
    /\ UNCHANGED <<result, lists, declared, saves, next, mods, archives, session, disruptions>>

\* Mutant: a link that was left behind is not removed first.
LinkNextOnce ==
    /\ unit = "link" /\ ~next
    /\ unit' = "replace" /\ next' = TRUE
    /\ UNCHANGED <<result, lists, declared, saves, active, mods, archives, session, disruptions>>

LinkNext ==
    /\ unit = "link" /\ unit' = "replace"
    /\ next' = TRUE
    /\ UNCHANGED <<result, lists, declared, saves, active, mods, archives, session, disruptions>>

ReplaceLink ==
    /\ unit = "replace" /\ unit' = "load"
    /\ active' = declared /\ next' = FALSE
    /\ UNCHANGED <<result, lists, declared, saves, mods, archives, session, disruptions>>

\* The game reads its lists and its latest save.
Load ==
    /\ unit = "load" /\ unit' = "running"
    /\ UNCHANGED <<result, lists, world, mods, archives, session, disruptions>>

Play ==
    /\ unit = "running" /\ saves[active] = "fresh"
    /\ saves' = [saves EXCEPT ![active] = "played"]
    /\ UNCHANGED <<unit, result, lists, declared, active, next, mods, archives, session, disruptions>>

\* preStart fails (the portal, the disk, a timeout), or the game crashes.
UnitFails ==
    /\ Disrupt
    /\ unit \in Starting \cup {"running"} /\ unit' = "waiting"
    /\ result' = "failure"
    /\ UNCHANGED <<lists, world, mods, archives, session>>

\* RestartSec: the unit is "activating" in the meantime.
Restart ==
    /\ unit = "waiting" /\ StartUnit
    /\ UNCHANGED <<lists, world, mods, archives, session, disruptions>>

\* The end of a stop: the game was saved, or it had to be killed.
Stopped ==
    /\ unit = "stopping" /\ unit' = "inactive"
    /\ \/ UNCHANGED <<result, disruptions>>
       \/ Disrupt /\ result' = "failure"
    /\ UNCHANGED <<lists, world, mods, archives, session>>

\* What systemctl stop sets off.
StopUnit ==
    /\ unit' = CASE unit = "waiting" -> "inactive"
                 [] unit \in Starting \cup {"running"} -> "stopping"
                 [] OTHER -> unit
    /\ UNCHANGED result

-----------------------------------------------------------------------------
(* The commands *)

Step(s, step) == job' = [job EXCEPT ![s].step = step]
Becomes(s, step, running, error) ==
    job' = [job EXCEPT ![s] = [step |-> step, command |-> @.command, running |-> running, error |-> error]]
Fails(s, step) == Becomes(s, step, job[s].running, TRUE)

Begun(command) == [step |-> "lock", command |-> command, running |-> FALSE, error |-> FALSE]

Begin(s) ==
    /\ job[s].step = "idle" /\ commands < MaxCommands
    /\ commands' = commands + 1
    /\ \E command \in {"access", "backup"} : job' = [job EXCEPT ![s] = Begun(command)]
    /\ UNCHANGED <<unit, result, lists, world, mods, archives, lock, disruptions>>

Acquire(s) ==
    /\ job[s].step = "lock" /\ lock = NoOne
    /\ lock' = s /\ Step(s, "status")
    /\ UNCHANGED <<unit, result, lists, world, mods, archives, commands, disruptions>>

\* Mutant: a unit that is "activating" does not count.
Active == unit = "running"

Running == unit \in Up

Body(s) == IF job[s].command = "access" THEN "guard" ELSE "archive"

ReadStatus(s) ==
    /\ job[s].step = "status"
    /\ IF unit = "stopping"
       THEN Fails(s, "done")
       ELSE Becomes(s, IF Running THEN "stop" ELSE Body(s), Running, job[s].error)
    /\ UNCHANGED <<unit, result, lists, world, mods, archives, lock, commands, disruptions>>

Stop(s) ==
    /\ job[s].step = "stop"
    /\ StopUnit /\ Step(s, "result")
    /\ UNCHANGED <<lists, world, mods, archives, lock, commands, disruptions>>

CheckResult(s) ==
    /\ job[s].step = "result" /\ unit = "inactive"
    /\ IF result = "success" THEN Step(s, Body(s)) ELSE Fails(s, "finally")
    /\ UNCHANGED <<unit, result, lists, world, mods, archives, lock, commands, disruptions>>

EditGuard(s) ==
    /\ job[s].step = "guard" /\ Step(s, "admins")
    /\ WhitelistGuard("root")
    /\ UNCHANGED <<unit, result, world, mods, archives, lock, commands, disruptions>>

EditAdmins(s) ==
    /\ job[s].step = "admins" /\ Step(s, "ban")
    /\ CreateAdmins("root")
    /\ UNCHANGED <<unit, result, world, mods, archives, lock, commands, disruptions>>

EditBan(s) ==
    /\ job[s].step = "ban" /\ Step(s, "edit")
    /\ BanGuard("root")
    /\ UNCHANGED <<unit, result, world, mods, archives, lock, commands, disruptions>>

\* ValueError on a malformed list.
EditRaises(s) ==
    /\ job[s].step \in {"guard", "admins", "ban"} /\ ~Reads("root", ListRead(job[s].step))
    /\ Fails(s, "finally")
    /\ UNCHANGED <<unit, result, lists, world, mods, archives, lock, commands, disruptions>>

Lowered(list) == {Lower[n] : n \in list \ {Guard}}
With(list, n) == IF Lower[n] \in Lowered(list) THEN list ELSE list \cup {n}
Without(list, n) == {m \in list : m = Guard \/ Lower[m] # Lower[n]}

\* Mutant: a name is looked for as it was written.
AsWritten(n) == n \in admins

Operates(n) == Lower[n] \in Lowered(admins)

ChangeWhitelist(n) ==
    /\ \/ whitelist' = With(whitelist, n)
       \/ ~Operates(n) /\ whitelist' = Without(whitelist, n)
    /\ UNCHANGED <<files, admins, banned>>

ChangeOperators(n) ==
    /\ \/ Lower[n] \in Lowered(whitelist) /\ admins' = With(admins, n)
       \/ admins' = Without(admins, n)
    /\ UNCHANGED <<files, whitelist, banned>>

Edit(s) ==
    /\ job[s].step = "edit" /\ Step(s, "finally")
    /\ \E n \in Names : ChangeWhitelist(n) \/ ChangeOperators(n)
    /\ UNCHANGED <<unit, result, world, mods, archives, lock, commands, disruptions>>

\* An edit that is not allowed: an operator's removal from the whitelist, or
\* the grant of operator access to someone who is not whitelisted.
Refuse(s) ==
    /\ job[s].step = "edit" /\ Fails(s, "finally")
    /\ \E n \in Names : Operates(n) \/ Lower[n] \notin Lowered(whitelist)
    /\ UNCHANGED <<unit, result, lists, world, mods, archives, lock, commands, disruptions>>

\* tar writes a temporary file, which is renamed.
Archive(s) ==
    /\ job[s].step = "archive" /\ active # None
    /\ archives' = archives + 1
    /\ Step(s, "finally")
    /\ UNCHANGED <<unit, result, lists, world, mods, lock, commands, disruptions>>

NoSaves(s) ==
    /\ job[s].step = "archive" /\ active = None
    /\ Fails(s, "finally")
    /\ UNCHANGED <<unit, result, lists, world, mods, archives, lock, commands, disruptions>>

\* An exception in the body of stopped_server, or a failed systemctl stop.
Raise(s) ==
    /\ job[s].step \in {"stop", "result", "guard", "admins", "ban", "edit", "archive"} /\ Disrupt
    /\ Fails(s, "finally")
    /\ UNCHANGED <<unit, result, lists, world, mods, archives, lock, commands>>

AfterStop(s) == IF job[s].command = "backup" /\ ~job[s].error THEN "prune" ELSE "done"

\* Mutant: the server is started after a success only.
ResumeUnlessFailed(s) ==
    /\ job[s].step = "finally"
    /\ IF job[s].running /\ ~job[s].error
       THEN Step(s, "start") /\ IF unit = "inactive" THEN StartUnit ELSE UNCHANGED <<unit, result>>
       ELSE Step(s, AfterStop(s)) /\ UNCHANGED <<unit, result>>
    /\ UNCHANGED <<lists, world, mods, archives, lock, commands, disruptions>>

\* A start while the stop goes on takes effect after it.
Resume(s) ==
    /\ job[s].step = "finally" /\ unit # "stopping"
    /\ IF job[s].running
       THEN Step(s, "start") /\ IF unit \in {"inactive", "waiting"} THEN StartUnit ELSE UNCHANGED <<unit, result>>
       ELSE Step(s, AfterStop(s)) /\ UNCHANGED <<unit, result>>
    /\ UNCHANGED <<lists, world, mods, archives, lock, commands, disruptions>>

\* systemctl start waits for preStart.
Resumed(s) ==
    /\ job[s].step = "start" /\ unit \in {"running", "waiting"}
    /\ IF unit = "running" THEN Step(s, AfterStop(s)) ELSE Fails(s, "done")
    /\ UNCHANGED <<unit, result, lists, world, mods, archives, lock, commands, disruptions>>

\* The archives with the latest names are kept.
Prune(s) ==
    /\ job[s].step = "prune"
    /\ archives' = IF archives > Keep THEN Keep ELSE archives
    /\ Step(s, "done")
    /\ UNCHANGED <<unit, result, lists, world, mods, lock, commands, disruptions>>

End(s) ==
    /\ job[s].step = "done"
    /\ job' = [job EXCEPT ![s] = Idle]
    /\ lock' = NoOne
    /\ UNCHANGED <<unit, result, lists, world, mods, archives, commands, disruptions>>

\* SIGTERM and SIGKILL end Python without its finally clauses; what systemd
\* was asked to do goes on.
Kill(s) ==
    /\ job[s].step # "idle" /\ Disrupt
    /\ job' = [job EXCEPT ![s] = Idle]
    /\ lock' = IF lock = s THEN NoOne ELSE lock
    /\ UNCHANGED <<unit, result, lists, world, mods, archives, commands>>

-----------------------------------------------------------------------------
(* Deployments, reboots, hands *)

DeployBegins ==
    /\ lock = NoOne /\ lock' = Deployment
    /\ UNCHANGED <<unit, result, lists, world, mods, archives, job, commands, disruptions>>

DeployStops ==
    /\ lock = Deployment /\ unit \in Up
    /\ StopUnit
    /\ UNCHANGED <<lists, world, mods, archives, session, disruptions>>

DeployConfigures ==
    /\ lock = Deployment /\ unit = "inactive" /\ Disrupt
    /\ declared' \in Worlds \ {declared}
    /\ UNCHANGED <<unit, result, lists, saves, active, next, mods, archives, session>>

DeployStarts ==
    /\ lock = Deployment /\ unit = "inactive"
    /\ StartUnit
    /\ UNCHANGED <<lists, world, mods, archives, session, disruptions>>

DeployEnds ==
    /\ lock = Deployment /\ lock' = NoOne
    /\ UNCHANGED <<unit, result, lists, world, mods, archives, job, commands, disruptions>>

\* The unit is wanted by multi-user.target.
Reboot ==
    /\ Disrupt
    /\ StartUnit
    /\ lock' = NoOne /\ job' = [s \in Sessions |-> Idle]
    /\ UNCHANGED <<lists, world, mods, archives, commands>>

\* An archive of a mod is damaged on disk.
Damage ==
    /\ Disrupt
    /\ \E m \in Mods : mods[m] = "good" /\ mods' = [mods EXCEPT ![m] = "damaged"]
    /\ UNCHANGED <<unit, result, lists, world, archives, session>>

\* A hand takes the guard from the lists of a stopped server, or spoils a list.
HandEdit ==
    /\ unit = "inactive" /\ lock = NoOne /\ Disrupt
    /\ \/ /\ whitelist' \in {whitelist, whitelist \ {Guard}}
          /\ banned' \in {banned, FALSE}
          /\ UNCHANGED files
       \/ /\ \E l \in Lists : files[l] # "missing" /\ files' = [files EXCEPT ![l] = "malformed"]
          /\ UNCHANGED <<whitelist, banned>>
    /\ UNCHANGED <<unit, result, admins, world, mods, archives, session>>

\* Only a hand gives a list back to the service.
HandRepair ==
    /\ lock = NoOne
    /\ \E l \in Lists : files[l] \in {"root", "malformed"} /\ files' = [files EXCEPT ![l] = "service"]
    /\ UNCHANGED <<unit, result, whitelist, admins, banned, world, mods, archives, session, disruptions>>

Preparation ==
    \/ StartGuard \/ StartAdmins \/ StartBan \/ StartRaises \/ Install \/ ModsInstalled
    \/ CreateWorld \/ SelectWorld \/ LinkNext \/ ReplaceLink \/ Load

Work(s) ==
    \/ ReadStatus(s) \/ Stop(s) \/ CheckResult(s)
    \/ EditGuard(s) \/ EditAdmins(s) \/ EditBan(s) \/ EditRaises(s) \/ Edit(s) \/ Refuse(s)
    \/ Archive(s) \/ NoSaves(s) \/ Resume(s) \/ Resumed(s) \/ Prune(s) \/ End(s)

Next ==
    \/ Preparation \/ Play \/ UnitFails \/ Restart \/ Stopped
    \/ DeployBegins \/ DeployStops \/ DeployConfigures \/ DeployStarts \/ DeployEnds
    \/ Reboot \/ Damage \/ HandEdit \/ HandRepair
    \/ \E s \in Sessions : Begin(s) \/ Acquire(s) \/ Work(s) \/ Raise(s) \/ Kill(s)

Spec == Init /\ [][Next]_vars

\* systemd carries out what it was asked to do.
FairSpec == Spec /\ WF_vars(Preparation) /\ WF_vars(Restart) /\ WF_vars(Stopped)

-----------------------------------------------------------------------------
(* Properties *)

Jobs == [step : {"idle", "lock", "status", "stop", "result", "guard", "admins", "ban", "edit", "archive",
                 "finally", "start", "prune", "done"},
         command : {"access", "backup"}, running : BOOLEAN, error : BOOLEAN]

TypeOK ==
    /\ unit \in Up \cup {"stopping", "inactive"} /\ result \in {"success", "failure"}
    /\ files \in [Lists -> {"missing", "service", "root", "malformed"}]
    /\ whitelist \in SUBSET (Names \cup {Guard}) /\ admins \in SUBSET Names /\ banned \in BOOLEAN
    /\ declared \in Worlds /\ saves \in [Worlds -> {"none", "fresh", "played"}]
    /\ active \in Worlds \cup {None, Legacy} /\ next \in BOOLEAN
    /\ mods \in [Mods -> {"absent", "good", "damaged"}]
    /\ archives \in Nat
    /\ lock \in Sessions \cup {NoOne, Deployment}
    /\ job \in [Sessions -> Jobs]
    /\ commands \in 0 .. MaxCommands /\ disruptions \in 0 .. MaxDisruptions

\* Lists are edited and saves archived only while the game is down, after a clean
\* stop, and nothing is about to start it, whatever was going on when the command
\* came: an automatic restart, a start, a stop that failed, a command that was
\* killed and left systemd at work (stopped_server, maintenance_lock).
ChangedWhileDown ==
    \A s \in Sessions : job[s].step \in {"guard", "admins", "ban", "edit", "archive"} =>
        unit = "inactive" /\ (job[s].running => result = "success")

\* A game that is running can be joined by nobody through the guard's name, never
\* has an empty whitelist, and has lists that it can read: also after a first boot,
\* a start cut short, a list that a command has created as root and one damaged by
\* hand (initialize).
GuardInForce ==
    unit \in {"load", "running"} =>
        /\ Guard \in whitelist /\ banned
        /\ \A l \in Lists : files[l] = "service"

\* Everyone with operator access is whitelisted, in whatever case the names
\* were written, with two administrators at work (access).
OperatorsWhitelisted == Lowered(admins) \subseteq Lowered(whitelist)

\* The lists mean what the administrator relies on.
Consistent == TypeOK /\ GuardInForce /\ OperatorsWhitelisted

\* A command that is not killed leaves the server as it found it: up, or coming
\* up, if it was, and otherwise stopped, also if the edit, the stop or the
\* archive fails (stopped_server).
LeftAsFound ==
    \A s \in Sessions : job[s].step \in {"prune", "done"} =>
        IF job[s].running THEN unit \in Up ELSE unit \in {"inactive", "stopping"}

\* What has been played is never reset or lost: not by a start that was cut
\* short, a change of the declared world or the way back (prepare_world).
ProgressKept == [][\A w \in Worlds : saves[w] = "played" => saves'[w] = "played"]_vars

\* A start, once nothing cuts it short any more, leads to a running game, from
\* whatever an earlier one has left behind, unless the unit is stopped or a list
\* is one that the service cannot read: only that takes a hand.
ComesUp ==
    unit \in Starting \cup {"waiting"} ~>
        unit \in {"running", "stopping", "inactive"} \/ \E l \in Lists : ~Reads("service", l)

-----------------------------------------------------------------------------
(* The inductive invariant (FactorioServerProofs) *)

\* What a start has done to the lists before the game reads them.
GuardFacts ==
    /\ unit \in {"admins", "ban", "mods", "world", "select", "link", "replace", "load", "running"} =>
         Guard \in whitelist /\ files["whitelist"] = "service"
    /\ unit \in {"ban", "mods", "world", "select", "link", "replace", "load", "running"} =>
         files["adminlist"] = "service"
    /\ unit \in {"mods", "world", "select", "link", "replace", "load", "running"} =>
         banned /\ files["banlist"] = "service"

\* A command beyond the lock has it, so that no other command and no deployment
\* starts or stops the unit; and it knows whether it found the server up.
CommandFacts == \A s \in Sessions :
    /\ job[s].step \notin {"idle", "lock"} => lock = s
    /\ job[s].step \in {"lock", "status"} => ~job[s].running
    /\ job[s].step \in {"stop", "result", "start"} => job[s].running
    /\ job[s].step = "finally" /\ ~job[s].running => unit = "inactive"
    /\ job[s].step = "start" => unit \in Up

IInv ==
    /\ TypeOK /\ GuardFacts /\ OperatorsWhitelisted
    /\ CommandFacts /\ ChangedWhileDown /\ LeftAsFound
=============================================================================
