-------------------------- MODULE SupervisedRelease --------------------------
(***************************************************************************)
(* What the release updater promises of the host it runs on, without its   *)
(* locks, traps and shell variables (docs/server-updates.md): a release    *)
(* goes live on trial.  While a trial is open the system moves only from   *)
(* the generation that ran before towards the release, then, once the      *)
(* trial has been given up, only back.  A trial comes to one of three      *)
(* outcomes: deployed, restored, or stuck when the way back failed too.    *)
(* The first two mean what they say, and a deployment is final.            *)
(***************************************************************************)
EXTENDS Naturals

CONSTANTS Releases, Paths, BasePath, PathOf

VARIABLES
    accepted,               \* the accepted release, 0 for none
    profile, boot, running, \* where the system's three pointers lead
    verified,               \* the running generation passed the health gate
    trial                   \* the trial under way

host == <<profile, boot, running, verified>>
supervised == <<accepted, host, trial>>

NoTrial == [phase |-> "none", to |-> BasePath, back |-> BasePath]

Live(path) == running = path /\ profile = path /\ boot = path

Init ==
    /\ accepted = 0
    /\ Live(BasePath)
    /\ verified = FALSE
    /\ trial = NoTrial

\* The pointers are moved in their order: the profile, the boot entry, the
\* running system.  What has just been started is not verified.
Towards(path) ==
    /\ profile' \in {profile, path}
    /\ boot' \in {boot, path} /\ (boot' # boot => profile = path)
    /\ running' \in {running, path} /\ (running' # running => boot' = path)
    /\ verified' = (verified /\ running' = running)
    /\ UNCHANGED accepted

\* The health gate decides about the generation that should run by now.
Gate(path) ==
    /\ Live(path)
    /\ verified' \in BOOLEAN
    /\ UNCHANGED <<accepted, profile, boot, running>>

Phase(phase) == trial' = [trial EXCEPT !.phase = phase]

\* Never with a release older than the accepted one.
Begin(r) ==
    /\ trial.phase = "none"
    /\ r >= accepted
    /\ trial' = [phase |-> "forward", to |-> PathOf[r], back |-> running]
    /\ UNCHANGED <<accepted, host>>

Forward ==
    /\ trial.phase = "forward"
    /\ \/ Towards(trial.to) /\ (Phase("forward") \/ Phase("back"))
       \/ Gate(trial.to) /\ Phase(IF verified' THEN "forward" ELSE "back")

Back ==
    /\ trial.phase = "back"
    /\ \/ Towards(trial.back) /\ (Phase("back") \/ Phase("stuck"))
       \/ Gate(trial.back) /\ Phase(IF verified' THEN "restored" ELSE "stuck")

\* Only what is live and verified is accepted: the release on trial, or
\* outside a trial one that runs already.
Accept(r) ==
    /\ r >= accepted
    /\ \/ trial.phase = "none"
       \/ trial.phase = "forward" /\ trial.to = PathOf[r]
    /\ Live(PathOf[r]) /\ verified
    /\ accepted' = r
    /\ UNCHANGED <<host, trial>>

Deployed ==
    /\ trial.phase = "forward"
    /\ Live(trial.to) /\ verified
    /\ accepted # 0 /\ PathOf[accepted] = trial.to
    /\ Phase("deployed")
    /\ UNCHANGED <<accepted, host>>

\* A rollback that is interrupted before it is settled is done again.
Again ==
    /\ trial.phase \in {"restored", "stuck"}
    /\ Phase("back")
    /\ UNCHANGED <<accepted, host>>

\* Adoption: profile and boot entry follow the generation that runs.
Adopt ==
    /\ trial.phase = "none"
    /\ Towards(running) \/ Gate(running)
    /\ UNCHANGED trial

\* The end of the run that supervises: once it has come to an outcome, or cut
\* off by SIGKILL or by a reboot, which starts the default boot entry.
Leave ==
    /\ \/ UNCHANGED host
       \/ running' = boot /\ verified' = FALSE /\ UNCHANGED <<profile, boot>>
    /\ trial' = NoTrial
    /\ UNCHANGED accepted

\* nixos-rebuild by the operator.
ByHand(path) ==
    /\ trial.phase = "none"
    /\ profile' = path /\ boot' = path /\ running' = path
    /\ verified' = FALSE
    /\ UNCHANGED <<accepted, trial>>

Next ==
    \/ \E r \in Releases : Begin(r) \/ Accept(r)
    \/ Forward \/ Back \/ Deployed \/ Again \/ Leave \/ Adopt
    \/ \E path \in Paths : ByHand(path)

Spec == Init /\ [][Next]_supervised
=============================================================================
