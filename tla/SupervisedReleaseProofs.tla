------------------------ MODULE SupervisedReleaseProofs ------------------------
(***************************************************************************)
(* Two more results about the release updater, on the inductive invariant  *)
(* of ServerReleaseProofs: it implements SupervisedRelease, and each of    *)
(* its runs comes closer to its end with every step.                       *)
(***************************************************************************)
EXTENDS ServerReleaseProofs

-----------------------------------------------------------------------------
(* The refinement of SupervisedRelease *)

\* While nobody has the lock, and before the holder has rooted the previous
\* generation, there is no trial.
LEMMA NoTrialYet ==
    /\ updateLock \notin Procs => Trial = Supervision!NoTrial
    /\ \A p \in Procs : updateLock = p /\ ~job[p].rooted => Trial = Supervision!NoTrial
  BY DEF Trial, Supervision!NoTrial

LEMMA NoTrialYetNext ==
    /\ updateLock' \notin Procs => Trial' = Supervision!NoTrial
    /\ \A p \in Procs : updateLock' = p /\ ~job'[p].rooted => Trial' = Supervision!NoTrial
  BY DEF Trial, Supervision!NoTrial

\* A trial is what its run says it is.
LEMMA TrialKnown ==
    ASSUME NEW p \in Procs, updateLock = p, job[p].rooted
    PROVE  /\ Trial = [phase |-> TrialPhase(p), to |-> Target(p), back |-> job[p].previous]
           /\ Trial.phase = TrialPhase(p) /\ Trial.to = Target(p) /\ Trial.back = job[p].previous
  BY DEF Trial

\* A step of the run that keeps its release moves the trial to another phase.
LEMMA TrialMoves ==
    ASSUME NEW p \in Procs, updateLock = p, updateLock' = p, job[p].rooted, job'[p].rooted,
           job'[p].release = job[p].release, job'[p].previous = job[p].previous
    PROVE  \A phase : TrialPhase(p)' = phase => Supervision!Phase(phase)
<1>1. Trial = [phase |-> TrialPhase(p), to |-> Target(p), back |-> job[p].previous]
  BY TrialKnown
<1>2. Trial' = [phase |-> TrialPhase(p)', to |-> Target(p), back |-> job[p].previous]
  BY DEF Trial, Target
<1> QED BY <1>1, <1>2 DEF Supervision!Phase

\* A step that leaves the holder of the lock alone leaves the trial alone.
LEMMA TrialKept ==
    ASSUME updateLock' = updateLock,
           updateLock \in Procs => pc'[updateLock] = pc[updateLock] /\ job'[updateLock] = job[updateLock]
    PROVE  Trial' = Trial
<1>1. CASE updateLock \notin Procs
  BY <1>1, NoTrialYet, NoTrialYetNext
<1>2. CASE updateLock \in Procs
  BY <1>2 DEF Trial, TrialPhase, Outcome, Target
<1> QED BY <1>1, <1>2

\* A run that does not have the lock changes nothing that is supervised.
LEMMA OutsideTrial ==
    ASSUME IInv, NEW p \in Procs, RunStep(p), updateLock # p
    PROVE  UNCHANGED Supervision!supervised
<1>1. LockFacts(p) /\ JobFacts(p)
  BY DEF IInv, RunFacts
<1>2. \/ Start(p) \/ TakeUpdateLock(p) \/ End(p) \/ Kill(p)
  BY <1>1, BusyStep DEF LockFacts
<1>3. UNCHANGED <<records, system>>
  BY <1>2 DEF Start, TakeUpdateLock, End, Kill
<1>4. CASE updateLock' = updateLock
  <2>1. updateLock \in Procs => pc'[updateLock] = pc[updateLock] /\ job'[updateLock] = job[updateLock]
    BY OwnStep DEF IInv
  <2> QED BY <1>3, <1>4, <2>1, TrialKept DEF records, system, Supervision!supervised, Supervision!host
<1>5. CASE updateLock' # updateLock
  <2>1. TakeUpdateLock(p) /\ updateLock = NoOne /\ updateLock' = p
    BY <1>2, <1>5 DEF Start, TakeUpdateLock, End, Kill, Ended, locks
  <2>2. job'[p] = job[p] /\ ~job[p].rooted
    BY <1>1, <2>1 DEF TakeUpdateLock, JobFacts, Fresh
  <2>3. Trial' = Trial
    BY <2>1, <2>2, NoTrialYet, NoTrialYetNext, ReleaseAssumption
  <2> QED BY <1>3, <2>3 DEF records, system, Supervision!supervised, Supervision!host
<1> QED BY <1>4, <1>5

\* Up to the activation the run with the lock has no trial.
LEMMA BeforeTrial ==
    ASSUME IInv, NEW p \in Procs, updateLock = p,
           pc[p] \in {"idle", "lock", "cleanupBefore"} \cup PreActivation
    PROVE  /\ ~job[p].rooted /\ Trial = Supervision!NoTrial /\ Trial.phase = "none"
           /\ updateLock' = p /\ ~job'[p].rooted => Trial' = Trial
<1>1. ~job[p].rooted
  BY DEF IInv, RunFacts, JobFacts, Fresh
<1> QED BY <1>1, NoTrialYet, NoTrialYetNext DEF Supervision!NoTrial

\* The steps that decide, prepare and give up change nothing that is supervised.
LEMMA PreparationStep ==
    ASSUME IInv, NEW p \in Procs, updateLock = p,
           \/ Start(p) \/ TakeUpdateLock(p) \/ Discover(p) \/ Preflight(p) \/ Verify(p) \/ Build(p)
           \/ TakeMaintenanceLock(p) \/ Recheck(p) \/ AdoptClear(p) \/ PreHealth(p) \/ Backup(p)
           \/ CleanupBefore(p)
    PROVE  UNCHANGED Supervision!supervised
<1> job \in [Procs -> Jobs]
  BY DEF IInv, TypeOK
<1>1. pc[p] \in {"idle", "lock", "cleanupBefore"} \cup PreActivation
  BY DEF Start, TakeUpdateLock, Discover, Preflight, Verify, Build, TakeMaintenanceLock, Recheck,
         AdoptClear, PreHealth, Backup, CleanupBefore, Command, PreActivation
<1>2. UNCHANGED <<accepted, system>>
  BY DEF Start, TakeUpdateLock, Discover, Preflight, Verify, Build, TakeMaintenanceLock, Recheck,
         AdoptClear, PreHealth, Backup, CleanupBefore, records
<1>3. updateLock' = p
  BY ReleaseAssumption DEF Start, TakeUpdateLock, Discover, Preflight, Verify, Build, TakeMaintenanceLock,
         Recheck, AdoptClear, PreHealth, Backup, CleanupBefore, locks
<1>4. job'[p].rooted = job[p].rooted
  <2>1. CASE Start(p)
    BY <2>1 DEF Start, Jobs
  <2>2. CASE Discover(p)
    BY <2>2 DEF Discover, Jobs
  <2>3. CASE Recheck(p)
    BY <2>3 DEF Recheck, Jobs
  <2>4. CASE CleanupBefore(p)
    BY <2>4 DEF CleanupBefore, Jobs
  <2>5. CASE TakeUpdateLock(p) \/ Preflight(p) \/ Verify(p) \/ Build(p) \/ TakeMaintenanceLock(p)
             \/ AdoptClear(p) \/ PreHealth(p) \/ Backup(p)
    BY <2>5 DEF TakeUpdateLock, Preflight, Verify, Build, TakeMaintenanceLock, AdoptClear, PreHealth, Backup
  <2> QED BY <2>1, <2>2, <2>3, <2>4, <2>5
<1> QED BY <1>1, <1>2, <1>3, <1>4, BeforeTrial DEF system, Supervision!supervised, Supervision!host

\* Adoption makes the profile and the boot entry follow what runs, and accepts it.
LEMMA AdoptionStep ==
    ASSUME IInv, NEW p \in Procs, updateLock = p,
           AdoptProfile(p) \/ AdoptBoot(p) \/ AdoptHealth(p) \/ AdoptRecord(p)
    PROVE  Supervision!Next \/ UNCHANGED Supervision!supervised
<1>1. DeployFacts(p) /\ DecisionFacts(p) /\ verified \in BOOLEAN
  BY DEF IInv, RunFacts, TypeOK
<1>2. pc[p] \in PreActivation /\ updateLock' = p /\ job' = job
  BY DEF AdoptProfile, AdoptBoot, AdoptHealth, AdoptRecord, Command, PreActivation, locks
<1>3. Trial' = Trial /\ Trial.phase = "none"
  BY <1>2, BeforeTrial
<1>4. CASE AdoptProfile(p)
  <2>1. Supervision!Towards(running)
    BY <1>1, <1>4 DEF AdoptProfile, Command, DeployFacts, Supervision!Towards, records
  <2> QED BY <1>3, <2>1 DEF Supervision!Adopt, Supervision!Next
<1>5. CASE AdoptBoot(p)
  <2>1. Supervision!Towards(running)
    BY <1>1, <1>5 DEF AdoptBoot, Command, DeployFacts, Supervision!Towards, records
  <2> QED BY <1>3, <2>1 DEF Supervision!Adopt, Supervision!Next
<1>6. CASE AdoptHealth(p)
  <2>1. Supervision!Gate(running)
    BY <1>1, <1>6 DEF AdoptHealth, Command, DeployFacts, Supervision!Gate, Supervision!Live, records
  <2> QED BY <1>3, <2>1 DEF Supervision!Adopt, Supervision!Next
<1>7. CASE AdoptRecord(p) /\ accepted' = job[p].release
  <2>1. job[p].release \in Releases /\ job[p].release >= accepted /\ UNCHANGED system
    BY <1>1, <1>7, JobType DEF IInv, AdoptRecord, Command, DecisionFacts, PreActivation
  <2>2. Supervision!Live(PathOf[job[p].release]) /\ verified
    BY <1>1, <1>7 DEF AdoptRecord, Command, DeployFacts, Target, Supervision!Live
  <2>3. Supervision!Accept(job[p].release)
    BY <1>3, <1>7, <2>1, <2>2 DEF Supervision!Accept, Supervision!host, system
  <2> QED BY <2>1, <2>3 DEF Supervision!Next
<1>8. CASE AdoptRecord(p) /\ accepted' = accepted
  BY <1>3, <1>8 DEF AdoptRecord, system, Supervision!supervised, Supervision!host
<1> QED BY <1>4, <1>5, <1>6, <1>7, <1>8 DEF AdoptRecord

\* Arming opens the trial, of a release that is not older than the accepted one.
LEMMA ArmStep ==
    ASSUME IInv, NEW p \in Procs, updateLock = p, Arm(p)
    PROVE  Supervision!Next \/ UNCHANGED Supervision!supervised
<1>1. pc[p] = "arm" /\ UNCHANGED <<accepted, system, updateLock>>
  BY DEF Arm, Command, records, locks
<1>2. Trial.phase = "none" /\ (~job'[p].rooted => Trial' = Trial)
  BY <1>1, BeforeTrial DEF PreActivation
<1>3. CASE pc'[p] # "activate"
  <2>1. job' = job
    BY <1>3 DEF Arm
  <2>2. Trial' = Trial
    BY <1>1, <1>2, <2>1, BeforeTrial DEF PreActivation
  <2> QED BY <1>1, <2>2 DEF system, Supervision!supervised, Supervision!host
<1>4. CASE pc'[p] = "activate"
  <2>1. /\ job'[p].rooted /\ job'[p].release = job[p].release /\ job'[p].previous = job[p].previous
    BY <1>4 DEF Arm, IInv, TypeOK, Jobs
  <2>2. job[p].release \in Releases /\ job[p].release >= accepted /\ job[p].previous = running
    BY <1>1, JobType DEF IInv, RunFacts, DecisionFacts, DeployFacts, PreActivation
  <2>3. Trial' = [phase |-> "forward", to |-> PathOf[job[p].release], back |-> running]
    BY <1>1, <1>4, <2>1, <2>2 DEF Trial, TrialPhase, Target, Rollback
  <2>4. Supervision!Begin(job[p].release)
    BY <1>1, <1>2, <2>2, <2>3 DEF Supervision!Begin, Supervision!host, system
  <2> QED BY <2>2, <2>4 DEF Supervision!Next
<1> QED BY <1>3, <1>4

\* The phase of a trial by the step of its run.
LEMMA PhaseBySteps ==
    ASSUME NEW p \in Procs
    PROVE  /\ pc[p] \in Activation \ {"notifyDeployed"} => TrialPhase(p) = "forward"
           /\ pc'[p] \in Activation \ {"notifyDeployed"} => TrialPhase(p)' = "forward"
           /\ pc[p] \in {"rbMark", "rbProfile", "rbSwitch", "rbCompare", "rbHealth"} => TrialPhase(p) = "back"
           /\ pc'[p] \in {"rbMark", "rbProfile", "rbSwitch", "rbCompare", "rbHealth"} => TrialPhase(p)' = "back"
           /\ pc[p] \in {"notifyDeployed", "rbFinal", "rbSettle", "rbNotify", "end"} =>
                TrialPhase(p) = Outcome(p)
           /\ pc'[p] \in {"notifyDeployed", "rbFinal", "rbSettle", "rbNotify", "end"} =>
                TrialPhase(p)' = Outcome(p)'
  BY DEF TrialPhase, Activation, Rollback

\* What the phases of an activation and of a rollback know of their run.
LEMMA OpenTrial ==
    ASSUME IInv, NEW p \in Procs, pc[p] \in Activation \cup Rollback, updateLock' = updateLock
    PROVE  /\ Trial.phase = TrialPhase(p) /\ Trial.to = Target(p) /\ Trial.back = job[p].previous
           /\ \A phase : SameRun(p) /\ TrialPhase(p)' = phase => Supervision!Phase(phase)
           /\ \A phase : job' = job /\ TrialPhase(p)' = phase => Supervision!Phase(phase)
<1>1. updateLock = p /\ job[p].rooted
  BY DEF IInv, RunFacts, LockFacts, JobFacts, InRun
<1> QED BY <1>1, TrialKnown, TrialMoves DEF SameRun

\* The steps of an activation: it goes forward, or gives up.
LEMMA ForwardStep ==
    ASSUME IInv, NEW p \in Procs, pc[p] \in Activation \ {"notifyDeployed"},
           Activate(p) \/ Switch(p) \/ Compare(p) \/ Health(p)
    PROVE  Supervision!Next
<1>1. /\ JobFacts(p) /\ DeployFacts(p) /\ TypeOK /\ verified \in BOOLEAN
      /\ job \in [Procs -> Jobs] /\ pc \in [Procs -> Steps]
  BY DEF IInv, RunFacts, TypeOK
<1>2. updateLock' = updateLock /\ accepted' = accepted
  BY DEF Activate, Switch, Compare, Health, records, locks
<1>3. job[p].armed
  BY <1>1 DEF JobFacts
<1>4. Trial.phase = "forward" /\ Trial.to = Target(p)
  BY <1>2, OpenTrial, PhaseBySteps
<1>5. BeginRollback(p) \/ ExitTrap(p) => Supervision!Phase("back")
  BY <1>1, <1>2, <1>3, CallEffects, OpenTrial, PhaseBySteps
<1>6. job' = job /\ pc'[p] \in Activation \ {"notifyDeployed"} => Supervision!Phase("forward")
  BY <1>2, OpenTrial, PhaseBySteps
<1>7. CASE Activate(p)
  <2>1. Supervision!Towards(Target(p))
    BY <1>1, <1>2, <1>7 DEF Activate, Supervision!Towards
  <2>2. CASE pc'[p] = "switch" /\ job' = [job EXCEPT ![p].touched = TRUE]
    <3>1. /\ job'[p].rooted = job[p].rooted /\ job'[p].release = job[p].release
          /\ job'[p].previous = job[p].previous
      BY <1>1, <2>2 DEF Jobs
    <3>2. updateLock = p /\ job[p].rooted
      BY DEF IInv, RunFacts, LockFacts, JobFacts, InRun
    <3>3. TrialPhase(p)' = "forward"
      BY <2>2, PhaseBySteps DEF Activation
    <3>4. Supervision!Phase("forward")
      BY <1>2, <3>1, <3>2, <3>3, TrialMoves
    <3> QED BY <1>4, <2>1, <3>4 DEF Supervision!Forward, Supervision!Next
  <2>3. CASE ExitTrap(p)
    BY <1>4, <1>5, <2>1, <2>3 DEF Supervision!Forward, Supervision!Next
  <2> QED BY <1>1, <1>7, <2>2, <2>3 DEF Activate, Goto
<1>8. CASE Switch(p)
  <2>1. profile = Target(p) /\ profile' = profile
    BY <1>1, <1>8 DEF Switch, DeployFacts
  <2>2. Supervision!Towards(Target(p))
    BY <1>1, <1>2, <1>8, <2>1 DEF Switch, SwitchTo, Supervision!Towards
  <2>3. \/ pc'[p] = "compare" /\ job' = job
        \/ BeginRollback(p)
    BY <1>1, <1>8 DEF Switch, SwitchTo, Goto
  <2> QED BY <1>4, <1>5, <1>6, <2>2, <2>3 DEF Supervision!Forward, Supervision!Next, Activation
<1>9. CASE Compare(p)
  <2>1. Supervision!Towards(Target(p))
    BY <1>1, <1>2, <1>9 DEF Compare, Supervision!Towards, system
  <2>2. \/ pc'[p] = "health" /\ job' = job
        \/ BeginRollback(p)
    BY <1>1, <1>9 DEF Compare, Goto
  <2> QED BY <1>4, <1>5, <1>6, <2>1, <2>2 DEF Supervision!Forward, Supervision!Next, Activation
<1>10. CASE Health(p)
  <2>1. Supervision!Gate(Target(p))
    BY <1>1, <1>2, <1>10 DEF Health, DeployFacts, Supervision!Gate, Supervision!Live
  <2>2. \/ verified' /\ pc'[p] = "record" /\ job' = job
        \/ ~verified' /\ BeginRollback(p)
    BY <1>1, <1>10 DEF Health, Goto
  <2> QED BY <1>4, <1>5, <1>6, <2>1, <2>2 DEF Supervision!Forward, Supervision!Next, Activation
<1> QED BY <1>7, <1>8, <1>9, <1>10

\* What leaves the system alone and gives the activation up.
LEMMA GiveUp ==
    ASSUME IInv, NEW p \in Procs, pc[p] \in Activation \ {"notifyDeployed"}, ExitTrap(p),
           UNCHANGED <<accepted, system, updateLock>>
    PROVE  Supervision!Next
<1>1. JobFacts(p) /\ TypeOK /\ verified \in BOOLEAN
  BY DEF IInv, RunFacts, TypeOK
<1>2. Trial.phase = "forward" /\ Trial.to = Target(p)
  BY OpenTrial, PhaseBySteps
<1>3. Supervision!Phase("back")
  BY <1>1, CallEffects, OpenTrial, PhaseBySteps DEF JobFacts
<1>4. Supervision!Towards(Target(p))
  BY <1>1 DEF Supervision!Towards, system
<1> QED BY <1>2, <1>3, <1>4 DEF Supervision!Forward, Supervision!Next

\* The steps that accept the release and settle its deployment.
LEMMA AcceptStep ==
    ASSUME IInv, NEW p \in Procs,
           Record(p) \/ Clear(p) \/ Commit(p) \/ NotifyDeployed(p)
    PROVE  Supervision!Next \/ UNCHANGED Supervision!supervised
<1>1. /\ JobFacts(p) /\ DeployFacts(p) /\ DecisionFacts(p) /\ job[p].release \in Releases \cup {0}
      /\ updateLock = p /\ job[p].rooted
  BY JobType DEF IInv, RunFacts, LockFacts, JobFacts, InRun, Record, Clear, Commit,
     NotifyDeployed, Activation
<1>2. /\ pc[p] \in {"record", "clear", "commit", "notifyDeployed"} /\ pc[p] \in Activation
      /\ updateLock' = updateLock /\ UNCHANGED system
  BY DEF Record, Clear, Commit, NotifyDeployed, locks, Activation
<1>3. job \in [Procs -> Jobs] /\ pc \in [Procs -> Steps]
  BY DEF IInv, TypeOK
<1>4. Trial.phase = TrialPhase(p) /\ Trial.to = Target(p)
  BY <1>2, OpenTrial
<1>5. Supervision!Live(Target(p)) /\ verified /\ job[p].release # 0
  BY <1>1, <1>2 DEF DeployFacts, DecisionFacts, Supervision!Live, Activation
<1>6. CASE ExitTrap(p) /\ accepted' = accepted /\ pc[p] # "notifyDeployed"
  BY <1>2, <1>6, GiveUp
<1>7. CASE Record(p) /\ accepted' = job[p].release /\ job' = [job EXCEPT ![p].recorded = TRUE]
           /\ pc'[p] = "clear"
  <2>1. /\ job'[p].rooted = job[p].rooted /\ job'[p].release = job[p].release
        /\ job'[p].previous = job[p].previous
    BY <1>3, <1>7 DEF Jobs
  <2>2. TrialPhase(p) = "forward" /\ TrialPhase(p)' = "forward"
    BY <1>2, <1>7, PhaseBySteps DEF Record, Activation
  <2>3. Trial' = Trial
    BY <1>1, <1>2, <2>1, <2>2, TrialKnown DEF Trial, Target
  <2>4. Supervision!Accept(job[p].release)
    BY <1>1, <1>2, <1>4, <1>5, <1>7, <2>2, <2>3
       DEF Supervision!Accept, Supervision!host, system, Target, DecisionFacts, Activation
  <2> QED BY <1>1, <1>5, <2>4 DEF Supervision!Next
<1>8. CASE Clear(p) /\ job' = job /\ pc'[p] = "commit"
  <2>1. TrialPhase(p) = "forward" /\ TrialPhase(p)' = "forward"
    BY <1>2, <1>8, PhaseBySteps DEF Clear, Activation
  <2>2. Trial' = Trial
    BY <1>1, <1>2, <1>8, <2>1, TrialKnown DEF Trial, Target
  <2> QED BY <1>2, <1>8, <2>2 DEF Clear, system, Supervision!supervised, Supervision!host
<1>9. CASE Commit(p)
  <2>1. SameRun(p) /\ job'[p].status = job[p].status /\ pc'[p] = "notifyDeployed"
    BY <1>3, <1>9 DEF Commit, Jobs, Goto, SameRun
  <2>2. TrialPhase(p) = "forward"
    BY <1>2, <1>9, PhaseBySteps DEF Commit, Activation
  <2>3. TrialPhase(p)' = "deployed"
    BY <1>1, <1>2, <2>1, PhaseBySteps DEF Outcome, JobFacts
  <2>4. Supervision!Phase("deployed")
    BY <1>2, <2>1, <2>3, OpenTrial
  <2>5. accepted = job[p].release /\ accepted' = accepted
    BY <1>1, <1>9 DEF Commit, DecisionFacts, records
  <2>6. Supervision!Deployed
    BY <1>2, <1>4, <1>5, <2>2, <2>4, <2>5 DEF Supervision!Deployed, Supervision!host, system, Target
  <2> QED BY <2>6 DEF Supervision!Next
<1>10. CASE NotifyDeployed(p)
  <2>1. /\ job'[p].rooted = job[p].rooted /\ job'[p].release = job[p].release
        /\ job'[p].previous = job[p].previous /\ job'[p].status = job[p].status
        /\ pc[p] = "notifyDeployed" /\ pc'[p] = "end"
    BY <1>3, <1>10 DEF NotifyDeployed, Jobs, Goto
  <2>2. TrialPhase(p)' = TrialPhase(p)
    BY <2>1, PhaseBySteps DEF Outcome
  <2>3. Trial' = Trial
    BY <1>1, <1>2, <2>1, <2>2, TrialKnown DEF Trial, Target
  <2> QED BY <1>2, <1>10, <2>3 DEF NotifyDeployed, records, system, Supervision!supervised, Supervision!host
<1> QED BY <1>3, <1>6, <1>7, <1>8, <1>9, <1>10 DEF Record, Clear, Goto

\* The steps of a rollback: it goes back, and says how far it came.
LEMMA BackStep ==
    ASSUME IInv, NEW p \in Procs,
           RbMark(p) \/ RbProfile(p) \/ RbSwitch(p) \/ RbCompare(p) \/ RbHealth(p)
    PROVE  Supervision!Next
<1>1. /\ JobFacts(p) /\ RestoreFacts(p) /\ TypeOK /\ verified \in BOOLEAN
      /\ job \in [Procs -> Jobs] /\ pc \in [Procs -> Steps]
  BY DEF IInv, RunFacts, TypeOK
<1>2. /\ pc[p] \in {"rbMark", "rbProfile", "rbSwitch", "rbCompare", "rbHealth"}
      /\ updateLock' = updateLock /\ accepted' = accepted
  BY DEF RbMark, RbProfile, RbSwitch, RbCompare, RbHealth, records, locks
<1>3. Trial.phase = "back" /\ Trial.back = job[p].previous
  BY <1>2, OpenTrial, PhaseBySteps DEF Rollback
<1>4. ASSUME NEW status \in RollbackStatus \ {"not-needed"}, Abandon(p, status)
      PROVE  Supervision!Phase(IF status = "succeeded" THEN "restored" ELSE "stuck")
  <2>1. pc'[p] = "rbFinal" /\ SameRun(p) /\ job'[p].status = status
    BY <1>1, <1>4, CallEffects
  <2>2. TrialPhase(p)' = (IF status = "succeeded" THEN "restored" ELSE "stuck")
    BY <2>1, PhaseBySteps DEF Outcome
  <2> QED BY <1>2, <2>1, <2>2, OpenTrial DEF Rollback
<1>5. job' = job /\ pc'[p] \in {"rbSwitch", "rbCompare", "rbHealth"} => Supervision!Phase("back")
  BY <1>2, OpenTrial, PhaseBySteps DEF Rollback
<1>6. CASE RbMark(p)
  <2>1. SameRun(p) /\ pc'[p] = "rbProfile"
    BY <1>1, <1>6 DEF RbMark, Jobs, SameRun, Goto
  <2>2. Supervision!Phase("back")
    BY <1>2, <2>1, OpenTrial, PhaseBySteps DEF Rollback
  <2>3. Supervision!Towards(job[p].previous)
    BY <1>1, <1>2, <1>6 DEF RbMark, Supervision!Towards, system
  <2> QED BY <1>3, <2>2, <2>3 DEF Supervision!Back, Supervision!Next
<1>7. CASE RbProfile(p)
  <2>1. Supervision!Towards(job[p].previous)
    BY <1>1, <1>2, <1>7 DEF RbProfile, Supervision!Towards
  <2>2. \/ pc'[p] = "rbSwitch" /\ job' = job
        \/ Abandon(p, "profile-restore-failed")
    BY <1>1, <1>7 DEF RbProfile, Goto
  <2>3. Supervision!Phase("back") \/ Supervision!Phase("stuck")
    BY <1>4, <1>5, <2>2 DEF RollbackStatus
  <2> QED BY <1>3, <2>1, <2>3 DEF Supervision!Back, Supervision!Next
<1>8. CASE RbSwitch(p)
  <2>1. profile = job[p].previous /\ profile' = profile
    BY <1>1, <1>8 DEF RbSwitch, RestoreFacts
  <2>2. Supervision!Towards(job[p].previous)
    BY <1>1, <1>2, <1>8, <2>1 DEF RbSwitch, SwitchTo, Supervision!Towards
  <2>3. \/ pc'[p] = "rbCompare" /\ job' = job
        \/ Abandon(p, "activation-failed")
    BY <1>1, <1>8 DEF RbSwitch, SwitchTo, Goto
  <2>4. Supervision!Phase("back") \/ Supervision!Phase("stuck")
    BY <1>4, <1>5, <2>3 DEF RollbackStatus
  <2> QED BY <1>3, <2>2, <2>4 DEF Supervision!Back, Supervision!Next
<1>9. CASE RbCompare(p)
  <2>1. Supervision!Towards(job[p].previous)
    BY <1>1, <1>2, <1>9 DEF RbCompare, Supervision!Towards, system
  <2>2. \/ pc'[p] = "rbHealth" /\ job' = job
        \/ Abandon(p, "store-path-mismatch")
    BY <1>1, <1>9 DEF RbCompare, Goto
  <2>3. Supervision!Phase("back") \/ Supervision!Phase("stuck")
    BY <1>4, <1>5, <2>2 DEF RollbackStatus
  <2> QED BY <1>3, <2>1, <2>3 DEF Supervision!Back, Supervision!Next
<1>10. CASE RbHealth(p)
  <2>1. Supervision!Gate(job[p].previous)
    BY <1>1, <1>2, <1>10 DEF RbHealth, RestoreFacts, Supervision!Gate, Supervision!Live
  <2>2. \/ verified' /\ Abandon(p, "succeeded")
        \/ ~verified' /\ Abandon(p, "health-check-failed")
    BY <1>10 DEF RbHealth
  <2>3. Supervision!Phase(IF verified' THEN "restored" ELSE "stuck")
    BY <1>4, <2>2 DEF RollbackStatus
  <2> QED BY <1>3, <2>1, <2>3 DEF Supervision!Back, Supervision!Next
<1> QED BY <1>6, <1>7, <1>8, <1>9, <1>10

\* Recording, settling and announcing how the rollback went.
LEMMA SettleStep ==
    ASSUME IInv, NEW p \in Procs, RbFinal(p) \/ RbSettle(p) \/ RbNotify(p)
    PROVE  UNCHANGED Supervision!supervised
<1>1. job \in [Procs -> Jobs] /\ pc \in [Procs -> Steps]
  BY DEF IInv, TypeOK
<1>2. /\ pc[p] \in {"rbFinal", "rbSettle", "rbNotify"} /\ updateLock' = updateLock
      /\ UNCHANGED <<accepted, system>>
  BY DEF RbFinal, RbSettle, RbNotify, records, locks
<1>3. updateLock = p /\ job[p].rooted
  BY <1>2 DEF IInv, RunFacts, LockFacts, JobFacts, InRun, Rollback
<1>4. /\ job'[p].rooted = job[p].rooted /\ job'[p].release = job[p].release
      /\ job'[p].previous = job[p].previous /\ job'[p].status = job[p].status
  <2>1. CASE RbFinal(p)
    BY <2>1 DEF RbFinal
  <2>2. CASE RbSettle(p)
    BY <1>1, <2>2 DEF RbSettle, Jobs
  <2>3. CASE RbNotify(p)
    BY <1>1, <2>3 DEF RbNotify, Jobs
  <2> QED BY <2>1, <2>2, <2>3
<1>5. pc'[p] \in {"rbSettle", "rbNotify", "end"}
  BY <1>1 DEF RbFinal, RbSettle, RbNotify, Goto
<1>6. TrialPhase(p)' = TrialPhase(p)
  BY <1>2, <1>4, <1>5, PhaseBySteps DEF Outcome
<1>7. Trial' = Trial
  BY <1>2, <1>3, <1>4, <1>6, TrialKnown DEF Trial, Target
<1> QED BY <1>2, <1>7 DEF system, Supervision!supervised, Supervision!host

\* A signal: nothing is lost that the traps can still put right.
LEMMA SignalStep ==
    ASSUME IInv, NEW p \in Procs, Terminate(p)
    PROVE  Supervision!Next \/ UNCHANGED Supervision!supervised
<1>1. TypeOK /\ JobFacts(p) /\ LockFacts(p) /\ verified \in BOOLEAN /\ pc \in [Procs -> Steps]
  BY DEF IInv, RunFacts, TypeOK
<1>2. UNCHANGED <<accepted, system, updateLock>>
  BY DEF Terminate, records, locks
<1>3. CASE pc[p] \in PreActivation /\ job' = job
  <2>1. updateLock = p
    BY <1>1, <1>3 DEF LockFacts, InRun
  <2>2. Trial' = Trial
    BY <1>2, <1>3, <2>1, BeforeTrial
  <2> QED BY <1>2, <2>2 DEF system, Supervision!supervised, Supervision!host
<1>4. CASE pc[p] \in Activation \ {"notifyDeployed"} /\ ExitTrap(p)
  BY <1>2, <1>4, GiveUp
<1>5. CASE pc[p] \in Rollback /\ ExitTrap(p) /\ job[p].armed
  <2>1. pc'[p] = "rbMark" /\ SameRun(p)
    BY <1>1, <1>5, CallEffects
  <2>2. Supervision!Phase("back") /\ Trial.phase = TrialPhase(p) /\ Trial.back = job[p].previous
    BY <1>2, <1>5, <2>1, OpenTrial, PhaseBySteps
  <2>3. CASE pc[p] \in {"rbFinal", "rbSettle", "rbNotify"}
    <3>1. TrialPhase(p) \in {"restored", "stuck"}
      BY <1>1, <2>3, PhaseBySteps DEF Outcome, JobFacts
    <3>2. Supervision!Again
      BY <1>2, <2>2, <3>1 DEF Supervision!Again, Supervision!host, system
    <3> QED BY <3>2 DEF Supervision!Next
  <2>4. CASE pc[p] \in {"rbMark", "rbProfile", "rbSwitch", "rbCompare", "rbHealth"}
    <3>1. TrialPhase(p) = "back"
      BY <2>4, PhaseBySteps
    <3>2. Supervision!Towards(job[p].previous)
      BY <1>1, <1>2 DEF Supervision!Towards, system
    <3> QED BY <2>2, <3>1, <3>2 DEF Supervision!Back, Supervision!Next
  <2> QED BY <1>5, <2>3, <2>4 DEF Rollback
<1>6. CASE pc[p] \in {"notifyDeployed", "rbNotify"} /\ ExitTrap(p) /\ ~job[p].armed
  <2>1. pc'[p] = "end" /\ SameRun(p) /\ job'[p].status = job[p].status
    BY <1>1, <1>6, CallEffects
  <2>2. updateLock = p /\ job[p].rooted
    BY <1>1, <1>6 DEF LockFacts, JobFacts, InRun, Activation, Rollback
  <2>3. TrialPhase(p)' = TrialPhase(p)
    BY <1>6, <2>1, PhaseBySteps DEF Outcome
  <2>4. Trial' = Trial
    BY <1>2, <2>1, <2>2, <2>3, TrialKnown DEF Trial, Target, SameRun
  <2> QED BY <1>2, <2>4 DEF system, Supervision!supervised, Supervision!host
<1>7. pc[p] \in Activation \cup Rollback /\ ~job[p].armed => pc[p] \in {"notifyDeployed", "rbNotify"}
  BY <1>1 DEF JobFacts
<1>8. pc[p] = "notifyDeployed" => ~job[p].armed
  BY <1>1 DEF JobFacts
<1> QED BY <1>3, <1>4, <1>5, <1>6, <1>7, <1>8 DEF Terminate

\* The end of the run that has the lock ends the trial.
LEMMA LeaveStep ==
    ASSUME IInv, NEW p \in Procs, updateLock = p, End(p) \/ Kill(p)
    PROVE  Supervision!Next
<1>1. updateLock' = NoOne /\ UNCHANGED <<accepted, system>>
  BY DEF End, Kill, Ended, records
<1>2. Trial' = Supervision!NoTrial
  BY <1>1, NoTrialYetNext, ReleaseAssumption
<1> QED BY <1>1, <1>2 DEF Supervision!Leave, Supervision!Next, Supervision!host, system

\* The world ends a trial with a reboot, and changes the system only outside one.
LEMMA WorldSupervised ==
    ASSUME IInv,
           \/ Reboot \/ Publish \/ Withdraw \/ ManualSwitch \/ Spoil \/ CollectGarbage
           \/ OtherTakesMaintenance \/ OtherFreesMaintenance \/ UNCHANGED vars
    PROVE  Supervision!Next \/ UNCHANGED Supervision!supervised
<1>1. CASE Reboot
  <2>1. Trial' = Supervision!NoTrial
    BY <1>1, NoTrialYetNext, ReleaseAssumption DEF Reboot
  <2> QED BY <1>1, <2>1 DEF Reboot, records, Supervision!Leave, Supervision!Next
<1>2. CASE ManualSwitch
  <2>1. updateLock \in Procs => ~job[updateLock].rooted
    BY <1>2 DEF ManualSwitch, IInv, RunFacts, JobFacts, Fresh
  <2>2. Trial = Supervision!NoTrial /\ Trial' = Trial
    BY <1>2, <2>1, NoTrialYet, TrialKept DEF ManualSwitch, locks
  <2>3. PICK path \in Paths : profile' = path /\ boot' = path /\ running' = path
    BY <1>2 DEF ManualSwitch
  <2>4. Supervision!ByHand(path)
    BY <1>2, <2>2, <2>3 DEF ManualSwitch, records, Supervision!ByHand, Supervision!NoTrial
  <2> QED BY <2>4 DEF Supervision!Next
<1>3. CASE \/ Publish \/ Withdraw \/ Spoil \/ CollectGarbage \/ OtherTakesMaintenance \/ OtherFreesMaintenance
           \/ UNCHANGED vars
  <2>1. UNCHANGED <<accepted, system, updateLock, pc, job>>
    BY <1>3 DEF Publish, Withdraw, Spoil, CollectGarbage, OtherTakesMaintenance, OtherFreesMaintenance, vars,
       records, locks
  <2>2. Trial' = Trial
    BY <2>1, TrialKept
  <2> QED BY <2>1, <2>2 DEF system, Supervision!supervised, Supervision!host
<1> QED BY <1>1, <1>2, <1>3

\* Every step of a run is one of the trial, or changes nothing that is supervised.
LEMMA RunSupervised ==
    ASSUME IInv, NEW p \in Procs, RunStep(p)
    PROVE  Supervision!Next \/ UNCHANGED Supervision!supervised
<1>1. CASE updateLock # p
  BY <1>1, OutsideTrial
<1>2. CASE updateLock = p
  <2>1. CASE \/ Start(p) \/ TakeUpdateLock(p) \/ Discover(p) \/ Preflight(p) \/ Verify(p) \/ Build(p)
             \/ TakeMaintenanceLock(p) \/ Recheck(p) \/ AdoptClear(p) \/ PreHealth(p) \/ Backup(p)
             \/ CleanupBefore(p)
    BY <1>2, <2>1, PreparationStep
  <2>2. CASE AdoptProfile(p) \/ AdoptBoot(p) \/ AdoptHealth(p) \/ AdoptRecord(p)
    BY <1>2, <2>2, AdoptionStep
  <2>3. CASE Arm(p)
    BY <1>2, <2>3, ArmStep
  <2>4. CASE Activate(p) \/ Switch(p) \/ Compare(p) \/ Health(p)
    <3>1. pc[p] \in Activation \ {"notifyDeployed"}
      BY <2>4 DEF Activate, Switch, Compare, Health, Activation
    <3> QED BY <2>4, <3>1, ForwardStep
  <2>5. CASE Record(p) \/ Clear(p) \/ Commit(p) \/ NotifyDeployed(p)
    BY <2>5, AcceptStep
  <2>6. CASE RbMark(p) \/ RbProfile(p) \/ RbSwitch(p) \/ RbCompare(p) \/ RbHealth(p)
    BY <2>6, BackStep
  <2>7. CASE RbFinal(p) \/ RbSettle(p) \/ RbNotify(p)
    BY <2>7, SettleStep
  <2>8. CASE Terminate(p)
    BY <2>8, SignalStep
  <2>9. CASE End(p) \/ Kill(p)
    BY <1>2, <2>9, LeaveStep
  <2> QED BY <2>1, <2>2, <2>3, <2>4, <2>5, <2>6, <2>7, <2>8, <2>9 DEF RunStep, Work
<1> QED BY <1>1, <1>2

\* The updater supervises what it deploys: between the arming of the rollback
\* and its conclusion the system only moves towards the release or back to the
\* generation that ran before, in the order profile, boot entry, system; what it
\* calls deployed or restored is live and verified; and a deployment is final.
THEOREM DeploymentsSupervised == Spec => Supervised
<1>1. Init => Supervision!Init
  BY NoTrialYet, ReleaseAssumption DEF Init, Supervision!Init, Supervision!Live
<1>2. IInv /\ [Next]_vars => [Supervision!Next]_(Supervision!supervised)
  BY RunSupervised, WorldSupervised DEF Next, RunStep
<1> QED BY <1>1, <1>2, UpdaterInvariance, PTL DEF Spec, Supervised, Supervision!Spec

-----------------------------------------------------------------------------
(* Progress.  That every run ends (RunsEnd) is checked by TLC under        *)
(* fairness; what of it is safety is proved here: the steps of a run count *)
(* down, and a run waits for nobody who waits for it.                      *)

\* The steps a run may still take at the most, without a signal.
Stage(step) ==
    CASE step = "idle" -> 0 [] step = "end" -> 1
      [] step = "rbNotify" -> 2 [] step = "rbSettle" -> 3 [] step = "rbFinal" -> 4
      [] step = "rbHealth" -> 5 [] step = "rbCompare" -> 6 [] step = "rbSwitch" -> 7
      [] step = "rbProfile" -> 8 [] step = "rbMark" -> 9
      [] step = "notifyDeployed" -> 10 [] step = "commit" -> 11 [] step = "clear" -> 12
      [] step = "record" -> 13 [] step = "health" -> 14 [] step = "compare" -> 15
      [] step = "switch" -> 16 [] step = "activate" -> 17
      [] step = "cleanupBefore" -> 18
      [] step \in {"arm", "adoptClear"} -> 19 [] step \in {"backup", "adoptRecord"} -> 20
      [] step \in {"preHealth", "adoptHealth"} -> 21 [] step = "adoptBoot" -> 22
      [] step = "adoptProfile" -> 23 [] step = "recheck" -> 24 [] step = "maintenance" -> 25
      [] step = "build" -> 26 [] step = "verify" -> 27 [] step = "preflight" -> 28
      [] step = "discover" -> 29 [] step = "lock" -> 30

\* A signal may begin the rollback again, but the traps are then reset: once.
Remaining(p) ==
    IF pc[p] = "idle" \/ job[p].handler = "cleanup" THEN Stage(pc[p]) ELSE Stage(pc[p]) + 10

\* A run that is under way only comes closer to its end: whatever fails and
\* whenever it is terminated, its traps cannot send it round in circles.
RunsShorten ==
    [][\A p \in Procs : pc[p] # "idle" /\ pc'[p] # pc[p] => Remaining(p)' < Remaining(p)]_vars

\* A run that has the maintenance lock has the updater lock too, so that the
\* two locks are taken in one order and no run waits for another.
LocksOrdered ==
    /\ maintenanceLock \in Procs => updateLock = maintenanceLock
    /\ \A p \in Procs : pc[p] = "maintenance" => maintenanceLock \notin Procs

\* Before the end of an activation no trap has run.
HandlerFacts(p) ==
    pc[p] \in {"idle", "lock", "cleanupBefore"} \cup PreActivation \cup Activation =>
        job[p].handler = "none"

\* The steps at which a run cannot have the maintenance lock yet.
Early == {"idle", "lock", "discover", "preflight", "verify", "build", "maintenance"}

WaitFacts ==
    maintenanceLock \in Procs => updateLock = maintenanceLock /\ pc[maintenanceLock] \notin Early

ProgressInv == WaitFacts /\ \A p \in Procs : HandlerFacts(p)

LEMMA StageValues ==
    /\ Stage("idle") = 0 /\ Stage("end") = 1
    /\ Stage("rbNotify") = 2 /\ Stage("rbSettle") = 3 /\ Stage("rbFinal") = 4
    /\ Stage("rbHealth") = 5 /\ Stage("rbCompare") = 6 /\ Stage("rbSwitch") = 7
    /\ Stage("rbProfile") = 8 /\ Stage("rbMark") = 9
    /\ Stage("notifyDeployed") = 10 /\ Stage("commit") = 11 /\ Stage("clear") = 12
    /\ Stage("record") = 13 /\ Stage("health") = 14 /\ Stage("compare") = 15
    /\ Stage("switch") = 16 /\ Stage("activate") = 17 /\ Stage("cleanupBefore") = 18
    /\ Stage("arm") = 19 /\ Stage("adoptClear") = 19 /\ Stage("backup") = 20
    /\ Stage("adoptRecord") = 20 /\ Stage("preHealth") = 21 /\ Stage("adoptHealth") = 21
    /\ Stage("adoptBoot") = 22 /\ Stage("adoptProfile") = 23 /\ Stage("recheck") = 24
    /\ Stage("maintenance") = 25 /\ Stage("build") = 26 /\ Stage("verify") = 27
    /\ Stage("preflight") = 28 /\ Stage("discover") = 29 /\ Stage("lock") = 30
  BY DEF Stage

\* A step to a later command, with the traps as they are.
Onward(p) ==
    /\ Stage(pc'[p]) < Stage(pc[p]) /\ Stage(pc[p]) \in Nat /\ Stage(pc'[p]) \in Nat
    /\ job'[p].handler = job[p].handler
    /\ pc[p] \notin Early => pc'[p] \notin Early
    /\ pc'[p] \in Activation => pc[p] \in PreActivation \cup Activation
    /\ pc'[p] \in PreActivation \cup {"cleanupBefore"} => pc[p] \in PreActivation \cup {"lock"}
    /\ pc'[p] \notin {"idle", "lock"}

\* The commands before the activation.
LEMMA OnwardBefore ==
    ASSUME TypeOK, NEW p \in Procs,
           \/ TakeUpdateLock(p) \/ Discover(p) \/ Preflight(p) \/ Verify(p) \/ Build(p)
           \/ TakeMaintenanceLock(p) \/ Recheck(p) \/ AdoptProfile(p) \/ AdoptBoot(p)
           \/ AdoptHealth(p) \/ AdoptRecord(p) \/ AdoptClear(p) \/ PreHealth(p) \/ Backup(p)
           \/ Arm(p) \/ CleanupBefore(p)
    PROVE  Onward(p)
<1> job \in [Procs -> Jobs] /\ pc \in [Procs -> Steps]
  BY DEF TypeOK
<1> USE StageValues DEF Onward, Goto, Early, PreActivation, Activation
<1>1. CASE TakeUpdateLock(p)
  BY <1>1 DEF TakeUpdateLock
<1>2. CASE Discover(p)
  <2>1. job'[p].handler = job[p].handler
    <3>1. job' = job \/ job' = [job EXCEPT ![p].release = latest]
      BY <1>2 DEF Discover
    <3>2. CASE job' = [job EXCEPT ![p].release = latest]
      BY <3>2 DEF Jobs
    <3> QED BY <3>1, <3>2
  <2> QED BY <1>2, <2>1 DEF Discover
<1>3. CASE Preflight(p) \/ Verify(p)
  BY <1>3 DEF Preflight, Verify, Command
<1>4. CASE Build(p)
  BY <1>4 DEF Build, Command
<1>5. CASE TakeMaintenanceLock(p)
  BY <1>5 DEF TakeMaintenanceLock
<1>6. CASE Recheck(p)
  <2>1. job'[p].handler = job[p].handler
    BY <1>6 DEF Recheck, Jobs
  <2> QED BY <1>6, <2>1 DEF Recheck, Command
<1>7. CASE AdoptProfile(p) \/ AdoptBoot(p) \/ AdoptHealth(p)
  BY <1>7 DEF AdoptProfile, AdoptBoot, AdoptHealth, Command
<1>8. CASE AdoptRecord(p) \/ AdoptClear(p)
  BY <1>8 DEF AdoptRecord, AdoptClear, Command
<1>9. CASE PreHealth(p) \/ Backup(p)
  BY <1>9 DEF PreHealth, Backup, Command
<1>10. CASE Arm(p)
  <2>1. job'[p].handler = job[p].handler
    BY <1>10 DEF Arm, Jobs
  <2> QED BY <1>10, <2>1 DEF Arm, Command
<1>11. CASE CleanupBefore(p)
  <2>1. job'[p].handler = job[p].handler
    BY <1>11 DEF CleanupBefore, Jobs
  <2> QED BY <1>11, <2>1 DEF CleanupBefore
<1> QED BY <1>1, <1>2, <1>3, <1>4, <1>5, <1>6, <1>7, <1>8, <1>9, <1>10, <1>11

\* A failure or a signal under the traps of line 790.
Trapped(p) ==
    \/ pc[p] \in Activation /\ pc'[p] = "rbMark" /\ job'[p].handler = "fail"
    \/ /\ pc[p] \in Activation \/ (pc[p] \in Rollback /\ job[p].handler # "cleanup")
       /\ pc'[p] \in {"rbMark", "end"} /\ job'[p].handler = "cleanup"

LEMMA Traps ==
    ASSUME TypeOK, NEW p \in Procs
    PROVE  /\ BeginRollback(p) => pc'[p] = "rbMark" /\ job'[p].handler = "fail"
           /\ ExitTrap(p) => pc'[p] \in {"rbMark", "end"} /\ job'[p].handler = "cleanup"
           /\ \A s : Abandon(p, s) => pc'[p] = "rbFinal" /\ job'[p].handler = job[p].handler
  BY DEF TypeOK, Jobs, BeginRollback, ExitTrap, Abandon, Goto

LEMMA OnwardActivation ==
    ASSUME TypeOK, NEW p \in Procs,
           \/ Activate(p) \/ Switch(p) \/ Compare(p) \/ Health(p) \/ Record(p)
           \/ Clear(p) \/ Commit(p) \/ NotifyDeployed(p)
    PROVE  Onward(p) \/ Trapped(p)
<1> job \in [Procs -> Jobs] /\ pc \in [Procs -> Steps]
  BY DEF TypeOK
<1>0. pc[p] \in Activation
  BY DEF Activate, Switch, Compare, Health, Record, Clear, Commit, NotifyDeployed, Activation
<1>1. BeginRollback(p) \/ ExitTrap(p) => Trapped(p)
  BY <1>0, Traps DEF Trapped
<1> USE StageValues DEF Onward, Goto, Early, PreActivation, Activation
<1>2. CASE Activate(p)
  <2>1. job' = [job EXCEPT ![p].touched = TRUE] => job'[p].handler = job[p].handler
    BY DEF Jobs
  <2> QED BY <1>1, <1>2, <2>1 DEF Activate
<1>3. CASE Switch(p)
  BY <1>1, <1>3 DEF Switch, SwitchTo
<1>4. CASE Compare(p) \/ Health(p)
  BY <1>1, <1>4 DEF Compare, Health
<1>5. CASE Record(p)
  <2>1. job' = [job EXCEPT ![p].recorded = TRUE] => job'[p].handler = job[p].handler
    BY DEF Jobs
  <2> QED BY <1>1, <1>5, <2>1 DEF Record
<1>6. CASE Clear(p)
  BY <1>1, <1>6 DEF Clear
<1>7. CASE Commit(p)
  <2>1. job'[p].handler = job[p].handler
    BY <1>7 DEF Commit, Jobs
  <2> QED BY <1>7, <2>1 DEF Commit
<1>8. CASE NotifyDeployed(p)
  <2>1. job'[p].handler = job[p].handler
    BY <1>8 DEF NotifyDeployed, Jobs
  <2> QED BY <1>8, <2>1 DEF NotifyDeployed
<1> QED BY <1>2, <1>3, <1>4, <1>5, <1>6, <1>7, <1>8

LEMMA OnwardRollback ==
    ASSUME TypeOK, NEW p \in Procs,
           \/ RbMark(p) \/ RbProfile(p) \/ RbSwitch(p) \/ RbCompare(p) \/ RbHealth(p)
           \/ RbFinal(p) \/ RbSettle(p) \/ RbNotify(p)
    PROVE  Onward(p)
<1> job \in [Procs -> Jobs] /\ pc \in [Procs -> Steps]
  BY DEF TypeOK
<1> USE StageValues DEF Onward, Goto, Early, PreActivation, Activation
<1>1. CASE RbMark(p)
  <2>1. job'[p].handler = job[p].handler
    BY <1>1 DEF RbMark, Jobs
  <2> QED BY <1>1, <2>1 DEF RbMark
<1>2. CASE RbProfile(p)
  BY <1>2, Traps DEF RbProfile
<1>3. CASE RbSwitch(p)
  BY <1>3, Traps DEF RbSwitch, SwitchTo
<1>4. CASE RbCompare(p) \/ RbHealth(p)
  BY <1>4, Traps DEF RbCompare, RbHealth
<1>5. CASE RbFinal(p)
  BY <1>5 DEF RbFinal
<1>6. CASE RbSettle(p)
  <2>1. job'[p].handler = job[p].handler
    BY <1>6 DEF RbSettle, Jobs
  <2> QED BY <1>6, <2>1 DEF RbSettle
<1>7. CASE RbNotify(p)
  <2>1. job'[p].handler = job[p].handler
    BY <1>7 DEF RbNotify, Jobs
  <2> QED BY <1>7, <2>1 DEF RbNotify
<1> QED BY <1>1, <1>2, <1>3, <1>4, <1>5, <1>6, <1>7

\* The four ways in which a run goes on.
LEMMA GoesOn ==
    ASSUME TypeOK, NEW p \in Procs, RunStep(p)
    PROVE  \/ Onward(p) \/ Trapped(p)
           \/ pc[p] = "idle" /\ pc'[p] = "lock" /\ job'[p].handler = job[p].handler /\ UNCHANGED locks
           \/ pc[p] # "idle" /\ pc'[p] = "idle" /\ job'[p] = NoJob /\ Ended(p)
<1> job \in [Procs -> Jobs] /\ pc \in [Procs -> Steps]
  BY DEF TypeOK
<1>1. CASE Start(p)
  BY <1>1 DEF Start, Goto, Jobs
<1>2. CASE Terminate(p)
  <2>1. CASE pc[p] \in PreActivation /\ Goto(p, "cleanupBefore") /\ job' = job
    BY <2>1, StageValues DEF Goto, Onward, Early, PreActivation, Activation
  <2>2. CASE pc[p] \in Activation \cup Rollback /\ job[p].handler # "cleanup" /\ ExitTrap(p)
    BY <2>2, Traps DEF Trapped
  <2> QED BY <1>2, <2>1, <2>2 DEF Terminate
<1>3. CASE End(p) \/ Kill(p)
  BY <1>3 DEF End, Kill, Ended
<1> QED BY <1>1, <1>2, <1>3, OnwardBefore, OnwardActivation, OnwardRollback DEF RunStep, Work

\* A run past the activation may start it over only through its traps.
LEMMA Shorter ==
    ASSUME TypeOK, NEW p \in Procs, RunStep(p), HandlerFacts(p), pc[p] # "idle"
    PROVE  Remaining(p)' < Remaining(p)
<1> pc \in [Procs -> Steps]
  BY DEF TypeOK
<1>1. CASE Onward(p)
  BY <1>1 DEF Onward, Remaining
<1>2. CASE Trapped(p)
  BY <1>2, StageValues DEF Trapped, Remaining, HandlerFacts, Activation, Rollback
<1>3. CASE pc[p] # "idle" /\ pc'[p] = "idle"
  <2>1. Stage(pc[p]) \in Nat /\ Stage(pc[p]) > 0
    BY <1>3, StageValues DEF Steps, PreActivation, Activation, Rollback
  <2> QED BY <1>3, <2>1, StageValues DEF Remaining
<1> QED BY <1>1, <1>2, <1>3, GoesOn

\* The steps that take or free a lock.
LEMMA RunLocks ==
    ASSUME NEW p \in Procs, RunStep(p)
    PROVE  \/ TakeUpdateLock(p) \/ TakeMaintenanceLock(p) \/ End(p) \/ Kill(p) \/ UNCHANGED locks
<1>1. CASE Start(p) \/ Discover(p) \/ Preflight(p) \/ Verify(p) \/ Build(p) \/ Recheck(p)
           \/ AdoptProfile(p) \/ AdoptBoot(p) \/ AdoptHealth(p) \/ AdoptRecord(p) \/ AdoptClear(p)
  BY <1>1 DEF Start, Discover, Preflight, Verify, Build, Recheck, AdoptProfile, AdoptBoot, AdoptHealth,
     AdoptRecord, AdoptClear
<1>2. CASE PreHealth(p) \/ Backup(p) \/ Arm(p) \/ Activate(p) \/ Switch(p) \/ Compare(p)
           \/ Health(p) \/ Record(p) \/ Clear(p) \/ Commit(p) \/ NotifyDeployed(p)
  BY <1>2 DEF PreHealth, Backup, Arm, Activate, Switch, Compare, Health, Record, Clear, Commit,
     NotifyDeployed
<1>3. CASE RbMark(p) \/ RbProfile(p) \/ RbSwitch(p) \/ RbCompare(p) \/ RbHealth(p) \/ RbFinal(p)
           \/ RbSettle(p) \/ RbNotify(p) \/ CleanupBefore(p) \/ Terminate(p)
  BY <1>3 DEF RbMark, RbProfile, RbSwitch, RbCompare, RbHealth, RbFinal, RbSettle, RbNotify,
     CleanupBefore, Terminate
<1> QED BY <1>1, <1>2, <1>3 DEF RunStep, Work

\* A run keeps what the progress of the runs rests on.
LEMMA ProgressRun ==
    ASSUME IInv, ProgressInv, NEW p \in Procs, RunStep(p)
    PROVE  ProgressInv'
<1>1. TypeOK /\ HandlerFacts(p) /\ LockFacts(p) /\ pc \in [Procs -> Steps] /\ job \in [Procs -> Jobs]
  BY DEF IInv, RunFacts, TypeOK, ProgressInv
<1>2. ASSUME NEW q \in Procs PROVE HandlerFacts(q)'
  <2>1. CASE q = p
    <3>1. CASE Onward(p)
      BY <1>1, <2>1, <3>1 DEF Onward, HandlerFacts
    <3>2. CASE Trapped(p)
      BY <2>1, <3>2 DEF Trapped, HandlerFacts, PreActivation, Activation, Rollback
    <3>3. CASE pc[p] = "idle" /\ job'[p].handler = job[p].handler
      BY <1>1, <2>1, <3>3 DEF HandlerFacts
    <3>4. CASE job'[p] = NoJob
      BY <2>1, <3>4 DEF HandlerFacts, NoJob
    <3> QED BY <1>1, <3>1, <3>2, <3>3, <3>4, GoesOn
  <2>2. CASE q # p
    BY <1>1, <2>2, OwnStep DEF ProgressInv, HandlerFacts
  <2> QED BY <2>1, <2>2
<1>3. WaitFacts'
  <2>1. WaitFacts
    BY DEF ProgressInv
  <2>2. CASE Ended(p) /\ pc'[p] = "idle"
    <3>1. maintenanceLock' \in Procs => maintenanceLock # p /\ maintenanceLock' = maintenanceLock
      BY <2>2, ReleaseAssumption DEF Ended
    <3>2. maintenanceLock' \in Procs => updateLock' = maintenanceLock' /\ pc'[maintenanceLock] = pc[maintenanceLock]
      BY <1>1, <2>1, <2>2, <3>1, OwnStep DEF Ended, WaitFacts
    <3> QED BY <2>1, <3>1, <3>2 DEF WaitFacts
  <2>3. CASE TakeMaintenanceLock(p)
    BY <1>1, <2>3 DEF TakeMaintenanceLock, LockFacts, InRun, PreActivation, WaitFacts, Goto, Early
  <2>4. CASE TakeUpdateLock(p)
    <3>1. maintenanceLock' = maintenanceLock /\ (updateLock = NoOne \/ updateLock' = updateLock)
      BY <2>4 DEF TakeUpdateLock
    <3>2. maintenanceLock \in Procs => maintenanceLock # p /\ updateLock # NoOne
      BY <2>1, <2>4, ReleaseAssumption DEF TakeUpdateLock, WaitFacts, Early
    <3>3. maintenanceLock \in Procs => pc'[maintenanceLock] = pc[maintenanceLock]
      BY <1>1, <3>2, OwnStep
    <3> QED BY <2>1, <3>1, <3>2, <3>3 DEF WaitFacts
  <2>5. CASE UNCHANGED locks /\ (Onward(p) \/ Trapped(p) \/ pc[p] = "idle")
    <3>1. CASE maintenanceLock = p
      BY <2>1, <2>5, <3>1 DEF WaitFacts, locks, Onward, Trapped, Early, Activation, Rollback
    <3>2. CASE maintenanceLock # p
      BY <1>1, <2>1, <2>5, <3>2, OwnStep DEF WaitFacts, locks
    <3> QED BY <3>1, <3>2
  <2>6. \/ TakeUpdateLock(p) \/ TakeMaintenanceLock(p) \/ End(p) \/ Kill(p) \/ UNCHANGED locks
    BY RunLocks
  <2>7. End(p) \/ Kill(p) => Ended(p) /\ pc'[p] = "idle"
    BY <1>1 DEF End, Kill, Ended
  <2> QED BY <1>1, <2>2, <2>3, <2>4, <2>5, <2>6, <2>7, GoesOn
<1> QED BY <1>2, <1>3 DEF ProgressInv

LEMMA ProgressStep == IInv /\ ProgressInv /\ [Next]_vars => ProgressInv'
<1> SUFFICES ASSUME IInv, ProgressInv, [Next]_vars PROVE ProgressInv' OBVIOUS
<1>1. CASE \E p \in Procs : RunStep(p)
  BY <1>1, ProgressRun
<1>2. CASE Reboot
  BY <1>2, ReleaseAssumption DEF Reboot, ProgressInv, WaitFacts, HandlerFacts, NoJob
<1>3. CASE OtherTakesMaintenance \/ OtherFreesMaintenance
  BY <1>3, ReleaseAssumption
     DEF OtherTakesMaintenance, OtherFreesMaintenance, ProgressInv, WaitFacts, HandlerFacts
<1>4. CASE Publish \/ Withdraw \/ ManualSwitch \/ Spoil \/ CollectGarbage \/ UNCHANGED vars
  <2>1. UNCHANGED <<locks, pc, job>>
    BY <1>4 DEF Publish, Withdraw, ManualSwitch, Spoil, CollectGarbage, vars
  <2> QED BY <2>1 DEF locks, ProgressInv, WaitFacts, HandlerFacts
<1> QED BY <1>1, <1>2, <1>3, <1>4 DEF Next, RunStep

LEMMA ProgressInvariance == Spec => []ProgressInv
<1>1. Init => ProgressInv
  BY ReleaseAssumption DEF Init, ProgressInv, WaitFacts, HandlerFacts, NoJob
<1> QED BY <1>1, ProgressStep, UpdaterInvariance, PTL DEF Spec

\* Each step of a run brings it closer to its end, whatever fails and however
\* often it is signalled: the safety part of RunsEnd (the traps of lines 191
\* and 790, and rollback_deployment).
THEOREM RunsComeToAnEnd == Spec => RunsShorten
<1>1. IInv /\ ProgressInv /\ [Next]_vars =>
        [\A p \in Procs : pc[p] # "idle" /\ pc'[p] # pc[p] => Remaining(p)' < Remaining(p)]_vars
  <2> SUFFICES ASSUME IInv, ProgressInv, Next, NEW p \in Procs, pc[p] # "idle", pc'[p] # pc[p]
               PROVE  Remaining(p)' < Remaining(p)
    OBVIOUS
  <2>1. TypeOK /\ HandlerFacts(p) /\ pc \in [Procs -> Steps]
    BY DEF IInv, TypeOK, ProgressInv
  <2>2. CASE \E q \in Procs : RunStep(q)
    <3>1. PICK q \in Procs : RunStep(q)
      BY <2>2
    <3>2. p = q
      BY <2>1, <3>1, OwnStep
    <3> QED BY <2>1, <3>1, <3>2, Shorter
  <2>3. CASE Reboot
    <3>1. pc'[p] = "idle" /\ Stage(pc[p]) \in Nat /\ Stage(pc[p]) > 0
      BY <2>1, <2>3, StageValues DEF Reboot, Steps, PreActivation, Activation, Rollback
    <3> QED BY <3>1, StageValues DEF Remaining
  <2>4. CASE \/ Publish \/ Withdraw \/ ManualSwitch \/ Spoil \/ CollectGarbage
             \/ OtherTakesMaintenance \/ OtherFreesMaintenance
    BY <2>4 DEF Publish, Withdraw, ManualSwitch, Spoil, CollectGarbage, OtherTakesMaintenance,
                OtherFreesMaintenance
  <2> QED BY <2>2, <2>3, <2>4 DEF Next, RunStep
<1> QED BY <1>1, UpdaterInvariance, ProgressInvariance, PTL DEF Spec, RunsShorten

\* No run waits for the maintenance lock of another run (lines 167-172, 585-590).
THEOREM NoRunWaitsForARun == Spec => []LocksOrdered
<1>1. IInv /\ ProgressInv => LocksOrdered
  <2> SUFFICES ASSUME IInv, ProgressInv PROVE LocksOrdered
    OBVIOUS
  <2>1. ASSUME NEW p \in Procs, pc[p] = "maintenance" PROVE maintenanceLock \notin Procs
    <3>1. updateLock = p
      BY <2>1 DEF IInv, RunFacts, LockFacts, InRun, PreActivation
    <3> QED BY <2>1, <3>1 DEF ProgressInv, WaitFacts, Early
  <2> QED BY <2>1 DEF ProgressInv, WaitFacts, LocksOrdered
<1> QED BY <1>1, UpdaterInvariance, ProgressInvariance, PTL
================================================================================
