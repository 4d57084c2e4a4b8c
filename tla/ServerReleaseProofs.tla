------------------------- MODULE ServerReleaseProofs -------------------------
(***************************************************************************)
(* The safety of the release updater, for any releases, store paths and    *)
(* bounds.  RunFacts(p) says what the run p knows at each of its steps.    *)
(* A step of p is shown to keep RunFacts(p) (SelfStep); it cannot disturb  *)
(* another run (OthersStep), because that run is quiet while p has the     *)
(* lock; and neither can the world (WorldStep).                            *)
(***************************************************************************)
EXTENDS ServerRelease, TLAPS

\* A step of one run.
RunStep(p) == Work(p) \/ Start(p) \/ TakeMaintenanceLock(p) \/ Terminate(p) \/ Kill(p)

\* An assignment to one of the shell variables.
LEMMA Assigned ==
    ASSUME NEW j \in Jobs
    PROVE  /\ \A r \in Releases \cup {0} : [j EXCEPT !.release = r] \in Jobs
           /\ \A g \in Paths : [j EXCEPT !.previous = g] \in Jobs
           /\ \A b \in BOOLEAN : /\ [j EXCEPT !.force = b] \in Jobs /\ [j EXCEPT !.armed = b] \in Jobs
                               /\ [j EXCEPT !.rooted = b] \in Jobs /\ [j EXCEPT !.touched = b] \in Jobs
                               /\ [j EXCEPT !.recorded = b] \in Jobs
           /\ \A h \in {"fail", "cleanup"} : [j EXCEPT !.handler = h] \in Jobs
           /\ \A s \in RollbackStatus : [j EXCEPT !.status = s] \in Jobs
           /\ \A n \in Notices : [j EXCEPT !.notices = Append(j.notices, n)] \in Jobs
           /\ [j EXCEPT !.notices = j.notices] \in Jobs
<1>1. /\ \A r \in Releases \cup {0} : [j EXCEPT !.release = r] \in Jobs
      /\ \A g \in Paths : [j EXCEPT !.previous = g] \in Jobs
  BY DEF Jobs
<1>2. ASSUME NEW b \in BOOLEAN
      PROVE  /\ [j EXCEPT !.force = b] \in Jobs /\ [j EXCEPT !.armed = b] \in Jobs
             /\ [j EXCEPT !.rooted = b] \in Jobs /\ [j EXCEPT !.touched = b] \in Jobs
             /\ [j EXCEPT !.recorded = b] \in Jobs
  BY DEF Jobs
<1>3. \A h \in {"fail", "cleanup"} : [j EXCEPT !.handler = h] \in Jobs
  BY DEF Jobs
<1>4. \A s \in RollbackStatus : [j EXCEPT !.status = s] \in Jobs
  BY DEF Jobs
<1>5. ASSUME NEW n \in Notices PROVE [j EXCEPT !.notices = Append(j.notices, n)] \in Jobs
  <2>1. j.notices \in Seq(Notices)
    BY DEF Jobs
  <2>2. Append(j.notices, n) \in Seq(Notices)
    BY <2>1
  <2> QED BY <2>2 DEF Jobs
<1>6. [j EXCEPT !.notices = j.notices] \in Jobs
  BY DEF Jobs
<1> QED BY <1>1, <1>2, <1>3, <1>4, <1>5, <1>6

\* A run that has not started has no variables to speak of.
LEMMA NoJobType == NoJob \in Jobs
  BY ReleaseAssumption DEF Jobs, NoJob, RollbackStatus

\* The variables of a run that other state is set from.
LEMMA JobType ==
    ASSUME TypeOK, NEW p \in Procs
    PROVE  /\ job[p].release \in Releases \cup {0} /\ job[p].previous \in Paths
           /\ job[p].status \in RollbackStatus
  BY DEF TypeOK, Jobs

\* The functions that several steps call keep the type of job.
LEMMA CallTypes ==
    ASSUME job \in [Procs -> Jobs], NEW p \in Procs
    PROVE  /\ BeginRollback(p) \/ ExitTrap(p) => job' \in [Procs -> Jobs]
           /\ \A s \in RollbackStatus : Abandon(p, s) => job' \in [Procs -> Jobs]
<1>1. ASSUME BeginRollback(p) PROVE job' \in [Procs -> Jobs]
  BY <1>1, Assigned DEF BeginRollback
<1>2. ASSUME ExitTrap(p) PROVE job' \in [Procs -> Jobs]
  BY <1>2, Assigned DEF ExitTrap
<1>3. ASSUME NEW s \in RollbackStatus, Abandon(p, s) PROVE job' \in [Procs -> Jobs]
  BY <1>3, Assigned DEF Abandon
<1> QED BY <1>1, <1>2, <1>3

\* The shell variables keep their types: one step per action that assigns to one.
LEMMA JobStep == 
    ASSUME TypeOK, NEW p \in Procs, RunStep(p)
    PROVE  job' \in [Procs -> Jobs]
<1> job \in [Procs -> Jobs]
  BY DEF TypeOK
<1>1. CASE Start(p)
  <2>1. PICK force \in BOOLEAN : job' = [job EXCEPT ![p].force = force]
    BY <1>1 DEF Start
  <2> QED BY <2>1, Assigned
<1>2. CASE Discover(p)
  <2>1. latest \in Releases \cup {0}
    BY DEF TypeOK
  <2>2. job' = job \/ job' = [job EXCEPT ![p].release = latest]
    BY <1>2 DEF Discover
  <2>3. CASE job' = job
    BY <2>3
  <2>4. CASE job' = [job EXCEPT ![p].release = latest]
    BY <2>1, <2>4, Assigned
  <2> QED BY <2>2, <2>3, <2>4
<1>3. CASE Recheck(p)
  BY <1>3, Assigned DEF Recheck, TypeOK
<1>4. CASE Arm(p)
  BY <1>4, Assigned DEF Arm
<1>5. CASE Activate(p)
  <2>1. job' = [job EXCEPT ![p].touched = TRUE] \/ ExitTrap(p)
    BY <1>5 DEF Activate
  <2>2. CASE job' = [job EXCEPT ![p].touched = TRUE]
    BY <2>2, Assigned
  <2> QED BY <2>1, <2>2, CallTypes
<1>6. CASE Record(p)
  <2>1. job' = [job EXCEPT ![p].recorded = TRUE] \/ ExitTrap(p)
    BY <1>6 DEF Record
  <2>2. CASE job' = [job EXCEPT ![p].recorded = TRUE]
    BY <2>2, Assigned
  <2> QED BY <2>1, <2>2, CallTypes
<1>7. CASE Switch(p) \/ Compare(p) \/ Health(p) \/ Clear(p) \/ Terminate(p)
  <2>1. UNCHANGED job \/ BeginRollback(p) \/ ExitTrap(p)
    BY <1>7 DEF Switch, Compare, Health, Clear, Terminate, SwitchTo
  <2> QED BY <2>1, CallTypes
<1>8. CASE RbProfile(p) \/ RbSwitch(p) \/ RbCompare(p) \/ RbHealth(p)
  <2>1. UNCHANGED job \/ \E s \in RollbackStatus : Abandon(p, s)
    BY <1>8 DEF RbProfile, RbSwitch, RbCompare, RbHealth, SwitchTo, RollbackStatus
  <2> QED BY <2>1, CallTypes
<1>9. CASE Commit(p) \/ RbSettle(p)
  BY <1>9, Assigned DEF Commit, RbSettle
<1>10. CASE RbMark(p)
  BY <1>10, Assigned DEF RbMark, RollbackStatus
<1>11. CASE NotifyDeployed(p)
  BY <1>11, Assigned DEF NotifyDeployed, Notify, Notices
<1>12. CASE RbNotify(p)
  BY <1>12, Assigned DEF RbNotify, Notify, Notices
<1>13. CASE CleanupBefore(p)
  BY <1>13, Assigned DEF CleanupBefore, Notify, Notices
<1>14. CASE End(p) \/ Kill(p)
  BY <1>14, NoJobType DEF End, Kill, Ended
<1>15. CASE TakeUpdateLock(p) \/ Preflight(p) \/ Verify(p) \/ Build(p) \/ AdoptProfile(p)
            \/ AdoptBoot(p) \/ AdoptHealth(p) \/ AdoptRecord(p) \/ AdoptClear(p) \/ PreHealth(p)
            \/ Backup(p) \/ RbFinal(p) \/ TakeMaintenanceLock(p)
  BY <1>15 DEF TakeUpdateLock, Preflight, Verify, Build, AdoptProfile, AdoptBoot, AdoptHealth,
     AdoptRecord, AdoptClear, PreHealth, Backup, RbFinal, TakeMaintenanceLock
<1> QED BY <1>1, <1>2, <1>3, <1>4, <1>5, <1>6, <1>7, <1>8, <1>9, <1>10, <1>11, <1>12, <1>13, <1>14,
           <1>15 DEF Work, RunStep

\* Every action goes to a step.
LEMMA PcStep ==
    ASSUME TypeOK, NEW p \in Procs,
           RunStep(p)
    PROVE  pc' \in [Procs -> Steps]
<1>1. ASSUME NEW s \in Steps, Goto(p, s) PROVE pc' \in [Procs -> Steps]
  BY <1>1 DEF Goto, TypeOK
<1> SUFFICES \E s \in Steps : Goto(p, s)
  BY <1>1
<1> USE DEF Steps, PreActivation, Activation, Rollback
<1>2. CASE Preflight(p) \/ Verify(p) \/ Build(p) \/ Recheck(p) \/ AdoptProfile(p) \/ AdoptBoot(p)
           \/ AdoptHealth(p) \/ AdoptRecord(p) \/ AdoptClear(p) \/ PreHealth(p) \/ Backup(p) \/ Arm(p)
  BY <1>2 DEF Preflight, Verify, Build, Recheck, AdoptProfile, AdoptBoot, AdoptHealth, AdoptRecord,
     AdoptClear, PreHealth, Backup, Arm, Command
<1>3. CASE Start(p) \/ TakeUpdateLock(p) \/ Discover(p) \/ TakeMaintenanceLock(p) \/ NotifyDeployed(p)
           \/ RbNotify(p) \/ CleanupBefore(p)
  BY <1>3 DEF Start, TakeUpdateLock, Discover, TakeMaintenanceLock, NotifyDeployed, RbNotify, CleanupBefore
<1>4. CASE Activate(p) \/ Switch(p) \/ Compare(p) \/ Health(p) \/ Record(p) \/ Clear(p) \/ Commit(p)
           \/ Terminate(p)
  BY <1>4 DEF Activate, Switch, Compare, Health, Record, Clear, Commit, Terminate, SwitchTo,
     BeginRollback, ExitTrap
<1>5. CASE RbMark(p) \/ RbProfile(p) \/ RbSwitch(p) \/ RbCompare(p) \/ RbHealth(p) \/ RbFinal(p) \/ RbSettle(p)
  BY <1>5 DEF RbMark, RbProfile, RbSwitch, RbCompare, RbHealth, RbFinal, RbSettle, SwitchTo, Abandon
<1>6. CASE End(p) \/ Kill(p)
  BY <1>6 DEF End, Kill, Ended, Goto
<1> QED BY <1>2, <1>3, <1>4, <1>5, <1>6 DEF Work, RunStep

\* What a run does to the records and the system has the right types.  The release
\* that it writes has been decided on (DecisionFacts).
LEMMA SystemTypes ==
    ASSUME TypeOK, NEW p \in Procs, RunFacts(p),
           RunStep(p)
    PROVE  /\ accepted' \in Releases \cup {0} /\ legible' \in BOOLEAN
           /\ failed' \in [release : Releases \cup {0},
                           status : RollbackStatus \cup {"none", "in-progress", "malformed"}]
           /\ profile' \in Paths /\ boot' \in Paths /\ running' \in Paths
           /\ store' \in SUBSET Paths
           /\ updateLock' \in Procs \cup {NoOne}
           /\ maintenanceLock' \in Procs \cup {NoOne, Other}
           /\ verified' \in BOOLEAN
           /\ UNCHANGED disruptions \/ Disrupted
           /\ latest' = latest
<1>1. /\ job[p].release \in Releases \cup {0} /\ job[p].previous \in Paths
      /\ job[p].status \in RollbackStatus
  BY JobType
<1>0. pc[p] \in {"build", "adoptProfile", "adoptBoot", "switch"} => Target(p) \in Paths
  BY <1>1, ReleaseAssumption DEF Target, RunFacts, DecisionFacts, PreActivation, Activation
<1> USE <1>0, <1>1 DEF TypeOK, records, system, locks
<1>2. CASE Build(p)
  BY <1>2 DEF Build, Command
<1>3. CASE TakeUpdateLock(p)
  BY <1>3 DEF TakeUpdateLock
<1>4. CASE Discover(p)
  BY <1>4 DEF Discover, Predates, AlreadyDecided, Illegible
<1>5. CASE Preflight(p)
  BY <1>5 DEF Preflight, Command
<1>6. CASE Verify(p)
  BY <1>6 DEF Verify, Command
<1>7. CASE Recheck(p)
  BY <1>7 DEF Recheck, Command, Target
<1>8. CASE AdoptProfile(p)
  BY <1>8 DEF AdoptProfile, Command
<1>9. CASE AdoptBoot(p)
  BY <1>9 DEF AdoptBoot, Command
<1>10. CASE AdoptHealth(p)
  BY <1>10 DEF AdoptHealth, Command
<1>11. CASE AdoptRecord(p)
  BY <1>11 DEF AdoptRecord, Command
<1>12. CASE AdoptClear(p)
  BY <1>12 DEF AdoptClear, Command, NoFailure
<1>13. CASE PreHealth(p)
  BY <1>13 DEF PreHealth, Command
<1>14. CASE Backup(p)
  BY <1>14 DEF Backup, Command
<1>15. CASE Arm(p)
  BY <1>15 DEF Arm, Command
<1>16. CASE Activate(p)
  BY <1>16 DEF Activate, Target, ExitTrap
<1>17. CASE Switch(p)
  BY <1>17 DEF Switch, SwitchTo, BeginRollback
<1>18. CASE Compare(p)
  BY <1>18 DEF Compare, Target, BeginRollback
<1>19. CASE Health(p)
  BY <1>19 DEF Health, BeginRollback
<1>20. CASE Record(p)
  BY <1>20 DEF Record, ExitTrap
<1>21. CASE Clear(p)
  BY <1>21 DEF Clear, ExitTrap, NoFailure
<1>22. CASE Commit(p)
  BY <1>22 DEF Commit
<1>23. CASE NotifyDeployed(p)
  BY <1>23 DEF NotifyDeployed, Notify
<1>24. CASE RbMark(p)
  BY <1>24 DEF RbMark, WriteFailedState, Malformed
<1>25. CASE RbProfile(p)
  BY <1>25 DEF RbProfile, Abandon
<1>26. CASE RbSwitch(p)
  BY <1>26 DEF RbSwitch, SwitchTo, Abandon
<1>27. CASE RbCompare(p)
  BY <1>27 DEF RbCompare, Abandon
<1>28. CASE RbHealth(p)
  BY <1>28 DEF RbHealth, Abandon
<1>29. CASE RbFinal(p)
  BY <1>29 DEF RbFinal, WriteFailedState, Malformed
<1>30. CASE RbSettle(p)
  BY <1>30 DEF RbSettle
<1>31. CASE RbNotify(p)
  BY <1>31 DEF RbNotify, Notify
<1>32. CASE CleanupBefore(p)
  BY <1>32 DEF CleanupBefore, Notify
<1>33. CASE End(p)
  BY <1>33 DEF End, Ended
<1>34. CASE Start(p)
  BY <1>34 DEF Start
<1>35. CASE TakeMaintenanceLock(p)
  BY <1>35 DEF TakeMaintenanceLock
<1>36. CASE Terminate(p)
  BY <1>36 DEF Terminate, ExitTrap
<1>37. CASE Kill(p)
  BY <1>37 DEF Kill, Ended
<1> QED BY <1>2, <1>3, <1>4, <1>5, <1>6, <1>7, <1>8, <1>9, <1>10, <1>11, <1>12, <1>13, <1>14, <1>15,
           <1>16, <1>17, <1>18, <1>19, <1>20, <1>21, <1>22, <1>23, <1>24, <1>25, <1>26, <1>27, <1>28,
           <1>29, <1>30, <1>31, <1>32, <1>33, <1>34, <1>35, <1>36, <1>37 DEF Work, RunStep

\* Every step keeps the types.
LEMMA TypeStep == IInv /\ [Next]_vars => TypeOK'
<1> SUFFICES ASSUME IInv, [Next]_vars PROVE TypeOK' OBVIOUS
<1> USE ReleaseAssumption
<1>1. TypeOK
  BY DEF IInv
<1>2. ASSUME Disrupted PROVE disruptions' \in 0 .. MaxDisruptions
  BY <1>1, <1>2 DEF TypeOK, Disrupted
<1>3. ASSUME NEW p \in Procs, RunStep(p) PROVE TypeOK'
  <2>1. RunFacts(p)
    BY DEF IInv
  <2>2. pc' \in [Procs -> Steps] /\ job' \in [Procs -> Jobs]
    BY <1>1, <1>3, PcStep, JobStep DEF RunStep
  <2>3. disruptions' \in 0 .. MaxDisruptions
    BY <1>1, <1>2, <1>3, <2>1, SystemTypes DEF TypeOK, RunStep
  <2> QED BY <1>1, <1>3, <2>1, <2>2, <2>3, SystemTypes DEF TypeOK, RunStep
<1>4. CASE Reboot
  <2>1. pc' \in [Procs -> Steps] /\ job' \in [Procs -> Jobs]
    BY <1>4, NoJobType DEF Reboot, Steps
  <2> QED BY <1>1, <1>2, <1>4, <2>1 DEF Reboot, TypeOK, records
<1>5. CASE Publish
  BY <1>1, <1>5 DEF Publish, TypeOK, Releases, records, system, locks
<1>6. CASE Withdraw
  BY <1>1, <1>2, <1>6 DEF Withdraw, TypeOK, Releases, records, system, locks
<1>7. CASE ManualSwitch
  <2>1. PICK path \in Paths : profile' = path /\ boot' = path /\ running' = path
                               /\ store' = store \cup {path}
    BY <1>7 DEF ManualSwitch
  <2>2. /\ verified' \in BOOLEAN /\ disruptions' \in 0 .. MaxDisruptions
        /\ UNCHANGED <<latest, records, locks, pc, job>>
    BY <1>2, <1>7 DEF ManualSwitch
  <2> QED BY <1>1, <2>1, <2>2 DEF TypeOK, records, locks
<1>8. CASE CollectGarbage
  BY <1>1, <1>8 DEF CollectGarbage, TypeOK, records, system, locks
<1>9. CASE OtherTakesMaintenance \/ OtherFreesMaintenance
  BY <1>1, <1>9 DEF OtherTakesMaintenance, OtherFreesMaintenance, TypeOK, records, system
<1>10. CASE UNCHANGED vars
  BY <1>1, <1>10 DEF vars, TypeOK, records, system, locks
<1>11. CASE Spoil
  BY <1>1, <1>2, <1>11 DEF Spoil, TypeOK, system, locks
<1> QED BY <1>3, <1>4, <1>5, <1>6, <1>7, <1>8, <1>9, <1>10, <1>11 DEF Next, RunStep

\* A run touches its own step and its own variables only.
LEMMA OwnStep ==
    ASSUME TypeOK, NEW p \in Procs, NEW q \in Procs \ {p}, RunStep(p)
    PROVE  pc'[q] = pc[q] /\ job'[q] = job[q]
<1> USE DEF TypeOK, Goto
<1>1. CASE Preflight(p) \/ Verify(p) \/ Build(p) \/ Recheck(p) \/ AdoptProfile(p) \/ AdoptBoot(p)
           \/ AdoptHealth(p) \/ AdoptRecord(p) \/ AdoptClear(p) \/ PreHealth(p) \/ Backup(p) \/ Arm(p)
  BY <1>1 DEF Preflight, Verify, Build, Recheck, AdoptProfile, AdoptBoot, AdoptHealth, AdoptRecord,
     AdoptClear, PreHealth, Backup, Arm, Command
<1>2. CASE Start(p) \/ TakeUpdateLock(p) \/ Discover(p) \/ TakeMaintenanceLock(p) \/ NotifyDeployed(p)
           \/ RbNotify(p) \/ CleanupBefore(p)
  BY <1>2 DEF Start, TakeUpdateLock, Discover, TakeMaintenanceLock, NotifyDeployed, RbNotify, CleanupBefore
<1>3. CASE Activate(p) \/ Switch(p) \/ Compare(p) \/ Health(p) \/ Record(p) \/ Clear(p) \/ Commit(p)
           \/ Terminate(p)
  BY <1>3 DEF Activate, Switch, Compare, Health, Record, Clear, Commit, Terminate, SwitchTo,
     BeginRollback, ExitTrap
<1>4. CASE RbMark(p) \/ RbProfile(p) \/ RbSwitch(p) \/ RbCompare(p) \/ RbHealth(p) \/ RbFinal(p) \/ RbSettle(p)
  BY <1>4 DEF RbMark, RbProfile, RbSwitch, RbCompare, RbHealth, RbFinal, RbSettle, SwitchTo, Abandon
<1>5. CASE End(p) \/ Kill(p)
  BY <1>5 DEF End, Kill, Ended, Goto
<1> QED BY <1>1, <1>2, <1>3, <1>4, <1>5 DEF Work, RunStep

\* A run that is not past the lock, or has done nothing, has no say.
Quiet(p) == Fresh(p) /\ ~InRun(p) /\ pc[p] # "cleanupBefore"

LEMMA QuietFacts ==
    ASSUME NEW p \in Procs, Quiet(p)', pc'[p] \in Steps
    PROVE  RunFacts(p)'
<1>1. LockFacts(p)'
  BY DEF Quiet, LockFacts, Fresh, InRun
<1>2. JobFacts(p)'
  BY DEF Quiet, JobFacts, Fresh, InRun, PreActivation, Activation, Rollback
<1>3. DecisionFacts(p)'
  BY DEF Quiet, DecisionFacts, InRun, PreActivation, Activation, Rollback
<1>4. DeployFacts(p)' /\ RestoreFacts(p)'
  BY DEF Quiet, DeployFacts, RestoreFacts, Fresh, InRun, PreActivation, Activation, Rollback
<1>5. Whole(p)' /\ Truthful(p)'
  BY DEF Quiet, Whole, Truthful, Fresh
<1> QED BY <1>1, <1>2, <1>3, <1>4, <1>5 DEF RunFacts

\* While one run has the lock, the others are quiet.
LEMMA OthersQuiet ==
    ASSUME IInv, NEW p \in Procs, NEW q \in Procs \ {p}, updateLock = p
    PROVE  Quiet(q)
<1>1. LockFacts(q) /\ JobFacts(q) /\ pc[q] \in Steps
  BY DEF IInv, RunFacts, TypeOK
<1> QED BY <1>1 DEF LockFacts, JobFacts, Quiet, InRun, Steps

\* Every step but these is one of a run past the lock.
LEMMA BusyStep ==
    ASSUME NEW p \in Procs, RunStep(p)
    PROVE  \/ InRun(p) \/ pc[p] = "cleanupBefore"
           \/ Start(p) \/ TakeUpdateLock(p) \/ End(p) \/ Kill(p)
<1> USE DEF InRun, PreActivation, Activation, Rollback
<1>1. CASE Preflight(p) \/ Verify(p) \/ Build(p) \/ Recheck(p) \/ AdoptProfile(p) \/ AdoptBoot(p)
           \/ AdoptHealth(p) \/ AdoptRecord(p) \/ AdoptClear(p) \/ PreHealth(p) \/ Backup(p) \/ Arm(p)
  BY <1>1 DEF Preflight, Verify, Build, Recheck, AdoptProfile, AdoptBoot, AdoptHealth, AdoptRecord,
     AdoptClear, PreHealth, Backup, Arm, Command
<1>2. CASE Discover(p) \/ TakeMaintenanceLock(p) \/ NotifyDeployed(p) \/ RbNotify(p) \/ CleanupBefore(p)
           \/ Terminate(p)
  BY <1>2 DEF Discover, TakeMaintenanceLock, NotifyDeployed, RbNotify, CleanupBefore, Terminate
<1>3. CASE Activate(p) \/ Switch(p) \/ Compare(p) \/ Health(p) \/ Record(p) \/ Clear(p) \/ Commit(p)
  BY <1>3 DEF Activate, Switch, Compare, Health, Record, Clear, Commit
<1>4. CASE RbMark(p) \/ RbProfile(p) \/ RbSwitch(p) \/ RbCompare(p) \/ RbHealth(p) \/ RbFinal(p) \/ RbSettle(p)
  BY <1>4 DEF RbMark, RbProfile, RbSwitch, RbCompare, RbHealth, RbFinal, RbSettle
<1> QED BY <1>1, <1>2, <1>3, <1>4 DEF Work, RunStep

\* A step of one run leaves what another knows as it is.
LEMMA OthersStep ==
    ASSUME IInv, NEW p \in Procs, NEW q \in Procs \ {p}, RunStep(p)
    PROVE  RunFacts(q)'
<1>1. pc'[q] = pc[q] /\ job'[q] = job[q]
  BY OwnStep DEF IInv
<1>2. CASE updateLock = p
  <2>1. Quiet(q)'
    BY <1>1, <1>2, OthersQuiet DEF Quiet, Fresh, InRun
  <2>2. pc'[q] \in Steps
    BY <1>1 DEF IInv, TypeOK
  <2> QED BY <2>1, <2>2, QuietFacts
<1>3. CASE updateLock # p
  <2>1. ~InRun(p) /\ pc[p] # "cleanupBefore"
    BY <1>3 DEF IInv, RunFacts, LockFacts
  <2>2. \/ Start(p) \/ TakeUpdateLock(p) \/ End(p) \/ Kill(p)
    BY <2>1, BusyStep
  <2>3. UNCHANGED <<records, system, store>> /\ (updateLock = q => updateLock' = q)
    BY <1>3, <2>2, ReleaseAssumption DEF Start, TakeUpdateLock, End, Kill, Ended, locks
  <2>4. RunFacts(q)
    BY DEF IInv
  <2>5. LockFacts(q)'
    BY <1>1, <2>3, <2>4 DEF RunFacts, LockFacts, InRun, Fresh
  <2>6. (JobFacts(q) /\ DecisionFacts(q) /\ DeployFacts(q) /\ RestoreFacts(q))'
    BY <1>1, <2>3, <2>4 DEF RunFacts, JobFacts, DecisionFacts, DeployFacts, RestoreFacts, Fresh, Target,
       Live, records, system
  <2>7. Whole(q)' /\ Truthful(q)'
    BY <1>1, <2>3, <2>4 DEF RunFacts, Whole, Truthful, Target, Live, records, system
  <2> QED BY <2>5, <2>6, <2>7 DEF RunFacts
<1> QED BY <1>2, <1>3

\* What a run keeps when it only changes its handler, its status or armed.
SameRun(p) ==
    /\ job'[p].release = job[p].release /\ job'[p].force = job[p].force
    /\ job'[p].previous = job[p].previous /\ job'[p].rooted = job[p].rooted
    /\ job'[p].touched = job[p].touched /\ job'[p].notices = job[p].notices

\* What the functions do that several steps call.
LEMMA CallEffects ==
    ASSUME TypeOK, NEW p \in Procs
    PROVE  /\ BeginRollback(p) =>
                /\ pc'[p] = "rbMark" /\ SameRun(p)
                /\ job'[p].armed = job[p].armed /\ job'[p].status = job[p].status
           /\ ExitTrap(p) =>
                /\ pc'[p] = (IF job[p].armed THEN "rbMark" ELSE "end") /\ SameRun(p)
                /\ job'[p].armed = job[p].armed /\ job'[p].status = job[p].status
           /\ \A s \in RollbackStatus : Abandon(p, s) =>
                /\ pc'[p] = "rbFinal" /\ SameRun(p)
                /\ job'[p].armed = job[p].armed /\ job'[p].status = s
<1> job \in [Procs -> Jobs] /\ pc \in [Procs -> Steps]
  BY DEF TypeOK
<1>1. ASSUME BeginRollback(p) PROVE /\ pc'[p] = "rbMark" /\ SameRun(p)
                                    /\ job'[p].armed = job[p].armed /\ job'[p].status = job[p].status
  BY <1>1 DEF BeginRollback, Goto, Jobs, SameRun
<1>2. ASSUME ExitTrap(p) PROVE /\ pc'[p] = (IF job[p].armed THEN "rbMark" ELSE "end") /\ SameRun(p)
                               /\ job'[p].armed = job[p].armed /\ job'[p].status = job[p].status
  BY <1>2 DEF ExitTrap, Goto, Jobs, SameRun
<1>3. ASSUME NEW s \in RollbackStatus, Abandon(p, s) PROVE /\ pc'[p] = "rbFinal" /\ SameRun(p)
                                /\ job'[p].armed = job[p].armed /\ job'[p].status = s
  BY <1>3 DEF Abandon, Goto, Jobs, SameRun
<1> QED BY <1>1, <1>2, <1>3

\* Before the activation a run has only to be right about its decision and about
\* how far the release already runs.
LEMMA FreshFacts ==
    ASSUME NEW p \in Procs, Fresh(p)', DecisionFacts(p)', DeployFacts(p)',
           \/ pc'[p] \in {"idle", "lock", "end"}
           \/ pc'[p] \in PreActivation \cup {"cleanupBefore"} /\ updateLock' = p
    PROVE  RunFacts(p)'
<1>1. LockFacts(p)'
  BY DEF LockFacts, InRun, PreActivation, Activation, Rollback
<1>2. JobFacts(p)'
  BY DEF JobFacts, Fresh, PreActivation, Activation, Rollback
<1>3. RestoreFacts(p)'
  BY DEF RestoreFacts, Fresh, PreActivation, Rollback
<1>4. Whole(p)' /\ Truthful(p)'
  BY DEF Whole, Truthful, Fresh
<1> QED BY <1>1, <1>2, <1>3, <1>4 DEF RunFacts

\* Once a release is being activated, whatever goes wrong begins the rollback.
LEMMA RollbackBegins ==
    ASSUME IInv, NEW p \in Procs, pc[p] \in Activation \cup Rollback, job[p].armed,
           BeginRollback(p) \/ ExitTrap(p), UNCHANGED <<updateLock, store>>,
           pc[p] \in Rollback => UNCHANGED system
    PROVE  RunFacts(p)'
<1>1. pc'[p] = "rbMark" /\ SameRun(p) /\ job'[p].armed /\ job'[p].status = job[p].status
  BY CallEffects DEF IInv
<1>2. /\ LockFacts(p) /\ JobFacts(p) /\ DecisionFacts(p) /\ RestoreFacts(p)
  BY DEF IInv, RunFacts
<1>3. LockFacts(p)' /\ DecisionFacts(p)' /\ DeployFacts(p)' /\ Whole(p)' /\ Truthful(p)'
  BY <1>1, <1>2 DEF LockFacts, DecisionFacts, DeployFacts, Whole, Truthful, InRun, SameRun,
                    PreActivation, Activation, Rollback
<1>4. JobFacts(p)'
  BY <1>1, <1>2 DEF JobFacts, SameRun, PreActivation, Activation, Rollback
<1>5. RestoreFacts(p)'
  BY <1>1, <1>2 DEF JobFacts, RestoreFacts, SameRun, Live, Activation, Rollback, system
<1> QED BY <1>3, <1>4, <1>5 DEF RunFacts

\* A rollback that has come to a result only has to record it.
LEMMA RollbackDecided ==
    ASSUME IInv, NEW p \in Procs, pc[p] \in {"rbProfile", "rbSwitch", "rbCompare", "rbHealth"},
           NEW status \in RollbackStatus \ {"not-needed", "failed"}, Abandon(p, status),
           UNCHANGED <<updateLock, store>>,
           status = "succeeded" => Live(job[p].previous)' /\ verified'
    PROVE  RunFacts(p)'
<1>1. pc'[p] = "rbFinal" /\ SameRun(p) /\ job'[p].armed = job[p].armed /\ job'[p].status = status
  BY CallEffects DEF IInv
<1>2. /\ LockFacts(p) /\ JobFacts(p) /\ DecisionFacts(p) /\ RestoreFacts(p)
  BY DEF IInv, RunFacts
<1>3. LockFacts(p)' /\ DecisionFacts(p)' /\ DeployFacts(p)' /\ Whole(p)' /\ Truthful(p)'
  BY <1>1, <1>2 DEF LockFacts, DecisionFacts, DeployFacts, Whole, Truthful, InRun, SameRun,
                    PreActivation, Activation, Rollback
<1>4. JobFacts(p)'
  BY <1>1, <1>2 DEF JobFacts, SameRun, PreActivation, Activation, Rollback
<1>5. RestoreFacts(p)'
  BY <1>1, <1>2 DEF JobFacts, RestoreFacts, SameRun, Live, Activation, Rollback
<1> QED BY <1>3, <1>4, <1>5 DEF RunFacts

\* A first notice is the only one.
LEMMA Queued ==
    ASSUME NEW p \in Procs, NEW notice \in Notices, job[p].notices = <<>>
    PROVE  /\ Len(Notify(p, notice)) <= 1
           /\ \A n \in Notices \ {notice} : Notify(p, notice) # <<n>>
  BY DEF Notify, Notices

\* The steps of an activation that goes on.
LEMMA ActivationGoesOn ==
    ASSUME IInv, NEW p \in Procs, pc[p] \in Activation, job[p].armed, UNCHANGED <<updateLock, store>>,
           pc'[p] \in Activation \ {"notifyDeployed"}, DecisionFacts(p)', DeployFacts(p)',
           job'[p].armed, job'[p].rooted = job[p].rooted, job'[p].previous = job[p].previous,
           job'[p].status = job[p].status, job'[p].notices = job[p].notices
    PROVE  RunFacts(p)'
<1>1. LockFacts(p) /\ JobFacts(p) /\ RestoreFacts(p)
  BY DEF IInv, RunFacts
<1>2. LockFacts(p)' /\ Whole(p)' /\ Truthful(p)'
  BY <1>1 DEF LockFacts, Whole, Truthful, InRun, Activation
<1>3. JobFacts(p)'
  BY <1>1 DEF JobFacts, PreActivation, Activation, Rollback
<1>4. RestoreFacts(p)'
  BY <1>1 DEF RestoreFacts, Activation, Rollback
<1> QED BY <1>2, <1>3, <1>4 DEF RunFacts

\* The steps of a rollback that goes on.
LEMMA RollbackGoesOn ==
    ASSUME IInv, NEW p \in Procs, pc[p] \in {"rbProfile", "rbSwitch", "rbCompare"},
           UNCHANGED <<updateLock, store, job>>,
           \/ pc'[p] = "rbSwitch"
           \/ pc'[p] = "rbCompare" /\ boot' = job[p].previous
           \/ pc'[p] = "rbHealth" /\ boot' = job[p].previous /\ running' = job[p].previous,
           profile' = job[p].previous
    PROVE  RunFacts(p)'
<1>1. LockFacts(p) /\ JobFacts(p) /\ DecisionFacts(p) /\ RestoreFacts(p)
  BY DEF IInv, RunFacts
<1>2. LockFacts(p)' /\ DecisionFacts(p)' /\ DeployFacts(p)' /\ Whole(p)' /\ Truthful(p)'
  BY <1>1 DEF LockFacts, DecisionFacts, DeployFacts, Whole, Truthful, InRun, PreActivation, Activation, Rollback
<1>3. JobFacts(p)' /\ RestoreFacts(p)'
  BY <1>1 DEF JobFacts, RestoreFacts, PreActivation, Activation, Rollback
<1> QED BY <1>2, <1>3 DEF RunFacts

\* A step of a run keeps what is known of it: one step per action.
LEMMA SelfStep ==
    ASSUME IInv, NEW p \in Procs, RunStep(p)
    PROVE  RunFacts(p)'
<1>1. /\ LockFacts(p) /\ JobFacts(p) /\ DecisionFacts(p) /\ DeployFacts(p) /\ RestoreFacts(p)
      /\ Whole(p) /\ Truthful(p)
  BY DEF IInv, RunFacts
<1>2. TypeOK /\ job \in [Procs -> Jobs] /\ pc \in [Procs -> Steps]
  BY DEF IInv, TypeOK
<1>3. CASE Start(p)
  <2>1. Fresh(p)' /\ pc'[p] = "lock"
    BY <1>3, <1>1, <1>2 DEF Start, Goto, JobFacts, Fresh, Jobs
  <2> QED BY <2>1, FreshFacts DEF DecisionFacts, DeployFacts, PreActivation, Activation, Rollback
<1>4. CASE TakeUpdateLock(p)
  <2>1. Fresh(p)'
    BY <1>4, <1>1 DEF TakeUpdateLock, JobFacts, Fresh
  <2>2. pc'[p] = "end" \/ (pc'[p] = "discover" /\ updateLock' = p)
    <3>1. CASE updateLock = NoOne
      BY <1>4, <1>2, <3>1 DEF TakeUpdateLock, Goto
    <3>2. CASE Goto(p, "end")
      BY <1>2, <3>2 DEF Goto
    <3> QED BY <1>4, <3>1, <3>2 DEF TakeUpdateLock
  <2> QED BY <2>1, <2>2, FreshFacts DEF DecisionFacts, DeployFacts, PreActivation, Activation, Rollback
<1>5. CASE Discover(p)
  <2>1. updateLock = p /\ Fresh(p) /\ pc[p] = "discover"
    BY <1>5, <1>1 DEF Discover, LockFacts, JobFacts, InRun, PreActivation
  <2>2. CASE job' = job /\ pc'[p] = "cleanupBefore"
    BY <1>5, <2>1, <2>2, FreshFacts DEF Discover, Fresh, locks, DecisionFacts, DeployFacts,
                                     PreActivation, Activation, Rollback
  <2>3. CASE latest # 0 /\ job' = [job EXCEPT ![p].release = latest]
    <3>1. /\ Fresh(p)' /\ job'[p].release = latest /\ job'[p].force = job[p].force
      BY <1>2, <2>1, <2>3 DEF Fresh, Jobs
    <3>2. \/ pc'[p] \in {"cleanupBefore", "end"}
          \/ /\ pc'[p] = "preflight" /\ latest >= accepted /\ legible
             /\ ~job[p].force => latest # accepted /\ latest # failed.release /\ failed # Malformed
      BY <1>5, <1>2, <2>3 DEF Discover, Goto, Predates, AlreadyDecided, Illegible, TypeOK, Releases
    <3>3. DecisionFacts(p)' /\ DeployFacts(p)'
      BY <1>5, <2>3, <3>1, <3>2 DEF Discover, DecisionFacts, DeployFacts, records,
                                 PreActivation, Activation, Rollback
    <3> QED BY <1>5, <2>1, <3>1, <3>2, <3>3, FreshFacts DEF Discover, locks, PreActivation
  <2> QED BY <1>5, <1>2, <2>2, <2>3 DEF Discover, Goto
<1>6. CASE Preflight(p)
  <2>1. updateLock = p /\ Fresh(p)
    BY <1>6, <1>1 DEF Preflight, Command, LockFacts, JobFacts, InRun, PreActivation
  <2>2. Fresh(p)' /\ updateLock' = updateLock /\ pc'[p] \in PreActivation \cup {"cleanupBefore", "end"}
    BY <1>6, <1>2, <2>1 DEF Preflight, Command, Goto, Fresh, Jobs, locks, PreActivation
  <2>3. DecisionFacts(p)' /\ DeployFacts(p)'
    BY <1>6, <1>1, <1>2 DEF Preflight, Command, Goto, Jobs, DecisionFacts, DeployFacts, Target, records, system,
                         PreActivation, Activation, Rollback
  <2> QED BY <2>1, <2>2, <2>3, FreshFacts
<1>7. CASE Verify(p)
  <2>1. updateLock = p /\ Fresh(p)
    BY <1>7, <1>1 DEF Verify, Command, LockFacts, JobFacts, InRun, PreActivation
  <2>2. Fresh(p)' /\ updateLock' = updateLock /\ pc'[p] \in PreActivation \cup {"cleanupBefore", "end"}
    BY <1>7, <1>2, <2>1 DEF Verify, Command, Goto, Fresh, Jobs, locks, PreActivation
  <2>3. DecisionFacts(p)' /\ DeployFacts(p)'
    BY <1>7, <1>1, <1>2 DEF Verify, Command, Goto, Jobs, DecisionFacts, DeployFacts, Target, records, system,
                         PreActivation, Activation, Rollback
  <2> QED BY <2>1, <2>2, <2>3, FreshFacts
<1>8. CASE Build(p)
  <2>1. updateLock = p /\ Fresh(p)
    BY <1>8, <1>1 DEF Build, Command, LockFacts, JobFacts, InRun, PreActivation
  <2>2. Fresh(p)' /\ updateLock' = updateLock /\ pc'[p] \in PreActivation \cup {"cleanupBefore", "end"}
    BY <1>8, <1>2, <2>1 DEF Build, Command, Goto, Fresh, Jobs, locks, PreActivation
  <2>3. DecisionFacts(p)' /\ DeployFacts(p)'
    BY <1>8, <1>1, <1>2 DEF Build, Command, Goto, Jobs, DecisionFacts, DeployFacts, Target, records, system,
                         PreActivation, Activation, Rollback
  <2> QED BY <2>1, <2>2, <2>3, FreshFacts
<1>9. CASE TakeMaintenanceLock(p)
  <2>1. updateLock = p /\ Fresh(p)
    BY <1>9, <1>1 DEF TakeMaintenanceLock, LockFacts, JobFacts, InRun, PreActivation
  <2>2. Fresh(p)' /\ updateLock' = updateLock /\ pc'[p] \in PreActivation \cup {"cleanupBefore", "end"}
    BY <1>9, <1>2, <2>1 DEF TakeMaintenanceLock, Goto, Fresh, Jobs, locks, PreActivation
  <2>3. DecisionFacts(p)' /\ DeployFacts(p)'
    BY <1>9, <1>1, <1>2 DEF TakeMaintenanceLock, Goto, Jobs, DecisionFacts, DeployFacts, Target, records,
       system,
                         PreActivation, Activation, Rollback
  <2> QED BY <2>1, <2>2, <2>3, FreshFacts
<1>10. CASE Recheck(p)
  <2>1. updateLock = p /\ Fresh(p)
    BY <1>10, <1>1 DEF Recheck, Command, LockFacts, JobFacts, InRun, PreActivation
  <2>2. Fresh(p)' /\ updateLock' = updateLock /\ pc'[p] \in PreActivation \cup {"cleanupBefore", "end"}
    BY <1>10, <1>2, <2>1 DEF Recheck, Command, Goto, Fresh, Jobs, locks, PreActivation
  <2>3. DecisionFacts(p)' /\ DeployFacts(p)'
    BY <1>10, <1>1, <1>2 DEF Recheck, Command, Goto, Jobs, DecisionFacts, DeployFacts, Target, records, system,
                         PreActivation, Activation, Rollback
  <2> QED BY <2>1, <2>2, <2>3, FreshFacts
<1>11. CASE AdoptProfile(p)
  <2>1. updateLock = p /\ Fresh(p)
    BY <1>11, <1>1 DEF AdoptProfile, Command, LockFacts, JobFacts, InRun, PreActivation
  <2>2. Fresh(p)' /\ updateLock' = updateLock /\ pc'[p] \in PreActivation \cup {"cleanupBefore", "end"}
    BY <1>11, <1>2, <2>1 DEF AdoptProfile, Command, Goto, Fresh, Jobs, locks, PreActivation
  <2>3. DecisionFacts(p)' /\ DeployFacts(p)'
    BY <1>11, <1>1, <1>2 DEF AdoptProfile, Command, Goto, Jobs, DecisionFacts, DeployFacts, Target,
       records, system,
                         PreActivation, Activation, Rollback
  <2> QED BY <2>1, <2>2, <2>3, FreshFacts
<1>12. CASE AdoptBoot(p)
  <2>1. updateLock = p /\ Fresh(p)
    BY <1>12, <1>1 DEF AdoptBoot, Command, LockFacts, JobFacts, InRun, PreActivation
  <2>2. Fresh(p)' /\ updateLock' = updateLock /\ pc'[p] \in PreActivation \cup {"cleanupBefore", "end"}
    BY <1>12, <1>2, <2>1 DEF AdoptBoot, Command, Goto, Fresh, Jobs, locks, PreActivation
  <2>3. DecisionFacts(p)' /\ DeployFacts(p)'
    BY <1>12, <1>1, <1>2 DEF AdoptBoot, Command, Goto, Jobs, DecisionFacts, DeployFacts, Target, records,
       system,
                         PreActivation, Activation, Rollback
  <2> QED BY <2>1, <2>2, <2>3, FreshFacts
<1>13. CASE AdoptHealth(p)
  <2>1. updateLock = p /\ Fresh(p)
    BY <1>13, <1>1 DEF AdoptHealth, Command, LockFacts, JobFacts, InRun, PreActivation
  <2>2. Fresh(p)' /\ updateLock' = updateLock /\ pc'[p] \in PreActivation \cup {"cleanupBefore", "end"}
    BY <1>13, <1>2, <2>1 DEF AdoptHealth, Command, Goto, Fresh, Jobs, locks, PreActivation
  <2>3. DecisionFacts(p)' /\ DeployFacts(p)'
    BY <1>13, <1>1, <1>2 DEF AdoptHealth, Command, Goto, Jobs, DecisionFacts, DeployFacts, Target,
       records, system,
                         PreActivation, Activation, Rollback
  <2> QED BY <2>1, <2>2, <2>3, FreshFacts
<1>14. CASE AdoptRecord(p)
  <2>1. updateLock = p /\ Fresh(p) /\ job[p].release \in Nat
    BY <1>14, <1>1, <1>2, JobType DEF AdoptRecord, Command, LockFacts, JobFacts, InRun, PreActivation, Releases
  <2>2. Fresh(p)' /\ updateLock' = updateLock /\ pc'[p] \in {"adoptClear", "cleanupBefore"}
    BY <1>14, <1>2, <2>1 DEF AdoptRecord, Command, Goto, Fresh, Jobs, locks, PreActivation
  <2>3. DecisionFacts(p)'
    BY <1>14, <1>1, <2>1, <2>2 DEF AdoptRecord, Command, DecisionFacts, PreActivation, Activation, Rollback
  <2>4. DeployFacts(p)'
    BY <1>14, <1>1, <2>2 DEF AdoptRecord, Command, DeployFacts, Target, system
  <2> QED BY <2>1, <2>2, <2>3, <2>4, FreshFacts DEF PreActivation
<1>15. CASE AdoptClear(p)
  <2>1. updateLock = p /\ Fresh(p)
    BY <1>15, <1>1 DEF AdoptClear, Command, LockFacts, JobFacts, InRun, PreActivation
  <2>2. Fresh(p)' /\ updateLock' = updateLock /\ pc'[p] \in PreActivation \cup {"cleanupBefore", "end"}
    BY <1>15, <1>2, <2>1 DEF AdoptClear, Command, Goto, Fresh, Jobs, locks, PreActivation
  <2>3. DecisionFacts(p)' /\ DeployFacts(p)'
    BY <1>15, <1>1, <1>2 DEF AdoptClear, Command, Goto, Jobs, DecisionFacts, DeployFacts, Target,
       records, system,
                         PreActivation, Activation, Rollback
  <2> QED BY <2>1, <2>2, <2>3, FreshFacts
<1>16. CASE PreHealth(p)
  <2>1. updateLock = p /\ Fresh(p)
    BY <1>16, <1>1 DEF PreHealth, Command, LockFacts, JobFacts, InRun, PreActivation
  <2>2. Fresh(p)' /\ updateLock' = updateLock /\ pc'[p] \in PreActivation \cup {"cleanupBefore", "end"}
    BY <1>16, <1>2, <2>1 DEF PreHealth, Command, Goto, Fresh, Jobs, locks, PreActivation
  <2>3. DecisionFacts(p)' /\ DeployFacts(p)'
    BY <1>16, <1>1, <1>2 DEF PreHealth, Command, Goto, Jobs, DecisionFacts, DeployFacts, Target, records,
       system,
                         PreActivation, Activation, Rollback
  <2> QED BY <2>1, <2>2, <2>3, FreshFacts
<1>17. CASE Backup(p)
  <2>1. updateLock = p /\ Fresh(p)
    BY <1>17, <1>1 DEF Backup, Command, LockFacts, JobFacts, InRun, PreActivation
  <2>2. Fresh(p)' /\ updateLock' = updateLock /\ pc'[p] \in PreActivation \cup {"cleanupBefore", "end"}
    BY <1>17, <1>2, <2>1 DEF Backup, Command, Goto, Fresh, Jobs, locks, PreActivation
  <2>3. DecisionFacts(p)' /\ DeployFacts(p)'
    BY <1>17, <1>1, <1>2 DEF Backup, Command, Goto, Jobs, DecisionFacts, DeployFacts, Target, records, system,
                         PreActivation, Activation, Rollback
  <2> QED BY <2>1, <2>2, <2>3, FreshFacts
<1>18. CASE Arm(p)
  <2>1. updateLock = p /\ Fresh(p) /\ pc[p] = "arm" /\ UNCHANGED <<records, system, store, locks>>
    BY <1>18, <1>1 DEF Arm, Command, LockFacts, JobFacts, InRun, PreActivation
  <2>2. CASE pc'[p] = "cleanupBefore" /\ job' = job
    BY <2>1, <2>2, FreshFacts DEF Fresh, locks, DecisionFacts, DeployFacts, PreActivation, Activation, Rollback
  <2>3. CASE pc'[p] = "activate" /\ job' = [[job EXCEPT ![p].armed = TRUE] EXCEPT ![p].rooted = TRUE]
    <3>1. /\ job'[p].armed /\ job'[p].rooted /\ job'[p].release = job[p].release
          /\ job'[p].previous = job[p].previous /\ job'[p].touched = job[p].touched
          /\ job'[p].status = job[p].status /\ job'[p].notices = job[p].notices
      BY <1>2, <2>3 DEF Jobs
    <3>2. LockFacts(p)' /\ Whole(p)' /\ Truthful(p)'
      BY <2>1, <2>3 DEF LockFacts, Whole, Truthful, InRun, locks, Activation
    <3>3. JobFacts(p)'
      BY <2>1, <2>3, <3>1 DEF JobFacts, Fresh, PreActivation, Activation, Rollback
    <3>4. DecisionFacts(p)' /\ DeployFacts(p)'
      BY <1>1, <2>1, <2>3, <3>1 DEF DecisionFacts, DeployFacts, records, PreActivation, Activation, Rollback
    <3>5. RestoreFacts(p)'
      BY <1>1, <2>1, <2>3, <3>1 DEF IInv, Stored, RestoreFacts, DeployFacts, Rollback, system
    <3> QED BY <3>2, <3>3, <3>4, <3>5 DEF RunFacts
  <2> QED BY <1>18, <1>2, <2>2, <2>3 DEF Arm, Command, Goto
<1>19. CASE Activate(p)
  <2>1. pc[p] = "activate" /\ job[p].armed /\ UNCHANGED <<records, boot, running, verified, store, locks>>
    BY <1>19, <1>1 DEF Activate, JobFacts, Activation
  <2>2. CASE ExitTrap(p)
    BY <2>1, <2>2, RollbackBegins DEF locks, Activation, Rollback
  <2>3. CASE pc'[p] = "switch" /\ profile' = Target(p) /\ job' = [job EXCEPT ![p].touched = TRUE]
    <3>1. /\ job'[p].armed = job[p].armed /\ job'[p].rooted = job[p].rooted
          /\ job'[p].release = job[p].release /\ job'[p].previous = job[p].previous
          /\ job'[p].status = job[p].status /\ job'[p].notices = job[p].notices
      BY <1>2, <2>3 DEF Jobs
    <3>2. DecisionFacts(p)' /\ DeployFacts(p)'
      BY <1>1, <2>1, <2>3, <3>1 DEF DecisionFacts, DeployFacts, Target, records, PreActivation,
         Activation, Rollback
    <3> QED BY <2>1, <2>3, <3>1, <3>2, ActivationGoesOn DEF locks, Activation
  <2> QED BY <1>19, <1>2, <2>2, <2>3 DEF Activate, Goto
<1>20. CASE Switch(p)
  <2>1. pc[p] = "switch" /\ job[p].armed /\ profile = Target(p) /\ UNCHANGED <<records, profile, store, locks>>
    BY <1>20, <1>1 DEF Switch, JobFacts, DeployFacts, Activation
  <2>2. CASE BeginRollback(p)
    BY <2>1, <2>2, RollbackBegins DEF locks, Activation, Rollback
  <2>3. CASE pc'[p] = "compare" /\ boot' = Target(p) /\ job' = job
    <3>1. DecisionFacts(p)' /\ DeployFacts(p)'
      BY <1>1, <2>1, <2>3 DEF DecisionFacts, DeployFacts, Target, records, PreActivation, Activation, Rollback
    <3> QED BY <2>1, <2>3, <3>1, ActivationGoesOn DEF locks, Activation
  <2> QED BY <1>20, <1>2, <2>2, <2>3 DEF Switch, SwitchTo, Goto
<1>21. CASE Compare(p)
  <2>1. pc[p] = "compare" /\ job[p].armed /\ UNCHANGED <<records, system, store, locks>>
    BY <1>21, <1>1 DEF Compare, JobFacts, Activation
  <2>2. CASE BeginRollback(p)
    BY <2>1, <2>2, RollbackBegins DEF locks, Activation, Rollback
  <2>3. CASE pc'[p] = "health" /\ running = Target(p) /\ job' = job
    <3>1. DecisionFacts(p)' /\ DeployFacts(p)'
      BY <1>1, <2>1, <2>3 DEF DecisionFacts, DeployFacts, Target, records, system, PreActivation,
         Activation, Rollback
    <3> QED BY <2>1, <2>3, <3>1, ActivationGoesOn DEF locks, Activation
  <2> QED BY <1>21, <1>2, <2>2, <2>3 DEF Compare, Goto
<1>22. CASE Health(p)
  <2>1. pc[p] = "health" /\ job[p].armed /\ UNCHANGED <<records, profile, boot, running, store, locks>>
    BY <1>22, <1>1 DEF Health, JobFacts, Activation
  <2>2. CASE BeginRollback(p)
    BY <2>1, <2>2, RollbackBegins DEF locks, Activation, Rollback
  <2>3. CASE pc'[p] = "record" /\ verified' /\ job' = job
    <3>1. DecisionFacts(p)' /\ DeployFacts(p)'
      BY <1>1, <2>1, <2>3 DEF DecisionFacts, DeployFacts, Target, records, PreActivation, Activation, Rollback
    <3> QED BY <2>1, <2>3, <3>1, ActivationGoesOn DEF locks, Activation
  <2> QED BY <1>22, <1>2, <2>2, <2>3 DEF Health, Goto
<1>23. CASE Record(p)
  <2>1. pc[p] = "record" /\ job[p].armed /\ UNCHANGED <<legible, failed, system, store, locks>>
    BY <1>23, <1>1 DEF Record, JobFacts, Activation
  <2>2. CASE ExitTrap(p)
    BY <2>1, <2>2, RollbackBegins DEF locks, Activation, Rollback
  <2>3. CASE pc'[p] = "clear" /\ accepted' = job[p].release /\ job' = [job EXCEPT ![p].recorded = TRUE]
    <3>1. /\ job'[p].armed = job[p].armed /\ job'[p].rooted = job[p].rooted
          /\ job'[p].release = job[p].release /\ job'[p].previous = job[p].previous
          /\ job'[p].status = job[p].status /\ job'[p].notices = job[p].notices
      BY <1>2, <2>3 DEF Jobs
    <3>2. job[p].release \in Nat
      BY <1>2, JobType DEF Releases
    <3>3. DecisionFacts(p)' /\ DeployFacts(p)'
      BY <1>1, <2>1, <2>3, <3>1, <3>2 DEF DecisionFacts, DeployFacts, Target, system, PreActivation,
         Activation, Rollback
    <3> QED BY <2>1, <2>3, <3>1, <3>3, ActivationGoesOn DEF locks, Activation
  <2> QED BY <1>23, <1>2, <2>2, <2>3 DEF Record, Goto
<1>24. CASE Clear(p)
  <2>1. pc[p] = "clear" /\ job[p].armed /\ UNCHANGED <<accepted, legible, system, store, locks>>
    BY <1>24, <1>1 DEF Clear, JobFacts, Activation
  <2>2. CASE ExitTrap(p)
    BY <2>1, <2>2, RollbackBegins DEF locks, Activation, Rollback
  <2>3. CASE pc'[p] = "commit" /\ job' = job
    <3>1. DecisionFacts(p)' /\ DeployFacts(p)'
      BY <1>1, <2>1, <2>3 DEF DecisionFacts, DeployFacts, Target, system, PreActivation, Activation, Rollback
    <3> QED BY <2>1, <2>3, <3>1, ActivationGoesOn DEF locks, Activation
  <2> QED BY <1>24, <1>2, <2>2, <2>3 DEF Clear, Goto
<1>25. CASE Commit(p)
  <2>1. pc[p] = "commit" /\ pc'[p] = "notifyDeployed" /\ UNCHANGED <<records, system, store, locks>>
    BY <1>25, <1>2 DEF Commit, Goto
  <2>2. ~job'[p].armed /\ SameRun(p) /\ job'[p].status = job[p].status
    BY <1>25, <1>2 DEF Commit, Jobs, SameRun
  <2>3. LockFacts(p)' /\ JobFacts(p)'
    BY <1>1, <2>1, <2>2 DEF LockFacts, JobFacts, SameRun, InRun, locks, PreActivation, Activation, Rollback
  <2>4. DecisionFacts(p)' /\ DeployFacts(p)'
    BY <1>1, <2>1, <2>2 DEF DecisionFacts, DeployFacts, SameRun, Target, records, system, PreActivation,
       Activation, Rollback
  <2>5. RestoreFacts(p)' /\ Whole(p)' /\ Truthful(p)'
    BY <2>1, <2>2 DEF RestoreFacts, Whole, Truthful, Rollback
  <2> QED BY <2>3, <2>4, <2>5 DEF RunFacts
<1>26. CASE NotifyDeployed(p)
  <2>1. /\ pc[p] = "notifyDeployed" /\ pc'[p] = "end"
        /\ job[p].notices = <<>> /\ UNCHANGED <<records, system, store, locks>>
    BY <1>26, <1>1, <1>2 DEF NotifyDeployed, Goto, JobFacts
  <2>2. /\ job'[p].release = job[p].release /\ job'[p].previous = job[p].previous
        /\ job'[p].armed = job[p].armed /\ job'[p].rooted = job[p].rooted
        /\ job'[p].status = job[p].status /\ job'[p].touched = job[p].touched
    BY <1>26, <1>2 DEF NotifyDeployed, Jobs
  <2>3. \E notice \in Notices : job'[p].notices = Notify(p, notice) /\ notice = "deployed"
    BY <1>26, <1>2 DEF NotifyDeployed, Jobs, Notices
  <2>4. /\ Len(job'[p].notices) <= 1
        /\ \A n \in Notices : job'[p].notices = <<n>> => n = "deployed"
    BY <2>1, <2>3, Queued
  <2>5. LockFacts(p)' /\ JobFacts(p)' /\ DecisionFacts(p)' /\ DeployFacts(p)'
    BY <1>1, <2>1, <2>2 DEF LockFacts, JobFacts, DecisionFacts, DeployFacts, InRun, locks, PreActivation,
       Activation, Rollback
  <2>6. RestoreFacts(p)' /\ Whole(p)'
    BY <1>1, <2>1, <2>2 DEF JobFacts, DecisionFacts, DeployFacts, RestoreFacts, Whole, Live, Target,
       records, system,
                            PreActivation, Activation, Rollback, Fresh
  <2>7. Truthful(p)'
    BY <1>1, <2>1, <2>2, <2>4 DEF Truthful, JobFacts, DecisionFacts, DeployFacts, RestoreFacts, Live,
       Target, records, system,
                            PreActivation, Activation, Rollback, Fresh, Notices
  <2> QED BY <2>5, <2>6, <2>7 DEF RunFacts
<1>27. CASE RbNotify(p)
  <2>1. /\ pc[p] = "rbNotify" /\ pc'[p] = "end"
        /\ job[p].notices = <<>> /\ UNCHANGED <<records, system, store, locks>>
    BY <1>27, <1>1, <1>2 DEF RbNotify, Goto, JobFacts
  <2>2. /\ job'[p].release = job[p].release /\ job'[p].previous = job[p].previous
        /\ job'[p].armed = job[p].armed /\ job'[p].rooted = job[p].rooted
        /\ job'[p].status = job[p].status /\ job'[p].touched = job[p].touched
    BY <1>27, <1>2 DEF RbNotify, Jobs
  <2>3. \E notice \in Notices : /\ job'[p].notices = Notify(p, notice)
                              /\ notice = (IF job[p].status = "succeeded" THEN "rolled-back" ELSE "rollback-failed")
    BY <1>27, <1>2 DEF RbNotify, Jobs, Notices
  <2>4. /\ Len(job'[p].notices) <= 1
        /\ \A n \in Notices : job'[p].notices = <<n>> =>
             n = (IF job[p].status = "succeeded" THEN "rolled-back" ELSE "rollback-failed")
    BY <2>1, <2>3, Queued
  <2>5. LockFacts(p)' /\ JobFacts(p)' /\ DecisionFacts(p)' /\ DeployFacts(p)'
    BY <1>1, <2>1, <2>2 DEF LockFacts, JobFacts, DecisionFacts, DeployFacts, InRun, locks, PreActivation,
       Activation, Rollback
  <2>6. RestoreFacts(p)' /\ Whole(p)'
    BY <1>1, <2>1, <2>2 DEF JobFacts, DecisionFacts, DeployFacts, RestoreFacts, Whole, Live, Target,
       records, system,
                            PreActivation, Activation, Rollback, Fresh
  <2>7. Truthful(p)'
    BY <1>1, <2>1, <2>2, <2>4 DEF Truthful, JobFacts, DecisionFacts, DeployFacts, RestoreFacts, Live,
       Target, records, system,
                            PreActivation, Activation, Rollback, Fresh, Notices
  <2> QED BY <2>5, <2>6, <2>7 DEF RunFacts
<1>28. CASE CleanupBefore(p)
  <2>1. /\ pc[p] = "cleanupBefore" /\ pc'[p] = "end"
        /\ job[p].notices = <<>> /\ UNCHANGED <<records, system, store, locks>>
    BY <1>28, <1>1, <1>2 DEF CleanupBefore, Goto, JobFacts
  <2>2. /\ job'[p].release = job[p].release /\ job'[p].previous = job[p].previous
        /\ job'[p].armed = job[p].armed /\ job'[p].rooted = job[p].rooted
        /\ job'[p].status = job[p].status /\ job'[p].touched = job[p].touched
    BY <1>28, <1>2 DEF CleanupBefore, Jobs
  <2>3. \E notice \in Notices : job'[p].notices = Notify(p, notice) /\ notice = "failed"
    BY <1>28, <1>2 DEF CleanupBefore, Jobs, Notices
  <2>4. /\ Len(job'[p].notices) <= 1
        /\ \A n \in Notices : job'[p].notices = <<n>> => n = "failed"
    BY <2>1, <2>3, Queued
  <2>5. LockFacts(p)' /\ JobFacts(p)' /\ DecisionFacts(p)' /\ DeployFacts(p)'
    BY <1>1, <2>1, <2>2 DEF LockFacts, JobFacts, DecisionFacts, DeployFacts, InRun, locks, PreActivation,
       Activation, Rollback
  <2>6. RestoreFacts(p)' /\ Whole(p)'
    BY <1>1, <2>1, <2>2 DEF JobFacts, DecisionFacts, DeployFacts, RestoreFacts, Whole, Live, Target,
       records, system,
                            PreActivation, Activation, Rollback, Fresh
  <2>7. Truthful(p)'
    BY <1>1, <2>1, <2>2, <2>4 DEF Truthful, JobFacts, DecisionFacts, DeployFacts, RestoreFacts, Live,
       Target, records, system,
                            PreActivation, Activation, Rollback, Fresh, Notices
  <2> QED BY <2>5, <2>6, <2>7 DEF RunFacts
<1>29. CASE RbMark(p)
  <2>1. pc[p] = "rbMark" /\ pc'[p] = "rbProfile" /\ UNCHANGED <<accepted, system, store, locks>>
    BY <1>29, <1>2 DEF RbMark, Goto
  <2>2. SameRun(p) /\ job'[p].armed = job[p].armed /\ job'[p].status = "failed"
    BY <1>29, <1>2 DEF RbMark, Jobs, SameRun
  <2>3. LockFacts(p)' /\ DecisionFacts(p)' /\ DeployFacts(p)' /\ Whole(p)' /\ Truthful(p)'
    BY <1>1, <2>1, <2>2 DEF LockFacts, DecisionFacts, DeployFacts, Whole, Truthful, InRun, SameRun, locks,
                            PreActivation, Activation, Rollback
  <2>4. JobFacts(p)' /\ RestoreFacts(p)'
    BY <1>1, <2>1, <2>2 DEF JobFacts, RestoreFacts, SameRun, PreActivation, Activation, Rollback
  <2> QED BY <2>3, <2>4 DEF RunFacts
<1>30. CASE RbProfile(p)
  <2>1. pc[p] = "rbProfile" /\ UNCHANGED <<boot, running, store, locks>>
    BY <1>30 DEF RbProfile
  <2>2. CASE Abandon(p, "profile-restore-failed")
    BY <2>1, <2>2, RollbackDecided DEF RollbackStatus, locks
  <2>3. CASE pc'[p] = "rbSwitch" /\ profile' = job[p].previous /\ job' = job
    BY <2>1, <2>3, RollbackGoesOn DEF locks
  <2> QED BY <1>30, <1>2, <2>2, <2>3 DEF RbProfile, Goto
<1>31. CASE RbSwitch(p)
  <2>1. pc[p] = "rbSwitch" /\ profile = job[p].previous /\ UNCHANGED <<profile, store, locks>>
    BY <1>31, <1>1 DEF RbSwitch, RestoreFacts
  <2>2. CASE Abandon(p, "activation-failed")
    BY <2>1, <2>2, RollbackDecided DEF RollbackStatus, locks
  <2>3. CASE pc'[p] = "rbCompare" /\ boot' = job[p].previous /\ job' = job
    BY <2>1, <2>3, RollbackGoesOn DEF locks
  <2> QED BY <1>31, <1>2, <2>2, <2>3 DEF RbSwitch, SwitchTo, Goto
<1>32. CASE RbCompare(p)
  <2>1. /\ pc[p] = "rbCompare" /\ profile = job[p].previous /\ boot = job[p].previous
        /\ UNCHANGED <<system, store, locks>>
    BY <1>32, <1>1 DEF RbCompare, RestoreFacts
  <2>2. CASE Abandon(p, "store-path-mismatch")
    BY <2>1, <2>2, RollbackDecided DEF RollbackStatus, locks
  <2>3. CASE pc'[p] = "rbHealth" /\ running = job[p].previous /\ job' = job
    BY <2>1, <2>3, RollbackGoesOn DEF locks, system
  <2> QED BY <1>32, <1>2, <2>2, <2>3 DEF RbCompare, Goto
<1>33. CASE RbHealth(p)
  <2>1. /\ pc[p] = "rbHealth" /\ Live(job[p].previous)
        /\ UNCHANGED <<profile, boot, running, store, locks>>
    BY <1>33, <1>1 DEF RbHealth, RestoreFacts, Live
  <2>2. \/ Abandon(p, "succeeded") /\ verified'
        \/ Abandon(p, "health-check-failed")
    BY <1>33 DEF RbHealth
  <2>3. job'[p].previous = job[p].previous
    BY <1>2, <2>2, CallEffects DEF SameRun, RollbackStatus
  <2>4. Live(job[p].previous)'
    BY <2>1, <2>3 DEF Live
  <2> QED BY <2>1, <2>2, <2>4, RollbackDecided DEF RollbackStatus, locks
<1>34. CASE RbFinal(p)
  <2>1. /\ pc[p] = "rbFinal" /\ pc'[p] \in {"rbSettle", "rbNotify"}
        /\ UNCHANGED <<accepted, system, store, locks, job>>
    BY <1>34, <1>2 DEF RbFinal, Goto
  <2>2. LockFacts(p)' /\ DecisionFacts(p)' /\ DeployFacts(p)' /\ Whole(p)' /\ Truthful(p)'
    BY <1>1, <2>1 DEF LockFacts, DecisionFacts, DeployFacts, Whole, Truthful, InRun, locks,
                      PreActivation, Activation, Rollback
  <2>3. JobFacts(p)' /\ RestoreFacts(p)'
    BY <1>1, <2>1 DEF JobFacts, RestoreFacts, Live, system, PreActivation, Activation, Rollback
  <2> QED BY <2>2, <2>3 DEF RunFacts
<1>35. CASE RbSettle(p)
  <2>1. pc[p] = "rbSettle" /\ pc'[p] = "rbNotify" /\ UNCHANGED <<records, system, store, locks>>
    BY <1>35, <1>2 DEF RbSettle, Goto
  <2>2. ~job'[p].armed /\ SameRun(p) /\ job'[p].status = job[p].status
    BY <1>35, <1>2 DEF RbSettle, Jobs, SameRun
  <2>3. LockFacts(p)' /\ DecisionFacts(p)' /\ DeployFacts(p)' /\ Whole(p)' /\ Truthful(p)'
    BY <1>1, <2>1, <2>2 DEF LockFacts, DecisionFacts, DeployFacts, Whole, Truthful, InRun, SameRun, locks,
                            PreActivation, Activation, Rollback
  <2>4. JobFacts(p)' /\ RestoreFacts(p)'
    BY <1>1, <2>1, <2>2 DEF JobFacts, RestoreFacts, SameRun, Live, system, PreActivation, Activation, Rollback
  <2> QED BY <2>3, <2>4 DEF RunFacts
<1>36. CASE End(p) \/ Kill(p)
  <2>1. pc'[p] = "idle" /\ job'[p] = NoJob
    BY <1>36, <1>2 DEF End, Kill, Ended
  <2> QED BY <2>1, FreshFacts DEF Fresh, NoJob, DecisionFacts, DeployFacts, PreActivation, Activation, Rollback
<1>37. CASE Terminate(p)
  <2>1. UNCHANGED <<records, system, store, locks>>
    BY <1>37 DEF Terminate
  <2>2. CASE pc[p] \in PreActivation /\ pc'[p] = "cleanupBefore" /\ job' = job
    <3>1. Fresh(p)' /\ updateLock' = p
      BY <1>1, <2>1, <2>2 DEF Fresh, JobFacts, LockFacts, InRun, locks
    <3> QED BY <2>2, <3>1, FreshFacts DEF DecisionFacts, DeployFacts, PreActivation, Activation, Rollback
  <2>3. CASE pc[p] \in Activation \cup Rollback /\ ExitTrap(p) /\ job[p].armed
    BY <2>1, <2>3, RollbackBegins DEF locks
  <2>4. CASE pc[p] \in Activation \cup Rollback /\ ExitTrap(p) /\ ~job[p].armed
    <3>1. pc'[p] = "end" /\ SameRun(p) /\ ~job'[p].armed /\ job'[p].status = job[p].status
      BY <1>2, <2>4, CallEffects
    <3>2. pc[p] \in {"notifyDeployed", "rbNotify"} /\ updateLock = p
      BY <1>1, <2>4 DEF JobFacts, LockFacts, InRun
    <3>3. LockFacts(p)' /\ JobFacts(p)' /\ DecisionFacts(p)' /\ DeployFacts(p)' /\ RestoreFacts(p)'
      BY <2>1, <3>1, <3>2 DEF LockFacts, JobFacts, DecisionFacts, DeployFacts, RestoreFacts, InRun, locks,
                              PreActivation, Activation, Rollback
    <3>4. Whole(p)'
      BY <1>1, <2>1, <3>1, <3>2 DEF Whole, SameRun, JobFacts, DecisionFacts, DeployFacts, RestoreFacts,
         Live, Target,
                                    records, system, Rollback
    <3>5. Truthful(p)'
      <4>1. job'[p].notices = <<>>
        BY <1>1, <3>1, <3>2 DEF SameRun, JobFacts
      <4> QED BY <4>1 DEF Truthful
    <3> QED BY <3>3, <3>4, <3>5 DEF RunFacts
  <2> QED BY <1>37, <1>2, <2>2, <2>3, <2>4 DEF Terminate, Goto
<1> QED BY <1>3, <1>4, <1>5, <1>6, <1>7, <1>8, <1>9, <1>10, <1>11, <1>12, <1>13, <1>14, <1>15, <1>16,
           <1>17, <1>18, <1>19, <1>20, <1>21, <1>22, <1>23, <1>24, <1>25, <1>26, <1>27, <1>28, <1>29,
           <1>30, <1>31, <1>32, <1>33, <1>34, <1>35, <1>36, <1>37 DEF Work, RunStep

\* What the system refers to stays in the store.
LEMMA StoredStep == IInv /\ [Next]_vars => Stored'
<1> SUFFICES ASSUME IInv, [Next]_vars PROVE Stored' OBVIOUS
<1> USE DEF Stored
<1>1. Stored
  BY DEF IInv
<1>2. ASSUME NEW p \in Procs, RunStep(p) PROVE Stored'
  <2>1. DeployFacts(p) /\ RestoreFacts(p)
    BY DEF IInv, RunFacts
  <2> USE <1>1, <1>2, <2>1 DEF records, system, locks
  <2>2. CASE Build(p)
    BY <2>2 DEF Build
  <2>3. CASE AdoptProfile(p) \/ AdoptBoot(p)
    BY <2>3 DEF AdoptProfile, AdoptBoot, Command, DeployFacts
  <2>4. CASE Activate(p)
    BY <2>4 DEF Activate
  <2>5. CASE Switch(p)
    BY <2>5 DEF Switch, SwitchTo, DeployFacts
  <2>6. CASE RbProfile(p)
    BY <2>6 DEF RbProfile
  <2>7. CASE RbSwitch(p)
    BY <2>7 DEF RbSwitch, SwitchTo, RestoreFacts
  <2>8. CASE TakeUpdateLock(p) \/ Discover(p) \/ Preflight(p) \/ Verify(p) \/ Recheck(p)
             \/ AdoptHealth(p) \/ AdoptRecord(p) \/ AdoptClear(p)
    BY <2>8 DEF TakeUpdateLock, Discover, Preflight, Verify, Recheck, AdoptHealth, AdoptRecord, AdoptClear
  <2>9. CASE PreHealth(p) \/ Backup(p) \/ Arm(p) \/ Compare(p) \/ Health(p) \/ Record(p) \/ Clear(p)
             \/ Commit(p)
    BY <2>9 DEF PreHealth, Backup, Arm, Compare, Health, Record, Clear, Commit
  <2>10. CASE NotifyDeployed(p) \/ RbMark(p) \/ RbCompare(p) \/ RbHealth(p) \/ RbFinal(p) \/ RbSettle(p)
              \/ RbNotify(p) \/ CleanupBefore(p)
    BY <2>10 DEF NotifyDeployed, RbMark, RbCompare, RbHealth, RbFinal, RbSettle, RbNotify, CleanupBefore
  <2>11. CASE End(p) \/ Start(p) \/ TakeMaintenanceLock(p) \/ Terminate(p) \/ Kill(p)
    BY <2>11 DEF End, Start, TakeMaintenanceLock, Terminate, Kill
  <2> QED BY <2>2, <2>3, <2>4, <2>5, <2>6, <2>7, <2>8, <2>9, <2>10, <2>11 DEF Work, RunStep
<1>3. CASE Reboot
  BY <1>1, <1>3 DEF Reboot
<1>4. CASE ManualSwitch
  BY <1>4 DEF ManualSwitch
<1>5. CASE CollectGarbage
  BY <1>1, <1>5 DEF CollectGarbage, Roots, system
<1>6. CASE Publish \/ Withdraw \/ Spoil \/ OtherTakesMaintenance \/ OtherFreesMaintenance \/ UNCHANGED vars
  BY <1>1, <1>6 DEF Publish, Withdraw, Spoil, OtherTakesMaintenance, OtherFreesMaintenance, vars, system
<1> QED BY <1>2, <1>3, <1>4, <1>5, <1>6 DEF Next, RunStep

\* What happens outside the runs.
LEMMA WorldStep ==
    ASSUME IInv, NEW p \in Procs,
           \/ Reboot \/ Publish \/ Withdraw \/ ManualSwitch \/ Spoil \/ CollectGarbage
           \/ OtherTakesMaintenance \/ OtherFreesMaintenance \/ UNCHANGED vars
    PROVE  RunFacts(p)'
<1>1. RunFacts(p)
  BY DEF IInv
<1>2. CASE Reboot
  <2>1. pc'[p] = "idle" /\ job'[p] = NoJob
    BY <1>2 DEF Reboot
  <2> QED BY <2>1, FreshFacts DEF Fresh, NoJob, DecisionFacts, DeployFacts, PreActivation, Activation, Rollback
<1>3. CASE ManualSwitch
  <2>1. pc'[p] = "idle" /\ job'[p] = job[p] /\ pc[p] = "idle"
    BY <1>3 DEF ManualSwitch
  <2>2. Fresh(p)'
    BY <1>1, <2>1 DEF RunFacts, JobFacts, Fresh
  <2> QED BY <2>1, <2>2, FreshFacts DEF DecisionFacts, DeployFacts, PreActivation, Activation, Rollback
<1>6. CASE Spoil
  <2>1. pc'[p] = "idle" /\ job'[p] = job[p] /\ pc[p] = "idle"
    BY <1>6 DEF Spoil
  <2>2. Fresh(p)'
    BY <1>1, <2>1 DEF RunFacts, JobFacts, Fresh
  <2> QED BY <2>1, <2>2, FreshFacts DEF DecisionFacts, DeployFacts, PreActivation, Activation, Rollback
<1>4. CASE CollectGarbage
  <2>1. job[p].armed => job[p].previous \in store'
    BY <1>1, <1>4 DEF CollectGarbage, Roots, RunFacts, JobFacts, RestoreFacts
  <2>2. UNCHANGED <<records, system, locks, pc, job>>
    BY <1>4 DEF CollectGarbage
  <2>3. LockFacts(p)' /\ JobFacts(p)' /\ DecisionFacts(p)' /\ DeployFacts(p)'
    BY <1>1, <2>2 DEF RunFacts, LockFacts, JobFacts, DecisionFacts, DeployFacts, Fresh, InRun, Target,
                      records, system, locks
  <2>4. RestoreFacts(p)' /\ Whole(p)' /\ Truthful(p)'
    BY <1>1, <2>1, <2>2 DEF RunFacts, RestoreFacts, Whole, Truthful, Live, Target, records, system, locks
  <2> QED BY <2>3, <2>4 DEF RunFacts
<1>5. CASE Publish \/ Withdraw \/ OtherTakesMaintenance \/ OtherFreesMaintenance \/ UNCHANGED vars
  <2>1. UNCHANGED <<records, system, store, updateLock, pc, job>>
    BY <1>5 DEF Publish, Withdraw, OtherTakesMaintenance, OtherFreesMaintenance, vars, locks
  <2>2. LockFacts(p)' /\ JobFacts(p)' /\ DecisionFacts(p)' /\ DeployFacts(p)'
    BY <1>1, <2>1 DEF RunFacts, LockFacts, JobFacts, DecisionFacts, DeployFacts, Fresh, InRun, Target,
       records, system
  <2>3. RestoreFacts(p)' /\ Whole(p)' /\ Truthful(p)'
    BY <1>1, <2>1 DEF RunFacts, RestoreFacts, Whole, Truthful, Live, Target, records, system
  <2> QED BY <2>2, <2>3 DEF RunFacts
<1> QED BY <1>2, <1>3, <1>4, <1>5, <1>6

\* Every step keeps the inductive invariant.
LEMMA InvariantStep == IInv /\ [Next]_vars => IInv'
<1> SUFFICES ASSUME IInv, [Next]_vars PROVE IInv' OBVIOUS
<1>1. ASSUME NEW q \in Procs PROVE RunFacts(q)'
  <2>1. CASE \E p \in Procs : RunStep(p)
    <3>1. PICK p \in Procs : RunStep(p)
      BY <2>1
    <3>2. CASE p = q
      BY <3>1, <3>2, SelfStep
    <3>3. CASE p # q
      BY <3>1, <3>3, OthersStep
    <3> QED BY <3>2, <3>3
  <2>2. CASE ~\E p \in Procs : RunStep(p)
    BY <2>2, WorldStep DEF Next, RunStep
  <2> QED BY <2>1, <2>2
<1> QED BY <1>1, TypeStep, StoredStep DEF IInv

\* It holds of the host that has no release yet.
LEMMA InitFacts == Init => IInv
<1> SUFFICES ASSUME Init PROVE IInv OBVIOUS
<1>1. TypeOK
  <2>1. job \in [Procs -> Jobs] /\ pc \in [Procs -> Steps]
    BY NoJobType DEF Init, Steps
  <2>2. failed \in [release : Releases \cup {0}, status : RollbackStatus \cup {"none", "in-progress", "malformed"}]
    BY DEF Init, NoFailure
  <2>3. updateLock \in Procs \cup {NoOne} /\ maintenanceLock \in Procs \cup {NoOne, Other}
    BY DEF Init
  <2>4. disruptions \in 0 .. MaxDisruptions
    BY ReleaseAssumption DEF Init
  <2>5. verified \in BOOLEAN
    BY DEF Init
  <2> QED BY <2>1, <2>2, <2>3, <2>4, <2>5, ReleaseAssumption DEF Init, TypeOK
<1>2. ASSUME NEW p \in Procs PROVE RunFacts(p)
  <2>1. pc[p] = "idle" /\ job[p] = NoJob
    BY DEF Init
  <2>2. Fresh(p)
    BY <2>1 DEF Fresh, NoJob
  <2>3. LockFacts(p) /\ DecisionFacts(p) /\ DeployFacts(p)
    BY <2>1 DEF LockFacts, DecisionFacts, DeployFacts, InRun, PreActivation, Activation, Rollback
  <2>4. JobFacts(p) /\ RestoreFacts(p) /\ Whole(p) /\ Truthful(p)
    BY <2>1, <2>2 DEF JobFacts, RestoreFacts, Whole, Truthful, Fresh, PreActivation, Activation, Rollback
  <2> QED BY <2>3, <2>4 DEF RunFacts
<1> QED BY <1>1, <1>2 DEF IInv, Stored, Init

\* The inductive invariant holds, for any releases, store paths and bounds.
THEOREM UpdaterInvariance == Spec => []IInv
<1> QED BY InitFacts, InvariantStep, PTL DEF Spec

\* Once one run is past its lock no other run is, however runs start, end and
\* are killed (stage-server-release.sh, the flock of lines 167-172).
THEOREM OneSupervisor == Spec => []Consistent
<1>1. IInv => Consistent
  BY DEF IInv, RunFacts, LockFacts, Consistent, SingleSupervisor
<1> QED BY <1>1, UpdaterInvariance, PTL

\* What a rollback would restore is in the store, whenever the collector runs
\* (the root of line 722).
THEOREM TargetNeverCollected == Spec => []RollbackTargetKept
<1>1. IInv => RollbackTargetKept
  BY DEF IInv, RunFacts, RestoreFacts, RollbackTargetKept
<1> QED BY <1>1, UpdaterInvariance, PTL

\* A rollback that says it succeeded has restored everything
\* (rollback_deployment).
THEOREM RollbackTold == Spec => []RollbackComplete
<1>1. IInv => RollbackComplete
  BY DEF IInv, RunFacts, RestoreFacts, RollbackComplete
<1> QED BY <1>1, UpdaterInvariance, PTL

\* No run that ends by itself leaves half a deployment behind
\* (fail_and_rollback, cleanup_after_activation).
THEOREM DeploymentsWhole == Spec => []NothingHalfDeployed
<1>1. IInv => NothingHalfDeployed
  BY DEF IInv, RunFacts, NothingHalfDeployed
<1> QED BY <1>1, UpdaterInvariance, PTL

\* One notice at most, and a true one (notify, cleanup_before_activation).
THEOREM NoticesTrue == Spec => []NoticesTruthful
<1>1. IInv => NoticesTruthful
  BY DEF IInv, RunFacts, NoticesTruthful
<1> QED BY <1>1, UpdaterInvariance, PTL

\* Only these two steps write accepted-release.json.
LEMMA AcceptedChanges ==
    ASSUME IInv, Next, accepted' # accepted
    PROVE  \E p \in Procs : (AdoptRecord(p) \/ Record(p)) /\ accepted' = job[p].release
<1>1. CASE Reboot \/ Publish \/ Withdraw \/ ManualSwitch \/ Spoil \/ CollectGarbage
           \/ OtherTakesMaintenance \/ OtherFreesMaintenance
  BY <1>1 DEF Reboot, Publish, Withdraw, ManualSwitch, Spoil, CollectGarbage, OtherTakesMaintenance,
              OtherFreesMaintenance, records
<1>2. ASSUME NEW p \in Procs, RunStep(p), ~AdoptRecord(p), ~Record(p) PROVE accepted' = accepted
  <2> USE <1>2 DEF records
  <2>1. CASE TakeUpdateLock(p) \/ Discover(p) \/ Preflight(p) \/ Verify(p) \/ Build(p) \/ Recheck(p)
             \/ AdoptProfile(p) \/ AdoptBoot(p)
    BY <2>1 DEF TakeUpdateLock, Discover, Preflight, Verify, Build, Recheck, AdoptProfile, AdoptBoot
  <2>2. CASE AdoptHealth(p) \/ AdoptClear(p) \/ PreHealth(p) \/ Backup(p) \/ Arm(p) \/ Activate(p)
             \/ Switch(p) \/ Compare(p)
    BY <2>2 DEF AdoptHealth, AdoptClear, PreHealth, Backup, Arm, Activate, Switch, Compare
  <2>3. CASE Health(p) \/ Clear(p) \/ Commit(p) \/ NotifyDeployed(p) \/ RbMark(p) \/ RbProfile(p)
             \/ RbSwitch(p) \/ RbCompare(p)
    BY <2>3 DEF Health, Clear, Commit, NotifyDeployed, RbMark, RbProfile, RbSwitch, RbCompare
  <2>4. CASE RbHealth(p) \/ RbFinal(p) \/ RbSettle(p) \/ RbNotify(p) \/ CleanupBefore(p) \/ End(p)
             \/ Start(p) \/ TakeMaintenanceLock(p)
    BY <2>4 DEF RbHealth, RbFinal, RbSettle, RbNotify, CleanupBefore, End, Start, TakeMaintenanceLock
  <2>5. CASE Terminate(p) \/ Kill(p)
    BY <2>5 DEF Terminate, Kill
  <2> QED BY <2>1, <2>2, <2>3, <2>4, <2>5 DEF Work, RunStep
<1>3. ASSUME NEW p \in Procs, AdoptRecord(p) \/ Record(p) PROVE accepted' = job[p].release
  BY <1>3 DEF AdoptRecord, Record
<1> QED BY <1>1, <1>2, <1>3 DEF Next, RunStep

\* The record of the accepted release never goes back: the comparison of the
\* discovery still holds when the record is written.
THEOREM NeverRegresses == Spec => AcceptedNeverRegresses
<1>1. IInv /\ [Next]_vars => [accepted' >= accepted]_vars
  <2> SUFFICES ASSUME IInv, Next, accepted' # accepted PROVE accepted' >= accepted
    BY DEF IInv, TypeOK, Releases, vars, records
  <2>1. PICK p \in Procs : (AdoptRecord(p) \/ Record(p)) /\ accepted' = job[p].release
    BY AcceptedChanges
  <2>2. DecisionFacts(p) /\ pc[p] \in {"adoptRecord", "record"}
    BY <2>1 DEF IInv, RunFacts, AdoptRecord, Record, Command
  <2> QED BY <2>1, <2>2 DEF DecisionFacts, PreActivation, Activation
<1> QED BY <1>1, UpdaterInvariance, PTL DEF Spec, AcceptedNeverRegresses

\* What becomes accepted runs, boots next and has passed the full gate.
THEOREM AcceptedWasEarned == Spec => AcceptanceEarned
<1>1. IInv /\ [Next]_vars => [accepted' # accepted => Live(PathOf[accepted']) /\ verified]_vars
  <2> SUFFICES ASSUME IInv, Next, accepted' # accepted PROVE Live(PathOf[accepted']) /\ verified
    BY DEF vars, records
  <2>1. PICK p \in Procs : (AdoptRecord(p) \/ Record(p)) /\ accepted' = job[p].release
    BY AcceptedChanges
  <2>2. DeployFacts(p) /\ pc[p] \in {"adoptRecord", "record"}
    BY <2>1 DEF IInv, RunFacts, AdoptRecord, Record, Command
  <2> QED BY <2>1, <2>2 DEF DeployFacts, Live, Target
<1> QED BY <1>1, UpdaterInvariance, PTL DEF Spec, AcceptanceEarned

\* A run goes live only with records it could read, and without --force only with
\* a release that is newer than the accepted one and is not quarantined at that time.
THEOREM OnlyNewUnforced == Spec => UnforcedDeploysOnlyNew
<1>1. IInv => \A p \in Procs : pc[p] = "arm" =>
         /\ legible
         /\ ~job[p].force =>
              /\ job[p].release > accepted
              /\ failed # Malformed /\ job[p].release # failed.release
  <2> SUFFICES ASSUME IInv, NEW p \in Procs, pc[p] = "arm"
               PROVE  /\ legible
                      /\ ~job[p].force =>
                           /\ job[p].release > accepted
                           /\ failed # Malformed /\ job[p].release # failed.release
    OBVIOUS
  <2>1. DecisionFacts(p) /\ job[p].release \in Nat /\ accepted \in Nat
    BY JobType DEF IInv, RunFacts, TypeOK, Releases
  <2> QED BY <2>1 DEF DecisionFacts, PreActivation
<1>2. IInv => [\A p \in Procs :
         pc[p] = "arm" /\ pc'[p] = "activate" =>
             /\ legible
             /\ ~job[p].force =>
                  /\ job[p].release > accepted
                  /\ failed # Malformed /\ job[p].release # failed.release]_vars
  BY <1>1
<1> QED BY <1>2, UpdaterInvariance, PTL DEF UnforcedDeploysOnlyNew
=============================================================================
