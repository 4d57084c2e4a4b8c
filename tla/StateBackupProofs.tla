------------------------- MODULE StateBackupProofs -------------------------
(* The inductive invariant of StateBackup and what follows from it.        *)
EXTENDS StateBackup, SequenceTheorems, TLAPS

LEMMA Initially == Init => IInv
BY BackupAssumption DEF Init, IInv, TypeOK, LockFacts, ImageFacts, UnitFacts, ImagesKept,
   PausedStayDown, NoUnitLeftDown, SurplusFacts, Down, Scripts, UnitStates, UpdaterSteps, PruneSteps, ScriptSteps, Trapped

\* What the end of a script leaves behind.
LEMMA ExitTypes ==
  ASSUME TypeOK, NEW s \in Scripts, NEW ok \in BOOLEAN, Exit(s, ok)
  PROVE  /\ holders' \subseteq {"updater", "deploy", "manual", "prune"}
         /\ updater' \in UpdaterSteps
         /\ switching' \subseteq Units
         /\ prune' \in PruneSteps
         /\ pc' \in [Scripts -> ScriptSteps]
         /\ todo' \in [Scripts -> SUBSET Units]
         /\ cur' \in [Scripts -> Units \cup {None}]
         /\ stopped' \in [Scripts -> SUBSET Units]
         /\ surplus' \in [Scripts -> Nat]
<1> USE DEF TypeOK, Exit, Goto
<1>1. holders' \subseteq {"updater", "deploy", "manual", "prune"} OBVIOUS
<1>2. updater' \in UpdaterSteps BY DEF UpdaterSteps
<1>3. switching' \subseteq Units /\ prune' \in PruneSteps OBVIOUS
<1>4. pc' \in [Scripts -> ScriptSteps] BY DEF ScriptSteps
<1>5. todo' \in [Scripts -> SUBSET Units] OBVIOUS
<1>6. cur' \in [Scripts -> Units \cup {None}] OBVIOUS
<1>7. stopped' \in [Scripts -> SUBSET Units] OBVIOUS
<1>8. surplus' \in [Scripts -> Nat] OBVIOUS
<1> QED BY <1>1, <1>2, <1>3, <1>4, <1>5, <1>6, <1>7, <1>8

\* What one deletion makes of the list of archives.
LEMMA OneRemoved ==
  ASSUME NEW S, NEW q \in Seq(S), NEW i \in 1 .. Len(q)
  PROVE  RemoveAt(q, i) \in Seq(S) /\ Len(RemoveAt(q, i)) = Len(q) - 1
<1>1. Len(q) \in Nat /\ \A j \in 1 .. Len(q) : q[j] \in S BY LenProperties, ElementOfSeq
<1>2. SubSeq(q, 1, i - 1) \in Seq(S) /\ Len(SubSeq(q, 1, i - 1)) = i - 1 BY <1>1, SubSeqProperties
<1>3. SubSeq(q, i + 1, Len(q)) \in Seq(S) /\ Len(SubSeq(q, i + 1, Len(q))) = Len(q) - i
  BY <1>1, SubSeqProperties
<1> DEFINE before == SubSeq(q, 1, i - 1)
           after == SubSeq(q, i + 1, Len(q))
<1>4. RemoveAt(q, i) = before \o after BY DEF RemoveAt
<1> HIDE DEF before, after
<1>5. before \in Seq(S) /\ Len(before) = i - 1 BY <1>2 DEF before
<1>6. after \in Seq(S) /\ Len(after) = Len(q) - i BY <1>3 DEF after
<1>7. before \o after \in Seq(S) /\ Len(before \o after) = Len(before) + Len(after)
  BY <1>5, <1>6, ConcatProperties
<1> QED BY <1>1, <1>4, <1>5, <1>6, <1>7

\* What starting units does, and to which units it does nothing.
LEMMA StartTypes ==
  ASSUME TypeOK, NEW S \in SUBSET Units, StartUnits(S)
  PROVE  /\ unit' \in [Units -> UnitStates]
         /\ images' \subseteq Units
         /\ images \subseteq images'
         /\ \A u \in Units \ S : unit'[u] = unit[u]
         /\ \A u \in S : unit'[u] # "inactive" /\ (unit'[u] = "active" => u \in images')
<1>1. PICK result \in [S -> {"active", "activating", "failed"}] :
        /\ unit' = [u \in Units |-> IF u \in S THEN result[u] ELSE unit[u]]
        /\ images' = images \cup {u \in S : result[u] = "active"}
  BY DEF StartUnits
<1>2. unit' \in [Units -> UnitStates] BY <1>1 DEF TypeOK, UnitStates
<1>3. images' \subseteq Units /\ images \subseteq images' BY <1>1 DEF TypeOK
<1>4. \A u \in Units \ S : unit'[u] = unit[u] BY <1>1 DEF TypeOK
<1>5. \A u \in S : unit'[u] = result[u] BY <1>1
<1>6. \A u \in S : unit'[u] # "inactive" /\ (unit'[u] = "active" => u \in images')
  BY <1>1, <1>5
<1> QED BY <1>2, <1>3, <1>4, <1>6

LEMMA TypeStep == ASSUME IInv, [Next]_vars PROVE TypeOK'
<1> USE DEF TypeOK, Scripts, UnitStates, UpdaterSteps, PruneSteps, ScriptSteps, Trapped,
            lockVars, scriptVars, Goto
<1> TypeOK BY DEF IInv
<1>1. CASE UpdaterStart BY <1>1 DEF UpdaterStart
<1>2. CASE UpdaterLock BY <1>2 DEF UpdaterLock
<1>3. CASE RunBackup BY <1>3 DEF RunBackup, DeployEntry
<1>4. CASE SwitchStop BY <1>4 DEF SwitchStop
<1>5. CASE SwitchStart BY <1>5, StartTypes DEF SwitchStart
<1>6. CASE UpdaterExit BY <1>6 DEF UpdaterExit
<1>7. CASE UpdaterKilled BY <1>7 DEF UpdaterKilled
<1>8. CASE PruneStart BY <1>8 DEF PruneStart
<1>9. CASE PruneLock BY <1>9 DEF PruneLock
<1>10. CASE Prune BY <1>10 DEF Prune
<1>11. CASE ManualStart BY <1>11 DEF ManualStart
<1>12. CASE Reboot BY <1>12 DEF Reboot
<1>13. ASSUME NEW s \in Scripts, Script(s) PROVE TypeOK'
  <2>1. CASE Lock(s) BY <2>1 DEF Lock
  <2>2. CASE Applications(s)
    <3>0. UNCHANGED <<unit, images, left, archives>> BY <2>2 DEF Applications
    <3>1. CASE Exit(s, FALSE) BY <3>0, <3>1, ExitTypes
    <3>2. CASE /\ pc' = [pc EXCEPT ![s] = "pause"]
               /\ todo' = [todo EXCEPT ![s] = Units]
               /\ UNCHANGED <<lockVars, cur, stopped, surplus>>
      BY <3>0, <3>2
    <3> QED BY <2>2, <3>1, <3>2 DEF Applications
  <2>3. CASE Pause(s) BY <2>3 DEF Pause
  <2>4. CASE Paused(s) BY <2>4 DEF Paused
  <2>5. CASE Stop(s) BY <2>5 DEF Stop
  <2>6. CASE Record(s)
    <3>1. cur[s] \in Units BY <2>6 DEF Record, IInv, ImageFacts
    <3> QED BY <2>6, <3>1 DEF Record
  <2>7. CASE Collect(s) BY <2>7 DEF Collect
  <2>8. CASE Tar(s) BY <2>8 DEF Tar
  <2>9. CASE Publish(s)
    <3>1. PICK a \in Archives : archives' = Append(archives, a) BY <2>9 DEF Publish
    <3>2. archives' \in Seq(Archives) BY <3>1, AppendProperties
    <3> QED BY <2>9, <3>2 DEF Publish
  <2>10. CASE Restart(s) BY <2>10, StartTypes DEF Restart
  <2>11. CASE ListArchives(s) BY <2>11, BackupAssumption, LenProperties DEF ListArchives
  <2>12. CASE RemoveArchive(s)
    <3>1. surplus[s] \in 1 .. Len(archives)
      BY <2>12, BackupAssumption, LenProperties DEF RemoveArchive, IInv, SurplusFacts
    <3>2. archives' \in Seq(Archives) BY <2>12, <3>1, OneRemoved DEF RemoveArchive
    <3> QED BY <2>12, <3>1, <3>2 DEF RemoveArchive
  <2>13. CASE Retained(s) BY <2>13, ExitTypes DEF Retained
  <2>14. CASE Cleanup(s) BY <2>14, ExitTypes, StartTypes DEF Cleanup, LeavesDown
  <2> QED BY <1>13, <2>1, <2>2, <2>3, <2>4, <2>5, <2>6, <2>7, <2>8, <2>9, <2>10, <2>11, <2>12,
             <2>13, <2>14
      DEF Script
<1>14. ASSUME NEW s \in Scripts, Signal(s) PROVE TypeOK'
  <2>1. CASE pc[s] \in {"pause", "stop", "record", "collect", "tar", "publish", "restart"}
    <3>1. /\ pc' = [pc EXCEPT ![s] = "cleanup"] /\ UNCHANGED <<lockVars, todo, cur, stopped, surplus>>
          /\ images' = images /\ left' = left /\ archives' = archives
      BY <1>14, <2>1 DEF Signal
    <3>2. unit' = unit \/ (pc[s] = "stop" /\ unit' = [unit EXCEPT ![cur[s]] = "inactive"])
      BY <1>14, <2>1 DEF Signal
    <3> QED BY <3>1, <3>2
  <2>2. CASE Exit(s, FALSE) /\ unit' = unit /\ images' = images /\ left' = left /\ archives' = archives
    BY <2>2, ExitTypes
  <2> QED BY <1>14, <2>1, <2>2 DEF Signal
<1>15. ASSUME NEW u \in Units, Crash(u) PROVE TypeOK' BY <1>15 DEF Crash
<1>16. ASSUME NEW u \in Units, Up(u) PROVE TypeOK' BY <1>16 DEF Up
<1>17. CASE UNCHANGED vars BY <1>17 DEF vars
<1>18. ASSUME NEW s \in Scripts, Kill(s) PROVE TypeOK'
  <2>1. unit' \in [Units -> UnitStates] /\ images' \subseteq Units
    <3>1. CASE UNCHANGED <<unit, images>> BY <3>1
    <3>2. CASE unit' = [unit EXCEPT ![cur[s]] = "inactive"] /\ UNCHANGED images BY <3>2
    <3>3. CASE \E S \in SUBSET stopped[s] : StartUnits(S) BY <3>3, StartTypes
    <3> QED BY <1>18, <3>1, <3>2, <3>3 DEF Kill
  <2>2. left' \subseteq Units /\ archives' = archives /\ Exit(s, FALSE) BY <1>18 DEF Kill, LeavesDown
  <2> QED BY <2>1, <2>2, ExitTypes
<1> QED BY <1>1, <1>2, <1>3, <1>4, <1>5, <1>6, <1>7, <1>8, <1>9, <1>10, <1>11, <1>12,
           <1>13, <1>14, <1>15, <1>16, <1>17, <1>18 DEF Next

LEMMA LockStep == ASSUME IInv, [Next]_vars PROVE LockFacts'
<1> USE DEF TypeOK, LockFacts, Scripts, UpdaterSteps, PruneSteps, ScriptSteps, Trapped,
            lockVars, scriptVars, Goto
<1> TypeOK /\ LockFacts BY DEF IInv
<1>1. CASE UpdaterStart BY <1>1 DEF UpdaterStart
<1>2. CASE UpdaterLock BY <1>2 DEF UpdaterLock
<1>3. CASE RunBackup BY <1>3 DEF RunBackup, DeployEntry
<1>4. CASE SwitchStop BY <1>4 DEF SwitchStop
<1>5. CASE SwitchStart BY <1>5 DEF SwitchStart
<1>6. CASE UpdaterExit BY <1>6 DEF UpdaterExit
<1>7. CASE UpdaterKilled BY <1>7 DEF UpdaterKilled
<1>8. CASE PruneStart BY <1>8 DEF PruneStart
<1>9. CASE PruneLock BY <1>9 DEF PruneLock
<1>10. CASE Prune BY <1>10 DEF Prune
<1>11. CASE ManualStart BY <1>11 DEF ManualStart
<1>12. CASE Reboot BY <1>12 DEF Reboot
<1>13. ASSUME NEW s \in Scripts, NEW ok \in BOOLEAN, Exit(s, ok), pc[s] \notin {"idle", "lock"}
       PROVE  LockFacts'
  <2>1. CASE s = "manual" BY <1>13, <2>1 DEF Exit
  <2>2. CASE s = "deploy" BY <1>13, <2>2 DEF Exit
  <2> QED BY <2>1, <2>2
<1>14. ASSUME NEW s \in Scripts, Script(s) PROVE LockFacts'
  <2>1. CASE Lock(s) BY <2>1 DEF Lock
  <2>2. CASE Applications(s)
    <3>1. CASE Exit(s, FALSE) BY <2>2, <3>1, <1>13 DEF Applications
    <3>2. CASE ~Exit(s, FALSE) BY <2>2, <3>2 DEF Applications
    <3> QED BY <3>1, <3>2
  <2>3. CASE Pause(s) BY <2>3 DEF Pause
  <2>4. CASE Paused(s) BY <2>4 DEF Paused
  <2>5. CASE Stop(s) BY <2>5 DEF Stop
  <2>6. CASE Record(s) BY <2>6 DEF Record
  <2>7. CASE Collect(s) BY <2>7 DEF Collect
  <2>8. CASE Tar(s) BY <2>8 DEF Tar
  <2>9. CASE Publish(s) BY <2>9 DEF Publish
  <2>10. CASE Restart(s) BY <2>10 DEF Restart
  <2>11. CASE ListArchives(s) BY <2>11 DEF ListArchives
  <2>12. CASE RemoveArchive(s) BY <2>12 DEF RemoveArchive
  <2>13. CASE Retained(s) BY <2>13, <1>13 DEF Retained
  <2>14. CASE Cleanup(s) BY <2>14, <1>13 DEF Cleanup
  <2> QED BY <1>14, <2>1, <2>2, <2>3, <2>4, <2>5, <2>6, <2>7, <2>8, <2>9, <2>10, <2>11, <2>12,
             <2>13, <2>14
      DEF Script
<1>15. ASSUME NEW s \in Scripts, Signal(s) \/ Kill(s) PROVE LockFacts'
  <2>1. CASE Signal(s) /\ pc[s] \in Trapped BY <2>1 DEF Signal
  <2>2. CASE pc[s] = "lock" BY <1>15, <2>2 DEF Signal, Kill, Exit
  <2>3. CASE Signal(s) /\ pc[s] \notin Trapped \cup {"lock"} BY <2>3, <1>13 DEF Signal
  <2>4. CASE Kill(s) /\ pc[s] # "lock" BY <2>4, <1>13 DEF Kill
  <2> QED BY <1>15, <2>1, <2>2, <2>3, <2>4
<1>16. ASSUME NEW u \in Units, Crash(u) PROVE LockFacts' BY <1>16 DEF Crash
<1>17. ASSUME NEW u \in Units, Up(u) PROVE LockFacts' BY <1>17 DEF Up
<1>18. CASE UNCHANGED vars BY <1>18 DEF vars
<1> QED BY <1>1, <1>2, <1>3, <1>4, <1>5, <1>6, <1>7, <1>8, <1>9, <1>10, <1>11, <1>12,
           <1>14, <1>15, <1>16, <1>17, <1>18 DEF Next

\* What both remaining parts need of an action by one script.
LEMMA ExitEnds ==
  ASSUME TypeOK, NEW s \in Scripts, NEW ok \in BOOLEAN, Exit(s, ok)
  PROVE  /\ pc'[s] = "idle" /\ stopped'[s] = {} /\ cur'[s] = None
         /\ \A t \in Scripts \ {s} : pc'[t] = pc[t] /\ stopped'[t] = stopped[t] /\ cur'[t] = cur[t]
         /\ switching' = switching
         /\ updater = "switch" => updater' = "switch"
         /\ updater' = "switch" => updater = "switch"
BY DEF TypeOK, Exit, Goto

\* Only one of the lock's users can have a unit down.
LEMMA OneAtATime ==
  ASSUME IInv
  PROVE  /\ \A s, t \in Scripts : pc[s] \notin {"idle", "lock"} /\ pc[t] \notin {"idle", "lock"} => s = t
         /\ prune = "prune" => updater # "switch" /\ \A s \in Scripts : pc[s] \in {"idle", "lock"}
         /\ updater \in {"activate", "switch"} => \A s \in Scripts : pc[s] \in {"idle", "lock"}
BY DEF IInv, TypeOK, LockFacts, Scripts, UpdaterSteps, PruneSteps

\* The parts of the invariant about units and images, of one step.
Core == ImageFacts /\ UnitFacts /\ ImagesKept /\ PausedStayDown

LEMMA CoreStep == ASSUME IInv, [Next]_vars PROVE Core'
<1> USE DEF TypeOK, Core, ImageFacts, UnitFacts, ImagesKept, PausedStayDown, Down,
            lockVars, scriptVars, Goto
<1> TypeOK /\ Core BY DEF IInv
<1>0. TypeOK' BY TypeStep
<1>1. CASE UpdaterStart BY <1>1 DEF UpdaterStart
<1>2. CASE UpdaterLock BY <1>2 DEF UpdaterLock
<1>3. CASE RunBackup
  <2>1. pc["deploy"] = "idle" BY <1>3 DEF RunBackup, IInv, LockFacts
  <2> QED BY <1>3, <2>1 DEF RunBackup, DeployEntry, Scripts
<1>4. CASE SwitchStop
  <2>1. \A s \in Scripts : pc[s] \in {"idle", "lock"} BY <1>4, OneAtATime DEF SwitchStop
  <2> QED BY <1>4, <2>1 DEF SwitchStop
<1>5. CASE SwitchStart
  <2>1. \A s \in Scripts : pc[s] \in {"idle", "lock"} BY <1>5, OneAtATime DEF SwitchStart
  <2> QED BY <1>5, <2>1, StartTypes DEF SwitchStart
<1>6. CASE UpdaterExit BY <1>6 DEF UpdaterExit
<1>7. CASE UpdaterKilled BY <1>7 DEF UpdaterKilled
<1>8. CASE PruneStart BY <1>8 DEF PruneStart
<1>9. CASE PruneLock BY <1>9 DEF PruneLock
<1>10. CASE Prune
  <2>1. updater # "switch" /\ \A s \in Scripts : pc[s] \in {"idle", "lock"}
    BY <1>10, OneAtATime DEF Prune
  <2> QED BY <1>10, <2>1 DEF Prune
<1>11. CASE ManualStart BY <1>11 DEF ManualStart
<1>12. CASE Reboot BY <1>12 DEF Reboot
<1>e. ASSUME NEW s \in Scripts, NEW ok \in BOOLEAN, Exit(s, ok), UNCHANGED <<unit, images>>
      PROVE  Core'
  <2>1. /\ pc'[s] = "idle" /\ stopped'[s] = {} /\ cur'[s] = None
        /\ \A t \in Scripts \ {s} : pc'[t] = pc[t] /\ stopped'[t] = stopped[t] /\ cur'[t] = cur[t]
        /\ switching' = switching
        /\ updater' = "switch" <=> updater = "switch"
    BY <1>e, ExitEnds
  <2>2. ImageFacts' BY <1>e, <2>1
  <2>4. \A t \in Scripts : pc'[t] \in {"idle", "lock", "apps"} => stopped'[t] = {}
    BY <2>1
  <2>8. ASSUME NEW t \in Scripts, pc'[t] = "record" PROVE unit'[cur'[t]] = "inactive"
    <3>1. t # s BY <2>1, <2>8
    <3>2. pc[t] = "record" /\ cur'[t] = cur[t] /\ unit' = unit BY <1>e, <2>1, <2>8, <3>1
    <3> QED BY <3>2
  <2>9. updater' # "switch" => switching' = {} BY <2>1
  <2>5. \A t \in Scripts : pc'[t] \notin {"stop", "record", "cleanup"} => cur'[t] = None
    BY <2>1
  <2>6. \A t \in Scripts : pc'[t] \in {"list", "retain"} => \A u \in stopped'[t] : unit'[u] # "inactive"
    BY <1>e, <2>1
  <2>7. UnitFacts' BY <2>4, <2>5, <2>6, <2>8, <2>9
  <2>3. ImagesKept' /\ PausedStayDown' BY <1>e, <2>1
  <2> QED BY <2>2, <2>3, <2>7
<1>13. ASSUME NEW s \in Scripts, Script(s) PROVE Core'
  <2>0. \A t \in Scripts : pc[s] # "lock" /\ t # s => pc[t] \in {"idle", "lock"}
    BY <1>13, OneAtATime
       DEF Script, Lock, Applications, Pause, Paused, Stop, Record, Collect, Tar, Publish,
           Restart, ListArchives, RemoveArchive, Retained, Cleanup
  <2>1. CASE Lock(s) BY <2>1 DEF Lock
  <2>2. CASE Applications(s)
    <3>0. UNCHANGED <<unit, images>> BY <2>2 DEF Applications
    <3>1. CASE Exit(s, FALSE) BY <3>0, <3>1, <1>e
    <3>2. CASE /\ pc' = [pc EXCEPT ![s] = "pause"]
               /\ UNCHANGED <<lockVars, cur, stopped>>
      BY <2>2, <3>0, <3>2 DEF Applications
    <3> QED BY <2>2, <3>1, <3>2 DEF Applications
  <2>3. CASE Pause(s)
    <3>1. PICK u \in todo[s] :
            IF unit[u] = "active"
            THEN pc' = [pc EXCEPT ![s] = "stop"] /\ cur' = [cur EXCEPT ![s] = u]
            ELSE UNCHANGED <<pc, cur>>
      BY <2>3 DEF Pause
    <3>2. u \in Units /\ pc[s] = "pause" /\ UNCHANGED <<unit, images, lockVars, stopped>>
      BY <2>3 DEF Pause
    <3>3. CASE unit[u] = "active"
      <4>1. pc'[s] = "stop" /\ cur'[s] = u BY <3>1, <3>3
      <4>2. \A t \in Scripts \ {s} : pc'[t] = pc[t] /\ cur'[t] = cur[t] BY <3>1, <3>3
      <4>3. ImageFacts' BY <3>2, <3>3, <4>1, <4>2
      <4>6. \A t \in Scripts : pc'[t] = "record" => unit'[cur'[t]] = "inactive"
        <5>1. ASSUME NEW t \in Scripts, pc'[t] = "record" PROVE unit'[cur'[t]] = "inactive"
          <6>1. t # s BY <4>1, <5>1
          <6>2. pc[t] = "record" /\ cur'[t] = cur[t] /\ unit' = unit BY <3>2, <4>2, <5>1, <6>1
          <6> QED BY <6>2
        <5> QED BY <5>1
      <4>7. /\ \A t \in Scripts : pc'[t] \in {"idle", "lock", "apps"} => stopped'[t] = {}
            /\ \A t \in Scripts : pc'[t] \notin {"stop", "record", "cleanup"} => cur'[t] = None
            /\ \A t \in Scripts : pc'[t] \in {"list", "retain"} => \A v \in stopped'[t] : unit'[v] # "inactive"
        BY <3>2, <4>1, <4>2
      <4>8. updater' # "switch" => switching' = {} BY <3>2
      <4>4. UnitFacts' BY <4>6, <4>7, <4>8
      <4>5. ImagesKept' /\ PausedStayDown' BY <3>2, <4>1, <4>2
      <4> QED BY <4>3, <4>4, <4>5
    <3>4. CASE unit[u] # "active" BY <3>1, <3>2, <3>4
    <3> QED BY <3>3, <3>4
  <2>4. CASE Paused(s) BY <2>4 DEF Paused
  <2>5. CASE Stop(s)
    <3>1. pc[s] = "stop" /\ pc'[s] \in {"record", "cleanup"} BY <2>5 DEF Stop
    <3>2. \A t \in Scripts \ {s} : pc'[t] = pc[t] /\ pc[t] \in {"idle", "lock"} BY <2>0, <2>5, <3>1 DEF Stop
    <3>3. UNCHANGED <<images, switching, updater, cur, stopped>> BY <2>5 DEF Stop
    <3>4. unit' = unit \/ unit' = [unit EXCEPT ![cur[s]] = "inactive"] BY <2>5 DEF Stop
    <3>5. pc'[s] = "record" => unit'[cur[s]] = "inactive" BY <2>5 DEF Stop, ScriptSteps
    <3>6. ImageFacts' BY <3>1, <3>2, <3>3, <3>4
    <3>7. UnitFacts' BY <3>1, <3>2, <3>3, <3>5
    <3>8. ImagesKept' BY <3>1, <3>2, <3>3
    <3>9. PausedStayDown' BY <3>1, <3>2, <3>3, <3>4
    <3> QED BY <3>6, <3>7, <3>8, <3>9
  <2>6. CASE Record(s) BY <2>0, <2>6 DEF Record
  <2>7. CASE Collect(s) BY <2>7 DEF Collect
  <2>8. CASE Tar(s) BY <2>8 DEF Tar
  <2>9. CASE Publish(s) BY <2>9 DEF Publish
  <2>10. CASE Restart(s)
    <3>1. pc[s] = "restart" /\ pc'[s] \in {"list", "cleanup"} /\ StartUnits(stopped[s]) BY <2>10 DEF Restart
    <3>2. \A t \in Scripts \ {s} : pc'[t] = pc[t] /\ pc[t] \in {"idle", "lock"} BY <2>0, <2>10, <3>1 DEF Restart
    <3>3. UNCHANGED <<switching, updater, cur, stopped>> BY <2>10 DEF Restart
    <3>4. /\ images \subseteq images'
          /\ \A u \in Units : unit'[u] = "active" => u \in images'
          /\ \A u \in stopped[s] : unit'[u] # "inactive"
      BY <3>1, StartTypes
    <3>5. ImageFacts' BY <3>1, <3>2, <3>3, <3>4
    <3>6. UnitFacts' BY <3>1, <3>2, <3>3, <3>4
    <3>7. ImagesKept' BY <3>1, <3>2, <3>3, <3>4
    <3>8. PausedStayDown' BY <3>1, <3>2, <3>3
    <3> QED BY <3>5, <3>6, <3>7, <3>8
  <2>11. CASE ListArchives(s) BY <2>11 DEF ListArchives
  <2>12. CASE RemoveArchive(s) BY <2>12 DEF RemoveArchive
  <2>13. CASE Retained(s) BY <2>13, <1>e DEF Retained
  <2>14. CASE Cleanup(s)
    <3>1. Exit(s, FALSE) /\ StartUnits(stopped[s]) /\ pc[s] = "cleanup" BY <2>14 DEF Cleanup
    <3>2. /\ pc'[s] = "idle" /\ stopped'[s] = {} /\ cur'[s] = None
          /\ \A t \in Scripts \ {s} : pc'[t] = pc[t] /\ stopped'[t] = stopped[t] /\ cur'[t] = cur[t]
          /\ switching' = switching
          /\ updater' = "switch" <=> updater = "switch"
      BY <3>1, ExitEnds
    <3>3. /\ images \subseteq images'
          /\ \A u \in Units : unit'[u] = "active" => u \in images'
      BY <3>1, StartTypes
    <3> QED BY <2>0, <3>1, <3>2, <3>3
  <2> QED BY <1>13, <2>1, <2>2, <2>3, <2>4, <2>5, <2>6, <2>7, <2>8, <2>9, <2>10, <2>11, <2>12,
             <2>13, <2>14
      DEF Script
<1>14. ASSUME NEW s \in Scripts, Signal(s) PROVE Core'
  <2>1. CASE pc[s] = "stop"
    <3>1. \A t \in Scripts : t # s => pc[t] \in {"idle", "lock"} BY <2>1, OneAtATime
    <3>2. /\ pc' = [pc EXCEPT ![s] = "cleanup"]
          /\ unit' = unit \/ unit' = [unit EXCEPT ![cur[s]] = "inactive"]
          /\ UNCHANGED <<images, switching, updater, cur, stopped>>
      BY <1>14, <2>1 DEF Signal, Trapped
    <3>3. ImageFacts' BY <2>1, <3>1, <3>2
    <3>6. pc'[s] = "cleanup" /\ \A t \in Scripts \ {s} : pc'[t] = pc[t] BY <3>2
    <3>4. UnitFacts' BY <2>1, <3>1, <3>2, <3>6
    <3>5. ImagesKept' /\ PausedStayDown' BY <2>1, <3>1, <3>2
    <3> QED BY <3>3, <3>4, <3>5
  <2>2. CASE pc[s] \in Trapped \ {"stop"} 
    <3>1. /\ pc' = [pc EXCEPT ![s] = "cleanup"]
          /\ UNCHANGED <<unit, images, lockVars, cur, stopped>>
      BY <1>14, <2>2 DEF Signal
    <3>2. pc[s] \in Down BY <2>2 DEF Trapped
    <3> QED BY <3>1, <3>2
  <2>3. CASE pc[s] \notin Trapped
    <3>1. Exit(s, FALSE) /\ UNCHANGED <<unit, images>> BY <1>14, <2>3 DEF Signal, Trapped
    <3> QED BY <3>1, <1>e
  <2> QED BY <2>1, <2>2, <2>3
<1>15. ASSUME NEW u \in Units, Crash(u) PROVE Core' BY <1>15 DEF Crash
<1>16. ASSUME NEW u \in Units, Up(u) PROVE Core' BY <1>16 DEF Up
<1>17. CASE UNCHANGED vars BY <1>17 DEF vars
<1>18. ASSUME NEW s \in Scripts, Kill(s) PROVE Core'
  <2>1. Exit(s, FALSE) /\ pc[s] # "idle" BY <1>18 DEF Kill
  <2>2. /\ pc'[s] = "idle" /\ stopped'[s] = {} /\ cur'[s] = None
        /\ \A t \in Scripts \ {s} : pc'[t] = pc[t] /\ stopped'[t] = stopped[t] /\ cur'[t] = cur[t]
        /\ switching' = switching
        /\ updater' = "switch" <=> updater = "switch"
    BY <2>1, ExitEnds
  <2>3. CASE UNCHANGED <<unit, images>> BY <2>1, <2>3, <1>e
  <2>4. CASE ~UNCHANGED <<unit, images>>
    <3>1. pc[s] \in {"stop", "restart", "cleanup"} BY <1>18, <2>4 DEF Kill
    <3>2. \A t \in Scripts : t # s => pc[t] \in {"idle", "lock"} BY <3>1, OneAtATime
    <3>3. images \subseteq images' /\ \A u \in Units : unit'[u] = "active" => u \in images'
      <4>1. CASE unit' = [unit EXCEPT ![cur[s]] = "inactive"] /\ UNCHANGED images BY <4>1
      <4>2. CASE \E S \in SUBSET stopped[s] : StartUnits(S)
        <5>1. PICK S \in SUBSET stopped[s] : StartUnits(S) BY <4>2
        <5>2. S \in SUBSET Units OBVIOUS
        <5> QED BY <5>1, <5>2, StartTypes
      <4> QED BY <1>18, <2>4, <4>1, <4>2 DEF Kill
    <3> QED BY <2>2, <3>1, <3>2, <3>3
  <2> QED BY <2>3, <2>4
<1> QED BY <1>1, <1>2, <1>3, <1>4, <1>5, <1>6, <1>7, <1>8, <1>9, <1>10, <1>11, <1>12,
           <1>13, <1>14, <1>15, <1>16, <1>17, <1>18 DEF Next

\* A script that ends has started, or leaves in left, what it had down.
LEMMA ExitLeaves ==
  ASSUME IInv, NEW s \in Scripts, NEW ok \in BOOLEAN, Exit(s, ok), left \subseteq left',
         \A u \in Units : unit'[u] = "inactive" => unit[u] = "inactive" \/ u \in left',
         \A u \in stopped[s] \cup {cur[s]} : u \in Units /\ unit'[u] = "inactive" => u \in left'
  PROVE  NoUnitLeftDown'
<1> TypeOK /\ NoUnitLeftDown BY DEF IInv
<1>1. /\ switching' = switching
      /\ \A t \in Scripts \ {s} : stopped'[t] = stopped[t] /\ cur'[t] = cur[t]
  BY ExitEnds
<1> SUFFICES ASSUME NEW u \in Units, unit'[u] = "inactive", u \notin left'
             PROVE  u \in switching' \/ \E t \in Scripts : u \in stopped'[t] \cup {cur'[t]}
  BY DEF NoUnitLeftDown
<1>2. u \in switching \/ \E t \in Scripts : u \in stopped[t] \cup {cur[t]}
  BY DEF NoUnitLeftDown
<1> QED BY <1>1, <1>2

LEMMA LeftStep == ASSUME IInv, [Next]_vars PROVE NoUnitLeftDown'
<1> USE DEF TypeOK, lockVars, scriptVars, Goto
<1>0. TypeOK /\ NoUnitLeftDown /\ UnitFacts /\ None \notin Units BY BackupAssumption DEF IInv
<1>1. CASE \/ UpdaterStart \/ UpdaterLock \/ RunBackup \/ UpdaterExit \/ UpdaterKilled
           \/ PruneStart \/ PruneLock \/ Prune \/ ManualStart \/ UNCHANGED vars
  <2>1. UNCHANGED <<unit, switching, left, stopped, cur>>
    BY <1>1 DEF UpdaterStart, UpdaterLock, RunBackup, UpdaterExit, UpdaterKilled, PruneStart, PruneLock,
       Prune, ManualStart, vars
  <2> QED BY <1>0, <2>1 DEF NoUnitLeftDown
<1>2. CASE SwitchStop BY <1>0, <1>2 DEF SwitchStop, NoUnitLeftDown, UnitFacts
<1>3. CASE SwitchStart
  <2>1. /\ \A u \in Units \ switching : unit'[u] = unit[u]
        /\ \A u \in switching : unit'[u] # "inactive"
    BY <1>0, <1>3, StartTypes DEF SwitchStart
  <2>2. UNCHANGED <<left, stopped, cur>> BY <1>3 DEF SwitchStart
  <2> QED BY <1>0, <2>1, <2>2 DEF NoUnitLeftDown
<1>4. CASE Reboot BY <1>4 DEF Reboot, NoUnitLeftDown
<1>5. ASSUME NEW u \in Units, Crash(u) \/ Up(u) PROVE NoUnitLeftDown'
  BY <1>0, <1>5 DEF Crash, Up, NoUnitLeftDown
<1>6. ASSUME NEW s \in Scripts, Script(s) PROVE NoUnitLeftDown'
  <2>1. CASE Lock(s) \/ Paused(s) \/ Collect(s) \/ Tar(s) \/ Publish(s) \/ ListArchives(s) \/ RemoveArchive(s)
    <3>1. UNCHANGED <<unit, switching, left, stopped, cur>>
      BY <2>1 DEF Lock, Paused, Collect, Tar, Publish, ListArchives, RemoveArchive
    <3> QED BY <1>0, <3>1 DEF NoUnitLeftDown
  <2>2. CASE Applications(s)
    <3>1. CASE Exit(s, FALSE)
      <4>1. UNCHANGED <<unit, left>> /\ stopped[s] = {} /\ cur[s] = None
        BY <1>0, <2>2 DEF Applications, UnitFacts
      <4> QED BY <1>0, <3>1, <4>1, ExitLeaves
    <3>2. CASE UNCHANGED <<lockVars, cur, stopped, surplus>>
      BY <1>0, <2>2, <3>2 DEF Applications, NoUnitLeftDown
    <3> QED BY <2>2, <3>1, <3>2 DEF Applications
  <2>3. CASE Pause(s)
    <3>1. cur[s] = None BY <1>0, <2>3 DEF Pause, UnitFacts
    <3>2. UNCHANGED <<unit, switching, left, stopped>> /\ \A t \in Scripts \ {s} : cur'[t] = cur[t]
      BY <1>0, <2>3 DEF Pause
    <3> QED BY <1>0, <3>1, <3>2 DEF NoUnitLeftDown
  <2>4. CASE Stop(s)
    <3>1. UNCHANGED <<switching, left, stopped, cur>> BY <2>4 DEF Stop
    <3>2. \A u \in Units : unit'[u] = "inactive" => unit[u] = "inactive" \/ u = cur[s]
      BY <1>0, <2>4 DEF Stop
    <3> QED BY <1>0, <3>1, <3>2 DEF NoUnitLeftDown
  <2>5. CASE Record(s)
    <3>1. UNCHANGED <<unit, switching, left>> BY <2>5 DEF Record
    <3>2. cur[s] \in stopped'[s] /\ stopped[s] \subseteq stopped'[s] BY <1>0, <2>5 DEF Record
    <3>3. \A t \in Scripts \ {s} : stopped'[t] = stopped[t] /\ cur'[t] = cur[t]
      BY <1>0, <2>5 DEF Record
    <3> QED BY <1>0, <3>1, <3>2, <3>3 DEF NoUnitLeftDown
  <2>6. CASE Restart(s)
    <3>1. UNCHANGED <<switching, left, stopped, cur>> BY <2>6 DEF Restart
    <3>2. \A u \in Units : unit'[u] = "inactive" => unit[u] = "inactive"
      BY <1>0, <2>6, StartTypes DEF Restart
    <3> QED BY <1>0, <3>1, <3>2 DEF NoUnitLeftDown
  <2>7. CASE Retained(s)
    <3>1. UNCHANGED <<unit, left>> /\ Exit(s, TRUE) BY <2>7 DEF Retained
    <3>2. cur[s] = None /\ \A u \in stopped[s] : unit[u] # "inactive"
      BY <1>0, <2>7 DEF Retained, UnitFacts
    <3> QED BY <1>0, <3>1, <3>2, ExitLeaves
  <2>8. CASE Cleanup(s)
    <3>1. Exit(s, FALSE) /\ StartUnits(stopped[s]) /\ LeavesDown({cur[s]}) BY <2>8 DEF Cleanup
    <3>2. /\ \A u \in Units : unit'[u] = "inactive" => unit[u] = "inactive"
          /\ \A u \in stopped[s] : unit'[u] # "inactive"
      BY <1>0, <3>1, StartTypes
    <3>3. left \subseteq left' /\ (cur[s] \in Units /\ unit'[cur[s]] = "inactive" => cur[s] \in left')
      BY <3>1 DEF LeavesDown
    <3> QED BY <1>0, <3>1, <3>2, <3>3, ExitLeaves
  <2> QED BY <1>6, <2>1, <2>2, <2>3, <2>4, <2>5, <2>6, <2>7, <2>8 DEF Script
<1>7. ASSUME NEW s \in Scripts, Signal(s) PROVE NoUnitLeftDown'
  <2>1. CASE pc[s] \in Trapped
    <3>1. UNCHANGED <<switching, left, stopped, cur>> BY <1>7, <2>1 DEF Signal
    <3>2. \A u \in Units : unit'[u] = "inactive" => unit[u] = "inactive" \/ u = cur[s]
      BY <1>0, <1>7, <2>1 DEF Signal
    <3> QED BY <1>0, <3>1, <3>2 DEF NoUnitLeftDown
  <2>2. CASE pc[s] \notin Trapped
    <3>1. UNCHANGED <<unit, left>> /\ Exit(s, FALSE) BY <1>7, <2>2 DEF Signal
    <3>2. pc[s] \in {"lock", "apps", "list", "retain"} BY <1>0, <1>7, <2>2 DEF Signal, ScriptSteps
    <3>3. cur[s] = None /\ \A u \in stopped[s] : unit[u] # "inactive" BY <1>0, <3>2 DEF UnitFacts
    <3> QED BY <1>0, <3>1, <3>3, ExitLeaves
  <2> QED BY <2>1, <2>2
<1>8. ASSUME NEW s \in Scripts, Kill(s) PROVE NoUnitLeftDown'
  <2>1. Exit(s, FALSE) /\ LeavesDown(stopped[s] \cup {cur[s]}) BY <1>8 DEF Kill
  <2>2. /\ left \subseteq left'
        /\ \A u \in stopped[s] \cup {cur[s]} : u \in Units /\ unit'[u] = "inactive" => u \in left'
    BY <2>1 DEF LeavesDown
  <2>3. \A u \in Units : unit'[u] = "inactive" => unit[u] = "inactive" \/ u = cur[s]
    <3>1. CASE UNCHANGED unit BY <3>1
    <3>2. CASE unit' = [unit EXCEPT ![cur[s]] = "inactive"] BY <1>0, <3>2
    <3>3. CASE \E S \in SUBSET stopped[s] : StartUnits(S)
      <4>1. PICK S \in SUBSET stopped[s] : StartUnits(S) BY <3>3
      <4>2. S \in SUBSET Units BY <1>0
      <4> QED BY <1>0, <4>1, <4>2, StartTypes
    <3> QED BY <1>8, <3>1, <3>2, <3>3 DEF Kill
  <2> QED BY <1>0, <2>1, <2>2, <2>3, ExitLeaves
<1> QED BY <1>1, <1>2, <1>3, <1>4, <1>5, <1>6, <1>7, <1>8 DEF Next

\* A script is left alone by the other one.
LEMMA OthersLeave ==
  ASSUME TypeOK, NEW s \in Scripts, NEW t \in Scripts \ {s}, Script(t) \/ Signal(t) \/ Kill(t)
  PROVE  pc'[s] = pc[s] /\ todo'[s] = todo[s] /\ surplus'[s] = surplus[s]
<1> USE DEF TypeOK, Goto, scriptVars
<1>1. Exit(t, TRUE) \/ Exit(t, FALSE) =>
        pc'[s] = pc[s] /\ todo'[s] = todo[s] /\ surplus'[s] = surplus[s]
  BY DEF Exit
<1>2. CASE Script(t)
  BY <1>1, <1>2 DEF Script, Lock, Applications, Pause, Paused, Stop, Record, Collect, Tar, Publish, Restart,
     ListArchives, RemoveArchive, Retained, Cleanup
<1>3. CASE Signal(t) \/ Kill(t) BY <1>1, <1>3 DEF Signal, Kill
<1> QED BY <1>2, <1>3

\* The deletions go on from the newest of the surplus, which no other script shortens.
LEMMA SurplusStep == ASSUME IInv, [Next]_vars PROVE SurplusFacts'
<1> USE DEF TypeOK, lockVars, scriptVars, Goto
<1>0. TypeOK /\ SurplusFacts /\ Retention \in Nat /\ Len(archives) \in Nat
  BY BackupAssumption, LenProperties DEF IInv
<1> SUFFICES ASSUME NEW t \in Scripts, pc'[t] = "retain"
             PROVE  surplus'[t] = 0 \/ surplus'[t] + Retention <= Len(archives')
  BY DEF SurplusFacts
<1> DEFINE Bounded == surplus'[t] = 0 \/ surplus'[t] + Retention <= Len(archives')
<1>1. ASSUME pc[t] = "retain", surplus'[t] = surplus[t], archives' = archives PROVE Bounded
  BY <1>0, <1>1 DEF SurplusFacts
<1>2. CASE Reboot BY <1>2 DEF Reboot
<1>3. CASE \/ UpdaterStart \/ UpdaterLock \/ SwitchStop \/ SwitchStart \/ UpdaterExit
           \/ UpdaterKilled \/ PruneStart \/ PruneLock \/ Prune \/ UNCHANGED vars
           \/ RunBackup \/ ManualStart \/ \E u \in Units : Crash(u) \/ Up(u)
  <2>1. pc[t] = "retain" /\ surplus' = surplus /\ archives' = archives
    BY <1>0, <1>3 DEF UpdaterStart, UpdaterLock, SwitchStop, SwitchStart, UpdaterExit, UpdaterKilled,
       PruneStart, PruneLock, Prune, vars, RunBackup, DeployEntry, ManualStart, Crash, Up
  <2> QED BY <1>1, <2>1
<1>4. ASSUME NEW s \in Scripts, Script(s) \/ Signal(s) \/ Kill(s), s # t PROVE Bounded
  <2>1. pc'[t] = pc[t] /\ surplus'[t] = surplus[t] BY <1>0, <1>4, OthersLeave
  <2>2. pc[s] \in {"idle", "lock"} BY <1>4, <2>1, OneAtATime
  <2>3. archives' = archives
    BY <1>4, <2>2 DEF Script, Lock, Applications, Pause, Paused, Stop, Record, Collect, Tar, Publish,
       Restart, ListArchives, RemoveArchive, Retained, Cleanup, Signal, Kill
  <2> QED BY <1>1, <2>1, <2>3
<1>5. CASE ListArchives(t) BY <1>0, <1>5 DEF ListArchives
<1>6. CASE RemoveArchive(t)
  <2>1. surplus[t] \in 1 .. Len(archives) /\ surplus[t] + Retention <= Len(archives)
    BY <1>0, <1>6 DEF RemoveArchive, SurplusFacts
  <2>2. Len(RemoveAt(archives, surplus[t])) = Len(archives) - 1 BY <1>0, <2>1, OneRemoved
  <2>4. archives' = RemoveAt(archives, surplus[t]) BY <1>6 DEF RemoveArchive
  <2>3. surplus'[t] = surplus[t] - 1 BY <1>0, <1>6 DEF RemoveArchive
  <2> QED BY <1>0, <2>1, <2>2, <2>3, <2>4
<1>7. ASSUME Script(t) \/ Signal(t) \/ Kill(t), ~ListArchives(t), ~RemoveArchive(t) PROVE FALSE
  <2>1. ASSUME NEW ok \in BOOLEAN, Exit(t, ok) PROVE FALSE BY <1>0, <2>1 DEF Exit
  <2>2. CASE Script(t)
    BY <1>0, <1>7, <2>1, <2>2 DEF Script, Lock, Applications, Pause, Paused, Stop, Record, Collect, Tar,
       Publish, Restart, Retained, Cleanup
  <2>3. CASE Signal(t) BY <1>0, <2>1, <2>3 DEF Signal
  <2>4. CASE Kill(t) BY <2>1, <2>4 DEF Kill
  <2> QED BY <1>7, <2>2, <2>3, <2>4
<1> QED BY <1>2, <1>3, <1>4, <1>5, <1>6, <1>7 DEF Next

\* The inductive invariant holds in every reachable state.
THEOREM BackupInvariance == Spec => []IInv
<1>1. ASSUME IInv, [Next]_vars PROVE IInv'
  <2>1. TypeOK' BY <1>1, TypeStep
  <2>2. LockFacts' BY <1>1, LockStep
  <2>3. Core' BY <1>1, CoreStep
  <2>4. NoUnitLeftDown' /\ SurplusFacts' BY <1>1, LeftStep, SurplusStep
  <2> QED BY <2>1, <2>2, <2>3, <2>4 DEF IInv, Core
<1> QED BY <1>1, Initially, PTL DEF Spec

\* Every variable keeps its type, for any units and any retention.
THEOREM BackupTypes == Spec => []TypeOK
BY BackupInvariance, PTL DEF IInv

\* No image of a unit that a backup or an activation has stopped is pruned:
\* what the shared maintenance lock is for.
THEOREM StoppedImagesKept == Spec => []ImagesKept
BY BackupInvariance, PTL DEF IInv

\* Nobody starts, under the archive, a unit that the script has stopped.
THEOREM ArchivedWhileDown == Spec => []PausedStayDown
BY BackupInvariance, PTL DEF IInv

\* No script leaves a unit down that it has stopped, unless it is killed or cut
\* before it has recorded the unit.
THEOREM AlwaysRestarted == Spec => []NoUnitLeftDown
BY BackupInvariance, PTL DEF IInv

---------------------------------------------------------------------------
(* Retention.                                                              *)

\* Only archives with Retention newer ones are deleted, one by one, for any
\* retention, with two backups and every way of cutting them short.
THEOREM NewestKept == Spec => NewestArchivesKept
<1> DEFINE Kept == \/ archives' = archives
                   \/ \E a \in Archives : archives' = Append(archives, a)
                   \/ \E i \in 1 .. (Len(archives) - Retention) : archives' = RemoveAt(archives, i)
<1>1. ASSUME IInv, [Next]_vars PROVE Kept
  <2>1. ASSUME NEW s \in Scripts, RemoveArchive(s) PROVE Kept
    <3>1. surplus[s] \in Nat /\ Len(archives) \in Nat /\ Retention \in Nat
      BY <1>1, BackupAssumption, LenProperties DEF IInv, TypeOK
    <3>3. surplus[s] > 0 /\ surplus[s] + Retention <= Len(archives)
      BY <1>1, <2>1, <3>1 DEF RemoveArchive, IInv, SurplusFacts
    <3>2. archives' = RemoveAt(archives, surplus[s]) BY <2>1 DEF RemoveArchive
    <3> QED BY <3>1, <3>2, <3>3
  <2>2. ASSUME NEW s \in Scripts, Publish(s) PROVE Kept BY <2>2 DEF Publish
  <2>3. \/ archives' = archives
        \/ \E s \in Scripts : RemoveArchive(s) \/ Publish(s)
    BY <1>1 DEF Next, vars, UpdaterStart, UpdaterLock, RunBackup, SwitchStop, SwitchStart, UpdaterExit,
       UpdaterKilled, PruneStart, PruneLock, Prune, ManualStart, Reboot, Script, Lock, Applications, Pause,
       Paused, Stop, Record, Collect, Tar, Restart, ListArchives, Retained, Cleanup, Signal, Kill, Crash, Up
  <2> QED BY <2>1, <2>2, <2>3
<1>2. IInv /\ [Next]_vars => [Kept]_vars BY <1>1
<1> QED BY <1>2, BackupInvariance, PTL DEF Spec, NewestArchivesKept

---------------------------------------------------------------------------
(* Progress: what LockUsersProceed rests on, apart from fairness.          *)

\* The parts of the script, the last one first.
Stage(step) ==
  CASE step = "idle" -> 0
    [] step = "cleanup" -> 1 [] step = "retain" -> 2 [] step = "list" -> 3
    [] step = "restart" -> 4 [] step = "publish" -> 5 [] step = "tar" -> 6
    [] step = "collect" -> 7
    [] step \in {"pause", "stop", "record"} -> 8
    [] step = "apps" -> 9 [] step = "lock" -> 10

\* The steps of one iteration of the loop at line 58.
Iteration(step) == CASE step = "stop" -> 2 [] step = "record" -> 1 [] OTHER -> 0

\* What one step of a script does to it.
Advances(s) ==
  \/ Stage(pc'[s]) < Stage(pc[s])
  \/ /\ Stage(pc'[s]) = Stage(pc[s])
     /\ todo'[s] \subseteq todo[s] /\ todo'[s] # todo[s]
  \/ /\ Stage(pc'[s]) = Stage(pc[s])
     /\ todo'[s] = todo[s] /\ Iteration(pc'[s]) < Iteration(pc[s])
  \/ /\ Stage(pc'[s]) = Stage(pc[s])
     /\ todo'[s] = todo[s] /\ surplus'[s] \in Nat /\ surplus'[s] < surplus[s]

\* A step of a script that has started leads to a later part of it, visits one
\* more unit, goes on with the unit at hand, or deletes one more archive: with
\* finitely many units it comes to its end, signals and failures included (pre-deploy-backup.sh:55-116).
ScriptsAdvance ==
  [][\A s \in Scripts : pc[s] # "idle" /\ <<pc[s], todo[s], surplus[s]>>' # <<pc[s], todo[s], surplus[s]>> => Advances(s)]_vars

\* A process with the lock is at work: it waits neither for the lock nor for a
\* process that does.  The updater that waits for its backup has one, past the
\* lock it would otherwise wait for itself (stage-server-release.sh:710,
\* pre-deploy-backup.sh:36).
HolderWorks ==
  /\ updater = "backup" => pc["deploy"] \notin {"idle", "lock"}
  /\ holders # {} => \/ prune = "prune"
                     \/ \E s \in Scripts : pc[s] \notin {"idle", "lock"}
                     \/ updater \in {"held", "activate", "switch", "health"}

LEMMA StageValues ==
  /\ Stage("idle") = 0 /\ Stage("cleanup") = 1 /\ Stage("retain") = 2 /\ Stage("list") = 3
  /\ Stage("restart") = 4 /\ Stage("publish") = 5 /\ Stage("tar") = 6 /\ Stage("collect") = 7
  /\ Stage("pause") = 8 /\ Stage("stop") = 8 /\ Stage("record") = 8
  /\ Stage("apps") = 9 /\ Stage("lock") = 10
  /\ Iteration("stop") = 2 /\ Iteration("record") = 1 /\ Iteration("pause") = 0
BY DEF Stage, Iteration

LEMMA StepAdvances ==
  ASSUME TypeOK, NEW s \in Scripts, Script(s) \/ Signal(s) \/ Kill(s), pc[s] # "idle"
  PROVE  Advances(s)
<1> USE DEF TypeOK, Goto, scriptVars, Advances
<1>1. ASSUME Exit(s, TRUE) \/ Exit(s, FALSE), pc[s] \in ScriptSteps PROVE Advances(s)
  <2>1. pc'[s] = "idle" BY <1>1 DEF Exit
  <2> QED BY <1>1, <2>1, StageValues DEF ScriptSteps, Trapped
<1>2. pc[s] \in ScriptSteps OBVIOUS
<1>3. CASE Lock(s) BY <1>3, StageValues DEF Lock
<1>4. CASE Applications(s)
  <2>1. CASE Exit(s, FALSE) BY <1>1, <1>2, <2>1
  <2>2. CASE Goto(s, "pause") BY <1>4, <2>2, StageValues DEF Applications
  <2> QED BY <1>4, <2>1, <2>2 DEF Applications
<1>5. CASE Pause(s)
  <2>1. PICK u \in todo[s] : todo' = [todo EXCEPT ![s] = @ \ {u}] BY <1>5 DEF Pause
  <2>2. todo'[s] \subseteq todo[s] /\ todo'[s] # todo[s] BY <2>1
  <2>3. pc[s] = "pause" /\ pc'[s] \in {"pause", "stop"} BY <1>5 DEF Pause
  <2> QED BY <2>2, <2>3, StageValues
<1>6. CASE Paused(s) BY <1>6, StageValues DEF Paused
<1>7. CASE Stop(s) BY <1>7, StageValues DEF Stop
<1>8. CASE Record(s) BY <1>8, StageValues DEF Record
<1>9. CASE Collect(s) BY <1>9, StageValues DEF Collect
<1>10. CASE Tar(s) BY <1>10, StageValues DEF Tar
<1>11. CASE Publish(s) BY <1>11, StageValues DEF Publish
<1>12. CASE Restart(s)
  <2>1. pc[s] = "restart" /\ pc'[s] \in {"list", "cleanup"} BY <1>12 DEF Restart
  <2> QED BY <2>1, StageValues
<1>13. CASE ListArchives(s)
  <2>1. pc[s] = "list" /\ pc'[s] = "retain" BY <1>13 DEF ListArchives
  <2> QED BY <2>1, StageValues
<1>16. CASE RemoveArchive(s)
  <2>1. /\ pc'[s] = pc[s] /\ todo'[s] = todo[s]
        /\ surplus[s] \in Nat /\ surplus[s] > 0 /\ surplus'[s] = surplus[s] - 1
    BY <1>16 DEF RemoveArchive
  <2> QED BY <2>1
<1>17. CASE Retained(s) BY <1>1, <1>2, <1>17 DEF Retained
<1>18. CASE Kill(s) BY <1>1, <1>2, <1>18 DEF Kill
<1>14. CASE Cleanup(s) BY <1>1, <1>2, <1>14 DEF Cleanup
<1>15. CASE Signal(s)
  <2>1. CASE Exit(s, FALSE) BY <1>1, <1>2, <2>1
  <2>2. CASE pc[s] \in Trapped /\ Goto(s, "cleanup")
    <3>1. pc'[s] = "cleanup" BY <2>2
    <3> QED BY <2>2, <3>1, StageValues DEF Trapped
  <2> QED BY <1>15, <2>1, <2>2 DEF Signal
<1> QED BY <1>3, <1>4, <1>5, <1>6, <1>7, <1>8, <1>9, <1>10, <1>11, <1>12, <1>13, <1>14, <1>15,
        <1>16, <1>17, <1>18 DEF Script

\* Every script that has started comes to its end, for any units.
THEOREM ScriptsComeToAnEnd == Spec => ScriptsAdvance
<1>1. ASSUME IInv, [Next]_vars, NEW s \in Scripts,
             pc[s] # "idle", <<pc[s], todo[s], surplus[s]>>' # <<pc[s], todo[s], surplus[s]>>
      PROVE  Advances(s)
  <2>0. TypeOK BY <1>1 DEF IInv
  <2>1. ASSUME NEW t \in Scripts, Script(t) \/ Signal(t) \/ Kill(t) PROVE Advances(s)
    BY <1>1, <2>0, <2>1, OthersLeave, StepAdvances
  <2>2. CASE \/ UpdaterStart \/ UpdaterLock \/ SwitchStop \/ SwitchStart \/ UpdaterExit
             \/ UpdaterKilled \/ PruneStart \/ PruneLock \/ Prune \/ UNCHANGED vars
             \/ \E u \in Units : Crash(u) \/ Up(u)
    <3>1. UNCHANGED <<pc, todo, surplus>>
      BY <2>2 DEF UpdaterStart, UpdaterLock, SwitchStop, SwitchStart, UpdaterExit, UpdaterKilled,
         PruneStart, PruneLock, Prune, Crash, Up, vars, scriptVars
    <3> QED BY <1>1, <3>1
  <2>3. CASE RunBackup \/ ManualStart
    BY <1>1, <2>0, <2>3 DEF RunBackup, ManualStart, IInv, LockFacts, Goto, TypeOK
  <2>4. CASE Reboot
    <3>1. pc'[s] = "idle" /\ pc[s] \in ScriptSteps BY <2>0, <2>4 DEF Reboot, TypeOK
    <3> QED BY <1>1, <3>1, StageValues DEF ScriptSteps, Trapped, Advances
  <2> QED BY <1>1, <2>1, <2>2, <2>3, <2>4 DEF Next
<1>2. IInv /\ [Next]_vars =>
        [\A s \in Scripts : pc[s] # "idle" /\ <<pc[s], todo[s], surplus[s]>>' # <<pc[s], todo[s], surplus[s]>> => Advances(s)]_vars
  BY <1>1
<1> QED BY <1>2, BackupInvariance, PTL DEF Spec, ScriptsAdvance

\* The updater that waits for its backup has one.
HasChild == updater = "backup" => pc["deploy"] # "idle"

LEMMA ChildStep == ASSUME IInv, HasChild, [Next]_vars PROVE HasChild'
<1> USE DEF HasChild, TypeOK, Goto, lockVars, scriptVars
<1>0. TypeOK /\ "deploy" \in Scripts BY DEF IInv, Scripts
<1>1. CASE UpdaterStart \/ UpdaterLock \/ SwitchStop \/ SwitchStart \/ UpdaterExit \/ UpdaterKilled \/ Reboot
  BY <1>0, <1>1 DEF UpdaterStart, UpdaterLock, SwitchStop, SwitchStart, UpdaterExit, UpdaterKilled, Reboot
<1>2. CASE RunBackup BY <1>0, <1>2 DEF RunBackup, DeployEntry
<1>3. CASE PruneStart \/ PruneLock \/ Prune \/ UNCHANGED vars \/ \E u \in Units : Crash(u) \/ Up(u)
  BY <1>3 DEF PruneStart, PruneLock, Prune, vars, Crash, Up
<1>4. CASE ManualStart BY <1>0, <1>4 DEF ManualStart
<1>5. ASSUME NEW s \in Scripts, NEW ok \in BOOLEAN, Exit(s, ok) PROVE HasChild'
  BY <1>0, <1>5 DEF Exit
<1>6. ASSUME NEW s \in Scripts, NEW step, step # "idle", Goto(s, step), updater' = updater PROVE HasChild'
  BY <1>0, <1>6
<1>7. ASSUME NEW s \in Scripts, Script(s) PROVE HasChild'
  <2>1. CASE Lock(s) BY <1>6, <2>1 DEF Lock
  <2>2. CASE Applications(s) BY <1>5, <1>6, <2>2 DEF Applications
  <2>3. CASE Pause(s) BY <1>0, <1>6, <2>3 DEF Pause
  <2>4. CASE Paused(s) BY <1>6, <2>4 DEF Paused
  <2>5. CASE Stop(s) BY <1>6, <2>5 DEF Stop
  <2>6. CASE Record(s) BY <1>6, <2>6 DEF Record
  <2>7. CASE Collect(s) BY <1>6, <2>7 DEF Collect
  <2>8. CASE Tar(s) BY <1>6, <2>8 DEF Tar
  <2>9. CASE Publish(s) BY <1>6, <2>9 DEF Publish
  <2>10. CASE Restart(s) BY <1>6, <2>10 DEF Restart
  <2>11. CASE ListArchives(s) BY <1>6, <2>11 DEF ListArchives
  <2>12. CASE RemoveArchive(s)
    <3>1. UNCHANGED <<updater, pc>> BY <2>12 DEF RemoveArchive
    <3> QED BY <3>1
  <2>13. CASE Retained(s) BY <1>5, <2>13 DEF Retained
  <2>14. CASE Cleanup(s) BY <1>5, <2>14 DEF Cleanup
  <2> QED BY <1>7, <2>1, <2>2, <2>3, <2>4, <2>5, <2>6, <2>7, <2>8, <2>9, <2>10, <2>11, <2>12,
             <2>13, <2>14 DEF Script
<1>8. ASSUME NEW s \in Scripts, Signal(s) \/ Kill(s) PROVE HasChild' BY <1>5, <1>6, <1>8 DEF Signal, Kill
<1> QED BY <1>1, <1>2, <1>3, <1>4, <1>7, <1>8 DEF Next

\* Whoever waits for the lock waits for somebody at work, for any units.
THEOREM NobodyWaitsForHimself == Spec => []HolderWorks
<1>1. Init => HasChild BY DEF Init, HasChild
<1>2. IInv /\ HasChild /\ [Next]_vars => HasChild' BY ChildStep
<1>3. ASSUME IInv, HasChild PROVE HolderWorks
  BY <1>3 DEF IInv, HasChild, HolderWorks, TypeOK, LockFacts, UpdaterSteps, Scripts
<1> QED BY <1>1, <1>2, <1>3, BackupInvariance, PTL DEF Spec

============================================================================
