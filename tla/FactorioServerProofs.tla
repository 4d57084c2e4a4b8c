----------------------- MODULE FactorioServerProofs -----------------------
(* The inductive invariant of FactorioServer and what follows from it.     *)
EXTENDS FactorioServer, TLAPS

\* A host that has never run the server satisfies the invariant.
LEMMA Initially == Init => IInv
<1> SUFFICES ASSUME Init PROVE IInv OBVIOUS
<1> USE FactorioAssumption DEF Init, New, Inherited
<1>1. TypeOK
  <2>1. saves \in [Worlds -> {"none", "fresh", "played"}] /\
          mods \in [Mods -> {"absent", "good", "damaged"}]
    OBVIOUS
  <2>2. job \in [Sessions -> Jobs] BY DEF Idle, Jobs
  <2>3. unit \in Up \cup {"stopping", "inactive"} OBVIOUS
  <2>4. active \in Worlds \cup {None, Legacy} OBVIOUS
  <2>5. commands \in 0 .. MaxCommands /\ disruptions \in 0 .. MaxDisruptions OBVIOUS
  <2>6. whitelist \in SUBSET (Names \cup {Guard}) /\ admins \in SUBSET Names OBVIOUS
  <2>7. files \in [Lists -> {"missing", "service", "root", "malformed"}] OBVIOUS
  <2> HIDE FactorioAssumption
  <2> QED BY <2>1, <2>2, <2>3, <2>4, <2>5, <2>6, <2>7 DEF TypeOK
<1>2. GuardFacts BY DEF GuardFacts
<1>3. OperatorsWhitelisted BY DEF OperatorsWhitelisted, Lowered
<1>4. CommandFacts BY DEF CommandFacts, Idle
<1>5. ChangedWhileDown BY DEF ChangedWhileDown, Idle
<1>6. LeftAsFound BY DEF LeftAsFound, Idle
<1> QED BY <1>1, <1>2, <1>3, <1>4, <1>5, <1>6 DEF IInv

\* What a command that fails is left with.
LEMMA FailsType ==
  ASSUME TypeOK, NEW s \in Sessions, NEW step \in {"finally", "done"}, Fails(s, step)
  PROVE  job' \in [Sessions -> Jobs]
BY DEF TypeOK, Jobs, Fails, Becomes

\* What a command that has read the status of the unit is left with.
LEMMA StatusType ==
  ASSUME TypeOK, NEW s \in Sessions, unit # "stopping", ReadStatus(s)
  PROVE  job' \in [Sessions -> Jobs]
<1> DEFINE step == IF Running THEN "stop" ELSE Body(s)
<1>1. Running \in BOOLEAN BY DEF Running
<1>2. step \in {"stop", "guard", "archive"} BY DEF Body
<1>3. Becomes(s, step, Running, job[s].error) BY DEF ReadStatus
<1>4. job[s] \in Jobs BY DEF TypeOK
<1> HIDE DEF step
<1>5. [step |-> step, command |-> job[s].command, running |-> Running, error |-> job[s].error] \in Jobs
  BY <1>1, <1>2, <1>4 DEF Jobs
<1> QED BY <1>3, <1>5 DEF Becomes, TypeOK

\* A list that is replaced has an owner.
LEMMA ReplacedType ==
  ASSUME TypeOK, NEW user \in {"service", "root"}, NEW l, Replaced(user, l)
  PROVE  files' \in [Lists -> {"missing", "service", "root", "malformed"}]
BY DEF TypeOK, Replaced

\* Every variable keeps its type.
LEMMA TypeStep == ASSUME IInv, [Next]_vars PROVE TypeOK'
<1> USE FactorioAssumption DEF TypeOK, Up, Starting, lists, world, session
<1> TypeOK BY DEF IInv
<1>1. CASE StartGuard BY <1>1 DEF StartGuard, WhitelistGuard, Reads, Replaced
<1>2. CASE StartBan BY <1>2 DEF StartBan, BanGuard, Reads, Replaced
<1>3. CASE Install BY <1>3 DEF Install
<1>4. CASE ModsInstalled BY <1>4 DEF ModsInstalled
<1>5. CASE CreateWorld BY <1>5 DEF CreateWorld, Missing
<1>6. CASE SelectWorld BY <1>6 DEF SelectWorld
<1>7. CASE LinkNext BY <1>7 DEF LinkNext
<1>8. CASE ReplaceLink BY <1>8 DEF ReplaceLink
<1>9. CASE Load BY <1>9 DEF Load
<1>10. CASE Play BY <1>10 DEF Play
<1>11. CASE UnitFails BY <1>11 DEF UnitFails, Disrupt
<1>12. CASE Restart BY <1>12 DEF Restart, StartUnit
<1>13. CASE Stopped BY <1>13 DEF Stopped, Disrupt
<1>14. CASE DeployBegins BY <1>14 DEF DeployBegins
<1>15. CASE DeployStops BY <1>15 DEF DeployStops, StopUnit
<1>16. CASE DeployConfigures BY <1>16 DEF DeployConfigures, Disrupt
<1>17. CASE DeployStarts BY <1>17 DEF DeployStarts, StartUnit
<1>18. CASE DeployEnds BY <1>18 DEF DeployEnds
<1>19. CASE Reboot BY <1>19 DEF Reboot, Disrupt, StartUnit, Idle, Jobs
<1>20. CASE Damage BY <1>20 DEF Damage, Disrupt
<1>21. CASE HandEdit
  <2>1. /\ whitelist' \in SUBSET (Names \cup {Guard}) /\ banned' \in BOOLEAN
        /\ files' \in [Lists -> {"missing", "service", "root", "malformed"}]
    BY <1>21 DEF HandEdit
  <2> QED BY <1>21, <2>1 DEF HandEdit, Disrupt
<1>22. ASSUME NEW s \in Sessions, Begin(s) \/ Acquire(s) \/ Work(s) \/ Raise(s) \/ Kill(s) PROVE
    TypeOK'
  <2>1. CASE Begin(s)
    <3>1. PICK command \in {"access", "backup"} : job' = [job EXCEPT ![s] = Begun(command)]
      BY <2>1 DEF Begin
    <3>3. Begun(command) \in Jobs BY DEF Begun, Jobs
    <3>4. job' \in [Sessions -> Jobs] BY <3>1, <3>3
    <3>2. commands' \in 0 .. MaxCommands BY <2>1 DEF Begin
    <3> QED BY <2>1, <3>4, <3>2 DEF Begin
  <2>2. CASE Acquire(s) BY <2>2 DEF Acquire, Step, Jobs
  <2>3. CASE ReadStatus(s)
    <3>1. CASE unit = "stopping"
      <4>1. job' \in [Sessions -> Jobs] BY <2>3, <3>1, FailsType DEF ReadStatus
      <4> QED BY <2>3, <4>1 DEF ReadStatus
    <3>2. CASE unit # "stopping"
      <4>1. job' \in [Sessions -> Jobs] BY <2>3, <3>2, StatusType
      <4> QED BY <2>3, <4>1 DEF ReadStatus
    <3> QED BY <3>1, <3>2
  <2>4. CASE Stop(s) BY <2>4 DEF Stop, StopUnit, Step, Jobs
  <2>5. CASE CheckResult(s)
    <3>1. job' \in [Sessions -> Jobs]
      <4>1. CASE result = "success" BY <2>5, <4>1 DEF CheckResult, Step, Body, Jobs
      <4>2. CASE ~(result = "success") BY <2>5, <4>2, FailsType DEF CheckResult
      <4> QED BY <4>1, <4>2
    <3> QED BY <2>5, <3>1 DEF CheckResult
  <2>6. CASE EditGuard(s)
    <3>1. files' \in [Lists -> {"missing", "service", "root", "malformed"}]
      BY <2>6, ReplacedType DEF EditGuard, WhitelistGuard
    <3>2. job' \in [Sessions -> Jobs] BY <2>6 DEF EditGuard, Step, Jobs
    <3> QED BY <2>6, <3>1, <3>2 DEF EditGuard, WhitelistGuard
  <2>7. CASE EditBan(s)
    <3>1. files' \in [Lists -> {"missing", "service", "root", "malformed"}]
      BY <2>7, ReplacedType DEF EditBan, BanGuard
    <3>2. job' \in [Sessions -> Jobs] BY <2>7 DEF EditBan, Step, Jobs
    <3> QED BY <2>7, <3>1, <3>2 DEF EditBan, BanGuard
  <2>8. CASE Edit(s) BY <2>8 DEF Edit, Step, ChangeWhitelist, ChangeOperators, With, Without, Jobs
  <2>9. CASE Refuse(s)
    <3>1. job' \in [Sessions -> Jobs] BY <2>9, FailsType DEF Refuse
    <3> QED BY <2>9, <3>1 DEF Refuse
  <2>10. CASE Archive(s) BY <2>10 DEF Archive, Step, Jobs
  <2>11. CASE NoSaves(s)
    <3>1. job' \in [Sessions -> Jobs] BY <2>11, FailsType DEF NoSaves
    <3> QED BY <2>11, <3>1 DEF NoSaves
  <2>12. CASE Resume(s) BY <2>12 DEF Resume, Step, AfterStop, StartUnit, Jobs
  <2>13. CASE Resumed(s)
    <3>1. job' \in [Sessions -> Jobs]
      <4>1. CASE unit = "running" BY <2>13, <4>1 DEF Resumed, Step, AfterStop, Jobs
      <4>2. CASE ~(unit = "running") BY <2>13, <4>2, FailsType DEF Resumed
      <4> QED BY <4>1, <4>2
    <3> QED BY <2>13, <3>1 DEF Resumed
  <2>14. CASE Prune(s) BY <2>14 DEF Prune, Step, Jobs
  <2>15. CASE End(s) BY <2>15 DEF End, Idle, Jobs
  <2>16. CASE Raise(s)
    <3>1. job' \in [Sessions -> Jobs] BY <2>16, FailsType DEF Raise
    <3> QED BY <2>16, <3>1 DEF Raise, Disrupt
  <2>17. CASE Kill(s) BY <2>17 DEF Kill, Disrupt, Idle, Jobs
  <2>18. CASE EditAdmins(s)
    <3>1. files' \in [Lists -> {"missing", "service", "root", "malformed"}]
      BY <2>18, ReplacedType DEF EditAdmins, CreateAdmins
    <3>2. job' \in [Sessions -> Jobs] BY <2>18 DEF EditAdmins, Step, Jobs
    <3> QED BY <2>18, <3>1, <3>2 DEF EditAdmins, CreateAdmins
  <2>19. CASE EditRaises(s)
    <3>1. job' \in [Sessions -> Jobs] BY <2>19, FailsType DEF EditRaises
    <3> QED BY <2>19, <3>1 DEF EditRaises
  <2> QED BY <1>22, <2>1, <2>2, <2>3, <2>4, <2>5, <2>6, <2>7, <2>8, <2>9, <2>10, <2>11, <2>12,
      <2>13, <2>14, <2>15, <2>16, <2>17, <2>18, <2>19 DEF Work
<1>23. CASE UNCHANGED vars BY <1>23 DEF vars
<1>24. CASE StartAdmins BY <1>24 DEF StartAdmins, CreateAdmins, Reads, Replaced
<1>25. CASE StartRaises BY <1>25 DEF StartRaises
<1>26. CASE HandRepair BY <1>26 DEF HandRepair
<1> QED BY <1>1, <1>2, <1>3, <1>4, <1>5, <1>6, <1>7, <1>8, <1>9, <1>10, <1>11,
   <1>12, <1>13, <1>14, <1>15, <1>16, <1>17, <1>18, <1>19, <1>20, <1>21, <1>22, <1>23,
   <1>24, <1>25, <1>26 DEF Next,
       Preparation

\* The guard stays in the lists from the start's own edits until the game has
\* read them: the commands only add it, and hands touch a stopped server only.
LEMMA GuardStep == ASSUME IInv, [Next]_vars PROVE GuardFacts'
<1> USE FactorioAssumption DEF GuardFacts, lists, world, session
<1> GuardFacts /\ Guard \notin Names BY DEF IInv
<1> files \in [Lists -> {"missing", "service", "root", "malformed"}] BY DEF IInv, TypeOK
<1> USE DEF Lists
<1>1. CASE StartGuard BY <1>1 DEF StartGuard, WhitelistGuard, Reads, Replaced
<1>2. CASE StartBan BY <1>2 DEF StartBan, BanGuard, Reads, Replaced
<1>3. CASE Install BY <1>3 DEF Install
<1>4. CASE ModsInstalled BY <1>4 DEF ModsInstalled
<1>5. CASE CreateWorld BY <1>5 DEF CreateWorld, Missing
<1>6. CASE SelectWorld BY <1>6 DEF SelectWorld
<1>7. CASE LinkNext BY <1>7 DEF LinkNext
<1>8. CASE ReplaceLink BY <1>8 DEF ReplaceLink
<1>9. CASE Load BY <1>9 DEF Load
<1>10. CASE Play BY <1>10 DEF Play
<1>11. CASE UnitFails BY <1>11 DEF UnitFails, Disrupt
<1>12. CASE Restart BY <1>12 DEF Restart, StartUnit
<1>13. CASE Stopped BY <1>13 DEF Stopped, Disrupt
<1>14. CASE DeployBegins BY <1>14 DEF DeployBegins
<1>15. CASE DeployStops BY <1>15 DEF DeployStops, StopUnit
<1>16. CASE DeployConfigures BY <1>16 DEF DeployConfigures, Disrupt
<1>17. CASE DeployStarts BY <1>17 DEF DeployStarts, StartUnit
<1>18. CASE DeployEnds BY <1>18 DEF DeployEnds
<1>19. CASE Reboot BY <1>19 DEF Reboot, Disrupt, StartUnit, Idle
<1>20. CASE Damage BY <1>20 DEF Damage, Disrupt
<1>21. CASE HandEdit BY <1>21 DEF HandEdit, Disrupt
<1>22. ASSUME NEW s \in Sessions, Begin(s) \/ Acquire(s) \/ Work(s) \/ Raise(s) \/ Kill(s) PROVE
    GuardFacts'
  <2>1. CASE Begin(s) BY <2>1 DEF Begin, Begun
  <2>2. CASE Acquire(s) BY <2>2 DEF Acquire, Step
  <2>3. CASE ReadStatus(s) BY <2>3 DEF ReadStatus, Fails, Becomes, Running, Body
  <2>4. CASE Stop(s) BY <2>4 DEF Stop, StopUnit, Step
  <2>5. CASE CheckResult(s) BY <2>5 DEF CheckResult, Step, Fails, Becomes, Body
  <2>6. CASE EditGuard(s) BY <2>6 DEF EditGuard, Step, WhitelistGuard, Reads, Replaced
  <2>7. CASE EditBan(s) BY <2>7 DEF EditBan, Step, BanGuard, Reads, Replaced
  <2>8. CASE Edit(s) BY <2>8 DEF Edit, Step, ChangeWhitelist, ChangeOperators, With, Without
  <2>9. CASE Refuse(s) BY <2>9 DEF Refuse, Fails, Becomes
  <2>10. CASE Archive(s) BY <2>10 DEF Archive, Step
  <2>11. CASE NoSaves(s) BY <2>11 DEF NoSaves, Fails, Becomes
  <2>12. CASE Resume(s) BY <2>12 DEF Resume, Step, AfterStop, StartUnit
  <2>13. CASE Resumed(s) BY <2>13 DEF Resumed, Step, Fails, Becomes, AfterStop
  <2>14. CASE Prune(s) BY <2>14 DEF Prune, Step
  <2>15. CASE End(s) BY <2>15 DEF End, Idle
  <2>16. CASE Raise(s) BY <2>16 DEF Raise, Disrupt, Fails, Becomes
  <2>17. CASE Kill(s) BY <2>17 DEF Kill, Disrupt, Idle
  <2>18. CASE EditAdmins(s) BY <2>18 DEF EditAdmins, Step, CreateAdmins, Reads, Replaced
  <2>19. CASE EditRaises(s) BY <2>19 DEF EditRaises, Fails, Becomes
  <2> QED BY <1>22, <2>1, <2>2, <2>3, <2>4, <2>5, <2>6, <2>7, <2>8, <2>9, <2>10, <2>11, <2>12,
      <2>13, <2>14, <2>15, <2>16, <2>17, <2>18, <2>19 DEF Work
<1>23. CASE UNCHANGED vars BY <1>23 DEF vars
<1>24. CASE StartAdmins BY <1>24 DEF StartAdmins, CreateAdmins, Reads, Replaced
<1>25. CASE StartRaises BY <1>25 DEF StartRaises
<1>26. CASE HandRepair BY <1>26 DEF HandRepair
<1> QED BY <1>1, <1>2, <1>3, <1>4, <1>5, <1>6, <1>7, <1>8, <1>9, <1>10, <1>11,
   <1>12, <1>13, <1>14, <1>15, <1>16, <1>17, <1>18, <1>19, <1>20, <1>21, <1>22, <1>23,
   <1>24, <1>25, <1>26 DEF Next,
       Preparation

\* Only four actions touch the whitelist or the operators.
LEMMA ListSteps ==
  ASSUME [Next]_vars
  PROVE  \/ StartGuard \/ HandEdit \/ UNCHANGED <<whitelist, admins>>
         \/ \E s \in Sessions : EditGuard(s) \/ Edit(s)
BY DEF Next, Preparation, Work, lists, vars, BanGuard, CreateAdmins, HandRepair, StartAdmins, StartBan, StartRaises, Install, ModsInstalled,
    SelectWorld, LinkNext, ReplaceLink, Load, UnitFails, Restart, Stopped, DeployBegins,
    DeployStops, DeployConfigures, DeployStarts, DeployEnds, Reboot, Damage, Begin, Acquire,
    ReadStatus, Stop, CheckResult, EditAdmins, EditBan, EditRaises, Refuse, Archive, NoSaves, Resume, Resumed, Prune,
    End, Raise, Kill, CreateWorld, Play

\* A name leaves the whitelist only when no spelling of it is an operator, and
\* joins the operators only when one is whitelisted.
LEMMA OperatorStep == ASSUME IInv, [Next]_vars PROVE OperatorsWhitelisted'
<1> USE FactorioAssumption DEF OperatorsWhitelisted, Lowered
<1> OperatorsWhitelisted /\ whitelist \subseteq Names \cup {Guard} /\ admins \subseteq Names
  BY DEF IInv, TypeOK
<1>1. CASE StartGuard BY <1>1 DEF StartGuard, WhitelistGuard, Reads, Replaced
<1>2. CASE HandEdit BY <1>2 DEF HandEdit
<1>3. CASE UNCHANGED <<whitelist, admins>> BY <1>3
<1>4. ASSUME NEW s \in Sessions, EditGuard(s) PROVE OperatorsWhitelisted'
  BY <1>4 DEF EditGuard, WhitelistGuard
<1>5. ASSUME NEW s \in Sessions, Edit(s) PROVE OperatorsWhitelisted'
  <2>1. PICK n \in Names : ChangeWhitelist(n) \/ ChangeOperators(n) BY <1>5 DEF Edit
  <2>2. CASE ChangeWhitelist(n) BY <2>2 DEF ChangeWhitelist, Operates, With, Without
  <2>3. CASE ChangeOperators(n) BY <2>3 DEF ChangeOperators, With, Without
  <2> QED BY <2>1, <2>2, <2>3
<1> QED BY <1>1, <1>2, <1>3, <1>4, <1>5, ListSteps

\* Only the holder of the lock has a say in the unit, and systemd does not start
\* a unit that was stopped.
LEMMA CommandStep == ASSUME IInv, [Next]_vars PROVE (CommandFacts /\ ChangedWhileDown /\
    LeftAsFound)'
<1> USE FactorioAssumption DEF CommandFacts, ChangedWhileDown, LeftAsFound, Up, Starting, lists,
    world, session
<1> CommandFacts /\ ChangedWhileDown /\ LeftAsFound BY DEF IInv
<1> job \in [Sessions -> Jobs] BY DEF IInv, TypeOK
<1> USE DEF Jobs
<1>1. CASE StartGuard BY <1>1 DEF StartGuard, WhitelistGuard, Reads, Replaced
<1>2. CASE StartBan BY <1>2 DEF StartBan, BanGuard, Reads, Replaced
<1>3. CASE Install BY <1>3 DEF Install
<1>4. CASE ModsInstalled BY <1>4 DEF ModsInstalled
<1>5. CASE CreateWorld BY <1>5 DEF CreateWorld, Missing
<1>6. CASE SelectWorld BY <1>6 DEF SelectWorld
<1>7. CASE LinkNext BY <1>7 DEF LinkNext
<1>8. CASE ReplaceLink BY <1>8 DEF ReplaceLink
<1>9. CASE Load BY <1>9 DEF Load
<1>10. CASE Play BY <1>10 DEF Play
<1>11. CASE UnitFails BY <1>11 DEF UnitFails, Disrupt
<1>12. CASE Restart BY <1>12 DEF Restart, StartUnit
<1>13. CASE Stopped BY <1>13 DEF Stopped, Disrupt
<1>14. CASE DeployBegins BY <1>14 DEF DeployBegins
<1>15. CASE DeployStops BY <1>15 DEF DeployStops, StopUnit
<1>16. CASE DeployConfigures BY <1>16 DEF DeployConfigures, Disrupt
<1>17. CASE DeployStarts BY <1>17 DEF DeployStarts, StartUnit
<1>18. CASE DeployEnds BY <1>18 DEF DeployEnds
<1>19. CASE Reboot BY <1>19 DEF Reboot, Disrupt, StartUnit, Idle
<1>20. CASE Damage BY <1>20 DEF Damage, Disrupt
<1>21. CASE HandEdit BY <1>21 DEF HandEdit, Disrupt
<1>22. ASSUME NEW s \in Sessions, Begin(s) \/ Acquire(s) \/ Work(s) \/ Raise(s) \/ Kill(s) PROVE
    (CommandFacts /\ ChangedWhileDown /\ LeftAsFound)'
  <2>1. CASE Begin(s) BY <2>1 DEF Begin, Begun
  <2>2. CASE Acquire(s) BY <2>2 DEF Acquire, Step
  <2>3. CASE ReadStatus(s)
    <3>0. lock' = lock /\ lock = s /\ UNCHANGED <<unit, result>> /\ ~job[s].running
      BY <2>3 DEF ReadStatus
    <3>1. CASE unit = "stopping"
      <4>1. job' = [job EXCEPT ![s] = [step |-> "done", command |-> @.command,
                                      running |-> job[s].running, error |-> TRUE]]
        BY <2>3, <3>1 DEF ReadStatus, Fails, Becomes
      <4> QED BY <3>0, <3>1, <4>1
    <3>2. CASE unit # "stopping"
      <4> DEFINE step == IF Running THEN "stop" ELSE Body(s)
      <4>1. /\ job'[s].step = step /\ job'[s].running = Running
            /\ \A t \in Sessions \ {s} : job'[t] = job[t]
        BY <2>3, <3>2 DEF ReadStatus, Becomes
      <4>2. CASE Running
        <5>1. job'[s].step = "stop" /\ job'[s].running BY <4>1, <4>2
        <5> QED BY <3>0, <4>1, <5>1
      <4>3. CASE ~Running
        <5>1. job'[s].step \in {"guard", "archive"} /\ ~job'[s].running BY <4>1, <4>3 DEF Body
        <5>2. unit = "inactive" BY <3>2, <4>3 DEF Running, IInv, TypeOK
        <5> QED BY <3>0, <4>1, <5>1, <5>2
      <4> QED BY <4>2, <4>3
    <3> QED BY <3>1, <3>2
  <2>4. CASE Stop(s) BY <2>4 DEF Stop, StopUnit, Step
  <2>5. CASE CheckResult(s)
    <3>1. CASE result = "success" BY <2>5, <3>1 DEF CheckResult, Step, Body
    <3>2. CASE result # "success" BY <2>5, <3>2 DEF CheckResult, Fails, Becomes
    <3> QED BY <3>1, <3>2
  <2>6. CASE EditGuard(s) BY <2>6 DEF EditGuard, Step, WhitelistGuard, Reads, Replaced
  <2>7. CASE EditBan(s) BY <2>7 DEF EditBan, Step, BanGuard, Reads, Replaced
  <2>8. CASE Edit(s) BY <2>8 DEF Edit, Step, ChangeWhitelist, ChangeOperators, With, Without
  <2>9. CASE Refuse(s) BY <2>9 DEF Refuse, Fails, Becomes
  <2>10. CASE Archive(s) BY <2>10 DEF Archive, Step
  <2>11. CASE NoSaves(s) BY <2>11 DEF NoSaves, Fails, Becomes
  <2>12. CASE Resume(s)
    <3>0. lock = s /\ unit \in Up \cup {"inactive"} BY <2>12 DEF Resume, IInv, TypeOK
    <3>1. CASE job[s].running
    <4>1. job' = [job EXCEPT ![s].step = "start"] /\ lock' = lock BY <2>12, <3>1 DEF Resume, Step
    <4>2. unit' \in Up BY <2>12, <3>0, <3>1 DEF Resume, StartUnit
    <4>3. job'[s].step = "start" /\ job'[s].running BY <3>1, <4>1
    <4>4. \A t \in Sessions \ {s} : job'[t] = job[t] /\ job[t].step \in {"idle", "lock"} BY
        <3>0, <4>1
    <4> HIDE DEF Up
    <4>5. CommandFacts' BY <3>0, <4>1, <4>2, <4>3, <4>4
    <4>6. (ChangedWhileDown /\ LeftAsFound)' BY <4>3, <4>4
    <4> QED BY <4>5, <4>6
    <3>2. CASE ~job[s].running
    <4>1. job' = [job EXCEPT ![s].step = AfterStop(s)] /\ UNCHANGED <<lock, unit, result>>
      BY <2>12, <3>2 DEF Resume, Step
    <4>2. unit = "inactive" BY <2>12, <3>2 DEF Resume
    <4>3. job'[s].step \in {"prune", "done"} /\ ~job'[s].running BY <3>2, <4>1 DEF AfterStop
    <4>4. \A t \in Sessions \ {s} : job'[t] = job[t] /\ job[t].step \in {"idle", "lock"} BY
        <3>0, <4>1
    <4>5. CommandFacts' BY <3>0, <4>1, <4>3, <4>4
    <4>6. (ChangedWhileDown /\ LeftAsFound)' BY <4>1, <4>2, <4>3, <4>4
    <4> QED BY <4>5, <4>6
    <3> QED BY <3>1, <3>2
  <2>13. CASE Resumed(s) BY <2>13 DEF Resumed, Step, Fails, Becomes, AfterStop
  <2>14. CASE Prune(s) BY <2>14 DEF Prune, Step
  <2>15. CASE End(s) BY <2>15 DEF End, Idle
  <2>16. CASE Raise(s) BY <2>16 DEF Raise, Disrupt, Fails, Becomes
  <2>17. CASE Kill(s) BY <2>17 DEF Kill, Disrupt, Idle
  <2>18. CASE EditAdmins(s) BY <2>18 DEF EditAdmins, Step, CreateAdmins, Reads, Replaced
  <2>19. CASE EditRaises(s) BY <2>19 DEF EditRaises, Fails, Becomes
  <2> QED BY <1>22, <2>1, <2>2, <2>3, <2>4, <2>5, <2>6, <2>7, <2>8, <2>9, <2>10, <2>11, <2>12,
      <2>13, <2>14, <2>15, <2>16, <2>17, <2>18, <2>19 DEF Work
<1>23. CASE UNCHANGED vars BY <1>23 DEF vars
<1>24. CASE StartAdmins BY <1>24 DEF StartAdmins, CreateAdmins, Reads, Replaced
<1>25. CASE StartRaises BY <1>25 DEF StartRaises
<1>26. CASE HandRepair BY <1>26 DEF HandRepair
<1> QED BY <1>1, <1>2, <1>3, <1>4, <1>5, <1>6, <1>7, <1>8, <1>9, <1>10, <1>11,
   <1>12, <1>13, <1>14, <1>15, <1>16, <1>17, <1>18, <1>19, <1>20, <1>21, <1>22, <1>23,
   <1>24, <1>25, <1>26 DEF Next,
       Preparation

\* IInv holds in every state, for any players, worlds, mods and commands.
THEOREM ServerInvariance == Spec => []IInv
<1>1. ASSUME IInv, [Next]_vars PROVE IInv'
  BY <1>1, TypeStep, GuardStep, OperatorStep, CommandStep DEF IInv
<1> QED BY <1>1, Initially, PTL DEF Spec

\* No start, first boot or damage to a stopped server's lists leads to a game
\* without the guard or its ban, and two administrators who edit at will never
\* leave an operator who is not whitelisted.
THEOREM ListsMeanWhatTheySay == Spec => []Consistent
<1>1. IInv => Consistent
  BY DEF IInv, GuardFacts, GuardInForce, Consistent, Lists
<1> QED BY <1>1, ServerInvariance, PTL

\* Commands change the lists and archive the saves of a server that is down and
\* stays down, whatever systemd, deployments and killed commands were up to.
THEOREM ChangedOnlyWhileDown == Spec => []ChangedWhileDown
BY ServerInvariance, PTL DEF IInv

\* A command that is not killed leaves the server up if it found it so.
THEOREM AlwaysLeftAsFound == Spec => []LeftAsFound
BY ServerInvariance, PTL DEF IInv

\* No step resets or loses a world that has been played: a start creates a save
\* for the declared world only where there is none.
THEOREM ProgressNeverLost == Spec => ProgressKept
<1>1. ASSUME IInv, [Next]_vars PROVE \A w \in Worlds : saves[w] = "played" => saves'[w] = "played"
  <2> SUFFICES ASSUME NEW w \in Worlds, saves[w] = "played" PROVE saves'[w] = "played" OBVIOUS
  <2> saves \in [Worlds -> {"none", "fresh", "played"}] /\ declared \in Worlds BY <1>1 DEF IInv,
      TypeOK
  <2>1. CASE CreateWorld BY <2>1 DEF CreateWorld, Missing
  <2>2. CASE Play BY <2>2 DEF Play
  <2>3. CASE saves' = saves BY <2>3
  <2>4. Next => CreateWorld \/ Play \/ saves' = saves
    BY DEF Next, Preparation, Work, lists, world, session, StartGuard, StartAdmins, StartBan, StartRaises, Install,
        ModsInstalled, SelectWorld, LinkNext, ReplaceLink, Load, UnitFails, Restart, Stopped,
        DeployBegins, DeployStops, DeployConfigures, DeployStarts, DeployEnds, Reboot, Damage,
        HandEdit, HandRepair, Begin, Acquire, ReadStatus, Stop, CheckResult, EditGuard, EditAdmins, EditBan, EditRaises, Edit,
        Refuse, Archive, NoSaves, Resume, Resumed, Prune, End, Raise, Kill
  <2> QED BY <1>1, <2>1, <2>2, <2>3, <2>4 DEF vars, world
<1> QED BY <1>1, ServerInvariance, PTL DEF Spec, ProgressKept

-----------------------------------------------------------------------------
(* Progress: what ComesUp rests on, apart from fairness, and that commands end. *)

\* The steps of a start that are still to be made, and of a command.
StartLeft(state) ==
  CASE state = "guard" -> 9 [] state = "admins" -> 8 [] state = "ban" -> 7 [] state = "mods" -> 6 [] state = "world" -> 5
    [] state = "select" -> 4 [] state = "link" -> 3 [] state = "replace" -> 2 [] state = "load" -> 1
    [] OTHER -> 0
CommandLeft(step) ==
  CASE step = "lock" -> 12 [] step = "status" -> 11 [] step = "stop" -> 10 [] step = "result" -> 9
    [] step = "guard" -> 8 [] step = "admins" -> 7 [] step = "ban" -> 6 [] step \in {"edit", "archive"} -> 5
    [] step = "finally" -> 4 [] step = "start" -> 3 [] step = "prune" -> 2 [] step = "done" -> 1
    [] OTHER -> 0

\* The mods that are missing or damaged.
Unfetched == {m \in Mods : mods[m] # "good"}

\* Unless something cuts it short, each step of a start leads on, fetches one mod
\* more, or ends: in a stop that was asked for, or in a failure over a list that
\* the service cannot read
\* (factorio.nix, preStart; factorio-admin.py, initialize; factorio-prepare.py).
StartsGetOn ==
  [][disruptions' = disruptions /\ unit \in Starting =>
       /\ unit' # unit => unit' = "stopping" \/ StartLeft(unit') < StartLeft(unit)
       /\ unit' = "waiting" => \E l \in Lists : ~Reads("service", l)
       /\ Unfetched' \subseteq Unfetched
       /\ unit' = "world" /\ unit # "world" => Unfetched = {}]_vars

\* Each step of a command brings it nearer to its end, whatever fails and however
\* it is ended (factorio-admin.py, stopped_server).
CommandsShorten ==
  [][\A s \in Sessions :
       job[s].step # "idle" /\ job'[s].step # job[s].step
         => CommandLeft(job'[s].step) < CommandLeft(job[s].step)]_vars

\* What a command waits for is under way: the lock for one that has not ended, the
\* result of a stop for a unit that goes down and stays down, the start for a unit
\* that comes up (maintenance_lock, stopped_server).
WaitsAnswered ==
  /\ lock \in Sessions => job[lock].step \notin {"idle", "lock"}
  /\ \A s \in Sessions :
       /\ job[s].step = "result" => unit \in {"stopping", "inactive"}
       /\ job[s].step = "start" => unit \in Up

LEMMA WaitStep == ASSUME IInv, WaitsAnswered, [Next]_vars PROVE WaitsAnswered'
<1> USE FactorioAssumption DEF WaitsAnswered, CommandFacts, Up, Starting, lists, world, session
<1> CommandFacts BY DEF IInv
<1> job \in [Sessions -> Jobs] BY DEF IInv, TypeOK
<1> USE DEF Jobs
<1>1. CASE Preparation \/ Play \/ Damage \/ HandEdit \/ HandRepair \/ DeployConfigures \/ UNCHANGED vars
  BY <1>1 DEF Preparation, StartGuard, StartAdmins, StartBan, StartRaises, Install, ModsInstalled, CreateWorld, SelectWorld, LinkNext,
     ReplaceLink, Load, Play, Damage, HandEdit, HandRepair, DeployConfigures, vars
<1>2. CASE UnitFails BY <1>2 DEF UnitFails, Disrupt
<1>3. CASE Restart BY <1>3 DEF Restart, StartUnit
<1>4. CASE Stopped BY <1>4 DEF Stopped, Disrupt
<1>5. CASE DeployBegins \/ DeployStarts \/ DeployStops \/ DeployEnds
  BY <1>5 DEF DeployBegins, DeployStarts, DeployStops, DeployEnds, StartUnit, StopUnit
<1>6. CASE Reboot BY <1>6 DEF Reboot, StartUnit, Idle
<1>7. ASSUME NEW s \in Sessions, NEW step, lock = s, step \notin {"idle", "lock", "result", "start"},
             UNCHANGED <<lock, unit>>,
             job'[s].step = step, \A t \in Sessions \ {s} : job'[t] = job[t]
      PROVE  WaitsAnswered'
  BY <1>7
<1>8. ASSUME NEW s \in Sessions, Work(s), ~Stop(s), ~Resume(s), ~End(s) PROVE WaitsAnswered'
  <2>1. ASSUME NEW step \in {"finally", "done"}, Fails(s, step)
        PROVE  job'[s].step = step /\ \A t \in Sessions \ {s} : job'[t] = job[t]
    BY <2>1 DEF Fails, Becomes
  <2>2. ASSUME NEW step, Step(s, step)
        PROVE  job'[s].step = step /\ \A t \in Sessions \ {s} : job'[t] = job[t]
    BY <2>2 DEF Step
  <2>3. lock = s BY <1>8 DEF Work, ReadStatus, CheckResult, EditGuard, EditAdmins, EditBan, EditRaises, Edit, Refuse, Archive,
                              NoSaves, Resumed, Prune
  <2>4. CASE ReadStatus(s)
    <3>1. CASE unit = "stopping" BY <1>7, <2>1, <2>3, <2>4, <3>1 DEF ReadStatus
    <3>2. CASE unit # "stopping"
      <4> DEFINE step == IF Running THEN "stop" ELSE Body(s)
      <4>1. step \in {"stop", "guard", "archive"} BY DEF Body
      <4>2. Becomes(s, step, Running, job[s].error) /\ UNCHANGED <<lock, unit>> BY <2>4, <3>2 DEF ReadStatus
      <4> HIDE DEF step
      <4>3. job'[s].step = step /\ \A t \in Sessions \ {s} : job'[t] = job[t] BY <4>2 DEF Becomes
      <4> QED BY <1>7, <2>3, <4>1, <4>2, <4>3
    <3> QED BY <3>1, <3>2
  <2>5. CASE CheckResult(s)
    <3>1. Body(s) \in {"guard", "archive"} BY DEF Body
    <3> QED BY <1>7, <2>1, <2>2, <2>3, <2>5, <3>1 DEF CheckResult
  <2>6. CASE EditGuard(s) \/ EditAdmins(s) \/ EditBan(s) \/ Edit(s) \/ Archive(s) \/ Prune(s)
    BY <1>7, <2>2, <2>3, <2>6 DEF EditGuard, EditAdmins, EditBan, Edit, Archive, Prune
  <2>7. CASE EditRaises(s) \/ Refuse(s) \/ NoSaves(s)
    BY <1>7, <2>1, <2>3, <2>7 DEF EditRaises, Refuse, NoSaves
  <2>8. CASE Resumed(s)
    <3>1. AfterStop(s) \in {"prune", "done"} BY DEF AfterStop
    <3> QED BY <1>7, <2>1, <2>2, <2>3, <2>8, <3>1 DEF Resumed
  <2> QED BY <1>8, <2>4, <2>5, <2>6, <2>7, <2>8 DEF Work
<1>9. ASSUME NEW s \in Sessions, Stop(s) PROVE WaitsAnswered'
  <2>1. /\ lock' = lock /\ lock = s /\ job'[s].step = "result"
        /\ \A t \in Sessions \ {s} : job'[t] = job[t] /\ job[t].step \in {"idle", "lock"}
    BY <1>9 DEF Stop, Step
  <2>2. unit' \in {"stopping", "inactive"}
    BY <1>9 DEF Stop, StopUnit, IInv, TypeOK
  <2> QED BY <2>1, <2>2
<1>10. ASSUME NEW s \in Sessions, Resume(s) PROVE WaitsAnswered'
  <2>1. /\ lock' = lock /\ lock = s /\ job'[s].step \in {"start", "prune", "done"}
        /\ \A t \in Sessions \ {s} : job'[t] = job[t] /\ job[t].step \in {"idle", "lock"}
    BY <1>10 DEF Resume, Step, AfterStop
  <2>2. job'[s].step = "start" => unit' \in Up
    BY <1>10, TypeStep, CommandStep DEF IInv
  <2> QED BY <2>1, <2>2
<1>11. ASSUME NEW s \in Sessions, Begin(s) PROVE WaitsAnswered'
  BY <1>11 DEF Begin, Begun
<1>12. ASSUME NEW s \in Sessions, Acquire(s) PROVE WaitsAnswered'
  BY <1>12 DEF Acquire, Step
<1>13. ASSUME NEW s \in Sessions, End(s) \/ Kill(s) PROVE WaitsAnswered'
  BY <1>13 DEF End, Kill, Idle
<1>14. ASSUME NEW s \in Sessions, Raise(s) PROVE WaitsAnswered'
  BY <1>7, <1>14 DEF Raise, Fails, Becomes
<1> QED BY <1>1, <1>2, <1>3, <1>4, <1>5, <1>6, <1>8, <1>9, <1>10, <1>11, <1>12, <1>13, <1>14 DEF Next

\* Nobody waits for what does not come, with any number of commands and whatever
\* systemd, deployments and killed commands are up to.
THEOREM NobodyWaitsInVain == Spec => []WaitsAnswered
<1>1. Init => WaitsAnswered BY FactorioAssumption DEF Init, WaitsAnswered, Idle
<1>2. IInv /\ WaitsAnswered /\ [Next]_vars => WaitsAnswered' BY WaitStep
<1> QED BY <1>1, <1>2, ServerInvariance, PTL DEF Spec

LEMMA LeftValues ==
  /\ CommandLeft("lock") = 12 /\ CommandLeft("status") = 11 /\ CommandLeft("stop") = 10
  /\ CommandLeft("result") = 9 /\ CommandLeft("guard") = 8 /\ CommandLeft("admins") = 7 /\ CommandLeft("ban") = 6
  /\ CommandLeft("edit") = 5 /\ CommandLeft("archive") = 5 /\ CommandLeft("finally") = 4
  /\ CommandLeft("start") = 3 /\ CommandLeft("prune") = 2 /\ CommandLeft("done") = 1
  /\ CommandLeft("idle") = 0
  /\ StartLeft("guard") = 9 /\ StartLeft("admins") = 8 /\ StartLeft("ban") = 7 /\ StartLeft("mods") = 6 /\ StartLeft("world") = 5
  /\ StartLeft("select") = 4 /\ StartLeft("link") = 3 /\ StartLeft("replace") = 2
  /\ StartLeft("load") = 1 /\ StartLeft("running") = 0 /\ StartLeft("waiting") = 0
BY DEF CommandLeft, StartLeft

\* Every command comes to its end, for any names, worlds and number of commands.
THEOREM CommandsComeToAnEnd == Spec => CommandsShorten
<1>1. ASSUME IInv, [Next]_vars, NEW s \in Sessions, job[s].step # "idle", job'[s].step # job[s].step
      PROVE  CommandLeft(job'[s].step) < CommandLeft(job[s].step)
  <2> USE LeftValues DEF lists, world, session
  <2> job \in [Sessions -> Jobs] BY <1>1 DEF IInv, TypeOK
  <2>0. job[s].step \in {"lock", "status", "stop", "result", "guard", "admins", "ban", "edit", "archive", "finally",
                         "start", "prune", "done"}
    BY <1>1 DEF Jobs
  <2> USE DEF Jobs
  <2>1. CASE UNCHANGED job BY <1>1, <2>1
  <2>2. ASSUME NEW t \in Sessions \ {s}, Begin(t) \/ Acquire(t) \/ Work(t) \/ Raise(t) \/ Kill(t)
        PROVE  FALSE
    <3>1. job'[s] = job[s]
      BY <2>2 DEF Begin, Acquire, Work, ReadStatus, Stop, CheckResult, EditGuard, EditAdmins, EditBan, EditRaises, Edit, Refuse, Archive,
         NoSaves, Resume, Resumed, Prune, End, Raise, Kill, Step, Fails, Becomes
    <3> QED BY <1>1, <3>1
  <2>3. ASSUME job' = [job EXCEPT ![s] = Idle] PROVE CommandLeft(job'[s].step) < CommandLeft(job[s].step)
    <3>1. job'[s].step = "idle" BY <2>3 DEF Idle
    <3> QED BY <2>0, <3>1
  <2>4. ASSUME NEW step, NEW running, NEW error, Step(s, step) \/ Becomes(s, step, running, error)
        PROVE  job'[s].step = step
    BY <2>4 DEF Step, Becomes
  <2>5. Body(s) \in {"guard", "archive"} /\ AfterStop(s) \in {"prune", "done"} BY DEF Body, AfterStop
  <2>6. CASE Acquire(s)
    <3>1. job'[s].step = "status" BY <2>4, <2>6 DEF Acquire
    <3> QED BY <2>6, <3>1 DEF Acquire
  <2>7. CASE ReadStatus(s)
    <3>1. job'[s].step \in {"done", "stop", Body(s)} BY <2>4, <2>7 DEF ReadStatus, Fails
    <3> QED BY <2>5, <2>7, <3>1 DEF ReadStatus
  <2>8. CASE Stop(s)
    <3>1. job'[s].step = "result" BY <2>4, <2>8 DEF Stop
    <3> QED BY <2>8, <3>1 DEF Stop
  <2>9. CASE CheckResult(s)
    <3>1. job'[s].step \in {"finally", Body(s)} BY <2>4, <2>9 DEF CheckResult, Fails
    <3> QED BY <2>5, <2>9, <3>1 DEF CheckResult
  <2>10. CASE EditGuard(s) \/ EditAdmins(s) \/ EditBan(s) \/ Edit(s) \/ Archive(s) \/ Prune(s)
    <3>1. \/ job[s].step = "guard" /\ Step(s, "admins")
          \/ job[s].step = "admins" /\ Step(s, "ban")
          \/ job[s].step = "ban" /\ Step(s, "edit")
          \/ job[s].step \in {"edit", "archive"} /\ Step(s, "finally")
          \/ job[s].step = "prune" /\ Step(s, "done")
      BY <2>10 DEF EditGuard, EditAdmins, EditBan, Edit, Archive, Prune
    <3>2. \/ job[s].step = "guard" /\ job'[s].step = "admins"
          \/ job[s].step = "admins" /\ job'[s].step = "ban"
          \/ job[s].step = "ban" /\ job'[s].step = "edit"
          \/ job[s].step \in {"edit", "archive"} /\ job'[s].step = "finally"
          \/ job[s].step = "prune" /\ job'[s].step = "done"
      BY <2>4, <3>1
    <3> QED BY <3>2
  <2>11. CASE EditRaises(s) \/ Refuse(s) \/ NoSaves(s)
    <3>1. job'[s].step = "finally" BY <2>4, <2>11 DEF EditRaises, Refuse, NoSaves, Fails
    <3> QED BY <2>11, <3>1 DEF EditRaises, Refuse, NoSaves
  <2>12. CASE Resume(s)
    <3>1. job'[s].step \in {"start", AfterStop(s)} BY <2>4, <2>12 DEF Resume
    <3> QED BY <2>5, <2>12, <3>1 DEF Resume
  <2>13. CASE Resumed(s)
    <3>1. job'[s].step \in {"done", AfterStop(s)} BY <2>4, <2>13 DEF Resumed, Fails
    <3> QED BY <2>5, <2>13, <3>1 DEF Resumed
  <2>14. CASE Raise(s)
    <3>1. job'[s].step = "finally" BY <2>4, <2>14 DEF Raise, Fails
    <3> QED BY <2>14, <3>1 DEF Raise
  <2>15. CASE End(s) \/ Kill(s) BY <2>3, <2>15 DEF End, Kill
  <2>16. CASE Reboot
    <3>1. job'[s].step = "idle" BY <2>16 DEF Reboot, Idle
    <3> QED BY <2>0, <3>1
  <2>17. CASE \/ Preparation \/ Play \/ UnitFails \/ Restart \/ Stopped
              \/ DeployBegins \/ DeployStops \/ DeployConfigures \/ DeployStarts \/ DeployEnds
              \/ Damage \/ HandEdit \/ HandRepair \/ UNCHANGED vars
    <3>1. UNCHANGED job
      BY <2>17 DEF Preparation, StartGuard, StartAdmins, StartBan, StartRaises, Install, ModsInstalled, CreateWorld, SelectWorld, LinkNext,
         ReplaceLink, Load, Play, UnitFails, Restart, Stopped, DeployBegins, DeployStops, DeployConfigures,
         DeployStarts, DeployEnds, Damage, HandEdit, HandRepair, vars
    <3> QED BY <2>1, <3>1
  <2>18. ~Begin(s) BY <1>1 DEF Begin
  <2> QED BY <1>1, <2>2, <2>6, <2>7, <2>8, <2>9, <2>10, <2>11, <2>12, <2>13, <2>14, <2>15, <2>16, <2>17, <2>18
      DEF Next, Work
<1>2. IInv /\ [Next]_vars =>
        [\A s \in Sessions : job[s].step # "idle" /\ job'[s].step # job[s].step
           => CommandLeft(job'[s].step) < CommandLeft(job[s].step)]_vars
  BY <1>1
<1> QED BY <1>2, ServerInvariance, PTL DEF Spec, CommandsShorten

\* A start that is left alone comes to its end, for any worlds and mods.
THEOREM StartsComeToAnEnd == Spec => StartsGetOn
<1>1. ASSUME IInv, [Next]_vars, unit \in Starting, disruptions' = disruptions
      PROVE  /\ unit' # unit => unit' = "stopping" \/ StartLeft(unit') < StartLeft(unit)
             /\ unit' = "waiting" => \E l \in Lists : ~Reads("service", l)
             /\ Unfetched' \subseteq Unfetched
             /\ unit' = "world" /\ unit # "world" => Unfetched = {}
  <2> USE <1>1, LeftValues DEF Starting, Unfetched
  <2> disruptions \in Nat /\ mods \in [Mods -> {"absent", "good", "damaged"}]
    BY FactorioAssumption DEF IInv, TypeOK
  <2>1. CASE Install BY <2>1 DEF Install
  <2>2. CASE Preparation /\ ~Install /\ ~StartRaises
    BY <2>2 DEF Preparation, StartGuard, StartAdmins, StartBan, ModsInstalled, CreateWorld, SelectWorld, LinkNext,
       ReplaceLink, Load
  <2>11. CASE StartRaises
    <3>1. ListRead(unit) \in Lists BY <2>11 DEF StartRaises, ListRead, Lists
    <3> QED BY <2>11, <3>1 DEF StartRaises
  <2>3. CASE UNCHANGED <<unit, mods>> BY <2>3
  <2>4. CASE StopUnit /\ mods' = mods BY <2>4 DEF StopUnit
  <2>5. CASE DeployStops \/ \E s \in Sessions : Stop(s)
    BY <2>4, <2>5 DEF DeployStops, Stop
  <2>6. CASE UnitFails \/ DeployConfigures \/ Reboot \/ Damage \/ HandEdit
    <3>1. disruptions' = disruptions + 1
      BY <2>6 DEF UnitFails, DeployConfigures, Reboot, Damage, HandEdit, Disrupt
    <3> QED BY <3>1
  <2>9. CASE Restart \/ Stopped \/ DeployStarts
    BY <2>9 DEF Restart, Stopped, DeployStarts
  <2>10. CASE Play \/ DeployBegins \/ DeployEnds \/ HandRepair
    BY <2>3, <2>10 DEF Play, DeployBegins, DeployEnds, HandRepair
  <2>7. ASSUME NEW s \in Sessions, Begin(s) \/ Acquire(s) \/ Work(s) \/ Raise(s) \/ Kill(s), ~Stop(s)
        PROVE  UNCHANGED <<unit, mods>>
    BY <2>7 DEF Begin, Acquire, Work, ReadStatus, CheckResult, EditGuard, EditAdmins, EditBan, EditRaises, Edit, Refuse, Archive, NoSaves,
       Resume, Resumed, Prune, End, Raise, Kill
  <2>8. CASE UNCHANGED vars BY <2>3, <2>8 DEF vars
  <2> QED BY <2>1, <2>2, <2>3, <2>5, <2>6, <2>7, <2>8, <2>9, <2>10, <2>11 DEF Next
<1>2. IInv /\ [Next]_vars =>
        [disruptions' = disruptions /\ unit \in Starting =>
           /\ unit' # unit => unit' = "stopping" \/ StartLeft(unit') < StartLeft(unit)
           /\ unit' = "waiting" => \E l \in Lists : ~Reads("service", l)
           /\ Unfetched' \subseteq Unfetched
           /\ unit' = "world" /\ unit # "world" => Unfetched = {}]_vars
  BY <1>1
<1> QED BY <1>2, ServerInvariance, PTL DEF Spec, StartsGetOn
=============================================================================
