----------------------- MODULE WebsiteDeploymentProofs -----------------------
(***************************************************************************)
(* Theorems about WebsiteDeployment, for every set of releases: the types, *)
(* the inductive invariant, the safety properties the runs check, and the  *)
(* refinement of SiteTransaction.                                          *)
(***************************************************************************)
EXTENDS WebsiteDeployment, TLAPS

LEMMA NoneFacts == None \notin Releases /\ None \in Generation
  BY WebsiteAssumption DEF Generation

\* Every step leaves the state of the updater well-typed.
LEMMA TypeStep == IInv /\ [Next]_vars => TypeOK'
  <1> SUFFICES ASSUME IInv, [Next]_vars PROVE TypeOK'
    OBVIOUS
  <1> USE NoneFacts
       DEF TypeOK, Generation, Trees, Steps, Operations, NoPending, config,
           journal, trees, process, Goto, Exit, RemoveThen, Removing, Unaccepted
  <1>a. TypeOK /\ PendingIntact /\ StepFacts
    BY DEF IInv
  <1>1. ASSUME NEW operation \in Operations, Begin(operation) PROVE TypeOK'
    BY <1>a, <1>1 DEF Begin
  <1>2. CASE Recover
    BY <1>a, <1>2 DEF Recover
  <1>3. CASE RestoreLink
    BY <1>a, <1>3 DEF RestoreLink
  <1>4. CASE Forget
    BY <1>a, <1>4 DEF Forget, PendingIntact, StepFacts
  <1>5. ASSUME NEW r \in Releases, RemoveSite(r) PROVE TypeOK'
    BY <1>a, <1>5 DEF RemoveSite
  <1>6. ASSUME NEW r \in Releases, RemoveMetadata(r) PROVE TypeOK'
    BY <1>a, <1>6 DEF RemoveMetadata
  <1>7. CASE Removed
    BY <1>a, <1>7 DEF Removed
  <1>8. CASE Recheck
    BY <1>a, <1>8 DEF Recheck
  <1>9. CASE Agree
    BY <1>a, <1>9 DEF Agree
  <1>10. CASE Update
    BY <1>a, <1>10 DEF Update, Wanted
  <1>11. ASSUME NEW r \in Releases, Preview(r) PROVE TypeOK'
    BY <1>a, <1>11 DEF Preview
  <1>12. CASE Install
    BY <1>a, <1>12 DEF Install
  <1>13. CASE ReplaceMetadata
    BY <1>a, <1>13 DEF ReplaceMetadata, StepFacts, Chosen, Ready, OnTrial
  <1>14. CASE PublishSite
    BY <1>a, <1>14 DEF PublishSite, StepFacts, Chosen, Ready, OnTrial
  <1>15. CASE RollbackTo
    BY <1>a, <1>15 DEF RollbackTo
  <1>16. CASE Hold
    BY <1>a, <1>16 DEF Hold
  <1>17. CASE Resume
    BY <1>a, <1>17 DEF Resume
  <1>18. ASSUME NEW r \in Releases, Retry(r) PROVE TypeOK'
    BY <1>a, <1>18 DEF Retry
  <1>19. CASE Activate
    BY <1>a, <1>19 DEF Activate
  <1>20. CASE Switch
    BY <1>a, <1>20 DEF Switch
  <1>21. CASE Health
    BY <1>a, <1>21 DEF Health
  <1>22. CASE Accept
    BY <1>a, <1>22 DEF Accept, StepFacts, Chosen, Ready, OnTrial
  <1>23. CASE Prune
    BY <1>a, <1>23 DEF Prune, Expired
  <1>24. CASE SavePruned
    BY <1>a, <1>24 DEF SavePruned
  <1>25. CASE Unswitch
    BY <1>a, <1>25 DEF Unswitch
  <1>26. CASE Reject
    BY <1>a, <1>26 DEF Reject, StepFacts, Chosen, Ready, OnTrial
  <1>27. CASE Stop
    BY <1>a, <1>27 DEF Stop
  <1>28. CASE Publish
    BY <1>a, <1>28 DEF Publish
  <1>29. CASE Configure
    BY <1>a, <1>29 DEF Configure
  <1>30. CASE UNCHANGED vars
    BY <1>a, <1>30 DEF vars
  <1>31. QED
    BY <1>1, <1>2, <1>3, <1>4, <1>5, <1>6, <1>7, <1>8, <1>9, <1>10, <1>11,
       <1>12, <1>13, <1>14, <1>15, <1>16, <1>17, <1>18, <1>19, <1>20, <1>21,
       <1>22, <1>23, <1>24, <1>25, <1>26, <1>27, <1>28, <1>29, <1>30
       DEF Next, Work

\* The part of the invariant beyond the types.
Core ==
    /\ ServedIntact
    /\ JournalAgrees
    /\ RollbackPossible
    /\ MetadataOutlivesSite
    /\ PendingIntact
    /\ StepFacts
    /\ OperationFacts

\* Every step preserves the inductive invariant.
LEMMA CoreStep == IInv /\ [Next]_vars => Core'
  <1> SUFFICES ASSUME IInv, [Next]_vars PROVE Core'
    OBVIOUS
  <1>a. TypeOK'
    BY TypeStep
  <1>b. TypeOK /\ Core
    BY DEF IInv, Core
  <1> USE <1>a, <1>b, NoneFacts
       DEF TypeOK, Core, ServedIntact, JournalAgrees, RollbackPossible,
           PreviousDiffers, MetadataOutlivesSite, PendingIntact, StepFacts,
           OperationFacts, Stored, Generation, NoPending, Chosen, Ready,
           Untried, OnTrial, config, journal, trees, process, Goto, Exit
  <1>1. ASSUME NEW operation \in Operations, Begin(operation) PROVE Core'
    BY <1>1 DEF Begin
  <1>2. CASE Recover
    BY <1>2 DEF Recover
  <1>3. CASE RestoreLink
    BY <1>3 DEF RestoreLink
  <1>4. CASE Forget
    BY <1>4 DEF Forget, RemoveThen, Unaccepted
  <1>5. ASSUME NEW r \in Releases, RemoveSite(r) PROVE Core'
    BY <1>5 DEF RemoveSite, Removing
  <1>6. ASSUME NEW r \in Releases, RemoveMetadata(r) PROVE Core'
    BY <1>6 DEF RemoveMetadata, Removing
  <1>7. CASE Removed
    BY <1>7 DEF Removed
  <1>8. CASE Recheck
    BY <1>8 DEF Recheck
  <1>9. CASE Agree
    BY <1>9 DEF Agree
  <1>10. CASE Update
    BY <1>10, WebsiteAssumption DEF Update, Wanted, Downgrade
  <1>11. ASSUME NEW r \in Releases, Preview(r) PROVE Core'
    BY <1>11 DEF Preview
  <1>12. CASE Install
    BY <1>12 DEF Install
  <1>13. CASE ReplaceMetadata
    BY <1>13 DEF ReplaceMetadata, Removing
  <1>14. CASE PublishSite
    BY <1>14 DEF PublishSite
  <1>15. CASE RollbackTo
    BY <1>15 DEF RollbackTo
  <1>16. CASE Hold
    BY <1>16 DEF Hold
  <1>17. CASE Resume
    BY <1>17 DEF Resume
  <1>18. ASSUME NEW r \in Releases, Retry(r) PROVE Core'
    BY <1>18 DEF Retry
  <1>19. CASE Activate
    BY <1>19 DEF Activate
  <1>20. CASE Switch
    BY <1>20 DEF Switch
  <1>21. CASE Health
    BY <1>21 DEF Health
  <1>22. CASE Accept
    BY <1>22 DEF Accept
  <1>23. CASE Prune
    BY <1>23 DEF Prune, RemoveThen, Expired
  <1>24. CASE SavePruned
    BY <1>24 DEF SavePruned
  <1>25. CASE Unswitch
    BY <1>25 DEF Unswitch
  <1>26. CASE Reject
    BY <1>26 DEF Reject, RemoveThen, Unaccepted
  <1>27. CASE Stop
    BY <1>27 DEF Stop
  <1>28. CASE Publish
    BY <1>28 DEF Publish
  <1>29. CASE Configure
    BY <1>29 DEF Configure
  <1>30. CASE UNCHANGED vars
    BY <1>30 DEF vars
  <1>31. QED
    BY <1>1, <1>2, <1>3, <1>4, <1>5, <1>6, <1>7, <1>8, <1>9, <1>10, <1>11,
       <1>12, <1>13, <1>14, <1>15, <1>16, <1>17, <1>18, <1>19, <1>20, <1>21,
       <1>22, <1>23, <1>24, <1>25, <1>26, <1>27, <1>28, <1>29, <1>30
       DEF Next, Work

-----------------------------------------------------------------------------

\* The state a first start creates satisfies the inductive invariant.
LEMMA InitInvariant == Init => IInv
  <1> SUFFICES ASSUME Init PROVE IInv
    OBVIOUS
  <1>1. TypeOK
    BY NoneFacts
       DEF Init, TypeOK, Generation, Trees, Steps, Operations, NoPending
  <1>2. ServedIntact /\ JournalAgrees
    BY DEF Init, ServedIntact, JournalAgrees, NoPending
  <1>3. RollbackPossible
    BY DEF Init, RollbackPossible, PreviousDiffers
  <1>4. MetadataOutlivesSite /\ PendingIntact
    BY DEF Init, MetadataOutlivesSite, PendingIntact, NoPending
  <1>5. StepFacts /\ OperationFacts
    BY DEF Init, StepFacts, OperationFacts, NoPending, Chosen, Ready, Untried,
           OnTrial
  <1> QED
    BY <1>1, <1>2, <1>3, <1>4, <1>5 DEF IInv

\* No step of an operation, no crash and no administrator's action leaves
\* the inductive invariant.
LEMMA StepInvariant == IInv /\ [Next]_vars => IInv'
  <1> SUFFICES ASSUME IInv, [Next]_vars PROVE IInv'
    OBVIOUS
  <1>1. TypeOK'
    BY TypeStep
  <1>2. Core'
    BY CoreStep
  <1> QED
    BY <1>1, <1>2 DEF IInv, Core

\* The inductive invariant holds in every reachable state.
THEOREM Invariance == Spec => []IInv
  <1>1. Init => IInv
    BY InitInvariant
  <1>2. IInv /\ [Next]_vars => IInv'
    BY StepInvariant
  <1> QED
    BY <1>1, <1>2, PTL DEF Spec

\* State.json, the file system and the process keep their types.
THEOREM TypeCorrect == Spec => []TypeOK
  <1>1. IInv => TypeOK
    BY DEF IInv
  <1> QED
    BY <1>1, Invariance, PTL

\* Whatever is cut short and wherever, visitors get a complete site.
THEOREM VisitorsServed == Spec => []ServedIntact
  <1>1. IInv => ServedIntact
    BY DEF IInv
  <1> QED
    BY <1>1, Invariance, PTL

\* The journal always tells which release is served or on trial.
THEOREM JournalTrue == Spec => []JournalAgrees
  <1>1. IInv => JournalAgrees
    BY DEF IInv
  <1> QED
    BY <1>1, Invariance, PTL

\* No removal reaches what a recovery or a rollback needs, and a rollback
\* leads to another release than the accepted one.
THEOREM RollbackKept == Spec => []RollbackPossible
  <1>1. IInv => RollbackPossible
    BY DEF IInv
  <1> QED
    BY <1>1, Invariance, PTL

-----------------------------------------------------------------------------
(* What a step can do to the link and to the accepted release *)

\* Only the switch of an activation and its acceptance bring in anything new.
Novelty ==
    /\ link' \in {link, current} \/ (Switch /\ link' = candidate)
    /\ current' = current \/ Accept
    /\ link' = link \/ site' = site

\* Every other step keeps the link or restores the accepted release.
LEMMA NoveltyStep == IInv /\ [Next]_vars => Novelty
  <1> SUFFICES ASSUME IInv, [Next]_vars PROVE Novelty
    OBVIOUS
  <1>a. JournalAgrees /\ StepFacts /\ PendingIntact
    BY DEF IInv
  <1> USE DEF Novelty, config, journal, trees, process
  <1>1. CASE RestoreLink \/ Forget \/ Unswitch
    BY <1>a, <1>1, NoneFacts
       DEF RestoreLink, Forget, Unswitch, Goto, JournalAgrees, StepFacts,
           PendingIntact, OnTrial, NoPending
  <1>2. CASE Switch
    BY <1>2 DEF Switch
  <1>3. CASE Accept
    BY <1>3 DEF Accept
  <1>4. CASE Recover \/ Removed \/ Recheck \/ Agree \/ Update \/ Install
             \/ ReplaceMetadata \/ PublishSite \/ RollbackTo \/ Hold \/ Resume
    BY <1>4 DEF Recover, Removed, Recheck, Agree, Update, Install,
                ReplaceMetadata, PublishSite, RollbackTo, Hold, Resume
  <1>5. CASE Activate \/ Health \/ Prune \/ SavePruned \/ Reject \/ Stop
             \/ Publish \/ Configure
    BY <1>5 DEF Activate, Health, Prune, SavePruned, Reject, Stop, Publish,
                Configure
  <1>6. CASE \E r \in Releases :
               RemoveSite(r) \/ RemoveMetadata(r) \/ Preview(r) \/ Retry(r)
    BY <1>6 DEF RemoveSite, RemoveMetadata, Preview, Retry
  <1>7. CASE \E operation \in Operations : Begin(operation)
    BY <1>7 DEF Begin
  <1>8. CASE UNCHANGED vars
    BY <1>8 DEF vars
  <1> QED
    BY <1>1, <1>2, <1>3, <1>4, <1>5, <1>6, <1>7, <1>8 DEF Next, Work

\* After an operator's rollback no update replaces what it restored.
THEOREM HoldRespected == Spec => HeldStaysDown
  <1>1. IInv /\ [Next]_vars =>
          [held /\ op = "update" =>
             current' = current /\ link' \in {link, current}]_vars
    <2> SUFFICES ASSUME IInv, [Next]_vars, held, op = "update"
                 PROVE  current' = current /\ link' \in {link, current}
      OBVIOUS
    <2>1. Novelty
      BY NoveltyStep
    <2>2. ~Switch /\ ~Accept
      BY DEF IInv, OperationFacts, Chosen, Ready, OnTrial, Switch, Accept
    <2> QED
      BY <2>1, <2>2 DEF Novelty
  <1> QED
    BY <1>1, Invariance, PTL DEF Spec, HeldStaysDown

\* An unpinned update never accepts an older release than the accepted one.
THEOREM NeverDowngraded == Spec => NoDowngrade
  <1>1. IInv /\ [Next]_vars =>
          [op = "update" /\ pinned = None /\ current # None =>
             current' \in Releases /\ current' >= current]_vars
    <2> SUFFICES ASSUME IInv, [Next]_vars,
                        op = "update", pinned = None, current # None
                 PROVE  current' \in Releases /\ current' >= current
      OBVIOUS
    <2>1. Novelty
      BY NoveltyStep
    <2>2. current \in Releases
      BY DEF IInv, TypeOK, Generation
    <2>3. CASE current' = current
      BY <2>2, <2>3, WebsiteAssumption
    <2>4. CASE Accept
      <3>1. pc = "accept" /\ current' = candidate
        BY <2>4 DEF Accept
      <3>2. candidate \in Releases /\ candidate >= current
        BY <3>1 DEF IInv, StepFacts, OperationFacts, Chosen, Ready, OnTrial
      <3> QED
        BY <3>1, <3>2
    <2> QED
      BY <2>1, <2>3, <2>4 DEF Novelty
  <1> QED
    BY <1>1, Invariance, PTL DEF Spec, NoDowngrade

\* No update and no preview shows a quarantined release, even on trial.
THEOREM QuarantineRespected == Spec => QuarantineNotServed
  <1>1. IInv /\ [Next]_vars =>
          [link' # link /\ link' # current /\ op \in {"update", "preview"} =>
             link' \notin quarantined]_vars
    <2> SUFFICES ASSUME IInv, [Next]_vars, link' # link, link' # current,
                        op \in {"update", "preview"}
                 PROVE  link' \notin quarantined
      OBVIOUS
    <2>1. Switch /\ link' = candidate
      BY NoveltyStep DEF Novelty
    <2> QED
      BY <2>1 DEF IInv, OperationFacts, Untried, Switch
  <1> QED
    BY <1>1, Invariance, PTL DEF Spec, QuarantineNotServed

-----------------------------------------------------------------------------
(* The refinement of SiteTransaction *)

\* What is accepted and what is shown is complete, in the abstract's terms.
LEMMA SafeMapped == IInv => Promise!Safe
  BY NoneFacts
     DEF IInv, TypeOK, Generation, ServedIntact, RollbackPossible, Stored,
         Promise!Safe

\* The updater is an atomic switch: each of its steps is a trial, a commit, a
\* revert or a change of the stored releases, and is invisible otherwise.
THEOREM AtomicSwitch == Spec => Implements
  <1> DEFINE Whole == {r \in Releases : site[r] = "whole"}
  <1>1. Init => Promise!Init
    BY DEF Init, Promise!Init
  <1>2. IInv /\ IInv' /\ [Next]_vars =>
          [Promise!Next]_<<current, link, Whole>>
    <2> SUFFICES ASSUME IInv, IInv', [Next]_vars
                 PROVE  Promise!Next \/ UNCHANGED <<current, link, Whole>>
      OBVIOUS
    <2>1. Promise!Safe'
      <3>1. {current', link'} \subseteq Whole' \cup {None}
        BY NoneFacts
           DEF IInv, TypeOK, Generation, ServedIntact, RollbackPossible, Stored
      <3> QED
        BY <3>1 DEF Promise!Safe
    <2>2. Novelty
      BY NoveltyStep
    <2>3. CASE UNCHANGED <<current, link>>
      BY <2>1, <2>3 DEF Promise!Next, Promise!Store
    <2>4. CASE Switch /\ link' = candidate
      <3>1. link = current /\ candidate \in Releases \ {current}
        BY <2>4, NoneFacts
           DEF IInv, StepFacts, PendingIntact, Switch, OnTrial, Chosen,
               Ready, NoPending
      <3>2. current' = current /\ Whole' = Whole
        BY <2>4 DEF Switch, journal, trees
      <3>3. Promise!Try(candidate)
        BY <2>4, <3>1, <3>2 DEF Promise!Try
      <3> QED
        BY <2>1, <3>1, <3>3 DEF Promise!Next
    <2>5. CASE Accept
      <3>1. link = candidate /\ candidate # current
        BY <2>5, NoneFacts
           DEF IInv, StepFacts, PendingIntact, Accept, OnTrial, Chosen,
               Ready, NoPending
      <3>2. current' = candidate /\ link' = link /\ Whole' = Whole
        BY <2>5 DEF Accept, trees
      <3>3. Promise!Commit
        BY <3>1, <3>2 DEF Promise!Commit
      <3> QED
        BY <2>1, <3>3 DEF Promise!Next
    <2>6. CASE current' = current /\ link' = current /\ link' # link
      <3>1. Whole' = Whole
        BY <2>2, <2>6 DEF Novelty
      <3>2. Promise!Revert
        BY <2>6, <3>1 DEF Promise!Revert
      <3> QED
        BY <2>1, <3>2 DEF Promise!Next
    <2> QED
      BY <2>2, <2>3, <2>4, <2>5, <2>6 DEF Novelty
  <1> QED
    BY <1>1, <1>2, Invariance, PTL DEF Spec, Implements, Promise!Spec

-----------------------------------------------------------------------------
(* Progress: what UpdateSettles rests on, apart from fairness *)

\* The steps an operation still has before it; the removal after a recovery is
\* in the middle of it, the others are at its end.
StepsLeft(step, next) ==
    CASE step = "recover" -> 20 [] step = "restoreLink" -> 19
      [] step = "forget" -> 18
      [] step = "remove" -> IF next = "recheck" THEN 17 ELSE 2
      [] step = "recheck" -> 16 [] step = "agree" -> 15
      [] step = "dispatch" -> 14 [] step = "install" -> 13
      [] step = "replaceMetadata" -> 12 [] step = "publishSite" -> 11
      [] step = "hold" -> 10 [] step = "activate" -> 9
      [] step = "switch" -> 8 [] step = "health" -> 7
      [] step = "accept" -> 6 [] step = "prune" -> 5
      [] step = "unswitch" -> 4 [] step = "reject" -> 3
      [] step = "savePruned" -> 1
      [] OTHER -> 0

Files(tree) == IF tree = "whole" THEN 2 ELSE IF tree = "partial" THEN 1 ELSE 0

\* No operation goes back to a step it has left, with its recovery and however
\* it ends, and a step that is repeated only takes files away (cli.ts, update,
\* rollback, recover and activate of deployment.ts).
OperationsAdvance ==
    [][pc # "idle" =>
         IF pc' = pc
           THEN \A r \in Releases : /\ Files(site'[r]) <= Files(site[r])
                                    /\ Files(meta'[r]) <= Files(meta[r])
           ELSE StepsLeft(pc', after') < StepsLeft(pc, after)]_vars

\* An update that is not cut short leaves no activation behind, and ends for one
\* of the reasons there are: nothing is to be done, or the release it has chosen
\* is now accepted or rejected, or its files are damaged.  In particular its
\* recovery never gives up, and it never finds the link astray (update).
UpdateConcludes ==
    [][Work /\ op = "update" /\ pc' = "idle" =>
         /\ pending' = NoPending /\ link' = current'
         /\ IF pc = "dispatch"
              THEN held \/ Wanted \in quarantined \cup {None, current} \/ Downgrade(Wanted)
              ELSE \/ candidate \in quarantined' \cup {current'}
                   \/ site[candidate] = "partial"]_vars

\* What has become of the candidate when the files are cleaned up.
OutcomeFacts ==
    /\ pc \in {"prune", "savePruned"} => candidate = current
    /\ pc = "remove" /\ after = "savePruned" => candidate = current
    /\ pc = "remove" /\ after = "idle" => candidate \in quarantined

LEMMA OutcomeStep == IInv /\ OutcomeFacts /\ [Next]_vars => OutcomeFacts'
  <1> SUFFICES ASSUME IInv, OutcomeFacts, [Next]_vars PROVE OutcomeFacts'
    OBVIOUS
  <1> USE DEF OutcomeFacts, config, journal, trees, process, Goto, Exit, RemoveThen
  <1>0. after \in {"idle", "recheck", "savePruned"} /\ pc \in Steps
    BY DEF IInv, TypeOK
  <1>1. CASE RestoreLink \/ Forget \/ Unswitch \/ Reject
    BY <1>1 DEF RestoreLink, Forget, Unswitch, Reject
  <1>2. CASE Switch \/ Accept \/ Activate \/ Health
    BY <1>2 DEF Switch, Accept, Activate, Health
  <1>3. CASE Prune \/ SavePruned
    BY <1>3 DEF Prune, SavePruned
  <1>4. CASE Removed
    BY <1>0, <1>4 DEF Removed
  <1>5. CASE Recover \/ Recheck \/ Agree \/ Update \/ Install \/ ReplaceMetadata
             \/ PublishSite \/ RollbackTo \/ Hold \/ Resume
    BY <1>5 DEF Recover, Recheck, Agree, Update, Install, ReplaceMetadata,
                PublishSite, RollbackTo, Hold, Resume
  <1>6. CASE \E r \in Releases :
               RemoveSite(r) \/ RemoveMetadata(r) \/ Preview(r) \/ Retry(r)
    BY <1>6 DEF RemoveSite, RemoveMetadata, Preview, Retry
  <1>7. CASE \E operation \in Operations : Begin(operation)
    BY <1>7 DEF Begin
  <1>8. CASE Stop \/ Publish \/ Configure \/ UNCHANGED vars
    BY <1>8 DEF Stop, Publish, Configure, vars
  <1> QED
    BY <1>1, <1>2, <1>3, <1>4, <1>5, <1>6, <1>7, <1>8 DEF Next, Work

\* An update that runs to its end has settled the matter, after any history of
\* interruptions and for any releases.
THEOREM UpdatesSettle == Spec => UpdateConcludes
  <1>1. Init => OutcomeFacts
    BY DEF Init, OutcomeFacts
  <1>2. ASSUME IInv, IInv', OutcomeFacts, Work, op = "update", pc' = "idle"
        PROVE  /\ pending' = NoPending /\ link' = current'
               /\ IF pc = "dispatch"
                    THEN held \/ Wanted \in quarantined \cup {None, current} \/ Downgrade(Wanted)
                    ELSE \/ candidate \in quarantined' \cup {current'}
                         \/ site[candidate] = "partial"
    <2> USE <1>2 DEF config, journal, trees, process, Goto, Exit, RemoveThen
    <2>a. TypeOK /\ JournalAgrees /\ RollbackPossible /\ StepFacts /\ MetadataOutlivesSite
      BY DEF IInv
    <2>1. pc \in {"dispatch", "install", "publishSite", "savePruned", "remove"}
      <3>1. CASE Recover
        <4>1. pc = "recover" /\ pending # NoPending /\ pending.previous # None
              /\ ~Stored(pending.previous)
          BY <3>1 DEF Recover
        <4>2. pending.previous = current
          BY <2>a, <4>1 DEF JournalAgrees
        <4> QED
          BY <2>a, <4>1, <4>2 DEF RollbackPossible
      <3>2. CASE Recheck
        BY <2>a, <3>2 DEF Recheck, RollbackPossible
      <3>3. CASE Agree
        BY <2>a, <3>3 DEF Agree, JournalAgrees, StepFacts, OnTrial
      <3>4. CASE Removed \/ Update \/ Install \/ PublishSite \/ SavePruned
        BY <3>4 DEF Removed, Update, Install, PublishSite, SavePruned
      <3>5. CASE RollbackTo \/ Resume \/ \E r \in Releases : Preview(r) \/ Retry(r)
        BY <3>5 DEF RollbackTo, Resume, Preview, Retry
      <3>6. CASE RestoreLink \/ Forget \/ Unswitch \/ Reject \/ Switch \/ Accept
                 \/ Activate \/ Health \/ Prune \/ Hold
        BY <3>6 DEF RestoreLink, Forget, Unswitch, Reject, Switch, Accept,
                    Activate, Health, Prune, Hold
      <3>7. CASE ReplaceMetadata \/ \E r \in Releases : RemoveSite(r) \/ RemoveMetadata(r)
        BY <3>7 DEF ReplaceMetadata, RemoveSite, RemoveMetadata
      <3> QED
        BY <3>1, <3>2, <3>3, <3>4, <3>5, <3>6, <3>7 DEF Work
    <2>2. pending = NoPending
      BY <2>a, <2>1 DEF StepFacts, OnTrial
    <2>3. CASE pc = "dispatch"
      <3>1. Update
        BY <2>3 DEF Work, Recover, RestoreLink, Forget, Removed, Recheck, Agree, RemoveSite,
            RemoveMetadata, Preview, Retry, Install, ReplaceMetadata, PublishSite, RollbackTo,
            Hold, Resume, Activate, Switch, Health, Accept, Prune, SavePruned, Unswitch, Reject
      <3>2. UNCHANGED <<pending, link, current>>
        BY <3>1 DEF Update
      <3>3. held \/ Wanted \in quarantined \cup {None, current} \/ Downgrade(Wanted)
        BY <2>3, <3>1 DEF Update
      <3> QED
        BY <2>2, <2>3, <3>2, <3>3 DEF IInv, JournalAgrees
    <2>4. CASE pc # "dispatch"
      <3>1. Install \/ PublishSite \/ SavePruned \/ Removed
        BY <2>1, <2>4 DEF Work, Recover, RestoreLink, Forget, Recheck, Agree, RemoveSite,
            RemoveMetadata, Preview, Retry, Update, ReplaceMetadata, RollbackTo,
            Hold, Resume, Activate, Switch, Health, Accept, Prune, Unswitch, Reject
      <3>2. UNCHANGED <<pending, link, current, quarantined>>
        BY <3>1 DEF Install, PublishSite, SavePruned, Removed
      <3>3. pending' = NoPending /\ link' = current'
        BY <2>2, <3>2 DEF IInv, JournalAgrees
      <3>4. CASE Install
        <4>1. pc = "install" /\ candidate \in Releases
          BY <2>a, <3>4 DEF Install, StepFacts, Chosen
        <4>2. site[candidate] \in Trees
          BY <2>a, <4>1 DEF TypeOK
        <4>3. \/ candidate \in quarantined \cup {current}
              \/ site[candidate] # "absent" /\ ~Stored(candidate)
          BY <3>4 DEF Install
        <4>4. site[candidate] = "whole" => Stored(candidate)
          BY <2>a, <4>1 DEF MetadataOutlivesSite, Stored
        <4> QED
          BY <2>4, <3>2, <3>3, <4>2, <4>3, <4>4 DEF Trees
      <3>5. CASE PublishSite
        <4>1. candidate = current
          BY <3>5 DEF PublishSite
        <4> QED
          BY <2>4, <3>2, <3>3, <4>1
      <3>6. CASE SavePruned
        <4>1. candidate = current
          BY <3>6 DEF SavePruned, OutcomeFacts
        <4> QED
          BY <2>4, <3>2, <3>3, <4>1
      <3>7. CASE Removed
        <4>1. pc = "remove" /\ after = "idle"
          BY <2>a, <3>7 DEF Removed, TypeOK
        <4>2. candidate \in quarantined
          BY <4>1 DEF OutcomeFacts
        <4> QED
          BY <2>4, <3>2, <3>3, <4>2
      <3> QED
        BY <3>1, <3>4, <3>5, <3>6, <3>7
    <2> QED
      BY <2>3, <2>4
  <1>3. IInv /\ IInv' /\ OutcomeFacts /\ [Next]_vars =>
          [Work /\ op = "update" /\ pc' = "idle" =>
             /\ pending' = NoPending /\ link' = current'
             /\ IF pc = "dispatch"
                  THEN held \/ Wanted \in quarantined \cup {None, current} \/ Downgrade(Wanted)
                  ELSE \/ candidate \in quarantined' \cup {current'}
                       \/ site[candidate] = "partial"]_vars
    BY <1>2
  <1> QED
    BY <1>1, <1>3, OutcomeStep, Invariance, PTL DEF Spec, UpdateConcludes

LEMMA StepsLeftValues ==
  ASSUME NEW next
  PROVE  /\ StepsLeft("recover", next) = 20 /\ StepsLeft("restoreLink", next) = 19
         /\ StepsLeft("forget", next) = 18
         /\ StepsLeft("remove", "recheck") = 17
         /\ next # "recheck" => StepsLeft("remove", next) = 2
         /\ StepsLeft("recheck", next) = 16 /\ StepsLeft("agree", next) = 15
         /\ StepsLeft("dispatch", next) = 14 /\ StepsLeft("install", next) = 13
         /\ StepsLeft("replaceMetadata", next) = 12 /\ StepsLeft("publishSite", next) = 11
         /\ StepsLeft("hold", next) = 10 /\ StepsLeft("activate", next) = 9
         /\ StepsLeft("switch", next) = 8 /\ StepsLeft("health", next) = 7
         /\ StepsLeft("accept", next) = 6 /\ StepsLeft("prune", next) = 5
         /\ StepsLeft("unswitch", next) = 4 /\ StepsLeft("reject", next) = 3
         /\ StepsLeft("savePruned", next) = 1 /\ StepsLeft("idle", next) = 0
  BY DEF StepsLeft

LEMMA FewerFiles ==
  ASSUME NEW tree \in [Releases -> Trees], NEW r \in Releases
  PROVE  \A q \in Releases : Files(Removing(tree, r)[q]) <= Files(tree[q])
  BY DEF Removing, Files, Trees

\* Every operation comes to its end, for any releases and any retention.
THEOREM OperationsComeToAnEnd == Spec => OperationsAdvance
  <1> DEFINE Fewer == \A r \in Releases : /\ Files(site'[r]) <= Files(site[r])
                                          /\ Files(meta'[r]) <= Files(meta[r])
             Nearer == StepsLeft(pc', after') < StepsLeft(pc, after)
  <1>1. ASSUME IInv, [Next]_vars, pc # "idle"
        PROVE  IF pc' = pc THEN Fewer ELSE Nearer
    <2> USE <1>1 DEF config, journal, trees, process
    <2>a. TypeOK /\ StepFacts
      BY DEF IInv
    <2>b. \A tree \in Trees : Files(tree) \in 0 .. 2
      BY DEF Files
    <2>1. ASSUME UNCHANGED trees PROVE Fewer
      BY <2>1, <2>a, <2>b DEF TypeOK
    <2>2. ASSUME NEW step, Goto(step) PROVE pc' = step /\ after' = after
      BY <2>2 DEF Goto
    <2>3. ASSUME Exit PROVE pc' = "idle"
      BY <2>3 DEF Exit
    <2>4. ASSUME NEW set, NEW next, RemoveThen(set, next) PROVE pc' = "remove" /\ after' = next
      BY <2>4 DEF RemoveThen
    <2>5. CASE Stop
      <3>1. pc' = "idle"
        BY <2>3, <2>5 DEF Stop
      <3>2. StepsLeft(pc, after) > 0
        BY <2>a, StepsLeftValues DEF TypeOK, Steps
      <3> QED
        BY <3>1, <3>2, StepsLeftValues
    <2>6. CASE Recover \/ RestoreLink \/ Forget \/ Recheck \/ Agree
      <3>1. \/ pc = "recover" /\ pc' \in {"agree", "idle", "restoreLink"}
            \/ pc = "restoreLink" /\ pc' = "forget"
            \/ pc = "forget" /\ pc' = "remove" /\ after' = "recheck"
            \/ pc = "recheck" /\ pc' \in {"agree", "idle"}
            \/ pc = "agree" /\ pc' \in {"dispatch", "idle"}
        BY <2>6, <2>2, <2>3, <2>4 DEF Recover, RestoreLink, Forget, Recheck, Agree
      <3> QED
        BY <3>1, StepsLeftValues
    <2>7. CASE Update \/ Install \/ RollbackTo \/ Hold \/ Resume
               \/ \E r \in Releases : Preview(r) \/ Retry(r)
      <3>1. \/ pc = "dispatch" /\ pc' \in {"idle", "install", "hold"}
            \/ pc = "install" /\ pc' \in {"idle", "replaceMetadata", "activate"}
            \/ pc = "hold" /\ pc' = "activate"
        BY <2>7, <2>2, <2>3 DEF Update, Install, RollbackTo, Hold, Resume, Preview, Retry
      <3> QED
        BY <3>1, StepsLeftValues
    <2>8. CASE ReplaceMetadata
      <3>1. candidate \in Releases
        BY <2>a, <2>8 DEF ReplaceMetadata, StepFacts, Chosen
      <3>2. CASE meta[candidate] = "absent"
        BY <2>2, <2>8, <3>2, StepsLeftValues DEF ReplaceMetadata
      <3>3. CASE meta[candidate] # "absent"
        <4>1. pc' = pc /\ site' = site /\ meta' = Removing(meta, candidate)
          BY <2>8, <3>3 DEF ReplaceMetadata
        <4> QED
          BY <2>a, <2>b, <3>1, <4>1, FewerFiles DEF TypeOK
      <3> QED
        BY <3>2, <3>3
    <2>9. CASE PublishSite
      BY <2>2, <2>3, <2>9, StepsLeftValues DEF PublishSite
    <2>10. CASE Activate \/ Switch \/ Health \/ Accept \/ Unswitch
      <3>1. \/ pc = "activate" /\ pc' = "switch"
            \/ pc = "switch" /\ pc' \in {"health", "unswitch"}
            \/ pc = "health" /\ pc' \in {"accept", "unswitch"}
            \/ pc = "accept" /\ pc' = "prune"
            \/ pc = "unswitch" /\ pc' = "reject"
        BY <2>2, <2>10 DEF Activate, Switch, Health, Accept, Unswitch
      <3> QED
        BY <3>1, StepsLeftValues
    <2>11. CASE Prune \/ SavePruned \/ Reject
      <3>1. \/ pc = "prune" /\ pc' = "remove" /\ after' = "savePruned"
            \/ pc = "reject" /\ pc' = "remove" /\ after' = "idle"
            \/ pc = "savePruned" /\ pc' = "idle"
        BY <2>3, <2>4, <2>11 DEF Prune, SavePruned, Reject
      <3> QED
        BY <3>1, StepsLeftValues
    <2>12. CASE Removed
      <3>1. /\ pc = "remove" /\ after \in {"idle", "recheck", "savePruned"}
            /\ pc' = after
        BY <2>2, <2>3, <2>12, <2>a DEF Removed, TypeOK
      <3> QED
        BY <3>1, StepsLeftValues
    <2>13. ASSUME NEW r \in Releases, RemoveSite(r) \/ RemoveMetadata(r)
           PROVE  pc' = pc /\ Fewer
      BY <2>13, <2>a, <2>b, FewerFiles DEF RemoveSite, RemoveMetadata, TypeOK
    <2>14. CASE \/ Publish \/ Configure \/ UNCHANGED vars
                \/ \E operation \in Operations : Begin(operation)
      BY <2>1, <2>14 DEF Publish, Configure, Begin, vars
    <2> QED
      BY <2>5, <2>6, <2>7, <2>8, <2>9, <2>10, <2>11, <2>12, <2>13, <2>14 DEF Next, Work
  <1>2. IInv /\ [Next]_vars =>
          [pc # "idle" => IF pc' = pc THEN Fewer ELSE Nearer]_vars
    BY <1>1
  <1> QED
    BY <1>2, Invariance, PTL DEF Spec, OperationsAdvance
=============================================================================
