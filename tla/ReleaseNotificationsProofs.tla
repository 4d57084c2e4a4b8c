-------------------- MODULE ReleaseNotificationsProofs --------------------
(* The inductive invariant of ReleaseNotifications, that a notice is       *)
(* repeated only for an interruption, and that the queue is an outbox.     *)
EXTENDS ReleaseNotifications, FiniteSetTheorems, WellFoundedInduction, TLAPS

\* Announcements are numbers from one on, as many as there are.
LEMMA Numbers ==
  /\ Cardinality(Announcements) \in Nat
  /\ \A e \in Announcements : e <= Cardinality(Announcements)
  /\ Cardinality(Announcements) <= MaxEvents
  /\ Announcements \subseteq Events
<1>1. IsFiniteSet(Events) BY FS_Interval, NotificationsAssumption DEF Events
<1>2. IsFiniteSet(Announcements) BY <1>1, FS_Subset, NotificationsAssumption
<1>3. Cardinality(Announcements) \in Nat BY <1>2, FS_CardinalityType
<1> DEFINE n == Cardinality(Announcements)
<1>4. n \in Nat /\ Announcements = 1 .. n /\ 1 .. n \subseteq 1 .. MaxEvents /\ MaxEvents \in Nat
  BY <1>3, NotificationsAssumption DEF Events
<1> HIDE DEF n
<1>5. n <= MaxEvents
  <2>1. CASE n = 0 BY <2>1, <1>4
  <2>2. CASE n > 0
    <3>1. n \in 1 .. n BY <2>2, <1>4
    <3> QED BY <3>1, <1>4
  <2> QED BY <2>1, <2>2, <1>4
<1>6. \A e \in Announcements : e <= n BY <1>4
<1> QED BY <1>4, <1>5, <1>6, NotificationsAssumption DEF n

\* A batch has one first file at most, and it precedes the others.
LEMMA FirstFile ==
  ASSUME TypeOK, NEW d \in Drains, NEW e \in Files(d)
  PROVE  /\ e \in queue /\ e \in drain[d].batch /\ e \in Events
         /\ \A f \in drain[d].batch \ {e} : Before(e, f)
         /\ \A f \in Files(d) : f = e
<1>1. e \in queue /\ e \in drain[d].batch /\ \A f \in drain[d].batch \ {e} : Before(e, f)
  BY DEF Files
<1>2. queue \subseteq Events /\ Events \subseteq Nat /\ \A f \in Events : name[f] \in Nat
  BY DEF TypeOK, Times, Events
<1>3. ASSUME NEW f \in Files(d), f # e PROVE FALSE
  <2>1. Before(e, f) /\ Before(f, e) /\ f \in Events BY <1>1, <1>2, <1>3 DEF Files
  <2> QED BY <1>1, <1>2, <2>1 DEF Before
<1> QED BY <1>1, <1>2, <1>3

\* A run whose files keep their names goes on with the same file.
LEMMA SameFile ==
  ASSUME TypeOK, LockFacts, NEW d \in Drains,
         drain'[d].batch = drain[d].batch, drain[d].batch \subseteq queue',
         \A e \in drain[d].batch : name'[e] = name[e]
  PROVE  Files(d)' = Files(d)
BY DEF LockFacts, Files, Before

\* What a run becomes, and that the others stay as they are.
LEMMA Becomes ==
  ASSUME TypeOK, NEW d \in Drains, NEW step \in {"idle", "file", "post", "unlink"},
         NEW batch \in SUBSET Events, NEW ends \in Nat,
         drain' = [drain EXCEPT ![d] = At(step, batch, ends)]
  PROVE  /\ drain' \in [Drains -> Runs]
         /\ drain'[d].step = step /\ drain'[d].batch = batch /\ drain'[d].ends = ends
         /\ \A t \in Drains \ {d} : drain'[t] = drain[t]
BY DEF TypeOK, Runs, At

\* A run that has removed its file goes on to the next.
LEMMA Removed ==
  ASSUME TypeOK, NEW d \in Drains, Unlink(d)
  PROVE  /\ drain'[d].step = "file" /\ drain'[d].batch = drain[d].batch \ Files(d)
         /\ \A t \in Drains \ {d} : drain'[t] = drain[t]
BY DEF TypeOK, Runs, Unlink, At

\* A run that ends is idle and has no files.
LEMMA Ends ==
  ASSUME TypeOK, NEW d \in Drains, Ended(d)
  PROVE  /\ drain' \in [Drains -> Runs]
         /\ drain'[d].step = "idle" /\ drain'[d].batch = {}
         /\ \A t \in Drains \ {d} : drain'[t] = drain[t]
<1>1. drain' = [drain EXCEPT ![d] = At("idle", {}, 0)] BY DEF Ended, Idle
<1> QED BY <1>1, Becomes

\* What a request becomes: the next moment of the horizon is a number.
LEMMA Moments == TypeOK => clock \in Nat /\ clock + Horizon \in Nat
BY NotificationsAssumption DEF TypeOK, Times

\* The queue holds what an older updater left there.
LEMMA Initially == Init => IInv
<1> SUFFICES ASSUME Init PROVE IInv OBVIOUS
<1> USE NotificationsAssumption, Numbers DEF Init
<1>0. /\ drain \in [Drains -> Runs]
      /\ \A d \in Drains : drain[d].step = "idle" /\ drain[d].batch = {}
  BY DEF Idle, At, Runs
<1>1. TypeOK
  <2>1. clock \in Times /\ steps \in 0 .. MaxSteps /\ faults \in 0 .. MaxFaults
    BY DEF Times
  <2>2. last \in 0 .. MaxEvents
    <3>1. last = Cardinality(Announcements) OBVIOUS
    <3> QED BY <3>1
  <2>6. writing \in BOOLEAN OBVIOUS
  <2>3. recorded \in [Events -> Times] /\ name \in [Events -> Times] BY DEF Times
  <2>4. accepted \in [Events -> Nat] /\ cut \in [Events -> Nat] OBVIOUS
  <2>5. queue \in SUBSET Events /\ holder \in Drains \cup {NoOne} OBVIOUS
  <2> QED BY <1>0, <2>1, <2>2, <2>3, <2>4, <2>5, <2>6 DEF TypeOK
<1>2. OncePerInterruption BY DEF OncePerInterruption
<1>3. PublicationFacts BY DEF PublicationFacts, Events
<1>4. LockFacts BY <1>0 DEF LockFacts
<1>5. AcceptanceFacts BY <1>0 DEF AcceptanceFacts, Files, Events
<1>6. OrderFacts BY <1>0 DEF OrderFacts
<1> QED BY <1>1, <1>2, <1>3, <1>4, <1>5, <1>6 DEF IInv

\* Every variable keeps its type.
LEMMA TypeStep == ASSUME IInv, [Next]_vars PROVE TypeOK'
<1> USE NotificationsAssumption DEF TypeOK, time, producer
<1> TypeOK BY DEF IInv
<1> \A t \in Drains : drain[t].batch \in SUBSET Events BY DEF Runs
<1>1. CASE Tick BY <1>1 DEF Tick, Times
<1>2. CASE SetBack BY <1>2 DEF SetBack
<1>3. CASE Compose
  <2>1. last + 1 \in Events /\ last' \in 0 .. MaxEvents BY <1>3 DEF Compose, Events
  <2> QED BY <1>3, <2>1 DEF Compose
<1>4. CASE Publish
  <2>1. queue' \in SUBSET Events BY <1>4 DEF Publish, IInv, PublicationFacts, Events
  <2> QED BY <1>4, <2>1 DEF Publish
<1>5. CASE EnqueueFails BY <1>5 DEF EnqueueFails
<1>6. ASSUME NEW d \in Drains,
             Begin(d) \/ Work(d) \/ Submit(d) \/ AnswerLost(d) \/ Refused(d) \/ Kill(d)
      PROVE  TypeOK'
  <2>1. CASE Begin(d)
    <3>1. PICK files \in FirstFiles : drain' = [drain EXCEPT ![d] = At("file", files, 0)]
      BY <2>1 DEF Begin
    <3>2. files \in SUBSET Events BY <3>1 DEF FirstFiles
    <3>3. drain' \in [Drains -> Runs] BY <3>1, <3>2, Becomes
    <3> QED BY <2>1, <3>3 DEF Begin
  <2>2. CASE Finish(d)
    <3>1. drain' \in [Drains -> Runs] /\ holder' = NoOne BY <2>2, Ends DEF Finish, Ended
    <3> QED BY <2>2, <3>1 DEF Finish
  <2>3. CASE Discard(d)
    <3>1. PICK e \in Files(d) : drain' = [drain EXCEPT ![d] = At("file", @.batch \ {e}, 0)] /\
                                queue' = queue \ {e}
      BY <2>3 DEF Discard
    <3>2. drain[d].batch \ {e} \in SUBSET Events OBVIOUS
    <3>3. drain' \in [Drains -> Runs] BY <3>1, <3>2, Becomes
    <3> QED BY <2>3, <3>1, <3>3 DEF Discard
  <2>4. CASE Address(d)
    <3>1. drain' = [drain EXCEPT ![d] = At("post", @.batch, clock + Horizon)] BY <2>4 DEF Address
    <3>2. drain' \in [Drains -> Runs] BY <3>1, Becomes, Moments
    <3> QED BY <2>4, <3>2 DEF Address
  <2>5. CASE Unlink(d)
    <3>1. drain' = [drain EXCEPT ![d] = At("file", @.batch \ Files(d), 0)] BY <2>5 DEF Unlink
    <3>2. drain' \in [Drains -> Runs] BY <3>1, Becomes
    <3> QED BY <2>5, <3>2 DEF Unlink
  <2>6. CASE Submit(d)
    <3>1. drain' = [drain EXCEPT ![d] = At("unlink", @.batch, 0)] BY <2>6 DEF Submit
    <3>2. accepted' \in [Events -> Nat] 
      <4>1. PICK e \in Files(d) : accepted' = [accepted EXCEPT ![e] = @ + 1] BY <2>6 DEF Submit, Accepts
      <4> QED BY <4>1, FirstFile
    <3>3. drain' \in [Drains -> Runs] BY <3>1, Becomes
    <3> QED BY <2>6, <3>2, <3>3 DEF Submit
  <2>7. CASE AnswerLost(d)
    <3>1. PICK e \in Files(d) : accepted' = [accepted EXCEPT ![e] = @ + 1] /\
                                cut' = [cut EXCEPT ![e] = @ + 1]
      BY <2>7 DEF AnswerLost, Accepts
    <3>2. accepted' \in [Events -> Nat] /\ cut' \in [Events -> Nat] BY <3>1, FirstFile
    <3>3. faults' \in 0 .. MaxFaults /\ Ended(d) BY <2>7 DEF AnswerLost
    <3>4. drain' \in [Drains -> Runs] /\ holder' = NoOne BY <3>3, Ends DEF Ended
    <3> QED BY <2>7, <3>2, <3>3, <3>4 DEF AnswerLost
  <2>8. CASE Refused(d)
    <3>1. drain' \in [Drains -> Runs] /\ holder' = NoOne BY <2>8, Ends DEF Refused, Ended
    <3> QED BY <2>8, <3>1 DEF Refused
  <2>9. CASE Kill(d)
    <3>1. cut' \in [Events -> Nat] /\ faults' \in 0 .. MaxFaults /\ Ended(d) BY <2>9 DEF Kill
    <3>2. drain' \in [Drains -> Runs] /\ holder' = NoOne BY <3>1, Ends DEF Ended
    <3> QED BY <2>9, <3>1, <3>2 DEF Kill
  <2> QED BY <1>6, <2>1, <2>2, <2>3, <2>4, <2>5, <2>6, <2>7, <2>8, <2>9 DEF Work
<1>7. CASE UNCHANGED vars BY <1>7 DEF vars
<1> QED BY <1>1, <1>2, <1>3, <1>4, <1>5, <1>6, <1>7 DEF Next

\* What is published is a number up to the last one asked for.
LEMMA PublicationStep == ASSUME IInv, [Next]_vars PROVE PublicationFacts'
<1> USE NotificationsAssumption, Numbers DEF PublicationFacts, time, producer
<1> TypeOK /\ PublicationFacts BY DEF IInv
<1> last \in 0 .. MaxEvents /\ accepted \in [Events -> Nat] /\ Events \subseteq Nat
  BY DEF TypeOK, Events
<1>1. CASE Tick BY <1>1 DEF Tick
<1>2. CASE SetBack BY <1>2 DEF SetBack
<1>3. CASE Compose
  <2>1. last + 1 \in Events BY <1>3 DEF Compose, Events
  <2> QED BY <1>3, <2>1 DEF Compose
<1>4. CASE Publish BY <1>4 DEF Publish
<1>5. CASE EnqueueFails BY <1>5 DEF EnqueueFails
<1>6. ASSUME NEW d \in Drains,
             Begin(d) \/ Work(d) \/ Submit(d) \/ AnswerLost(d) \/ Refused(d) \/ Kill(d)
      PROVE  PublicationFacts'
  <2>1. CASE Begin(d) BY <2>1 DEF Begin
  <2>2. CASE Finish(d) BY <2>2 DEF Finish
  <2>3. CASE Discard(d) BY <2>3 DEF Discard
  <2>4. CASE Address(d) BY <2>4 DEF Address
  <2>5. CASE Unlink(d) BY <2>5 DEF Unlink
  <2>6. CASE Submit(d) BY <2>6, FirstFile DEF Submit, Accepts
  <2>7. CASE AnswerLost(d) BY <2>7, FirstFile DEF AnswerLost, Accepts
  <2>8. CASE Refused(d) BY <2>8 DEF Refused
  <2>9. CASE Kill(d) BY <2>9 DEF Kill
  <2> QED BY <1>6, <2>1, <2>2, <2>3, <2>4, <2>5, <2>6, <2>7, <2>8, <2>9 DEF Work
<1>7. CASE UNCHANGED vars BY <1>7 DEF vars
<1> QED BY <1>1, <1>2, <1>3, <1>4, <1>5, <1>6, <1>7 DEF Next

\* Only the holder of the lock removes files.
LEMMA LockStep == ASSUME IInv, [Next]_vars PROVE LockFacts'
<1> USE NotificationsAssumption DEF LockFacts, time, producer
<1> TypeOK /\ LockFacts BY DEF IInv
<1> queue \in SUBSET Events /\ \A t \in Drains : drain[t].batch \in SUBSET Events
  BY DEF TypeOK, Runs
<1>1. CASE Tick BY <1>1 DEF Tick
<1>2. CASE SetBack BY <1>2 DEF SetBack
<1>3. CASE Compose BY <1>3 DEF Compose
<1>4. CASE Publish BY <1>4 DEF Publish
<1>5. CASE EnqueueFails BY <1>5 DEF EnqueueFails
<1>6. ASSUME NEW d \in Drains,
             Begin(d) \/ Work(d) \/ Submit(d) \/ AnswerLost(d) \/ Refused(d) \/ Kill(d)
      PROVE  LockFacts'
  <2>1. CASE Begin(d)
    <3>1. PICK files \in FirstFiles : drain' = [drain EXCEPT ![d] = At("file", files, 0)]
      BY <2>1 DEF Begin
    <3>2. files \in SUBSET Events /\ files \subseteq queue BY <3>1 DEF FirstFiles
    <3>3. /\ drain'[d].step = "file" /\ drain'[d].batch = files
          /\ \A t \in Drains \ {d} : drain'[t] = drain[t]
      BY <3>1, <3>2, Becomes
    <3>4. holder = NoOne /\ holder' = d /\ queue' = queue BY <2>1 DEF Begin, LockFree
    <3> QED BY <3>2, <3>3, <3>4
  <2>2. CASE Finish(d)
    <3>1. holder = d /\ Ended(d) /\ queue' = queue BY <2>2 DEF Finish
    <3> QED BY <3>1, Ends
  <2>3. CASE Discard(d)
    <3>1. PICK e \in Files(d) : /\ drain' = [drain EXCEPT ![d] = At("file", @.batch \ {e}, 0)]
                                /\ queue' = queue \ {e} /\ holder' = holder
                                /\ drain[d].step = "file"
      BY <2>3 DEF Discard
    <3>2. /\ drain'[d].step = "file" /\ drain'[d].batch = drain[d].batch \ {e}
          /\ \A t \in Drains \ {d} : drain'[t] = drain[t]
      BY <3>1, Becomes
    <3> QED BY <3>1, <3>2
  <2>4. CASE Address(d)
    <3>1. drain' = [drain EXCEPT ![d] = At("post", @.batch, clock + Horizon)] BY <2>4 DEF Address
    <3>2. /\ drain'[d].step = "post" /\ drain'[d].batch = drain[d].batch
          /\ \A t \in Drains \ {d} : drain'[t] = drain[t]
      BY <3>1, Becomes, Moments
    <3> QED BY <2>4, <3>2 DEF Address
  <2>5. CASE Unlink(d)
    <3>1. /\ drain'[d].step = "file" /\ drain'[d].batch = drain[d].batch \ Files(d)
          /\ \A t \in Drains \ {d} : drain'[t] = drain[t]
      BY <2>5, Removed
    <3> QED BY <2>5, <3>1 DEF Unlink
  <2>6. CASE Submit(d)
    <3>1. drain' = [drain EXCEPT ![d] = At("unlink", @.batch, 0)] BY <2>6 DEF Submit
    <3>2. /\ drain'[d].step = "unlink" /\ drain'[d].batch = drain[d].batch
          /\ \A t \in Drains \ {d} : drain'[t] = drain[t]
      BY <3>1, Becomes
    <3> QED BY <2>6, <3>2 DEF Submit, Accepts
  <2>7. CASE AnswerLost(d)
    <3>1. holder = d /\ Ended(d) /\ queue' = queue BY <2>7 DEF AnswerLost, Accepts
    <3> QED BY <3>1, Ends
  <2>8. CASE Refused(d)
    <3>1. holder = d /\ Ended(d) /\ queue' = queue BY <2>8 DEF Refused
    <3> QED BY <3>1, Ends
  <2>9. CASE Kill(d)
    <3>1. holder = d /\ Ended(d) /\ queue' = queue BY <2>9 DEF Kill
    <3> QED BY <3>1, Ends
  <2> QED BY <1>6, <2>1, <2>2, <2>3, <2>4, <2>5, <2>6, <2>7, <2>8, <2>9 DEF Work
<1>7. CASE UNCHANGED vars BY <1>7 DEF vars
<1> QED BY <1>1, <1>2, <1>3, <1>4, <1>5, <1>6, <1>7 DEF Next

\* The file to be removed is the only one with an acceptance that is neither cut
\* off nor followed by a removal, and it is no announcement.
LEMMA AcceptanceStep == ASSUME IInv, [Next]_vars PROVE (AcceptanceFacts /\ OncePerInterruption)'
<1> USE NotificationsAssumption DEF AcceptanceFacts, OncePerInterruption, time, producer
<1> TypeOK /\ LockFacts /\ AcceptanceFacts /\ OncePerInterruption BY DEF IInv
<1> /\ queue \in SUBSET Events /\ \A t \in Drains : drain[t].batch \in SUBSET Events
    /\ accepted \in [Events -> Nat] /\ cut \in [Events -> Nat]
  BY DEF TypeOK, Runs
<1>0. ASSUME UNCHANGED <<name, queue, drain, accepted, cut>>
      PROVE  (AcceptanceFacts /\ OncePerInterruption)'
  <2>1. \A t \in Drains : Files(t)' = Files(t) BY <1>0 DEF Files, Before
  <2> QED BY <1>0, <2>1
<1>1. CASE Tick BY <1>0, <1>1 DEF Tick
<1>2. CASE SetBack BY <1>0, <1>2 DEF SetBack
<1>3. CASE Compose BY <1>0, <1>3 DEF Compose
<1>4. CASE Publish
  <2>1. /\ last \notin queue /\ last \in Events /\ accepted[last] = 0
        /\ queue' = queue \cup {last} /\ name' = [name EXCEPT ![last] = clock]
        /\ UNCHANGED <<drain, accepted, cut>>
    BY <1>4 DEF Publish, IInv, PublicationFacts, TypeOK, Events
  <2>2. ASSUME NEW t \in Drains PROVE Files(t)' = Files(t)
    <3>1. \A e \in drain[t].batch : name'[e] = name[e] BY <2>1 DEF LockFacts, TypeOK
    <3> QED BY <2>1, <3>1, SameFile DEF LockFacts
  <2> QED BY <2>1, <2>2
<1>5. CASE EnqueueFails BY <1>0, <1>5 DEF EnqueueFails
<1>6. ASSUME NEW d \in Drains,
             Begin(d) \/ Work(d) \/ Submit(d) \/ AnswerLost(d) \/ Refused(d) \/ Kill(d)
      PROVE  (AcceptanceFacts /\ OncePerInterruption)'
  <2>0. ASSUME NEW t \in Drains \ {d}, drain[d].step # "idle" \/ holder = NoOne,
               drain'[t] = drain[t]
        PROVE  Files(t) = {} /\ Files(t)' = {} /\ drain'[t].step = "idle"
    BY <2>0 DEF LockFacts, Files
  <2>1. CASE Begin(d)
    <3>1. PICK files \in FirstFiles : drain' = [drain EXCEPT ![d] = At("file", files, 0)]
      BY <2>1 DEF Begin
    <3>2. drain'[d].step = "file" /\ \A t \in Drains \ {d} : drain'[t] = drain[t]
      BY <3>1, Becomes DEF FirstFiles
    <3>3. UNCHANGED <<queue, accepted, cut>> /\ drain[d].step = "idle" /\ holder = NoOne
      BY <2>1 DEF Begin, LockFree
    <3>4. \A t \in Drains \ {d} : Files(t) = {} /\ Files(t)' = {} BY <2>0, <3>2, <3>3
    <3> QED BY <3>2, <3>3, <3>4
  <2>2. CASE Finish(d)
    <3>1. UNCHANGED <<queue, accepted, cut>> /\ Ended(d) /\ drain[d].step = "file"
      BY <2>2 DEF Finish
    <3>2. drain'[d].step = "idle" /\ \A t \in Drains \ {d} : drain'[t] = drain[t] BY <3>1, Ends
    <3>3. \A t \in Drains \ {d} : Files(t) = {} /\ Files(t)' = {} BY <2>0, <3>1, <3>2
    <3> QED BY <3>1, <3>2, <3>3
  <2>3. CASE Discard(d)
    <3>1. PICK e \in Files(d) : /\ drain' = [drain EXCEPT ![d] = At("file", @.batch \ {e}, 0)]
                                /\ queue' = queue \ {e} /\ drain[d].step = "file"
      BY <2>3 DEF Discard
    <3>2. drain'[d].step = "file" /\ \A t \in Drains \ {d} : drain'[t] = drain[t]
      BY <3>1, Becomes
    <3>3. UNCHANGED <<accepted, cut>> BY <2>3 DEF Discard
    <3>4. \A t \in Drains \ {d} : Files(t) = {} /\ Files(t)' = {} BY <2>0, <3>1, <3>2
    <3> QED BY <3>1, <3>2, <3>3, <3>4
  <2>4. CASE Address(d)
    <3>1. PICK e \in Files(d) : /\ drain[d].step = "file" /\ e \notin Announcements
                                /\ drain' = [drain EXCEPT ![d] = At("post", @.batch, clock + Horizon)]
      BY <2>4 DEF Address
    <3>2. /\ drain'[d].step = "post" /\ drain'[d].batch = drain[d].batch
          /\ \A t \in Drains \ {d} : drain'[t] = drain[t]
      BY <3>1, Becomes, Moments
    <3>3. UNCHANGED <<queue, name, accepted, cut>> BY <2>4 DEF Address
    <3>4. \A t \in Drains \ {d} : Files(t) = {} /\ Files(t)' = {} BY <2>0, <3>1, <3>2
    <3>5. Files(d)' = Files(d) BY <3>2, <3>3, SameFile DEF LockFacts
    <3>6. \A f \in Files(d) : f = e BY <3>1, FirstFile
    <3> QED BY <3>1, <3>2, <3>3, <3>4, <3>5, <3>6
  <2>5. CASE Unlink(d)
    <3>1. queue' = queue \ Files(d) /\ drain[d].step = "unlink" /\ UNCHANGED <<accepted, cut>>
      BY <2>5 DEF Unlink
    <3>2. drain'[d].step = "file" /\ \A t \in Drains \ {d} : drain'[t] = drain[t]
      BY <2>5, Removed
    <3>3. \A t \in Drains \ {d} : Files(t) = {} /\ Files(t)' = {} BY <2>0, <3>1, <3>2
    <3> QED BY <3>1, <3>2, <3>3
  <2>6. CASE Submit(d)
    <3>1. PICK e \in Files(d) : accepted' = [accepted EXCEPT ![e] = @ + 1] BY <2>6 DEF Submit, Accepts
    <3>2. /\ drain' = [drain EXCEPT ![d] = At("unlink", @.batch, 0)] /\ drain[d].step = "post"
          /\ UNCHANGED <<queue, name, cut>>
      BY <2>6 DEF Submit, Accepts
    <3>3. /\ drain'[d].step = "unlink" /\ drain'[d].batch = drain[d].batch
          /\ \A t \in Drains \ {d} : drain'[t] = drain[t]
      BY <3>2, Becomes
    <3>4. \A t \in Drains \ {d} : Files(t) = {} /\ Files(t)' = {} BY <2>0, <3>2, <3>3
    <3>5. Files(d)' = Files(d) BY <3>2, <3>3, SameFile DEF LockFacts
    <3>6. e \in queue /\ e \in Events /\ \A f \in Files(d) : f = e BY <3>1, FirstFile
    <3>7. \A f \in queue : accepted[f] <= cut[f] BY <3>2, <3>4
    <3>8. accepted'[e] = accepted[e] + 1 /\ \A f \in Events \ {e} : accepted'[f] = accepted[f]
      BY <3>1, <3>6
    <3>9. OncePerInterruption'
      <4>1. accepted'[e] <= cut'[e] + 1 BY <3>2, <3>6, <3>7, <3>8
      <4>2. \A f \in Events \ {e} : accepted'[f] <= cut'[f] + 1 BY <3>2, <3>8
      <4> QED BY <4>1, <4>2
    <3>10. AcceptanceFacts'
      <4>1. \A f \in queue' : accepted'[f] <= cut'[f] \/ f \in Files(d)'
        BY <3>1, <3>2, <3>5, <3>7, <3>8
      <4>2. \A f \in Files(d)' : f \notin Announcements /\ accepted'[f] > 0
        BY <3>2, <3>5, <3>6, <3>8
      <4> QED BY <3>3, <3>4, <4>1, <4>2
    <3> QED BY <3>9, <3>10
  <2>7. CASE AnswerLost(d)
    <3>1. PICK e \in Files(d) : accepted' = [accepted EXCEPT ![e] = @ + 1] /\
                                cut' = [cut EXCEPT ![e] = @ + 1]
      BY <2>7 DEF AnswerLost, Accepts
    <3>2. drain[d].step = "post" /\ Ended(d) /\ UNCHANGED <<queue, name>>
      BY <2>7 DEF AnswerLost, Accepts
    <3>3. drain'[d].step = "idle" /\ \A t \in Drains \ {d} : drain'[t] = drain[t] BY <3>2, Ends
    <3>4. \A t \in Drains \ {d} : Files(t) = {} /\ Files(t)' = {} BY <2>0, <3>2, <3>3
    <3>5. e \in queue /\ e \in Events BY <3>1, FirstFile
    <3>6. \A f \in queue : accepted[f] <= cut[f] BY <3>2, <3>4
    <3>7. /\ accepted'[e] = accepted[e] + 1 /\ cut'[e] = cut[e] + 1
          /\ \A f \in Events \ {e} : accepted'[f] = accepted[f] /\ cut'[f] = cut[f]
      BY <3>1, <3>5
    <3>8. OncePerInterruption'
      <4>1. accepted'[e] <= cut'[e] + 1 BY <3>5, <3>6, <3>7
      <4>2. \A f \in Events \ {e} : accepted'[f] <= cut'[f] + 1 BY <3>7
      <4> QED BY <4>1, <4>2
    <3>9. \A f \in queue' : accepted'[f] <= cut'[f]
      <4>1. accepted'[e] <= cut'[e] BY <3>5, <3>6, <3>7
      <4>2. \A f \in queue \ {e} : accepted'[f] <= cut'[f] BY <3>6, <3>7
      <4> QED BY <3>2, <4>1, <4>2
    <3> QED BY <3>3, <3>4, <3>8, <3>9
  <2>8. CASE Refused(d)
    <3>1. UNCHANGED <<queue, accepted, cut>> /\ Ended(d) /\ drain[d].step = "post"
      BY <2>8 DEF Refused
    <3>2. drain'[d].step = "idle" /\ \A t \in Drains \ {d} : drain'[t] = drain[t] BY <3>1, Ends
    <3>3. \A t \in Drains \ {d} : Files(t) = {} /\ Files(t)' = {} BY <2>0, <3>1, <3>2
    <3> QED BY <3>1, <3>2, <3>3
  <2>9. CASE Kill(d)
    <3>1. UNCHANGED <<queue, accepted>> /\ Ended(d) /\ drain[d].step # "idle" BY <2>9 DEF Kill
    <3>2. drain'[d].step = "idle" /\ \A t \in Drains \ {d} : drain'[t] = drain[t] BY <3>1, Ends
    <3>3. \A t \in Drains \ {d} : Files(t) = {} /\ Files(t)' = {} BY <2>0, <3>1, <3>2
    <3>4. \A e \in Events : cut'[e] = IF drain[d].step = "unlink" /\ e \in Files(d)
                                      THEN cut[e] + 1 ELSE cut[e]
      BY <2>9 DEF Kill
    <3> QED BY <3>1, <3>2, <3>3, <3>4
  <2> QED BY <1>6, <2>1, <2>2, <2>3, <2>4, <2>5, <2>6, <2>7, <2>8, <2>9 DEF Work
<1>7. CASE UNCHANGED vars BY <1>0, <1>7 DEF vars
<1> QED BY <1>1, <1>2, <1>3, <1>4, <1>5, <1>6, <1>7 DEF Next

\* Names order the files: of two, one comes first, and before is transitive.
LEMMA Order ==
  ASSUME TypeOK, NEW e \in Events, NEW f \in Events
  PROVE  /\ e # f => Before(e, f) \/ Before(f, e)
         /\ \A g \in Events : Before(e, f) /\ Before(f, g) => Before(e, g)
<1>1. \A g \in Events : name[g] \in Nat BY DEF TypeOK, Times
<1>2. Events \subseteq Nat BY DEF Events
<1> QED BY <1>1, <1>2 DEF Before

\* The first files of the queue precede the rest of it.
LEMMA BatchFirst ==
  ASSUME TypeOK, NEW files \in FirstFiles, NEW e \in files, NEW f \in queue \ files
  PROVE  Before(e, f)
<1> DEFINE Ahead(g) == {h \in queue : Before(h, g)}
<1>1. files = {g \in queue : Cardinality(Ahead(g)) < Batch} BY DEF FirstFiles
<1>2. e \in Events /\ f \in Events /\ e # f /\ queue \subseteq Events BY <1>1 DEF TypeOK
<1>3. IsFiniteSet(Events) BY FS_Interval, NotificationsAssumption DEF Events
<1>4. IsFiniteSet(Ahead(e)) /\ IsFiniteSet(Ahead(f)) BY <1>2, <1>3, FS_Subset
<1>5. CASE Before(f, e)
  <2>1. Ahead(f) \subseteq Ahead(e) BY <1>2, <1>5, Order
  <2>2. Cardinality(Ahead(f)) <= Cardinality(Ahead(e)) BY <1>4, <2>1, FS_Subset
  <2>3. Cardinality(Ahead(f)) \in Nat /\ Cardinality(Ahead(e)) \in Nat BY <1>4, FS_CardinalityType
  <2>4. Cardinality(Ahead(e)) < Batch /\ ~(Cardinality(Ahead(f)) < Batch) BY <1>1
  <2> HIDE DEF Ahead
  <2> QED BY <2>2, <2>3, <2>4, NotificationsAssumption
<1>6. CASE ~Before(f, e) BY <1>2, <1>6, Order
<1> QED BY <1>5, <1>6

\* While time does not go back, files are published behind all others.
LEMMA OrderStep == ASSUME IInv, [Next]_vars PROVE OrderFacts'
<1> USE NotificationsAssumption DEF OrderFacts, time, producer
<1> TypeOK /\ LockFacts /\ OrderFacts BY DEF IInv
<1> /\ queue \in SUBSET Events /\ \A t \in Drains : drain[t].batch \in SUBSET Events
    /\ name \in [Events -> Times] /\ clock \in Times
  BY DEF TypeOK, Runs
<1> Times \subseteq Nat /\ Events \subseteq Nat BY DEF Times, Events
<1>0. ASSUME UNCHANGED <<steps, name, queue, drain>>, clock' \in Nat, clock <= clock' PROVE OrderFacts'
  <2>1. ASSUME NEW e, NEW f PROVE Before(e, f)' <=> Before(e, f) BY <1>0 DEF Before
  <2>2. ASSUME steps = 0, NEW e \in Events PROVE name[e] <= clock'
    <3>1. name[e] <= clock /\ name[e] \in Nat /\ clock \in Nat BY <2>2
    <3> QED BY <1>0, <3>1
  <2> QED BY <1>0, <2>1, <2>2
<1>1. CASE Tick
  <2>1. UNCHANGED <<steps, name, queue, drain>> /\ clock' = clock + 1 BY <1>1 DEF Tick
  <2> QED BY <1>0, <2>1
<1>2. CASE SetBack BY <1>2 DEF SetBack, TypeOK
<1>3. CASE Compose BY <1>0, <1>3 DEF Compose
<1>4. CASE Publish
  <2>1. /\ last \in Events /\ \A e \in queue : e < last
        /\ queue' = queue \cup {last} /\ name' = [name EXCEPT ![last] = clock]
        /\ UNCHANGED <<steps, clock, drain>>
    BY <1>4 DEF Publish, IInv, PublicationFacts, TypeOK, Events
  <2>2. name'[last] = clock /\ \A e \in Events \ {last} : name'[e] = name[e] BY <2>1
  <2>3. SUFFICES ASSUME steps = 0
                 PROVE  /\ \A e \in Events : name'[e] <= clock'
                        /\ \A e, f \in queue' : e < f => name'[e] <= name'[f]
                        /\ \A d \in Drains : \A e \in drain'[d].batch :
                             \A f \in queue' \ drain'[d].batch : Before(e, f)'
    BY <2>1
  <2>4. \A e \in Events : name'[e] <= clock' BY <2>1, <2>2, <2>3
  <2>5. ASSUME NEW e \in queue', NEW f \in queue', e < f PROVE name'[e] <= name'[f]
    BY <2>1, <2>2, <2>3, <2>4, <2>5
  <2>6. ASSUME NEW d \in Drains, NEW e \in drain'[d].batch, NEW f \in queue' \ drain'[d].batch
        PROVE  Before(e, f)'
    <3>1. e \in queue /\ e # last BY <2>1, <2>6 DEF LockFacts
    <3>2. CASE f = last
      <4>1. name'[e] = name[e] /\ name'[last] = clock BY <2>2, <3>1
      <4>3. name[e] <= clock /\ name[e] \in Nat /\ clock \in Nat BY <2>3, <3>1
      <4>2. e < last BY <2>1, <3>1
      <4> QED BY <3>2, <4>1, <4>2, <4>3 DEF Before
    <3>3. CASE f # last
      <4>1. Before(e, f) BY <2>1, <2>3, <2>6, <3>3
      <4> QED BY <2>1, <2>2, <3>1, <3>3, <4>1 DEF Before
    <3> QED BY <3>2, <3>3
  <2> QED BY <2>4, <2>5, <2>6
<1>5. CASE EnqueueFails BY <1>0, <1>5 DEF EnqueueFails
<1>6. ASSUME NEW d \in Drains,
             Begin(d) \/ Work(d) \/ Submit(d) \/ AnswerLost(d) \/ Refused(d) \/ Kill(d)
      PROVE  OrderFacts'
  <2>0. UNCHANGED <<steps, clock, name>>
    BY <1>6 DEF Begin, Work, Finish, Discard, Address, Unlink, Submit, AnswerLost, Refused, Kill
  <2>1. ASSUME NEW e, NEW f PROVE Before(e, f)' <=> Before(e, f) BY <2>0 DEF Before
  <2>2. ASSUME queue' \subseteq queue,
               \A t \in Drains \ {d} : drain'[t].batch = {},
               \A e \in drain'[d].batch : \A f \in queue' \ drain'[d].batch : steps = 0 => Before(e, f)
        PROVE  OrderFacts'
    BY <2>0, <2>1, <2>2
  <2>3. ASSUME drain[d].step # "idle" \/ holder = NoOne, \A t \in Drains \ {d} : drain'[t] = drain[t]
        PROVE  \A t \in Drains \ {d} : drain'[t].batch = {}
    BY <2>3 DEF LockFacts
  <2>4. CASE Begin(d)
    <3>1. PICK files \in FirstFiles : drain' = [drain EXCEPT ![d] = At("file", files, 0)]
      BY <2>4 DEF Begin
    <3>2. drain'[d].batch = files /\ \A t \in Drains \ {d} : drain'[t] = drain[t]
      BY <3>1, Becomes DEF FirstFiles
    <3>3. queue' = queue /\ holder = NoOne BY <2>4 DEF Begin, LockFree
    <3> QED BY <2>2, <2>3, <3>1, <3>2, <3>3, BatchFirst
  <2>5. CASE Discard(d)
    <3>1. PICK e \in Files(d) : /\ drain' = [drain EXCEPT ![d] = At("file", @.batch \ {e}, 0)]
                                /\ queue' = queue \ {e} /\ drain[d].step = "file"
      BY <2>5 DEF Discard
    <3>2. drain'[d].batch = drain[d].batch \ {e} /\ \A t \in Drains \ {d} : drain'[t] = drain[t]
      BY <3>1, Becomes
    <3> QED BY <2>2, <2>3, <3>1, <3>2
  <2>6. CASE Unlink(d)
    <3>1. queue' = queue \ Files(d) /\ drain[d].step = "unlink"
      BY <2>6 DEF Unlink
    <3>2. drain'[d].batch = drain[d].batch \ Files(d) /\ \A t \in Drains \ {d} : drain'[t] = drain[t]
      BY <2>6, Removed
    <3> QED BY <2>2, <2>3, <3>1, <3>2
  <2>7. CASE Address(d)
    <3>1. /\ drain' = [drain EXCEPT ![d] = At("post", @.batch, clock + Horizon)]
          /\ queue' = queue /\ drain[d].step = "file"
      BY <2>7 DEF Address
    <3>2. drain'[d].batch = drain[d].batch /\ \A t \in Drains \ {d} : drain'[t] = drain[t]
      BY <3>1, Becomes, Moments
    <3> QED BY <2>2, <2>3, <3>1, <3>2
  <2>8. CASE Submit(d)
    <3>1. /\ drain' = [drain EXCEPT ![d] = At("unlink", @.batch, 0)]
          /\ queue' = queue /\ drain[d].step = "post"
      BY <2>8 DEF Submit, Accepts
    <3>2. drain'[d].batch = drain[d].batch /\ \A t \in Drains \ {d} : drain'[t] = drain[t]
      BY <3>1, Becomes
    <3> QED BY <2>2, <2>3, <3>1, <3>2
  <2>9. CASE Finish(d) \/ AnswerLost(d) \/ Refused(d) \/ Kill(d)
    <3>1. Ended(d) /\ queue' = queue /\ drain[d].step # "idle"
      BY <2>9 DEF Finish, AnswerLost, Accepts, Refused, Kill
    <3>2. drain'[d].batch = {} /\ \A t \in Drains \ {d} : drain'[t] = drain[t] BY <3>1, Ends
    <3> QED BY <2>2, <2>3, <3>1, <3>2
  <2> QED BY <1>6, <2>4, <2>5, <2>6, <2>7, <2>8, <2>9 DEF Work
<1>7. CASE UNCHANGED vars BY <1>0, <1>7 DEF vars
<1> QED BY <1>1, <1>2, <1>3, <1>4, <1>5, <1>6, <1>7 DEF Next

\* IInv holds in every state, for any notices, drains and settings of the clock.
THEOREM QueueInvariance == Spec => []IInv
<1>1. ASSUME IInv, [Next]_vars PROVE IInv'
  BY <1>1, TypeStep, PublicationStep, LockStep, AcceptanceStep, OrderStep DEF IInv
<1> QED BY <1>1, Initially, PTL DEF Spec

\* A notice that Alertmanager gets again was cut off between its acceptance and
\* the removal of its file, for any number of drains at work.
THEOREM OnlyInterruptionsRepeat == Spec => []Consistent
<1>1. IInv => Consistent BY DEF IInv, Consistent
<1> QED BY <1>1, QueueInvariance, PTL

\* A file at the head of a batch is the oldest of the queue, if the clock was
\* never set back.
LEMMA Oldest ==
  ASSUME IInv, steps = 0, NEW d \in Drains, NEW e \in Files(d), NEW f \in queue
  PROVE  e <= f
<1> /\ TypeOK /\ e \in queue /\ e \in drain[d].batch /\ queue \subseteq Events
    /\ \A g \in Events : name[g] \in Nat
  BY FirstFile, NotificationsAssumption DEF IInv, TypeOK, Times
<1>1. ~(e > f) \/ name[f] <= name[e] BY DEF IInv, OrderFacts
<1>2. e = f \/ Before(e, f) BY FirstFile DEF IInv, OrderFacts
<1> QED BY <1>1, <1>2 DEF Before, Events

\* A run hands over what it submits, if it is accepted for the first time.
LEMMA Handed ==
  ASSUME IInv, NEW d \in Drains, NEW e \in Files(d), Accepts(d, e), queue' = queue, steps' = steps
  PROVE  Outbox!HandOver(e) \/ UNCHANGED Outbox!outbox
<1> DEFINE waiting == {f \in queue \ Announcements : accepted[f] = 0}
           handed == {f \in Events : accepted[f] > 0}
<1>1. /\ e \in queue /\ e \in Events /\ queue \subseteq Events /\ e \notin Announcements
      /\ accepted \in [Events -> Nat]
  BY FirstFile DEF Accepts, IInv, TypeOK, AcceptanceFacts
<1>2. accepted'[e] = accepted[e] + 1 /\ \A f \in Events \ {e} : accepted'[f] = accepted[f]
  BY <1>1 DEF Accepts
<1>3. CASE accepted[e] = 0
  <2>1. e \in waiting BY <1>1, <1>3
  <2>2. steps > 0 \/ \A other \in waiting : e <= other BY Oldest DEF IInv, TypeOK
  <2>3. waiting' = waiting \ {e} BY <1>1, <1>2, <1>3
  <2>4. handed' = handed \cup {e} BY <1>1, <1>2, <1>3
  <2> QED BY <2>1, <2>2, <2>3, <2>4 DEF Outbox!HandOver
<1>4. CASE accepted[e] # 0
  <2>1. waiting' = waiting BY <1>1, <1>2, <1>4
  <2>2. handed' = handed BY <1>1, <1>2, <1>4
  <2> QED BY <2>1, <2>2 DEF Outbox!outbox
<1> QED BY <1>3, <1>4

\* No notice is lost: it waits until it is handed over or too old, through kills,
\* lost answers, refusals and batches; and notices go in order unless the clock
\* was set back. This holds of any number of notices and of any batch.
THEOREM NoticesDelivered == Spec => Promise
<1> DEFINE waiting == {f \in queue \ Announcements : accepted[f] = 0}
           handed == {f \in Events : accepted[f] > 0}
<1>1. Init => Outbox!Init BY DEF Init, Outbox!Init
<1>2. ASSUME IInv, [Next]_vars PROVE [Outbox!Next]_(Outbox!outbox)
  <2> TypeOK /\ accepted \in [Events -> Nat] /\ queue \subseteq Events /\ Events = Outbox!Events
    BY <1>2 DEF IInv, TypeOK, Events, Outbox!Events
  <2>1. ASSUME UNCHANGED <<queue, accepted>> PROVE UNCHANGED Outbox!outbox
    BY <2>1 DEF Outbox!outbox
  <2>2. CASE Publish
    <3>1. PICK e \in Events : e = last BY <2>2, <1>2 DEF Publish, IInv, PublicationFacts, TypeOK, Events
    <3>2. /\ accepted[e] = 0 /\ e \notin Announcements /\ \A earlier \in queue : earlier < e
          /\ queue' = queue \cup {e} /\ accepted' = accepted
      BY <1>2, <2>2, <3>1 DEF Publish, IInv, PublicationFacts, TypeOK, Events
    <3>3. e \notin waiting \cup handed /\ \A earlier \in waiting : earlier < e
      BY <3>2 DEF Events
    <3>4. waiting' = waiting \cup {e} /\ handed' = handed BY <3>2
    <3>5. Outbox!Publish(e) BY <3>3, <3>4 DEF Outbox!Publish
    <3> QED BY <3>5 DEF Outbox!Next
  <2>3. ASSUME NEW d \in Drains, Discard(d) PROVE [Outbox!Next]_(Outbox!outbox)
    <3>1. PICK e \in Files(d) : /\ Overdue(e) \/ e \in Announcements
                                /\ queue' = queue \ {e} /\ accepted' = accepted
      BY <2>3 DEF Discard
    <3>2. e \in Events BY FirstFile
    <3>3. handed' = handed BY <3>1
    <3>4. CASE e \in waiting
      <4>1. clock - recorded[e] > Window BY <3>1, <3>4 DEF Overdue
      <4>2. waiting' = waiting \ {e} BY <3>1
      <4>3. Outbox!Expire(e) BY <3>3, <3>4, <4>1, <4>2 DEF Outbox!Expire
      <4> QED BY <3>2, <4>3 DEF Outbox!Next
    <3>5. CASE e \notin waiting
      <4>1. waiting' = waiting BY <3>1, <3>5
      <4> QED BY <3>3, <4>1 DEF Outbox!outbox
    <3> QED BY <3>4, <3>5
  <2>4. ASSUME NEW d \in Drains, Unlink(d) PROVE UNCHANGED Outbox!outbox
    <3>1. \A e \in Files(d) : accepted[e] > 0 BY <1>2, <2>4 DEF Unlink, IInv, AcceptanceFacts
    <3>2. queue' = queue \ Files(d) /\ accepted' = accepted BY <2>4 DEF Unlink
    <3>3. waiting' = waiting /\ handed' = handed BY <3>1, <3>2
    <3> QED BY <3>3 DEF Outbox!outbox
  <2>5. ASSUME NEW d \in Drains, Submit(d) \/ AnswerLost(d) PROVE [Outbox!Next]_(Outbox!outbox)
    <3>1. PICK e \in Files(d) : Accepts(d, e) BY <2>5 DEF Submit, AnswerLost
    <3>2. queue' = queue /\ steps' = steps BY <2>5 DEF Submit, AnswerLost, time
    <3>3. e \in Events BY FirstFile
    <3>4. Outbox!HandOver(e) \/ UNCHANGED Outbox!outbox BY <1>2, <3>1, <3>2, Handed
    <3> QED BY <3>3, <3>4 DEF Outbox!Next
  <2>6. ASSUME Next
        PROVE  \/ UNCHANGED <<queue, accepted>> \/ Publish
               \/ \E d \in Drains : Discard(d) \/ Unlink(d) \/ Submit(d) \/ AnswerLost(d)
    BY <2>6 DEF Next, Tick, SetBack, Compose, EnqueueFails, Begin, Work, Finish, Address, Refused, Kill
  <2>7. CASE UNCHANGED vars BY <2>1, <2>7 DEF vars
  <2> QED BY <1>2, <2>1, <2>2, <2>3, <2>4, <2>5, <2>6, <2>7
<1> QED BY <1>1, <1>2, QueueInvariance, PTL DEF Spec, Promise, Outbox!Spec

-----------------------------------------------------------------------------
(* Progress: what QueueDrains rests on, apart from fairness. *)

\* What one step may do to the run of one drain.
GetsOn(d) ==
  /\ drain[d].step = "idle" /\ drain'[d].step # "idle" /\ queue # {} => drain'[d].batch # {}
  /\ drain[d].step = "file" /\ drain'[d].step = "idle" /\ faults' = faults => drain[d].batch = {}
  /\ drain[d].step # "idle" /\ drain'[d] # drain[d] =>
       \/ drain'[d].step = "idle"
       \/ drain'[d].step = "file" /\ \E e \in drain[d].batch : drain'[d].batch = drain[d].batch \ {e}
       \/ /\ drain'[d].batch = drain[d].batch
          /\ <<drain[d].step, drain'[d].step>> \in {<<"file", "post">>, <<"post", "unlink">>}

\* A drain that finds notices takes some; one that ends by itself has dealt with
\* every file of its batch; and each of its steps ends it, deals with one file,
\* or goes on with the file at hand (drain, its loop over sorted(...)[:20]).
DrainsGetOn == [][\A d \in Drains : GetsOn(d)]_vars

\* The delivery lock is with a drain at work, and a drain that has addressed a
\* file has that one file until its request is over, whatever is published
\* meanwhile and whatever cuts the drain short (drain: flock, unlink).
LockInUse ==
  /\ holder # NoOne => drain[holder].step # "idle"
  /\ \A d \in Drains : drain[d].step \in {"post", "unlink"} => \E e \in queue : Files(d) = {e}

Less == {pair \in Nat \X Nat : pair[1] < pair[2]}

LEMMA Smallest ==
  ASSUME NEW numbers, numbers \subseteq Nat, numbers # {}
  PROVE  \E least \in numbers : \A n \in numbers : least <= n
<1>1. IsWellFoundedOn(Less, Nat) BY NatLessThanWellFounded, Zenon DEF OpToRel, Less
<1>2. PICK least \in numbers : \A n \in numbers : <<n, least>> \notin Less BY <1>1, WFMin
<1>3. ASSUME NEW n \in numbers, n < least PROVE FALSE
  <2>1. <<n, least>> \in Less BY <1>3 DEF Less
  <2> QED BY <1>2, <2>1
<1> QED BY <1>3

\* Of any files one comes first.
LEMMA Earliest ==
  ASSUME TypeOK, NEW files \in SUBSET Events, files # {}
  PROVE  \E e \in files : \A f \in files \ {e} : Before(e, f)
<1>1. files \subseteq Nat /\ \A f \in files : name[f] \in Nat BY DEF TypeOK, Times, Events
<1> DEFINE moments == {name[f] : f \in files}
<1>2. moments \subseteq Nat /\ moments # {} BY <1>1
<1>3. \E least \in moments : \A n \in moments : least <= n
  <2> HIDE DEF moments
  <2> QED BY <1>2, Smallest
<1>4. PICK moment \in moments : \A n \in moments : moment <= n BY <1>3
<1> DEFINE first == {f \in files : name[f] = moment}
<1>5. first \subseteq Nat /\ first # {} BY <1>1, <1>4
<1>6. \E least \in first : \A f \in first : least <= f
  <2> HIDE DEF first
  <2> QED BY <1>5, Smallest
<1>7. PICK e \in first : \A f \in first : e <= f BY <1>6
<1>8. ASSUME NEW f \in files, f # e PROVE Before(e, f)
  <2>1. moment <= name[f] /\ name[e] = moment BY <1>4, <1>7
  <2>2. CASE name[f] = moment
    <3>1. e <= f BY <1>7, <2>2
    <3> QED BY <1>1, <1>7, <1>8, <2>1, <2>2, <3>1 DEF Before
  <2>3. CASE name[f] # moment
    BY <1>1, <1>7, <2>1, <2>3 DEF Before
  <2> QED BY <2>2, <2>3
<1> QED BY <1>7, <1>8

\* A batch with files in it has a next one.
LEMMA NextFile ==
  ASSUME TypeOK, LockFacts, NEW d \in Drains, drain[d].batch # {}
  PROVE  \E e \in queue : Files(d) = {e}
<1>1. drain[d].batch \in SUBSET Events /\ drain[d].batch \subseteq queue BY DEF TypeOK, Runs, LockFacts
<1>2. PICK e \in drain[d].batch : \A f \in drain[d].batch \ {e} : Before(e, f) BY <1>1, Earliest
<1>3. e \in Files(d) BY <1>1, <1>2 DEF Files
<1>4. \A f \in Files(d) : f = e BY <1>3, FirstFile
<1> QED BY <1>1, <1>3, <1>4

\* The first file of a queue is always in the batch.
LEMMA FirstTaken ==
  ASSUME TypeOK, queue # {}, NEW files \in FirstFiles
  PROVE  files # {}
<1>1. queue \in SUBSET Events BY DEF TypeOK
<1>2. PICK e \in queue : \A f \in queue \ {e} : Before(e, f) BY <1>1, Earliest
<1> DEFINE Ahead(g) == {h \in queue : Before(h, g)}
<1>3. Ahead(e) = {}
  <2>1. SUFFICES ASSUME NEW f \in queue, Before(f, e) PROVE FALSE OBVIOUS
  <2>2. name[e] \in Nat /\ name[f] \in Nat /\ e \in Nat /\ f \in Nat BY <1>1 DEF TypeOK, Times, Events
  <2>3. f # e BY <2>1, <2>2 DEF Before
  <2>4. Before(e, f) BY <1>2, <2>3
  <2> QED BY <2>1, <2>2, <2>4 DEF Before
<1>4. files = {g \in queue : Cardinality(Ahead(g)) < Batch} BY DEF FirstFiles
<1> HIDE DEF Ahead
<1>5. Cardinality(Ahead(e)) < Batch BY <1>3, FS_EmptySet, NotificationsAssumption
<1> QED BY <1>4, <1>5

\* A run in the middle of a request has files, and the lock is not left behind.
HolderFacts ==
  /\ holder # NoOne => drain[holder].step # "idle"
  /\ \A d \in Drains : drain[d].step \in {"post", "unlink"} => drain[d].batch # {}

LEMMA HolderStep == ASSUME IInv, HolderFacts, [Next]_vars PROVE HolderFacts'
<1> USE NotificationsAssumption DEF HolderFacts, time, producer
<1> TypeOK /\ LockFacts BY DEF IInv
<1>1. ASSUME NEW d \in Drains, NEW step \in {"file", "post", "unlink"}, NEW batch \in SUBSET Events, NEW ends \in Nat,
             drain' = [drain EXCEPT ![d] = At(step, batch, ends)], holder' = d,
             step = "file" \/ batch # {}
      PROVE  HolderFacts'
  <2>1. /\ drain'[d].step = step /\ drain'[d].batch = batch
        /\ \A t \in Drains \ {d} : drain'[t] = drain[t]
    BY <1>1, Becomes
  <2> QED BY <1>1, <2>1
<1>2. ASSUME NEW d \in Drains, drain[d].step # "idle" PROVE holder = d BY <1>2 DEF LockFacts
<1>3. ASSUME NEW d \in Drains, Ended(d) PROVE HolderFacts'
  <2>1. drain'[d].step = "idle" /\ \A t \in Drains \ {d} : drain'[t] = drain[t] BY <1>3, Ends
  <2> QED BY <1>3, <2>1 DEF Ended
<1>4. \A d \in Drains : drain[d].batch \in SUBSET Events BY DEF TypeOK, Runs
<1>5. ASSUME NEW d \in Drains, Begin(d) PROVE HolderFacts'
  <2>1. PICK files \in FirstFiles : drain' = [drain EXCEPT ![d] = At("file", files, 0)] BY <1>5 DEF Begin
  <2>2. files \in SUBSET Events /\ holder' = d BY <1>5 DEF Begin, FirstFiles, TypeOK
  <2> QED BY <1>1, <2>1, <2>2
<1>6. ASSUME NEW d \in Drains, Discard(d) PROVE HolderFacts'
  <2>1. PICK e \in Files(d) : drain' = [drain EXCEPT ![d] = At("file", @.batch \ {e}, 0)] BY <1>6 DEF Discard
  <2>2. holder' = d /\ drain' = [drain EXCEPT ![d] = At("file", drain[d].batch \ {e}, 0)]
    BY <1>2, <1>6, <2>1 DEF Discard
  <2> QED BY <1>1, <1>4, <2>2
<1>7. ASSUME NEW d \in Drains, Address(d) PROVE HolderFacts'
  <2>1. /\ drain' = [drain EXCEPT ![d] = At("post", drain[d].batch, clock + Horizon)]
        /\ holder' = d /\ drain[d].batch # {}
    BY <1>2, <1>7 DEF Address, Files
  <2> QED BY <1>1, <1>4, <2>1, Moments
<1>8. ASSUME NEW d \in Drains, Submit(d) PROVE HolderFacts'
  <2>1. /\ drain' = [drain EXCEPT ![d] = At("unlink", drain[d].batch, 0)]
        /\ holder' = d /\ drain[d].batch # {}
    BY <1>2, <1>8 DEF Submit, Accepts, Files
  <2> QED BY <1>1, <1>4, <2>1
<1>9. ASSUME NEW d \in Drains, Unlink(d) PROVE HolderFacts'
  <2>1. /\ drain'[d].step = "file" /\ \A t \in Drains \ {d} : drain'[t] = drain[t]
        /\ holder' = d
    BY <1>2, <1>9, Removed DEF Unlink
  <2> QED BY <2>1
<1>10. ASSUME NEW d \in Drains, Finish(d) \/ AnswerLost(d) \/ Refused(d) \/ Kill(d) PROVE HolderFacts'
  BY <1>3, <1>10 DEF Finish, AnswerLost, Refused, Kill
<1>11. CASE Tick \/ SetBack \/ Compose \/ Publish \/ EnqueueFails \/ UNCHANGED vars
  BY <1>11 DEF Tick, SetBack, Compose, Publish, EnqueueFails, vars
<1> QED BY <1>5, <1>6, <1>7, <1>8, <1>9, <1>10, <1>11 DEF Next, Work

\* The delivery lock is never left behind, for any number of drains.
THEOREM LockNeverLeft == Spec => []LockInUse
<1>1. Init => HolderFacts BY DEF Init, HolderFacts, Idle, At
<1>2. IInv /\ HolderFacts /\ [Next]_vars => HolderFacts' BY HolderStep
<1>3. ASSUME IInv, HolderFacts PROVE LockInUse
  BY <1>3, NextFile DEF IInv, HolderFacts, LockInUse
<1> QED BY <1>1, <1>2, <1>3, QueueInvariance, PTL DEF Spec

\* No drain passes a file over or goes round in circles, for any batch and any
\* number of notices.
THEOREM DrainsComeToAnEnd == Spec => DrainsGetOn
<1>1. ASSUME IInv, HolderFacts, [Next]_vars, NEW d \in Drains PROVE GetsOn(d)
  <2> USE DEF GetsOn
  <2> TypeOK /\ LockFacts /\ drain[d].batch \in SUBSET Events BY <1>1 DEF IInv, TypeOK, Runs
  <2>1. CASE drain'[d] = drain[d] BY <2>1
  <2>2. CASE Begin(d)
    <3>1. PICK files \in FirstFiles : drain' = [drain EXCEPT ![d] = At("file", files, 0)] BY <2>2 DEF Begin
    <3>2. drain'[d].batch = files BY <3>1, Becomes DEF FirstFiles, TypeOK
    <3> QED BY <2>2, <3>2, FirstTaken DEF Begin
  <2>3. CASE Discard(d)
    <3>1. PICK e \in Files(d) : /\ drain' = [drain EXCEPT ![d] = At("file", @.batch \ {e}, 0)]
                                /\ drain[d].step = "file"
      BY <2>3 DEF Discard
    <3>2. drain'[d].step = "file" /\ drain'[d].batch = drain[d].batch \ {e} BY <3>1, Becomes
    <3> QED BY <3>1, <3>2, FirstFile
  <2>4. CASE Address(d)
    <3>1. drain' = [drain EXCEPT ![d] = At("post", @.batch, clock + Horizon)] /\ drain[d].step = "file"
      BY <2>4 DEF Address
    <3>2. drain'[d].step = "post" /\ drain'[d].batch = drain[d].batch BY <3>1, Becomes, Moments
    <3> QED BY <3>1, <3>2
  <2>5. CASE Submit(d)
    <3>1. drain' = [drain EXCEPT ![d] = At("unlink", @.batch, 0)] /\ drain[d].step = "post"
      BY <2>5 DEF Submit, Accepts
    <3>2. drain'[d].step = "unlink" /\ drain'[d].batch = drain[d].batch BY <3>1, Becomes
    <3> QED BY <3>1, <3>2
  <2>6. CASE Unlink(d)
    <3>1. drain[d].step = "unlink" BY <2>6 DEF Unlink
    <3>2. PICK e \in queue : Files(d) = {e} BY <1>1, <3>1, NextFile DEF HolderFacts
    <3>3. e \in drain[d].batch BY <3>2, FirstFile
    <3> QED BY <2>6, <3>1, <3>2, <3>3, Removed
  <2>7. CASE Finish(d)
    <3>1. drain[d].step = "file" /\ Files(d) = {} /\ Ended(d) BY <2>7 DEF Finish
    <3>2. drain[d].batch = {} BY <3>1, NextFile
    <3> QED BY <3>1, <3>2, Ends
  <2>8. CASE AnswerLost(d) \/ Refused(d) \/ Kill(d)
    <3>1. Ended(d) /\ drain[d].step # "idle" /\ (drain[d].step = "file" => faults' = faults + 1)
      BY <2>8 DEF AnswerLost, Refused, Kill, Accepts
    <3>2. drain'[d].step = "idle" BY <3>1, Ends
    <3>3. faults \in Nat BY NotificationsAssumption DEF TypeOK
    <3> QED BY <3>1, <3>2, <3>3
  <2>9. ASSUME NEW t \in Drains \ {d},
               Begin(t) \/ Work(t) \/ Submit(t) \/ AnswerLost(t) \/ Refused(t) \/ Kill(t)
        PROVE  drain'[d] = drain[d]
    BY <2>9 DEF Begin, Work, Finish, Discard, Address, Unlink, Submit, AnswerLost, Refused, Kill, Ended, TypeOK
  <2>10. CASE Tick \/ SetBack \/ Compose \/ Publish \/ EnqueueFails \/ UNCHANGED vars
    BY <2>1, <2>10 DEF Tick, SetBack, Compose, Publish, EnqueueFails, vars
  <2> QED BY <1>1, <2>1, <2>2, <2>3, <2>4, <2>5, <2>6, <2>7, <2>8, <2>9, <2>10 DEF Next, Work
<1>2. IInv /\ HolderFacts /\ [Next]_vars =>
        [\A d \in Drains : GetsOn(d)]_vars
  BY <1>1
<1>3. Init => HolderFacts BY DEF Init, HolderFacts, Idle, At
<1>4. IInv /\ HolderFacts /\ [Next]_vars => HolderFacts' BY HolderStep
<1> QED BY <1>2, <1>3, <1>4, QueueInvariance, PTL DEF Spec, DrainsGetOn
=============================================================================
