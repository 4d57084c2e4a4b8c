------------------------ MODULE ReleaseNotifications ------------------------
(***************************************************************************)
(* The durable queue of deployment notices: scripts/release-notifications  *)
(* .py (enqueue, drain) with its timer in modules/nixos/release-updater    *)
(* .nix, and Alertmanager, to which drain submits.                         *)
(*                                                                         *)
(* A notice is its number, in the order in which the updater asks for it;  *)
(* the updater is one process at a time.  queue is the directory: the set  *)
(* of notices whose file is there.  A file's name begins with the          *)
(* nanosecond of its publication, so a tie of the coarse clock of the      *)
(* model is broken by the order of publication.                            *)
(***************************************************************************)
EXTENDS Integers, FiniteSets

CONSTANTS MaxEvents,      \* bound on the notices
          Announcements,  \* those that an older updater queued as "available"
          Drains,         \* processes that run drain: the timer's and others by hand
          Timer,          \* the one the timer starts
          NoOne,
          Window,         \* 14 days
          Horizon,        \* ten minutes
          Batch,          \* 20
          MaxClock,       \* bound on time
          MaxSteps,       \* bound on the times the clock is set back
          MaxFaults       \* bound on answers lost and on drains killed

Events == 1 .. MaxEvents
Times == 0 .. MaxClock

ASSUME NotificationsAssumption ==
    /\ MaxEvents \in Nat /\ MaxClock \in Nat /\ MaxFaults \in Nat /\ MaxSteps \in Nat
    /\ Announcements = 1 .. Cardinality(Announcements) /\ Announcements \subseteq Events
    /\ Timer \in Drains /\ NoOne \notin Drains
    /\ Window \in Nat /\ Horizon \in Nat /\ Batch \in Nat \ {0}

VARIABLES
    clock, steps,  \* the wall clock, and how often it has been set back
    last,          \* the last notice the updater asked for
    writing,       \* whether its temporary file waits to be renamed
    recorded,      \* recorded[e]: recordedAt in the record of e
    name,          \* name[e]: the time in the name of its file
    queue,         \* the notices in the queue directory
    holder,        \* the drain with .delivery.lock
    drain,         \* drain[d]: step, files of the batch not yet done, endsAt of the request
    accepted,      \* accepted[e]: how often Alertmanager has accepted e
    cut,           \* history: cut[e]: acceptances of e that drain did not live to record
    faults

vars == <<clock, steps, last, writing, recorded, name, queue, holder, drain, accepted, cut, faults>>
time == <<clock, steps>>
producer == <<last, writing, recorded, name>>

At(step, batch, ends) == [step |-> step, batch |-> batch, ends |-> ends]
Idle == At("idle", {}, 0)

Init ==
    /\ clock = 0 /\ steps = 0
    /\ last = Cardinality(Announcements) /\ writing = FALSE
    /\ recorded = [e \in Events |-> 0]
    /\ name = [e \in Events |-> 0]
    /\ queue = Announcements
    /\ holder = NoOne
    /\ drain = [d \in Drains |-> Idle]
    /\ accepted = [e \in Events |-> 0]
    /\ cut = [e \in Events |-> 0]
    /\ faults = 0

-----------------------------------------------------------------------------
(* Time *)

Tick ==
    /\ clock < MaxClock
    /\ clock' = clock + 1
    /\ UNCHANGED <<steps, producer, queue, holder, drain, accepted, cut, faults>>

SetBack ==
    /\ steps < MaxSteps
    /\ clock' \in {t \in Times : t < clock}
    /\ steps' = steps + 1
    /\ UNCHANGED <<producer, queue, holder, drain, accepted, cut, faults>>

-----------------------------------------------------------------------------
(* enqueue *)

\* enqueue notes the time and writes the record to a temporary file.
Compose ==
    /\ ~writing /\ last < MaxEvents
    /\ last' = last + 1
    /\ writing' = TRUE
    /\ recorded' = [recorded EXCEPT ![last + 1] = clock]
    /\ UNCHANGED <<time, name, queue, holder, drain, accepted, cut, faults>>

\* The rename publishes it, without the delivery lock.
Publish ==
    /\ writing
    /\ writing' = FALSE
    /\ name' = [name EXCEPT ![last] = clock]
    /\ queue' = queue \cup {last}
    /\ UNCHANGED <<time, last, recorded, holder, drain, accepted, cut, faults>>

\* The updater goes on without the notice: the disk is full, or it is killed.
EnqueueFails ==
    /\ writing
    /\ writing' = FALSE
    /\ UNCHANGED <<time, last, recorded, name, queue, holder, drain, accepted, cut, faults>>

-----------------------------------------------------------------------------
(* drain *)

Before(e, f) == name[e] < name[f] \/ (name[e] = name[f] /\ e < f)

\* Mutant: the batch is not sorted by name.
AnyBatch == {q \in SUBSET queue : Cardinality(q) <= Batch}

\* sorted(queue.glob("*.json"))[:20]
FirstFiles == {{e \in queue : Cardinality({f \in queue : Before(f, e)}) < Batch}}

\* Mutant: the lock is not asked for.
LockFreeDropped(d) == TRUE

LockFree(d) == holder = NoOne

\* A run that finds the lock taken ends at once.
Begin(d) ==
    /\ drain[d].step = "idle"
    /\ LockFree(d)
    /\ holder' = d
    /\ \E files \in FirstFiles : drain' = [drain EXCEPT ![d] = At("file", files, 0)]
    /\ UNCHANGED <<time, producer, queue, accepted, cut, faults>>

\* The next file of the batch, if it is there to be read.
Files(d) == {e \in queue \cap drain[d].batch : \A f \in drain[d].batch \ {e} : Before(e, f)}

\* The process is over, with success or not; the kernel frees the lock.
Ended(d) ==
    /\ drain' = [drain EXCEPT ![d] = Idle]
    /\ holder' = NoOne

Finish(d) ==
    /\ drain[d].step = "file" /\ Files(d) = {}
    /\ Ended(d)
    /\ UNCHANGED <<time, producer, queue, accepted, cut, faults>>

Overdue(e) == clock - recorded[e] > Window

\* Mutant: what is not to be sent is passed over and left in the directory.
DiscardSkips(d) == \E e \in Files(d) :
    /\ drain[d].step = "file"
    /\ Overdue(e) \/ e \in Announcements
    /\ drain' = [drain EXCEPT ![d] = At("file", @.batch \ {e}, 0)]
    /\ UNCHANGED <<time, producer, queue, holder, accepted, cut, faults>>

\* An overdue notice and the announcement of a release are removed unsent.
Discard(d) == \E e \in Files(d) :
    /\ drain[d].step = "file"
    /\ Overdue(e) \/ e \in Announcements
    /\ queue' = queue \ {e}
    /\ drain' = [drain EXCEPT ![d] = At("file", @.batch \ {e}, 0)]
    /\ UNCHANGED <<time, producer, holder, accepted, cut, faults>>

Address(d) == \E e \in Files(d) :
    /\ drain[d].step = "file"
    /\ ~Overdue(e) /\ e \notin Announcements
    /\ drain' = [drain EXCEPT ![d] = At("post", @.batch, clock + Horizon)]
    /\ UNCHANGED <<time, producer, queue, holder, accepted, cut, faults>>

\* Alertmanager accepts an alert that does not end before it starts.
Accepts(d, e) ==
    /\ drain[d].step = "post"
    /\ recorded[e] <= drain[d].ends
    /\ accepted' = [accepted EXCEPT ![e] = @ + 1]

Submit(d) == \E e \in Files(d) :
    /\ Accepts(d, e)
    /\ drain' = [drain EXCEPT ![d] = At("unlink", @.batch, 0)]
    /\ UNCHANGED <<time, producer, queue, holder, cut, faults>>

\* The answer does not arrive within three seconds: the event stays queued.
AnswerLost(d) == \E e \in Files(d) :
    /\ faults < MaxFaults
    /\ Accepts(d, e)
    /\ Ended(d)
    /\ cut' = [cut EXCEPT ![e] = @ + 1]
    /\ faults' = faults + 1
    /\ UNCHANGED <<time, producer, queue>>

\* Mutant: the file is removed although the request failed.
RefusedUnlinks(d) ==
    /\ drain[d].step = "post"
    /\ queue' = queue \ Files(d)
    /\ Ended(d)
    /\ UNCHANGED <<time, producer, accepted, cut, faults>>

\* Alertmanager is down, or it refuses the alert: the run fails at this file.
Refused(d) ==
    /\ drain[d].step = "post"
    /\ Ended(d)
    /\ UNCHANGED <<time, producer, queue, accepted, cut, faults>>

Unlink(d) ==
    /\ drain[d].step = "unlink"
    /\ queue' = queue \ Files(d)
    /\ drain' = [drain EXCEPT ![d] = At("file", @.batch \ Files(d), 0)]
    /\ UNCHANGED <<time, producer, holder, accepted, cut, faults>>

\* A signal, the timeout of the unit or a power failure ends the run.
Kill(d) ==
    /\ drain[d].step # "idle" /\ faults < MaxFaults
    /\ Ended(d)
    /\ faults' = faults + 1
    /\ cut' = [e \in Events |-> IF drain[d].step = "unlink" /\ e \in Files(d) THEN cut[e] + 1 ELSE cut[e]]
    /\ UNCHANGED <<time, producer, queue, accepted>>

Work(d) == Finish(d) \/ Discard(d) \/ Address(d) \/ Unlink(d)

Next ==
    \/ Tick \/ SetBack \/ Compose \/ Publish \/ EnqueueFails
    \/ \E d \in Drains : Begin(d) \/ Work(d) \/ Submit(d) \/ AnswerLost(d) \/ Refused(d) \/ Kill(d)

Spec == Init /\ [][Next]_vars

\* Time passes, the timer starts a drain every minute, a started drain goes on,
\* a request ends, and Alertmanager does not refuse for ever what it could accept.
FairSpec ==
    /\ Spec
    /\ WF_vars(Tick)
    /\ WF_vars(Begin(Timer))
    /\ \A d \in Drains :
         WF_vars(Work(d)) /\ WF_vars(Submit(d) \/ Refused(d)) /\ SF_vars(Submit(d))

-----------------------------------------------------------------------------
(* Properties *)

Runs == [step : {"idle", "file", "post", "unlink"}, batch : SUBSET Events, ends : Nat]

TypeOK ==
    /\ clock \in Times /\ steps \in 0 .. MaxSteps /\ faults \in 0 .. MaxFaults
    /\ last \in 0 .. MaxEvents /\ writing \in BOOLEAN
    /\ recorded \in [Events -> Times] /\ name \in [Events -> Times]
    /\ queue \in SUBSET Events
    /\ holder \in Drains \cup {NoOne}
    /\ drain \in [Drains -> Runs]
    /\ accepted \in [Events -> Nat] /\ cut \in [Events -> Nat]

\* A notice reaches Alertmanager twice only if drain was cut off between its
\* acceptance and the removal of its file, once for each repetition: the
\* delivery lock keeps a second drain from submitting the same file, also when
\* the first one is killed and notices are published meanwhile (drain).
OncePerInterruption == \A e \in Events : accepted[e] <= cut[e] + 1

\* The queue keeps its form, and nobody submits a file that another does.
Consistent == TypeOK /\ OncePerInterruption

\* The queue keeps the promise of NoticeOutbox across kills, lost answers,
\* refusals and batches: nothing published is lost before the retention
\* window is over, and notices are handed over in their order (enqueue, drain).
Outbox == INSTANCE NoticeOutbox WITH
    stepped <- steps > 0,
    waiting <- {e \in queue \ Announcements : accepted[e] = 0},
    handed <- {e \in Events : accepted[e] > 0}
Promise == Outbox!Spec

\* Every queued notice leaves the queue, whatever is queued before it: one that
\* Alertmanager refuses now, such as one recorded before the clock was set back,
\* does not block the others for ever (sorted(...)[:20], the raise in drain).
QueueDrains == \A e \in Events : e \in queue ~> e \notin queue

-----------------------------------------------------------------------------
(* The inductive invariant (ReleaseNotificationsProofs) *)

\* Nothing is known of a notice that is not published, and it is no announcement.
PublicationFacts ==
    /\ Cardinality(Announcements) <= last
    /\ \A e \in Events : e > last => e \notin queue /\ accepted[e] = 0
    /\ writing => last \notin Announcements \cup queue /\ last > 0 /\ accepted[last] = 0

\* A run at work has the lock, so that the files of its batch stay there.
LockFacts == \A d \in Drains :
    /\ IF drain[d].step = "idle" THEN drain[d].batch = {} ELSE holder = d
    /\ drain[d].batch \subseteq queue

\* Every acceptance but the one of the file to be removed has been cut off.
AcceptanceFacts ==
    /\ \A e \in queue :
         accepted[e] <= cut[e] \/ \E d \in Drains : drain[d].step = "unlink" /\ e \in Files(d)
    /\ \A d \in Drains : \A e \in Files(d) :
         /\ drain[d].step \in {"post", "unlink"} => e \notin Announcements
         /\ drain[d].step = "unlink" => accepted[e] > 0

\* Unless the clock was set back, names are in order and a batch precedes the rest.
OrderFacts == steps = 0 =>
    /\ \A e \in Events : name[e] <= clock
    /\ \A e, f \in queue : e < f => name[e] <= name[f]
    /\ \A d \in Drains : \A e \in drain[d].batch : \A f \in queue \ drain[d].batch : Before(e, f)

IInv ==
    /\ TypeOK /\ OncePerInterruption
    /\ PublicationFacts /\ LockFacts /\ AcceptanceFacts /\ OrderFacts
=============================================================================
