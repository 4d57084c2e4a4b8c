----------------------- MODULE SchlageManagerProofs -----------------------
(***************************************************************************)
(* The inductive invariant of SchlageManager and what follows from it, for *)
(* any number of sessions, identifiers and managers.                       *)
(***************************************************************************)
EXTENDS SchlageManager, SequenceTheorems, TLAPS

\* What a command is when it has come to a step.
Sound(o) ==
  /\ o.step \in {"write", "list2", "read2"} => o.action \in {"add", "remove"}
  /\ o.step \in {"al_write", "al_verify"} => o.action = "set_auto_lock"
  /\ o.action = "add" => o.pin \in Pins
  /\ o.action = "remove" => o.id \in Ids
  /\ o.action = "set_auto_lock" => o.seconds \in Timeouts

CommandFacts == \A s \in Sessions : Sound(op[s])

\* Commands belong to a manager that has been made; one that has not has no log.
MemoryFacts ==
  /\ \A s \in Sessions : op[s].manager <= manager
  /\ \A m \in Managers : m > manager => log[m] = NoEvents

Active(s) == op[s].step # "idle"

\* The numbers of the commands tell them apart.
NumberFacts ==
  /\ \A s \in Sessions : Active(s) => op[s].n < commands
  /\ \A s, t \in Sessions : Active(s) /\ Active(t) /\ s # t => op[s].n # op[t].n
  /\ \A r \in reached : r.op < commands

\* A command that has changed the codes has its read-back ahead.
ReachedFacts ==
  \A s \in Sessions, r \in reached :
    Active(s) /\ r.op = op[s].n => op[s].step \in {"list2", "read2"} \/ r.action = "set_auto_lock"

\* A command about to write was sent from the list it has read.
ShownFacts ==
  \A s \in Sessions : op[s].step = "write" => shown[s].codes = op[s].before

\* With one manager and nobody at the keypad, what a command has read is there.
QuietFacts ==
  manager = 0 /\ keypad = 0 =>
    \A s \in Sessions : /\ op[s].step = "write" => codes = op[s].before
                        /\ op[s].step = "read" => op[s].listed = Present(codes)

IInv ==
  /\ TypeOK /\ CommandFacts /\ LocksFit /\ MemoryFacts /\ NumberFacts /\ ReachedFacts
  /\ WritesLogged /\ ShownFacts /\ QuietFacts

---------------------------------------------------------------------------
(* Helpers.                                                                *)

\* The log after _save_event: the new entry first, the older ones after it as
\* long as there is room.
LEMMA LoggedEntry ==
  ASSUME NEW events \in Logs, NEW event \in Entries
  PROVE  /\ Logged(events, event) \in Logs
         /\ Logged(events, event) # <<>>
         /\ 1 \in DOMAIN Logged(events, event)
         /\ Logged(events, event)[1] = event
         /\ \/ Len(Logged(events, event)) = LogSize
            \/ \A i \in DOMAIN events : /\ i + 1 \in DOMAIN Logged(events, event)
                                        /\ Logged(events, event)[i + 1] = events[i]
         /\ Len(events) = LogSize => Len(Logged(events, event)) = LogSize
<1> DEFINE n == IF Len(events) < LogSize THEN Len(events) + 1 ELSE LogSize
           all == <<event>> \o events
<1>1. events \in Seq(Entries) /\ Len(events) \in Nat /\ Len(events) <= LogSize /\ DOMAIN events = 1..Len(events)
  BY LenProperties DEF Logs
<1>2. LogSize \in Nat \ {0} BY ManagerAssumption
<1>3. n \in Nat \ {0} /\ n <= LogSize /\ n <= Len(events) + 1 BY <1>1, <1>2
<1>4. <<event>> \in Seq(Entries) /\ Len(<<event>>) = 1 /\ <<event>>[1] = event OBVIOUS
<1>5. all \in Seq(Entries) /\ Len(all) = Len(events) + 1 BY <1>1, <1>4, ConcatProperties
<1>6. \A i \in 1..Len(events) + 1 : all[i] = IF i <= 1 THEN <<event>>[i] ELSE events[i - 1]
  <2>1. \A i \in 1 .. 1 + Len(events) : all[i] = IF i <= 1 THEN <<event>>[i] ELSE events[i - 1]
    BY <1>1, <1>4, ConcatProperties
  <2> QED BY <1>1, <2>1
<1> HIDE DEF n, all
<1>7. \A i \in 1..n : all[i] \in Entries BY <1>3, <1>5, ElementOfSeq, <1>1
<1>8. /\ SubSeq(all, 1, n) \in Seq(Entries) /\ Len(SubSeq(all, 1, n)) = n
      /\ \A i \in 1..n : SubSeq(all, 1, n)[i] = all[i]
  <2>1. /\ SubSeq(all, 1, n) \in Seq(Entries)
        /\ Len(SubSeq(all, 1, n)) = IF 1 <= n THEN n - 1 + 1 ELSE 0
        /\ \A i \in 1 .. n - 1 + 1 : SubSeq(all, 1, n)[i] = all[1 + i - 1]
    BY <1>3, <1>7, SubSeqProperties
  <2> QED BY <1>3, <2>1
<1>9. Logged(events, event) = SubSeq(all, 1, n) BY DEF Logged, all, n
<1> DEFINE result == SubSeq(all, 1, n)
<1>10. DOMAIN result = 1..n BY <1>8, LenProperties
<1>11. result \in Logs BY <1>3, <1>8 DEF Logs
<1>12. result # <<>> BY <1>3, <1>8
<1>13. result[1] = event BY <1>1, <1>3, <1>4, <1>6, <1>8
<1>14. Len(result) = LogSize \/ \A i \in DOMAIN events : i + 1 \in DOMAIN result /\ result[i + 1] = events[i]
  <2>1. SUFFICES ASSUME Len(events) < LogSize, NEW i \in 1..Len(events)
                 PROVE  i + 1 \in 1..n /\ result[i + 1] = events[i]
    BY <1>1, <1>2, <1>8, <1>10 DEF n
  <2>2. n = Len(events) + 1 BY <2>1 DEF n
  <2> QED BY <1>1, <1>6, <1>8, <2>1, <2>2
<1>15. Len(events) = LogSize => Len(result) = LogSize BY <1>2, <1>8 DEF n
<1> HIDE DEF result
<1> QED BY <1>3, <1>9, <1>10, <1>11, <1>12, <1>13, <1>14, <1>15 DEF result

\* A command with one field changed is a command.
LEMMA Fields ==
  ASSUME NEW o \in Commands
  PROVE  /\ \A step \in Steps : [o EXCEPT !.step = step] \in Commands
         /\ \A listed \in SUBSET Ids : [o EXCEPT !.listed = listed] \in Commands
         /\ \A before \in Contents : [o EXCEPT !.before = before] \in Commands
         /\ \A acked \in Ids : [o EXCEPT !.acked = acked] \in Commands
BY DEF Commands

LEMMA IdleCommand == Idle \in Commands /\ NotShown \in Panels /\ NoCodes \in Contents
<1>1. NoCodes \in Contents BY DEF NoCodes, Contents
<1>2. 0 \in Managers /\ 0 \in 0..MaxCommands BY ManagerAssumption DEF Managers
<1> QED BY <1>1, <1>2 DEF Idle, NotShown, Commands, Panels, Steps, Actions

\* Every variable after the helpers that several handlers share.
LEMMA FinishTypes ==
  ASSUME TypeOK, NEW s \in Sessions, Finish(s)
  PROVE  op' \in [Sessions -> Commands] /\ holder' \in [Managers -> Sessions \cup {None}]
BY IdleCommand DEF TypeOK, Finish

LEMMA FailedTypes ==
  ASSUME TypeOK, NEW s \in Sessions, Failed(s)
  PROVE  /\ op' \in [Sessions -> Commands] /\ holder' \in [Managers -> Sessions \cup {None}]
         /\ shown' \in [Sessions -> Panels]
<1>1. Finish(s) BY DEF Failed
<1>2. [shown[s] EXCEPT !.seconds = None] \in Panels BY DEF TypeOK, Panels
<1>3. shown' \in [Sessions -> Panels] BY <1>2, IdleCommand DEF Failed, TypeOK
<1> QED BY <1>1, <1>3, FinishTypes

LEMMA SnapshotTypes ==
  ASSUME TypeOK, NEW s \in Sessions, NEW c \in Contents, Snapshot(s, c)
  PROVE  shown' \in [Sessions -> Panels]
<1>1. [manager |-> op[s].manager, codes |-> c, seconds |-> shown[s].seconds] \in Panels
  BY DEF TypeOK, Commands, Panels
<1> QED BY <1>1 DEF Snapshot, TypeOK

MemoryTypes ==
  /\ names \in [Managers -> Labels] /\ log \in [Managers -> Logs] /\ store \in [names : Labels, log : Logs]
  /\ entered \in [Managers -> SUBSET (0..MaxCommands - 1)]

LEMMA SaveTypes ==
  ASSUME TypeOK, NEW m \in Managers, NEW event \in Entries, NEW labels \in Labels, SaveEvent(m, event, labels)
  PROVE  MemoryTypes'
<1>1. Logged(log[m], event) \in Logs BY LoggedEntry DEF TypeOK
<1>2. /\ names' = [names EXCEPT ![m] = labels]
      /\ log' = [log EXCEPT ![m] = Logged(log[m], event)]
      /\ store' = [names |-> labels, log |-> Logged(log[m], event)]
      /\ entered' = [entered EXCEPT ![m] = @ \cup {event.op}]
  BY DEF SaveEvent
<1>3. event.op \in 0..MaxCommands - 1 BY DEF Entries
<1> QED BY <1>1, <1>2, <1>3 DEF TypeOK, MemoryTypes

\* The entry that a command makes.
LEMMA EventTypes ==
  ASSUME TypeOK, NumberFacts, NEW s \in Sessions, Active(s),
         NEW action \in {"unverified", "renamed", "add", "remove", "auto_lock_changed"}
  PROVE  /\ Event(s, action) \in Entries /\ Event(s, action).op = op[s].n
         /\ op[s].manager \in Managers /\ op[s].n \in 0..MaxCommands - 1
<1>1. op[s] \in Commands BY DEF TypeOK
<1>2. op[s].n \in 0..MaxCommands - 1
  BY <1>1, ManagerAssumption DEF TypeOK, NumberFacts, Commands
<1> QED BY <1>1, <1>2 DEF Event, Entries, Commands

LEMMA UnverifiedTypes ==
  ASSUME TypeOK, NumberFacts, NEW s \in Sessions, Active(s), Unverified(s)
  PROVE  /\ op' \in [Sessions -> Commands] /\ holder' \in [Managers -> Sessions \cup {None}]
         /\ shown' \in [Sessions -> Panels] /\ MemoryTypes'
<1>1. Event(s, "unverified") \in Entries /\ op[s].manager \in Managers BY EventTypes
<1>2. names[op[s].manager] \in Labels BY <1>1 DEF TypeOK
<1> QED BY <1>1, <1>2, SaveTypes, FailedTypes DEF Unverified

LEMMA SavedTypes ==
  ASSUME TypeOK, NumberFacts, NEW s \in Sessions, Active(s), Saved(s)
  PROVE  /\ op' \in [Sessions -> Commands] /\ holder' \in [Managers -> Sessions \cup {None}]
         /\ shown' \in [Sessions -> Panels] /\ MemoryTypes'
<1>1. Event(s, "auto_lock_changed") \in Entries /\ op[s].manager \in Managers BY EventTypes
<1>2. names[op[s].manager] \in Labels BY <1>1 DEF TypeOK
<1>3. [shown[s] EXCEPT !.seconds = None] \in Panels BY DEF TypeOK, Panels
<1>4. shown' \in [Sessions -> Panels] BY <1>3 DEF Saved, TypeOK
<1> QED BY <1>1, <1>2, <1>4, SaveTypes, FinishTypes DEF Saved

LEMMA GotoTypes ==
  ASSUME TypeOK, NEW s \in Sessions, NEW step \in Steps
  PROVE  /\ Goto(s, step) => op' \in [Sessions -> Commands]
         /\ ListExchange(s, step) => op' \in [Sessions -> Commands]
<1>1. op[s] \in Commands /\ Present(codes) \in SUBSET Ids BY DEF TypeOK, Present
<1>2. [op[s] EXCEPT !.step = step] \in Commands BY <1>1, Fields
<1>3. [op[s] EXCEPT !.listed = Present(codes)] \in Commands BY <1>1, Fields
<1>4. [[op[s] EXCEPT !.listed = Present(codes)] EXCEPT !.step = step] \in Commands BY <1>3, Fields
<1> QED BY <1>2, <1>4 DEF Goto, ListExchange, TypeOK

LEMMA ReadTypes == ASSUME TypeOK, NEW s \in Sessions PROVE ReadContents(s) \in Contents
BY DEF TypeOK, ReadContents, Contents

LEMMA ApplyTypes ==
  ASSUME TypeOK, CommandFacts, NumberFacts, NEW s \in Sessions, op[s].step = "write", NEW id \in Ids, Apply(s, id)
  PROVE  codes' \in Contents /\ Unique(codes') /\ reached' \subseteq [op : 0..MaxCommands - 1, action : Actions]
<1>1. Sound(op[s]) /\ op[s] \in Commands BY DEF CommandFacts, TypeOK
<1>2. op[s].n \in 0..MaxCommands - 1 BY EventTypes DEF Active
<1>3. reached' \subseteq [op : 0..MaxCommands - 1, action : Actions]
  BY <1>1, <1>2 DEF Apply, TypeOK, Commands
<1>4. CASE op[s].action = "add"
  <2>1. op[s].pin \in Pins BY <1>1, <1>4 DEF Sound
  <2> QED BY <1>3, <1>4, <2>1 DEF Apply, TypeOK, Contents
<1>5. CASE op[s].action # "add"
  <2>1. codes' = [codes EXCEPT ![id] = None] BY <1>5 DEF Apply
  <2>2. codes' \in Contents BY <2>1 DEF TypeOK, Contents
  <2>3. \A a \in Present(codes') : a \in Present(codes) /\ codes'[a] = codes[a]
    BY <2>1 DEF TypeOK, Contents, Present
  <2>4. Unique(codes') BY <2>3 DEF TypeOK, Unique
  <2> QED BY <1>3, <2>2, <2>4
<1> QED BY <1>4, <1>5

CounterTypes ==
  /\ manager \in Managers /\ bus \in Sessions \cup {None} /\ autoLock \in Timeouts
  /\ commands \in 0..MaxCommands /\ keypad \in 0..MaxKeypad /\ faults \in 0..MaxFaults
LockTypes ==
  /\ codes \in Contents /\ Unique(codes)
  /\ reached \subseteq [op : 0..MaxCommands - 1, action : Actions]
PanelTypes ==
  /\ op \in [Sessions -> Commands] /\ shown \in [Sessions -> Panels]
  /\ holder \in [Managers -> Sessions \cup {None}]

LEMMA Parts == TypeOK <=> MemoryTypes /\ CounterTypes /\ LockTypes /\ PanelTypes
BY DEF TypeOK, MemoryTypes, CounterTypes, LockTypes, PanelTypes

LEMMA PartsNext == TypeOK' <=> MemoryTypes' /\ CounterTypes' /\ LockTypes' /\ PanelTypes'
BY DEF TypeOK, MemoryTypes, CounterTypes, LockTypes, PanelTypes

LEMMA FaultTypes == ASSUME TypeOK, Fault \/ UNCHANGED faults PROVE faults' \in 0..MaxFaults
BY ManagerAssumption DEF TypeOK, Fault

\* What a handler leaves alone keeps its type.
LEMMA Untouched ==
  ASSUME TypeOK
  PROVE  /\ UNCHANGED memoryVars => MemoryTypes'
         /\ UNCHANGED lockVars => LockTypes'
BY Parts DEF memoryVars, lockVars, MemoryTypes, LockTypes

LEMMA TypeCommand ==
  ASSUME TypeOK, NEW s \in Sessions, NEW action \in Actions, NEW id \in Ids \cup {None}, NEW pin \in Pins \cup {None},
         NEW name \in Names \cup {None}, NEW seconds \in Timeouts \cup {None}, Command(s, action, id, pin, name, seconds)
  PROVE  TypeOK'
<1> DEFINE o == [step |-> "queued", action |-> action, manager |-> manager, n |-> commands, id |-> id,
                 pin |-> pin, name |-> name, seconds |-> seconds, listed |-> {}, before |-> NoCodes, acked |-> None]
<1>1. o \in Commands BY IdleCommand DEF TypeOK, Commands, Steps
<1>2. op' = [op EXCEPT ![s] = o] BY DEF Command
<1> HIDE DEF o
<1>3. PanelTypes'
  <2>1. op' \in [Sessions -> Commands] BY <1>1, <1>2 DEF TypeOK
  <2>2. holder' = holder /\ shown' = shown BY DEF Command
  <2> QED BY <2>1, <2>2 DEF TypeOK, PanelTypes
<1>4. CounterTypes' BY ManagerAssumption DEF TypeOK, CounterTypes, Command, lockVars
<1> QED BY <1>3, <1>4, Untouched, PartsNext DEF Command

LEMMA TypeSubmit == ASSUME TypeOK, NEW s \in Sessions, Submit(s) PROVE TypeOK'
<1>1. \A id \in Present(shown[s].codes) : id \in Ids BY DEF Present
<1>2. {"list", "add", "remove", "rename", "settings", "set_auto_lock"} \subseteq Actions BY DEF Actions
<1> QED BY <1>1, <1>2, TypeCommand DEF Submit

LEMMA TypeRead ==
  ASSUME TypeOK, NumberFacts, NEW s \in Sessions, Read(s)
  PROVE  TypeOK'
<1> DEFINE m == op[s].manager
           c == ReadContents(s)
<1>1. op[s] \in Commands /\ m \in Managers /\ names[m] \in Labels /\ log[m] \in Logs
  BY DEF TypeOK, Commands
<1>2. c \in Contents BY ReadTypes
<1>3. LockTypes' BY Parts DEF LockTypes, Read
<1>4. CounterTypes'
  <2>1. Fault \/ UNCHANGED faults BY DEF Read
  <2> QED BY <2>1, FaultTypes DEF TypeOK, CounterTypes, Read
<1> HIDE DEF m, c
<1>5. CASE Refuse(s)
  <2>1. MemoryTypes' BY <1>5, Untouched DEF Refuse
  <2> QED BY <1>3, <1>4, <1>5, <2>1, FailedTypes, PartsNext DEF Refuse, PanelTypes
<1>6. CASE op[s].action = "list" /\ Snapshot(s, c) /\ Finish(s) /\ ~Refuse(s)
  <2> DEFINE labels == [id \in Ids |-> IF c[id] = None THEN None ELSE names[m][id]]
  <2>1. labels \in Labels BY <1>1 DEF Labels
  <2>2. /\ names' = [names EXCEPT ![m] = labels] /\ store' = [names |-> labels, log |-> log[m]]
      /\ UNCHANGED <<log, entered>>
    BY <1>6 DEF Read, m, c
  <2> HIDE DEF labels
  <2>3. MemoryTypes' BY <1>1, <2>1, <2>2 DEF MemoryTypes, TypeOK
  <2> QED BY <1>2, <1>3, <1>4, <1>6, <2>3, FinishTypes, SnapshotTypes, PartsNext DEF PanelTypes
<1>7. CASE op[s].action = "rename" /\ Snapshot(s, c) /\ Finish(s) /\ ~Refuse(s)
  <2> DEFINE labels == [names[m] EXCEPT ![op[s].id] = op[s].name]
  <2>1. labels \in Labels BY <1>1 DEF Labels, Commands
  <2>2. SaveEvent(m, Event(s, "renamed"), labels) BY <1>7 DEF Read, m, c
  <2> HIDE DEF labels
  <2>3. Event(s, "renamed") \in Entries BY EventTypes DEF Read, Active
  <2>4. MemoryTypes' BY <1>1, <2>1, <2>2, <2>3, SaveTypes
  <2> QED BY <1>2, <1>3, <1>4, <1>7, <2>4, FinishTypes, SnapshotTypes, PartsNext DEF PanelTypes
<1>8. CASE op' = [op EXCEPT ![s] = [[@ EXCEPT !.before = c] EXCEPT !.step = "write"]]
           /\ UNCHANGED <<memoryVars, holder, shown>>
  <2>1. [op[s] EXCEPT !.before = c] \in Commands BY <1>1, <1>2, Fields
  <2>2. [[op[s] EXCEPT !.before = c] EXCEPT !.step = "write"] \in Commands BY <2>1, Fields DEF Steps
  <2>3. PanelTypes' BY <1>8, <2>2 DEF PanelTypes, TypeOK
  <2> QED BY <1>3, <1>4, <1>8, <2>3, Untouched, PartsNext
<1> QED BY <1>5, <1>6, <1>7, <1>8 DEF Read, m, c

LEMMA TypeWrite ==
  ASSUME TypeOK, CommandFacts, NumberFacts, NEW s \in Sessions, Write(s)
  PROVE  TypeOK'
<1>1. op[s] \in Commands /\ Active(s) /\ op[s].step = "write" BY DEF TypeOK, Write, Active
<1>2. CounterTypes'
  <2>1. Fault \/ UNCHANGED faults BY DEF Write
  <2> QED BY <2>1, FaultTypes DEF TypeOK, CounterTypes, Write
<1>3. LockTypes'
  <2>1. CASE \E id \in Ids : Apply(s, id) BY <1>1, <2>1, ApplyTypes DEF LockTypes
  <2>2. CASE UNCHANGED lockVars BY <2>2, Untouched
  <2> QED BY <2>1, <2>2 DEF Write
<1>4. CASE Unverified(s)
  BY <1>1, <1>2, <1>3, <1>4, UnverifiedTypes, PartsNext DEF PanelTypes
<1>5. CASE UNCHANGED <<memoryVars, holder, shown>> /\ Goto(s, "list2")
  <2>1. op' \in [Sessions -> Commands] BY <1>5, GotoTypes DEF Steps
  <2>2. PanelTypes' BY <1>5, <2>1 DEF TypeOK, PanelTypes
  <2> QED BY <1>2, <1>3, <1>5, <2>2, Untouched, PartsNext
<1>6. ASSUME UNCHANGED <<memoryVars, holder, shown>>, NEW id \in Ids,
             op' = [op EXCEPT ![s] = [[@ EXCEPT !.acked = id] EXCEPT !.step = "list2"]]
      PROVE  TypeOK'
  <2>1. [op[s] EXCEPT !.acked = id] \in Commands BY <1>1, Fields
  <2>2. [[op[s] EXCEPT !.acked = id] EXCEPT !.step = "list2"] \in Commands BY <2>1, Fields DEF Steps
  <2>3. PanelTypes' BY <1>6, <2>2 DEF TypeOK, PanelTypes
  <2> QED BY <1>2, <1>3, <1>6, <2>3, Untouched, PartsNext
<1> QED BY <1>4, <1>5, <1>6 DEF Write

LEMMA TypeList ==
  ASSUME TypeOK, NEW s \in Sessions, List(s)
  PROVE  TypeOK'
<1>1. LockTypes' BY Untouched DEF List
<1>2. CounterTypes'
  <2>1. Fault \/ UNCHANGED faults BY DEF List
  <2> QED BY <2>1, FaultTypes DEF TypeOK, CounterTypes, List, lockVars
<1>3. CASE ListExchange(s, "read") /\ UNCHANGED <<memoryVars, holder, shown>>
  <2>1. op' \in [Sessions -> Commands] BY <1>3, GotoTypes DEF Steps
  <2>2. PanelTypes' BY <1>3, <2>1 DEF TypeOK, PanelTypes
  <2> QED BY <1>1, <1>2, <1>3, <2>2, Untouched, PartsNext
<1>4. CASE Refuse(s)
  BY <1>1, <1>2, <1>4, FailedTypes, Untouched, PartsNext DEF Refuse, PanelTypes
<1> QED BY <1>3, <1>4 DEF List

LEMMA TypeList2 ==
  ASSUME TypeOK, NumberFacts, NEW s \in Sessions, List2(s)
  PROVE  TypeOK'
<1>1. LockTypes' BY Untouched DEF List2
<1>2. CounterTypes'
  <2>1. Fault \/ UNCHANGED faults BY DEF List2
  <2> QED BY <2>1, FaultTypes DEF TypeOK, CounterTypes, List2, lockVars
<1>3. CASE ListExchange(s, "read2") /\ UNCHANGED <<memoryVars, holder, shown>>
  <2>1. op' \in [Sessions -> Commands] BY <1>3, GotoTypes DEF Steps
  <2>2. PanelTypes' BY <1>3, <2>1 DEF TypeOK, PanelTypes
  <2> QED BY <1>1, <1>2, <1>3, <2>2, Untouched, PartsNext
<1>4. CASE Unverified(s)
  BY <1>1, <1>2, <1>4, UnverifiedTypes, PartsNext DEF List2, Active, PanelTypes
<1> QED BY <1>3, <1>4 DEF List2

LEMMA TypeRead2 ==
  ASSUME TypeOK, CommandFacts, NumberFacts, NEW s \in Sessions, Read2(s)
  PROVE  TypeOK'
<1>1. LockTypes' BY Untouched DEF Read2
<1>2. CounterTypes'
  <2>1. Fault \/ UNCHANGED faults BY DEF Read2
  <2> QED BY <2>1, FaultTypes DEF TypeOK, CounterTypes, Read2, lockVars
<1>3. CASE Unverified(s)
  BY <1>1, <1>2, <1>3, UnverifiedTypes, PartsNext DEF Read2, Active, PanelTypes
<1>4. ASSUME NEW id \in Ids, ~Unverified(s), Finish(s), Snapshot(s, ReadContents(s)),
             SaveEvent(op[s].manager, Event(s, op[s].action),
                [names[op[s].manager] EXCEPT ![id] = IF op[s].action = "add" THEN op[s].name ELSE None])
      PROVE  TypeOK'
  <2> DEFINE labels == [names[op[s].manager] EXCEPT ![id] = IF op[s].action = "add" THEN op[s].name ELSE None]
  <2>1. op[s].action \in {"add", "remove"} /\ op[s].step = "read2" BY DEF CommandFacts, Sound, Read2
  <2>2. Event(s, op[s].action) \in Entries /\ op[s].manager \in Managers BY <2>1, EventTypes DEF Active
  <2>3. op[s].name \in Names \cup {None} /\ names[op[s].manager] \in Labels BY <2>2 DEF TypeOK, Commands
  <2>4. labels \in Labels BY <2>3 DEF Labels
  <2>5. SaveEvent(op[s].manager, Event(s, op[s].action), labels) BY <1>4
  <2> HIDE DEF labels
  <2>6. MemoryTypes' BY <2>2, <2>4, <2>5, SaveTypes
  <2>7. shown' \in [Sessions -> Panels] BY <1>4, ReadTypes, SnapshotTypes
  <2> QED BY <1>1, <1>2, <1>4, <2>6, <2>7, FinishTypes, PartsNext DEF PanelTypes
<1> QED BY <1>3, <1>4 DEF Read2

LEMMA TypeAcquire ==
  ASSUME TypeOK, NEW s \in Sessions, Acquire(s)
  PROVE  TypeOK'
<1>1. op' \in [Sessions -> Commands] BY GotoTypes DEF Acquire, Steps
<1>2. PanelTypes' BY <1>1 DEF TypeOK, PanelTypes, Acquire
<1>3. CounterTypes' BY DEF TypeOK, CounterTypes, Acquire, counters, lockVars
<1> QED BY <1>2, <1>3, Untouched, PartsNext DEF Acquire

LEMMA TypeAutoLockRead ==
  ASSUME TypeOK, NumberFacts, NEW s \in Sessions, AutoLockRead(s)
  PROVE  TypeOK'
<1>1. LockTypes' BY Untouched DEF AutoLockRead
<1>2. CounterTypes'
  <2>1. Fault \/ UNCHANGED faults BY DEF AutoLockRead
  <2>2. bus' \in Sessions \cup {None} BY DEF AutoLockRead, TypeOK
  <2> QED BY <2>1, <2>2, FaultTypes DEF TypeOK, CounterTypes, AutoLockRead, lockVars
<1>3. Active(s) BY DEF AutoLockRead, Active
<1>4. CASE Refuse(s)
  BY <1>1, <1>2, <1>4, FailedTypes, Untouched, PartsNext DEF Refuse, PanelTypes
<1>5. CASE Saved(s)
  BY <1>1, <1>2, <1>3, <1>5, SavedTypes, PartsNext DEF PanelTypes
<1>6. CASE Goto(s, "al_write") /\ UNCHANGED <<memoryVars, holder, shown>>
  <2>1. op' \in [Sessions -> Commands] BY <1>6, GotoTypes DEF Steps
  <2>2. PanelTypes' BY <1>6, <2>1 DEF TypeOK, PanelTypes
  <2> QED BY <1>1, <1>2, <1>6, <2>2, Untouched, PartsNext
<1>7. CASE shown' = [shown EXCEPT ![s].seconds = autoLock] /\ Finish(s) /\ UNCHANGED memoryVars
  <2>1. [shown[s] EXCEPT !.seconds = autoLock] \in Panels BY DEF TypeOK, Panels
  <2>2. shown' \in [Sessions -> Panels] BY <1>7, <2>1 DEF TypeOK
  <2> QED BY <1>1, <1>2, <1>7, <2>2, FinishTypes, Untouched, PartsNext DEF PanelTypes
<1> QED BY <1>4, <1>5, <1>6, <1>7 DEF AutoLockRead

LEMMA TypeAutoLockWrite ==
  ASSUME TypeOK, CommandFacts, NumberFacts, NEW s \in Sessions, AutoLockWrite(s)
  PROVE  TypeOK'
<1>1. op[s] \in Commands /\ Active(s) /\ op[s].step = "al_write" /\ Sound(op[s])
  BY DEF TypeOK, CommandFacts, AutoLockWrite, Active
<1>2. LockTypes'
  <2>1. [op |-> op[s].n, action |-> op[s].action] \in [op : 0..MaxCommands - 1, action : Actions]
    BY <1>1, EventTypes DEF Commands
  <2> QED BY <2>1 DEF AutoLockWrite, LockTypes, TypeOK
<1>3. CounterTypes'
  <2>1. Fault \/ UNCHANGED faults BY DEF AutoLockWrite
  <2>2. autoLock' \in Timeouts BY <1>1 DEF AutoLockWrite, TypeOK, Sound
  <2>3. bus' \in Sessions \cup {None} BY DEF AutoLockWrite, TypeOK
  <2> QED BY <2>1, <2>2, <2>3, FaultTypes DEF TypeOK, CounterTypes, AutoLockWrite
<1>4. CASE Refuse(s)
  BY <1>2, <1>3, <1>4, FailedTypes, Untouched, PartsNext DEF Refuse, PanelTypes
<1>5. CASE Goto(s, "al_verify") /\ UNCHANGED <<memoryVars, holder, shown>>
  <2>1. op' \in [Sessions -> Commands] BY <1>5, GotoTypes DEF Steps
  <2>2. PanelTypes' BY <1>5, <2>1 DEF TypeOK, PanelTypes
  <2> QED BY <1>2, <1>3, <1>5, <2>2, Untouched, PartsNext
<1> QED BY <1>4, <1>5 DEF AutoLockWrite, memoryVars

LEMMA TypeAutoLockVerify ==
  ASSUME TypeOK, NumberFacts, NEW s \in Sessions, AutoLockVerify(s)
  PROVE  TypeOK'
<1>1. LockTypes' BY Untouched DEF AutoLockVerify
<1>2. CounterTypes'
  <2>1. Fault \/ UNCHANGED faults BY DEF AutoLockVerify
  <2> QED BY <2>1, FaultTypes DEF TypeOK, CounterTypes, AutoLockVerify, lockVars
<1>3. Active(s) BY DEF AutoLockVerify, Active
<1>4. CASE Refuse(s)
  BY <1>1, <1>2, <1>4, FailedTypes, Untouched, PartsNext DEF Refuse, PanelTypes
<1>5. CASE Saved(s)
  BY <1>1, <1>2, <1>3, <1>5, SavedTypes, PartsNext DEF PanelTypes
<1> QED BY <1>4, <1>5 DEF AutoLockVerify

LEMMA TypeKeypad == ASSUME TypeOK, Keypad PROVE TypeOK'
<1>1. codes' \in Contents /\ Unique(codes') BY DEF Keypad, TypeOK, Contents, Unique, Present
<1>2. autoLock' \in Timeouts BY DEF Keypad, TypeOK
<1>3. keypad' \in 0..MaxKeypad BY ManagerAssumption DEF Keypad, TypeOK
<1> QED BY <1>1, <1>2, <1>3, Untouched, PartsNext
   DEF Keypad, TypeOK, LockTypes, CounterTypes, PanelTypes

LEMMA TypeReload == ASSUME TypeOK, Reload PROVE TypeOK'
<1>1. manager' \in Managers BY ManagerAssumption DEF Reload, TypeOK, Managers
<1>2. store.names \in Labels /\ store.log \in Logs BY DEF TypeOK
<1>3. MemoryTypes' BY <1>2 DEF Reload, TypeOK, MemoryTypes
<1> QED BY <1>1, <1>3, Untouched, PartsNext
   DEF Reload, TypeOK, CounterTypes, PanelTypes, lockVars, counters

\* Every variable keeps its type.
LEMMA TypeStep == ASSUME TypeOK, CommandFacts, NumberFacts, [Next]_vars PROVE TypeOK'
<1>1. CASE UNCHANGED vars BY <1>1 DEF vars, TypeOK, Unique, Present
<1> QED BY <1>1, TypeSubmit, TypeAcquire, TypeList, TypeRead, TypeWrite, TypeList2, TypeRead2, TypeAutoLockRead,
   TypeAutoLockWrite, TypeAutoLockVerify, TypeKeypad, TypeReload DEF Next, Work

---------------------------------------------------------------------------
(* A command goes on, or it ends.                                          *)

\* What stays the same while a command goes on.
Same(o, p) ==
  /\ o.manager = p.manager /\ o.n = p.n /\ o.action = p.action
  /\ o.id = p.id /\ o.pin = p.pin /\ o.seconds = p.seconds

\* The command of s comes to its next step.
Goes(s) ==
  /\ op' \in [Sessions -> Commands] /\ \A t \in Sessions \ {s} : op'[t] = op[t]
  /\ Same(op'[s], op[s])
  /\ holder' = holder
  /\ \/ op[s].step = "list" /\ op'[s].step = "read"
     \/ op[s].step = "read" /\ op'[s].step = "write" /\ op[s].action \in {"add", "remove"}
     \/ op[s].step = "write" /\ op'[s].step = "list2"
     \/ op[s].step = "list2" /\ op'[s].step = "read2"
     \/ op[s].step = "al_read" /\ op'[s].step = "al_write" /\ op[s].action = "set_auto_lock"
     \/ op[s].step = "al_write" /\ op'[s].step = "al_verify"
  /\ IF op'[s].step = "al_write" THEN bus = None /\ bus' = s ELSE bus' = bus

\* The command of s ends.
Ends(s) ==
  /\ op[s].step \notin {"idle", "queued"}
  /\ Finish(s)
  /\ bus' = IF op[s].step \in {"al_write", "al_verify"} THEN None ELSE bus

\* What the step of a command may be.
LEMMA Moved ==
  ASSUME TypeOK, NEW s \in Sessions, NEW o \in Commands, op' = [op EXCEPT ![s] = o]
  PROVE  /\ op' \in [Sessions -> Commands] /\ \A t \in Sessions \ {s} : op'[t] = op[t]
         /\ op'[s] = o
BY DEF TypeOK

LEMMA GotoMoves ==
  ASSUME TypeOK, NEW s \in Sessions, NEW step \in Steps,
         \/ Goto(s, step)
         \/ ListExchange(s, step)
         \/ \E c \in Contents : op' = [op EXCEPT ![s] = [[@ EXCEPT !.before = c] EXCEPT !.step = step]]
         \/ \E id \in Ids : op' = [op EXCEPT ![s] = [[@ EXCEPT !.acked = id] EXCEPT !.step = step]]
  PROVE  /\ op' \in [Sessions -> Commands] /\ \A t \in Sessions \ {s} : op'[t] = op[t]
         /\ Same(op'[s], op[s]) /\ op'[s].step = step
<1> DEFINE Result(o) == o \in Commands /\ Same(o, op[s]) /\ o.step = step
<1>1. op[s] \in Commands /\ Present(codes) \in SUBSET Ids BY DEF TypeOK, Present
<1>2. CASE Goto(s, step)
  <2>1. Result([op[s] EXCEPT !.step = step]) BY <1>1, Fields DEF Same, Commands
  <2>2. op' = [op EXCEPT ![s] = [op[s] EXCEPT !.step = step]] BY <1>2 DEF Goto, TypeOK
  <2> QED BY <2>1, <2>2, Moved
<1>3. CASE ListExchange(s, step)
  <2> DEFINE o == [op[s] EXCEPT !.listed = Present(codes)]
  <2>1. o \in Commands BY <1>1, Fields
  <2>2. Same(o, op[s]) BY <1>1 DEF Same, Commands
  <2>3. op' = [op EXCEPT ![s] = [o EXCEPT !.step = step]] BY <1>3 DEF ListExchange, TypeOK
  <2> HIDE DEF o
  <2>4. Result([o EXCEPT !.step = step]) BY <2>1, <2>2, Fields DEF Same, Commands
  <2> QED BY <2>3, <2>4, Moved
<1>4. ASSUME NEW c \in Contents, op' = [op EXCEPT ![s] = [[@ EXCEPT !.before = c] EXCEPT !.step = step]]
      PROVE  /\ op' \in [Sessions -> Commands] /\ \A t \in Sessions \ {s} : op'[t] = op[t]
             /\ Result(op'[s])
  <2> DEFINE o == [op[s] EXCEPT !.before = c]
  <2>1. o \in Commands BY <1>1, Fields
  <2>2. Same(o, op[s]) BY <1>1 DEF Same, Commands
  <2>3. op' = [op EXCEPT ![s] = [o EXCEPT !.step = step]] BY <1>4 DEF TypeOK
  <2> HIDE DEF o
  <2>4. Result([o EXCEPT !.step = step]) BY <2>1, <2>2, Fields DEF Same, Commands
  <2> QED BY <2>3, <2>4, Moved
<1>5. ASSUME NEW id \in Ids, op' = [op EXCEPT ![s] = [[@ EXCEPT !.acked = id] EXCEPT !.step = step]]
      PROVE  /\ op' \in [Sessions -> Commands] /\ \A t \in Sessions \ {s} : op'[t] = op[t]
             /\ Result(op'[s])
  <2> DEFINE o == [op[s] EXCEPT !.acked = id]
  <2>1. o \in Commands BY <1>1, Fields
  <2>2. Same(o, op[s]) BY <1>1 DEF Same, Commands
  <2>3. op' = [op EXCEPT ![s] = [o EXCEPT !.step = step]] BY <1>5 DEF TypeOK
  <2> HIDE DEF o
  <2>4. Result([o EXCEPT !.step = step]) BY <2>1, <2>2, Fields DEF Same, Commands
  <2> QED BY <2>3, <2>4, Moved
<1> QED BY <1>2, <1>3, <1>4, <1>5

\* Every step of a command that is past the queue is of one of the two kinds.
LEMMA Kinds ==
  ASSUME TypeOK, NEW s \in Sessions, Work(s), ~Acquire(s)
  PROVE  Goes(s) \/ Ends(s)
<1> USE DEF Steps
<1>1. CASE List(s)
  <2>1. CASE ListExchange(s, "read") /\ UNCHANGED holder
    BY <1>1, <2>1, GotoMoves DEF List, Goes
  <2> QED BY <1>1, <2>1 DEF List, Refuse, Failed, Ends
<1>2. CASE Read(s)
  <2>1. CASE /\ op' = [op EXCEPT ![s] = [[@ EXCEPT !.before = ReadContents(s)] EXCEPT !.step = "write"]]
             /\ UNCHANGED holder /\ op[s].action \in {"add", "remove"}
    BY <1>2, <2>1, GotoMoves, ReadTypes DEF Read, Goes
  <2> QED BY <1>2, <2>1 DEF Read, Refuse, Failed, Ends
<1>3. CASE Write(s)
  <2>1. CASE Goto(s, "list2") /\ UNCHANGED holder
    BY <1>3, <2>1, GotoMoves DEF Write, Goes
  <2>2. CASE /\ \E id \in Ids : op' = [op EXCEPT ![s] = [[@ EXCEPT !.acked = id] EXCEPT !.step = "list2"]]
             /\ UNCHANGED holder
    BY <1>3, <2>2, GotoMoves DEF Write, Goes
  <2> QED BY <1>3, <2>1, <2>2 DEF Write, Unverified, Failed, Ends
<1>4. CASE List2(s)
  <2>1. CASE ListExchange(s, "read2") /\ UNCHANGED holder
    BY <1>4, <2>1, GotoMoves DEF List2, Goes
  <2> QED BY <1>4, <2>1 DEF List2, Unverified, Failed, Ends
<1>5. CASE Read2(s)
  BY <1>5 DEF Read2, Unverified, Failed, Ends
<1>6. CASE AutoLockRead(s)
  <2>1. CASE op[s].action = "set_auto_lock" /\ bus' = s /\ Goto(s, "al_write") /\ UNCHANGED holder
    BY <1>6, <2>1, GotoMoves DEF AutoLockRead, Goes
  <2> QED BY <1>6, <2>1 DEF AutoLockRead, Saved, Refuse, Failed, Ends
<1>7. CASE AutoLockWrite(s)
  <2>1. CASE Goto(s, "al_verify") /\ UNCHANGED <<bus, holder>>
    BY <1>7, <2>1, GotoMoves DEF AutoLockWrite, Goes
  <2> QED BY <1>7, <2>1 DEF AutoLockWrite, Refuse, Failed, Ends
<1>8. CASE AutoLockVerify(s)
  BY <1>8 DEF AutoLockVerify, Saved, Refuse, Failed, Ends
<1> QED BY <1>1, <1>2, <1>3, <1>4, <1>5, <1>6, <1>7, <1>8 DEF Work

\* A session sends a command.
Begins(s) ==
  /\ op[s].step = "idle"
  /\ op' \in [Sessions -> Commands] /\ \A t \in Sessions \ {s} : op'[t] = op[t]
  /\ op'[s].step = "queued" /\ op'[s].manager = manager /\ op'[s].n = commands /\ Sound(op'[s])
  /\ commands' = commands + 1
  /\ UNCHANGED <<lockVars, manager, memoryVars, holder, bus, shown, keypad, faults>>

\* Its command gets the lock of its manager.
Enters(s) ==
  /\ op[s].step = "queued"
  /\ op' \in [Sessions -> Commands] /\ \A t \in Sessions \ {s} : op'[t] = op[t]
  /\ Same(op'[s], op[s]) /\ op'[s].step \in {"list", "al_read"}
  /\ holder[op[s].manager] = None /\ holder' = [holder EXCEPT ![op[s].manager] = s]
  /\ UNCHANGED <<lockVars, manager, memoryVars, bus, shown, counters>>

LEMMA CommandBegins ==
  ASSUME TypeOK, NEW s \in Sessions, NEW action \in Actions, NEW id \in Ids \cup {None}, NEW pin \in Pins \cup {None},
         NEW name \in Names \cup {None}, NEW seconds \in Timeouts \cup {None}, Command(s, action, id, pin, name, seconds),
         action = "add" => pin \in Pins, action = "remove" => id \in Ids, action = "set_auto_lock" => seconds \in Timeouts
  PROVE  Begins(s)
<1> DEFINE o == [step |-> "queued", action |-> action, manager |-> manager, n |-> commands, id |-> id,
                 pin |-> pin, name |-> name, seconds |-> seconds, listed |-> {}, before |-> NoCodes, acked |-> None]
<1>1. o \in Commands BY IdleCommand DEF TypeOK, Commands, Steps
<1>2. Sound(o) BY DEF Sound
<1>3. o.step = "queued" /\ o.manager = manager /\ o.n = commands OBVIOUS
<1>4. op' = [op EXCEPT ![s] = o] BY DEF Command
<1> HIDE DEF o
<1> QED BY <1>1, <1>2, <1>3, <1>4, Moved DEF Begins, Command

LEMMA SubmitBegins == ASSUME TypeOK, NEW s \in Sessions, Submit(s) PROVE Begins(s)
<1>1. \A id \in Present(shown[s].codes) : id \in Ids BY DEF Present
<1>2. {"list", "add", "remove", "rename", "settings", "set_auto_lock"} \subseteq Actions BY DEF Actions
<1> QED BY <1>1, <1>2, CommandBegins DEF Submit

LEMMA AcquireEnters == ASSUME TypeOK, NEW s \in Sessions, Acquire(s) PROVE Enters(s)
BY GotoMoves DEF Acquire, Steps, Enters

\* What an end does to the commands and to the locks.
LEMMA EndsMoves ==
  ASSUME TypeOK, NEW s \in Sessions, Ends(s)
  PROVE  /\ op' \in [Sessions -> Commands] /\ \A t \in Sessions \ {s} : op'[t] = op[t]
         /\ op'[s] = Idle /\ op'[s].step = "idle" /\ op'[s].manager = 0 /\ op'[s].action = "list"
         /\ holder' = [holder EXCEPT ![op[s].manager] = None]
<1>1. op' = [op EXCEPT ![s] = Idle] BY DEF Ends, Finish
<1>2. Idle.step = "idle" /\ Idle.manager = 0 /\ Idle.action = "list" BY DEF Idle
<1> QED BY <1>1, <1>2, IdleCommand, Moved DEF Ends, Finish

\* What the rest of the world leaves alone.
LEMMA WorldLeaves ==
  ASSUME Keypad \/ Reload
  PROVE  UNCHANGED <<op, holder, bus, shown, reached, commands, store>>
BY DEF Keypad, Reload, lockVars, memoryVars, counters

\* One step: a command begins, enters, goes on or ends, or the world moves.
LEMMA StepKinds ==
  ASSUME TypeOK, [Next]_vars
  PROVE  \/ \E s \in Sessions : Begins(s) \/ Enters(s) \/ (Work(s) /\ Goes(s)) \/ (Work(s) /\ Ends(s))
         \/ Keypad \/ Reload \/ UNCHANGED vars
BY SubmitBegins, AcquireEnters, Kinds DEF Next, Work

---------------------------------------------------------------------------
(* The locks.                                                              *)

LEMMA CommandStep == ASSUME TypeOK, CommandFacts, [Next]_vars PROVE CommandFacts'
<1>1. CASE UNCHANGED op BY <1>1 DEF CommandFacts
<1>2. ASSUME NEW s \in Sessions, Begins(s) PROVE CommandFacts'
  BY <1>2 DEF Begins, CommandFacts
<1>3. ASSUME NEW s \in Sessions, Enters(s) PROVE CommandFacts'
  BY <1>3 DEF Enters, CommandFacts, Sound, Same
<1>4. ASSUME NEW s \in Sessions, Goes(s) PROVE CommandFacts'
  BY <1>4 DEF Goes, CommandFacts, Sound, Same
<1>5. ASSUME NEW s \in Sessions, Ends(s) PROVE CommandFacts'
  BY <1>5, EndsMoves DEF CommandFacts, Sound
<1> QED BY <1>1, <1>2, <1>3, <1>4, <1>5, StepKinds, WorldLeaves DEF vars

LEMMA LocksStep == ASSUME TypeOK, LocksFit, [Next]_vars PROVE LocksFit'
<1>1. CASE UNCHANGED <<op, holder, bus>> BY <1>1 DEF LocksFit
<1>2. ASSUME NEW s \in Sessions, Begins(s) PROVE LocksFit'
  BY <1>2 DEF Begins, LocksFit
<1>3. ASSUME NEW s \in Sessions, Enters(s) PROVE LocksFit'
  <2>1. None \notin Sessions /\ op[s].manager \in Managers BY ManagerAssumption DEF TypeOK, Commands
  <2>2. ASSUME NEW t \in Sessions, NEW m \in Managers
        PROVE  holder'[m] = t <=> op'[t].step \notin {"idle", "queued"} /\ op'[t].manager = m
    BY <1>3, <2>1 DEF Enters, LocksFit, Same, TypeOK
  <2>3. ASSUME NEW t \in Sessions PROVE bus' = t <=> op'[t].step \in {"al_write", "al_verify"}
    BY <1>3 DEF Enters, LocksFit
  <2> QED BY <2>2, <2>3 DEF LocksFit
<1>4. ASSUME NEW s \in Sessions, Goes(s) PROVE LocksFit'
  <2>1. None \notin Sessions BY ManagerAssumption
  <2>2. ASSUME NEW t \in Sessions, NEW m \in Managers
        PROVE  holder'[m] = t <=> op'[t].step \notin {"idle", "queued"} /\ op'[t].manager = m
    BY <1>4, <2>1 DEF Goes, LocksFit, Same
  <2>3. ASSUME NEW t \in Sessions PROVE bus' = t <=> op'[t].step \in {"al_write", "al_verify"}
    BY <1>4, <2>1 DEF Goes, LocksFit
  <2> QED BY <2>2, <2>3 DEF LocksFit
<1>5. ASSUME NEW s \in Sessions, Ends(s) PROVE LocksFit'
  <2>1. None \notin Sessions /\ op[s].manager \in Managers BY ManagerAssumption DEF TypeOK, Commands
  <2>2. ASSUME NEW t \in Sessions, NEW m \in Managers
        PROVE  holder'[m] = t <=> op'[t].step \notin {"idle", "queued"} /\ op'[t].manager = m
    BY <1>5, <2>1, EndsMoves DEF Ends, LocksFit, TypeOK
  <2>3. ASSUME NEW t \in Sessions PROVE bus' = t <=> op'[t].step \in {"al_write", "al_verify"}
    BY <1>5, <2>1, EndsMoves DEF Ends, LocksFit
  <2> QED BY <2>2, <2>3 DEF LocksFit
<1> QED BY <1>1, <1>2, <1>3, <1>4, <1>5, StepKinds, WorldLeaves DEF vars

---------------------------------------------------------------------------
(* The management log.                                                     *)

\* The command of s makes an entry.
Records(s) ==
  \E event \in Entries :
    /\ event.op = op[s].n
    /\ log' = [log EXCEPT ![op[s].manager] = Logged(log[op[s].manager], event)]
    /\ entered' = [entered EXCEPT ![op[s].manager] = @ \cup {op[s].n}]

LEMMA SaveRecords ==
  ASSUME TypeOK, NumberFacts, NEW s \in Sessions, Active(s), NEW labels,
         NEW action \in {"unverified", "renamed", "add", "remove", "auto_lock_changed"},
         SaveEvent(op[s].manager, Event(s, action), labels)
  PROVE  Records(s)
<1>1. Event(s, action) \in Entries /\ Event(s, action).op = op[s].n BY EventTypes
<1>2. /\ log' = [log EXCEPT ![op[s].manager] = Logged(log[op[s].manager], Event(s, action))]
      /\ entered' = [entered EXCEPT ![op[s].manager] = @ \cup {Event(s, action).op}]
  BY DEF SaveEvent
<1> QED BY <1>1, <1>2 DEF Records

\* What a step of a command does to the log and to what has reached the lock.
LEMMA WorkRecords ==
  ASSUME TypeOK, CommandFacts, NumberFacts, NEW s \in Sessions, Work(s)
  PROVE  /\ UNCHANGED <<log, entered>> \/ Records(s)
         /\ op[s].step \in {"list2", "read2"} /\ Ends(s) => Records(s)
         /\ op[s].step = "write" /\ Ends(s) => Records(s)
         /\ \/ reached' = reached
            \/ /\ op[s].step \in {"write", "al_write"}
               /\ reached' = reached \cup {[op |-> op[s].n, action |-> op[s].action]}
         /\ UNCHANGED <<manager, commands, keypad>>
<1> USE DEF memoryVars, lockVars, Refuse
<1>1. Unverified(s) /\ Active(s) => Records(s) BY SaveRecords DEF Unverified
<1>2. Saved(s) /\ Active(s) => Records(s) BY SaveRecords DEF Saved
<1>3. CASE Acquire(s) BY <1>3 DEF Acquire, Ends, counters
<1>4. CASE List(s) BY <1>4 DEF List
<1>5. CASE Read(s)
  <2>1. UNCHANGED <<log, entered>> \/ Records(s)
    <3>1. Active(s) BY <1>5 DEF Read, Active
    <3>2. ASSUME NEW labels, SaveEvent(op[s].manager, Event(s, "renamed"), labels) PROVE Records(s)
      BY <3>1, <3>2, SaveRecords
    <3> QED BY <1>5, <3>2 DEF Read
  <2> QED BY <1>5, <2>1 DEF Read
<1>6. CASE Write(s)
  <2>1. Active(s) /\ op[s].step = "write" BY <1>6 DEF Write, Active
  <2>2. Goto(s, "list2") => ~Ends(s)
    BY EndsMoves, GotoMoves DEF Steps
  <2>3. ASSUME NEW id \in Ids, op' = [op EXCEPT ![s] = [[@ EXCEPT !.acked = id] EXCEPT !.step = "list2"]]
        PROVE  ~Ends(s)
    BY <2>3, EndsMoves, GotoMoves DEF Steps
  <2>4. Unverified(s) \/ (UNCHANGED <<log, entered>> /\ ~Ends(s)) BY <1>6, <2>2, <2>3 DEF Write
  <2>5. reached' = reached \/ reached' = reached \cup {[op |-> op[s].n, action |-> op[s].action]}
    BY <1>6 DEF Write, Apply
  <2>6. UNCHANGED <<manager, commands, keypad>> BY <1>6 DEF Write
  <2> QED BY <1>1, <2>1, <2>4, <2>5, <2>6
<1>7. CASE List2(s)
  <2>1. Active(s) /\ op[s].step = "list2" BY <1>7 DEF List2, Active
  <2>2. ListExchange(s, "read2") => ~Ends(s) BY EndsMoves, GotoMoves DEF Steps
  <2>3. Unverified(s) \/ (UNCHANGED <<log, entered>> /\ ~Ends(s)) BY <1>7, <2>2 DEF List2
  <2>4. UNCHANGED <<reached, manager, commands, keypad>> BY <1>7 DEF List2
  <2> QED BY <1>1, <2>1, <2>3, <2>4
<1>8. CASE Read2(s)
  <2>1. Active(s) /\ op[s].step = "read2" /\ op[s].action \in {"add", "remove"}
    BY <1>8 DEF Read2, Active, CommandFacts, Sound
  <2>2. ASSUME NEW labels, SaveEvent(op[s].manager, Event(s, op[s].action), labels) PROVE Records(s)
    BY <2>1, <2>2, SaveRecords
  <2>3. Records(s) BY <1>1, <1>8, <2>1, <2>2 DEF Read2
  <2>4. UNCHANGED <<reached, manager, commands, keypad>> BY <1>8 DEF Read2
  <2> QED BY <2>1, <2>3, <2>4
<1>9. CASE AutoLockRead(s)
  <2>1. Active(s) BY <1>9 DEF AutoLockRead, Active
  <2> QED BY <1>2, <1>9, <2>1 DEF AutoLockRead
<1>10. CASE AutoLockWrite(s)
  BY <1>10 DEF AutoLockWrite
<1>11. CASE AutoLockVerify(s)
  <2>1. Active(s) BY <1>11 DEF AutoLockVerify, Active
  <2> QED BY <1>2, <1>11, <2>1 DEF AutoLockVerify
<1> QED BY <1>3, <1>4, <1>5, <1>6, <1>7, <1>8, <1>9, <1>10, <1>11 DEF Work

LEMMA MemoryStep ==
  ASSUME TypeOK, CommandFacts, NumberFacts, MemoryFacts, [Next]_vars
  PROVE  MemoryFacts'
<1> USE DEF TypeOK, Commands, Managers
<1>0. op' \in [Sessions -> Commands] /\ manager' \in Managers BY TypeStep
<1>1. CASE UNCHANGED <<op, log, manager>> BY <1>1 DEF MemoryFacts
<1>2. ASSUME NEW s \in Sessions, Begins(s) PROVE MemoryFacts'
  <2>1. op'[s].manager = manager' /\ manager' = manager /\ log' = log /\ \A t \in Sessions \ {s} : op'[t] = op[t]
    BY <1>2 DEF Begins, memoryVars
  <2>2. manager \in Int BY ManagerAssumption
  <2> QED BY <2>1, <2>2 DEF MemoryFacts
<1>3. ASSUME NEW s \in Sessions, Enters(s) PROVE MemoryFacts'
  BY <1>3 DEF Enters, MemoryFacts, memoryVars, Same
<1>4. ASSUME NEW s \in Sessions, Work(s), Goes(s) \/ Ends(s) PROVE MemoryFacts'
  <2>1. manager' = manager /\ (UNCHANGED log \/ Records(s)) BY <1>4, WorkRecords
  <2>2. \A m \in Managers : m > manager => m # op[s].manager BY DEF MemoryFacts
  <2>3. \A m \in Managers : m > manager' => log'[m] = NoEvents BY <2>1, <2>2 DEF Records, MemoryFacts
  <2>4. op'[s].manager \in {0, op[s].manager} /\ \A t \in Sessions \ {s} : op'[t] = op[t]
    BY <1>4, EndsMoves DEF Goes, Same
  <2>5. \A t \in Sessions : op'[t].manager <= manager'
    <3>1. manager \in Nat BY ManagerAssumption
    <3>2. op'[s].manager <= manager BY <2>4, <3>1 DEF MemoryFacts
    <3> QED BY <2>1, <2>4, <3>2 DEF MemoryFacts
  <2> QED BY <2>3, <2>5 DEF MemoryFacts
<1>5. CASE Reload
  <2>1. manager' = manager + 1 /\ log' = [log EXCEPT ![manager + 1] = store.log] /\ op' = op
    BY <1>5 DEF Reload
  <2> QED BY <2>1 DEF MemoryFacts
<1>6. CASE Keypad BY <1>6, <1>1 DEF Keypad, memoryVars
<1> QED BY <1>1, <1>2, <1>3, <1>4, <1>5, <1>6, StepKinds DEF vars

LEMMA NumberStep ==
  ASSUME TypeOK, CommandFacts, NumberFacts, [Next]_vars
  PROVE  NumberFacts'
<1> USE DEF TypeOK, Commands
<1>0. op' \in [Sessions -> Commands] BY TypeStep
<1>1. CASE UNCHANGED <<op, reached, commands>> BY <1>1 DEF NumberFacts, Active
<1>2. ASSUME NEW s \in Sessions, Begins(s) PROVE NumberFacts'
  <2>1. commands' = commands + 1 /\ reached' = reached /\ op'[s].n = commands BY <1>2 DEF Begins, lockVars
  <2>2. \A r \in reached : r.op \in Nat OBVIOUS
  <2>3. \A t \in Sessions \ {s} : op'[t] = op[t] BY <1>2 DEF Begins
  <2>4. commands \in Nat /\ \A t \in Sessions : op[t].n \in Nat OBVIOUS
  <2> HIDE DEF TypeOK, Commands
  <2>5. \A t \in Sessions : Active(t)' => op'[t].n < commands' BY <2>1, <2>3, <2>4 DEF NumberFacts, Active
  <2>6. \A t, u \in Sessions : Active(t)' /\ Active(u)' /\ t # u => op'[t].n # op'[u].n
    <3>1. \A t \in Sessions \ {s} : Active(t)' => op'[t].n # commands BY <2>3, <2>4 DEF NumberFacts, Active
    <3> QED BY <2>1, <2>3, <3>1 DEF NumberFacts, Active
  <2>7. \A r \in reached' : r.op < commands' BY <2>1, <2>2, <2>4 DEF NumberFacts
  <2> QED BY <2>5, <2>6, <2>7 DEF NumberFacts
<1>3. ASSUME NEW s \in Sessions, Enters(s) PROVE NumberFacts'
  <2>1. \A t \in Sessions : Active(t)' => Active(t) /\ op'[t].n = op[t].n BY <1>3 DEF Enters, Active, Same
  <2>2. commands' = commands /\ reached' = reached BY <1>3 DEF Enters, lockVars, counters
  <2> HIDE DEF TypeOK, Commands
  <2> QED BY <2>1, <2>2 DEF NumberFacts
<1>4. ASSUME NEW s \in Sessions, Work(s), Goes(s) \/ Ends(s) PROVE NumberFacts'
  <2>1. Active(s) /\ (op'[s].step = "idle" \/ op'[s].n = op[s].n) /\ \A t \in Sessions \ {s} : op'[t] = op[t]
    BY <1>4, EndsMoves DEF Goes, Ends, Same, Active
  <2>2. commands' = commands BY <1>4, WorkRecords
  <2>3. reached' \subseteq reached \cup {[op |-> op[s].n, action |-> op[s].action]} BY <1>4, WorkRecords
  <2> HIDE DEF TypeOK, Commands
  <2>4. \A t \in Sessions : Active(t)' => Active(t) /\ op'[t].n = op[t].n BY <2>1 DEF Active
  <2>5. \A r \in reached' : r.op < commands' BY <2>1, <2>2, <2>3 DEF NumberFacts
  <2> QED BY <2>2, <2>4, <2>5 DEF NumberFacts
<1> QED BY <1>1, <1>2, <1>3, <1>4, StepKinds, WorldLeaves DEF vars

LEMMA ReachedStep ==
  ASSUME TypeOK, CommandFacts, NumberFacts, ReachedFacts, [Next]_vars
  PROVE  ReachedFacts'
<1>1. CASE UNCHANGED <<op, reached>> BY <1>1 DEF ReachedFacts, Active
<1>2. ASSUME NEW s \in Sessions, Begins(s) PROVE ReachedFacts'
  <2>1. reached' = reached /\ op'[s].n = commands BY <1>2 DEF Begins, lockVars
  <2>2. \A r \in reached : r.op \in Nat /\ r.op < commands /\ commands \in Nat BY DEF TypeOK, NumberFacts
  <2> QED BY <1>2, <2>1, <2>2 DEF Begins, ReachedFacts, Active
<1>3. ASSUME NEW s \in Sessions, Enters(s) PROVE ReachedFacts'
  BY <1>3 DEF Enters, ReachedFacts, Active, Same, lockVars
<1>4. ASSUME NEW s \in Sessions, Work(s), Goes(s) \/ Ends(s) PROVE ReachedFacts'
  <2>1. Active(s) /\ (op'[s].step = "idle" \/ op'[s].n = op[s].n) /\ \A t \in Sessions \ {s} : op'[t] = op[t]
    BY <1>4, EndsMoves DEF Goes, Ends, Same, Active
  <2>2. \/ reached' = reached
        \/ /\ op[s].step \in {"write", "al_write"}
           /\ reached' = reached \cup {[op |-> op[s].n, action |-> op[s].action]}
    BY <1>4, WorkRecords
  <2>3. op[s].step = "write" => op'[s].step \in {"idle", "list2"} BY <1>4, EndsMoves DEF Goes
  <2>4. op[s].step = "al_write" => op[s].action = "set_auto_lock" BY DEF CommandFacts, Sound
  <2>5. op[s].step \in {"list2", "read2"} => op'[s].step \in {"idle", "read2"} BY <1>4, EndsMoves DEF Goes
  <2>6. ASSUME NEW t \in Sessions, Active(t)', NEW r \in reached, r.op = op'[t].n
        PROVE  op'[t].step \in {"list2", "read2"} \/ r.action = "set_auto_lock"
    BY <2>1, <2>5, <2>6 DEF ReachedFacts, Active
  <2>7. ASSUME NEW t \in Sessions, Active(t)', op[s].n = op'[t].n, op[s].step \in {"write", "al_write"}
        PROVE  op'[t].step \in {"list2", "read2"} \/ op[s].action = "set_auto_lock"
    <3>1. t = s BY <2>1, <2>7 DEF NumberFacts, Active
    <3> QED BY <2>3, <2>4, <2>7, <3>1 DEF Active
  <2> QED BY <2>2, <2>6, <2>7 DEF ReachedFacts
<1> QED BY <1>1, <1>2, <1>3, <1>4, StepKinds, WorldLeaves DEF vars

\* No step takes a command out of the log but by filling it.
LEMMA RecordedStays ==
  ASSUME TypeOK, CommandFacts, NumberFacts, MemoryFacts, NEW n, Recorded(n), [Next]_vars
  PROVE  Recorded(n)'
<1>1. CASE UNCHANGED <<log, entered>> BY <1>1 DEF Recorded
<1>2. PICK m \in Managers :
        n \in entered[m] /\ (Len(log[m]) = LogSize \/ \E i \in DOMAIN log[m] : log[m][i].op = n)
  BY DEF Recorded
<1>3. ASSUME NEW s \in Sessions, Records(s) PROVE Recorded(n)'
  <2>1. PICK event \in Entries :
          /\ log' = [log EXCEPT ![op[s].manager] = Logged(log[op[s].manager], event)]
          /\ entered' = [entered EXCEPT ![op[s].manager] = @ \cup {op[s].n}]
    BY <1>3 DEF Records
  <2>2. op[s].manager \in Managers /\ log[m] \in Logs BY DEF TypeOK, Commands
  <2>3. n \in entered'[m] BY <1>2, <2>1 DEF TypeOK
  <2>4. CASE op[s].manager # m
    <3>1. log'[m] = log[m] BY <2>1, <2>4 DEF TypeOK
    <3> QED BY <1>2, <2>3, <3>1 DEF Recorded
  <2>5. CASE op[s].manager = m
    <3>1. log'[m] = Logged(log[m], event) BY <2>1, <2>2, <2>5 DEF TypeOK
    <3>2. \/ Len(log'[m]) = LogSize
          \/ \A i \in DOMAIN log[m] : i + 1 \in DOMAIN log'[m] /\ log'[m][i + 1] = log[m][i]
      BY <2>2, <3>1, LoggedEntry
    <3>3. Len(log[m]) = LogSize => Len(log'[m]) = LogSize BY <2>2, <3>1, LoggedEntry
    <3> QED BY <1>2, <2>3, <3>2, <3>3 DEF Recorded
  <2> QED BY <2>4, <2>5
<1>4. CASE Reload
  <2>1. manager + 1 \in Managers /\ manager + 1 > manager BY <1>4, ManagerAssumption DEF Reload, TypeOK, Managers
  <2>2. log[manager + 1] = NoEvents BY <2>1 DEF MemoryFacts
  <2>3. m # manager + 1
    <3>1. Len(NoEvents) # LogSize /\ DOMAIN NoEvents = {} BY ManagerAssumption DEF NoEvents
    <3> QED BY <1>2, <2>2, <3>1
  <2>4. log'[m] = log[m] /\ entered' = entered BY <1>4, <2>3 DEF Reload, TypeOK
  <2> QED BY <1>2, <2>4 DEF Recorded
<1>5. UNCHANGED <<log, entered>> \/ Reload \/ \E s \in Sessions : Records(s)
  BY StepKinds, WorkRecords DEF vars, Begins, Enters, Keypad, memoryVars
<1> QED BY <1>1, <1>3, <1>4, <1>5

LEMMA WritesStep ==
  ASSUME TypeOK, CommandFacts, NumberFacts, MemoryFacts, ReachedFacts, WritesLogged, [Next]_vars
  PROVE  WritesLogged'
<1>1. ASSUME NEW s \in Sessions, Records(s)
      PROVE  \E m \in Managers :
               op[s].n \in entered'[m] /\ \E i \in DOMAIN log'[m] : log'[m][i].op = op[s].n
  <2>1. PICK event \in Entries :
          /\ event.op = op[s].n
          /\ log' = [log EXCEPT ![op[s].manager] = Logged(log[op[s].manager], event)]
          /\ entered' = [entered EXCEPT ![op[s].manager] = @ \cup {op[s].n}]
    BY <1>1 DEF Records
  <2> DEFINE m == op[s].manager
  <2>2. m \in Managers /\ log[m] \in Logs BY DEF TypeOK, Commands
  <2>3. log'[m] = Logged(log[m], event) BY <2>1, <2>2 DEF TypeOK
  <2>4. 1 \in DOMAIN log'[m] /\ log'[m][1].op = op[s].n BY <2>1, <2>2, <2>3, LoggedEntry
  <2>5. op[s].n \in entered'[m] BY <2>1, <2>2 DEF TypeOK
  <2> QED BY <2>2, <2>4, <2>5
<1>2. SUFFICES ASSUME NEW r \in reached', r.action # "set_auto_lock", ~Recorded(r.op)'
               PROVE  Running(r.op)'
  BY DEF WritesLogged
<1>3. ~Recorded(r.op) BY <1>2, RecordedStays
<1>4. CASE UNCHANGED <<op, reached>> BY <1>2, <1>3, <1>4 DEF WritesLogged, Running
<1>5. ASSUME NEW s \in Sessions, Begins(s) PROVE Running(r.op)'
  <2>1. r \in reached BY <1>5, <1>2 DEF Begins, lockVars
  <2>2. PICK t \in Sessions : op[t].step # "idle" /\ op[t].n = r.op BY <1>2, <1>3, <2>1 DEF WritesLogged, Running
  <2>3. op'[t] = op[t] BY <1>5, <2>2 DEF Begins
  <2> QED BY <2>2, <2>3 DEF Running
<1>6. ASSUME NEW s \in Sessions, Enters(s) PROVE Running(r.op)'
  <2>1. r \in reached BY <1>6, <1>2 DEF Enters, lockVars
  <2>2. PICK t \in Sessions : op[t].step # "idle" /\ op[t].n = r.op BY <1>2, <1>3, <2>1 DEF WritesLogged, Running
  <2>3. op'[t].step # "idle" /\ op'[t].n = op[t].n BY <1>6, <2>2 DEF Enters, Same
  <2> QED BY <2>2, <2>3 DEF Running
<1>7. ASSUME NEW s \in Sessions, Work(s), Goes(s) PROVE Running(r.op)'
  <2>1. op'[s].step # "idle" /\ op'[s].n = op[s].n BY <1>7 DEF Goes, Same
  <2>2. r \in reached \/ r.op = op[s].n BY <1>7, <1>2, WorkRecords
  <2>3. CASE r.op = op[s].n BY <2>1, <2>3 DEF Running
  <2>4. CASE r \in reached
    <3>1. PICK t \in Sessions : op[t].step # "idle" /\ op[t].n = r.op BY <1>2, <1>3, <2>4 DEF WritesLogged, Running
    <3>2. op'[t].step # "idle" /\ op'[t].n = op[t].n BY <1>7, <2>1, <3>1 DEF Goes
    <3> QED BY <3>1, <3>2 DEF Running
  <2> QED BY <2>2, <2>3, <2>4
<1>8. ASSUME NEW s \in Sessions, Work(s), Ends(s) PROVE Running(r.op)'
  <2>1. \A t \in Sessions \ {s} : op'[t] = op[t] BY <1>8, EndsMoves
  <2>2. op[s].step \notin {"write", "list2", "read2"} \/ r.op # op[s].n
    <3>1. SUFFICES ASSUME op[s].step \in {"write", "list2", "read2"}, r.op = op[s].n PROVE FALSE OBVIOUS
    <3>2. Records(s) BY <1>8, <3>1, WorkRecords
    <3> QED BY <1>1, <1>2, <3>1, <3>2 DEF Recorded
  <2>3. r \in reached
    <3>1. CASE op[s].step \in {"write", "al_write"} /\ r = [op |-> op[s].n, action |-> op[s].action]
      <4>1. r.op = op[s].n /\ r.action = op[s].action BY <3>1
      <4>2. op[s].step = "al_write" BY <2>2, <3>1, <4>1
      <4> QED BY <1>2, <4>1, <4>2 DEF CommandFacts, Sound
    <3> QED BY <1>2, <1>8, <3>1, WorkRecords
  <2>4. PICK t \in Sessions : op[t].step # "idle" /\ op[t].n = r.op BY <1>2, <1>3, <2>3 DEF WritesLogged, Running
  <2>5. t # s
    <3>1. SUFFICES ASSUME t = s PROVE FALSE OBVIOUS
    <3>2. op[s].step \in {"list2", "read2"} BY <1>2, <2>3, <2>4, <3>1 DEF ReachedFacts, Active
    <3> QED BY <2>2, <2>4, <3>1, <3>2
  <2> QED BY <2>1, <2>4, <2>5 DEF Running
<1> QED BY <1>4, <1>5, <1>6, <1>7, <1>8, StepKinds, WorldLeaves DEF vars

---------------------------------------------------------------------------
(* What a command has seen.                                                *)

\* A command touches its own panel only, and the codes only by its write.
LEMMA WorkLeaves ==
  ASSUME NEW s \in Sessions, Work(s)
  PROVE  /\ codes' = codes \/ op[s].step = "write"
         /\ TypeOK => \A t \in Sessions \ {s} : shown'[t] = shown[t]
<1> USE DEF Refuse, Unverified, Saved, Failed, Snapshot, lockVars, TypeOK
<1>1. CASE Acquire(s) BY <1>1 DEF Acquire
<1>2. CASE List(s) BY <1>2 DEF List
<1>3. CASE Read(s) BY <1>3 DEF Read
<1>4. CASE Write(s) BY <1>4 DEF Write
<1>5. CASE List2(s) BY <1>5 DEF List2
<1>6. CASE Read2(s) BY <1>6 DEF Read2
<1>7. CASE AutoLockRead(s) BY <1>7 DEF AutoLockRead
<1>8. CASE AutoLockWrite(s) BY <1>8 DEF AutoLockWrite
<1>9. CASE AutoLockVerify(s) BY <1>9 DEF AutoLockVerify
<1> QED BY <1>1, <1>2, <1>3, <1>4, <1>5, <1>6, <1>7, <1>8, <1>9 DEF Work

\* The read that precedes a write.
LEMMA ReadGoes ==
  ASSUME TypeOK, NEW s \in Sessions, Work(s), Goes(s), op'[s].step = "write"
  PROVE  /\ op[s].step = "read"
         /\ op'[s].before = ReadContents(s) /\ shown[s].codes = ReadContents(s)
         /\ UNCHANGED <<shown, codes>>
<1>1. op[s].step = "read" BY DEF Goes
<1>2. Read(s)
  BY <1>1 DEF Work, Acquire, List, Write, List2, Read2, AutoLockRead, AutoLockWrite, AutoLockVerify
<1>3. ~Finish(s)
  <2>1. SUFFICES ASSUME Finish(s) PROVE FALSE OBVIOUS
  <2>2. op'[s] = Idle BY <2>1 DEF Finish, TypeOK
  <2> QED BY <2>2 DEF Idle
<1>4. /\ Allowed(s, ReadContents(s)) /\ UNCHANGED <<shown, codes>>
      /\ op' = [op EXCEPT ![s] = [[@ EXCEPT !.before = ReadContents(s)] EXCEPT !.step = "write"]]
  BY <1>2, <1>3 DEF Read, Refuse, Failed
<1>5. [op[s] EXCEPT !.before = ReadContents(s)] \in Commands /\ op[s] \in Commands
  BY ReadTypes, Fields DEF TypeOK
<1>6. [op[s] EXCEPT !.before = ReadContents(s)].before = ReadContents(s) BY <1>5 DEF Commands
<1> DEFINE o == [op[s] EXCEPT !.before = ReadContents(s)]
<1>7. op'[s] = [o EXCEPT !.step = "write"] BY <1>4 DEF TypeOK
<1>8. o \in Commands /\ o.before = ReadContents(s) BY <1>5, <1>6
<1> HIDE DEF o
<1>9. op'[s].before = ReadContents(s) BY <1>7, <1>8 DEF Commands
<1> QED BY <1>1, <1>4, <1>9 DEF Allowed, Current

LEMMA ListGoes ==
  ASSUME TypeOK, NEW s \in Sessions, Work(s), Goes(s), op'[s].step = "read"
  PROVE  op'[s].listed = Present(codes)
<1>1. op[s].step = "list" BY DEF Goes
<1>2. List(s)
  BY <1>1 DEF Work, Acquire, Read, Write, List2, Read2, AutoLockRead, AutoLockWrite, AutoLockVerify
<1>3. ~Finish(s)
  <2>1. SUFFICES ASSUME Finish(s) PROVE FALSE OBVIOUS
  <2>2. op'[s] = Idle BY <2>1 DEF Finish, TypeOK
  <2> QED BY <2>2 DEF Idle
<1>4. ListExchange(s, "read") BY <1>2, <1>3 DEF List, Refuse, Failed
<1> DEFINE o == [op[s] EXCEPT !.listed = Present(codes)]
<1>5. op'[s] = [o EXCEPT !.step = "read"] BY <1>4 DEF ListExchange, TypeOK
<1>6. o \in Commands BY Fields DEF TypeOK, Present
<1>7. o.listed = Present(codes) BY DEF TypeOK, Commands
<1> HIDE DEF o
<1> QED BY <1>5, <1>6, <1>7 DEF Commands

LEMMA ShownStep ==
  ASSUME TypeOK, ShownFacts, [Next]_vars
  PROVE  ShownFacts'
<1>1. CASE UNCHANGED <<op, shown>> BY <1>1 DEF ShownFacts
<1>2. ASSUME NEW s \in Sessions, Begins(s) PROVE ShownFacts'
  BY <1>2 DEF Begins, ShownFacts
<1>3. ASSUME NEW s \in Sessions, Enters(s) PROVE ShownFacts'
  BY <1>3 DEF Enters, ShownFacts
<1>4. ASSUME NEW s \in Sessions, Work(s), Goes(s) \/ Ends(s) PROVE ShownFacts'
  <2>1. \A t \in Sessions \ {s} : shown'[t] = shown[t] /\ op'[t] = op[t] BY <1>4, WorkLeaves, EndsMoves DEF Goes
  <2>2. op'[s].step = "write" => shown'[s].codes = op'[s].before BY <1>4, ReadGoes, EndsMoves
  <2> QED BY <2>1, <2>2 DEF ShownFacts
<1> QED BY <1>1, <1>2, <1>3, <1>4, StepKinds, WorldLeaves DEF vars

LEMMA QuietStep ==
  ASSUME TypeOK, CommandFacts, NumberFacts, LocksFit, MemoryFacts, QuietFacts, [Next]_vars
  PROVE  QuietFacts'
<1>1. SUFFICES ASSUME manager' = 0, keypad' = 0, NEW t \in Sessions
               PROVE  /\ op'[t].step = "write" => codes' = op'[t].before
                      /\ op'[t].step = "read" => op'[t].listed = Present(codes)'
  BY DEF QuietFacts
<1>2. manager = 0 /\ keypad = 0 /\ ~Keypad /\ ~Reload
  <2>1. manager \in Nat /\ keypad \in Nat BY ManagerAssumption DEF TypeOK, Managers
  <2>2. ~Keypad BY <1>1, <2>1 DEF Keypad
  <2>3. ~Reload BY <1>1, <2>1 DEF Reload
  <2>4. UNCHANGED <<manager, keypad>>
    BY <2>2, <2>3, StepKinds, WorkRecords DEF vars, Begins, Enters, counters
  <2> QED BY <1>1, <2>2, <2>3, <2>4
<1>3. /\ op[t].step = "write" => codes = op[t].before
      /\ op[t].step = "read" => op[t].listed = Present(codes)
  BY <1>2 DEF QuietFacts
<1>4. CASE UNCHANGED <<op, codes>> BY <1>3, <1>4 DEF Present
<1>5. ASSUME NEW s \in Sessions, Begins(s) \/ Enters(s)
      PROVE  /\ op'[t].step = "write" => codes' = op'[t].before
             /\ op'[t].step = "read" => op'[t].listed = Present(codes)'
  <2>1. codes' = codes /\ \A u \in Sessions \ {s} : op'[u] = op[u] BY <1>5 DEF Begins, Enters, lockVars
  <2>2. op'[s].step \notin {"write", "read"} BY <1>5 DEF Begins, Enters
  <2> QED BY <1>3, <2>1, <2>2 DEF Present
<1>6. ASSUME NEW s \in Sessions, Work(s), Goes(s) \/ Ends(s)
      PROVE  /\ op'[t].step = "write" => codes' = op'[t].before
             /\ op'[t].step = "read" => op'[t].listed = Present(codes)'
  <2>1. CASE t # s
    <3>1. op'[t] = op[t] BY <1>6, <2>1, EndsMoves DEF Goes
    <3>2. CASE codes' = codes BY <1>3, <3>1, <3>2 DEF Present
    <3>3. CASE op[s].step = "write" /\ op[t].step \in {"write", "read"}
      <4>1. op[s].manager = 0 /\ op[t].manager = 0
        <5>1. \A u \in Sessions : op[u].manager \in Nat /\ op[u].manager <= 0
          BY <1>2, ManagerAssumption DEF TypeOK, Commands, Managers, MemoryFacts
        <5> QED BY <5>1
      <4>2. 0 \in Managers BY ManagerAssumption DEF Managers
      <4>3. holder[0] = s /\ holder[0] = t BY <3>3, <4>1, <4>2 DEF LocksFit
      <4> QED BY <2>1, <4>3
    <3> QED BY <1>6, <3>1, <3>2, <3>3, WorkLeaves
  <2>2. CASE t = s
    <3>1. CASE op'[s].step = "write" /\ Goes(s)
      <4>1. op[s].step = "read" /\ codes' = codes /\ op'[s].before = ReadContents(s) BY <1>6, <3>1, ReadGoes
      <4>2. op[s].listed = Present(codes) BY <1>3, <2>2, <4>1
      <4>3. ReadContents(s) = codes BY <4>2 DEF ReadContents, Present, TypeOK, Contents
      <4> QED BY <2>2, <3>1, <4>1, <4>3
    <3>2. CASE op'[s].step = "read" /\ Goes(s)
      <4>1. op[s].step = "list" BY <3>2 DEF Goes
      <4>2. codes' = codes BY <1>6, <4>1, WorkLeaves
      <4>3. op'[s].listed = Present(codes) BY <1>6, <3>2, ListGoes
      <4> QED BY <2>2, <3>2, <4>2, <4>3 DEF Present
    <3> QED BY <1>6, <2>2, <3>1, <3>2, EndsMoves
  <2> QED BY <2>1, <2>2
<1> QED BY <1>2, <1>4, <1>5, <1>6, StepKinds DEF vars

---------------------------------------------------------------------------
(* The theorems.                                                           *)

LEMMA Initially == Init => IInv
<1> SUFFICES ASSUME Init PROVE IInv OBVIOUS
<1>1. TypeOK
  <2>1. NoCodes \in Labels /\ NoCodes \in Contents BY DEF NoCodes, Labels, Contents
  <2>2. NoEvents \in Logs BY ManagerAssumption DEF NoEvents, Logs
  <2>3. 0 \in Managers /\ 0 \in 0..MaxCommands /\ 0 \in 0..MaxKeypad /\ 0 \in 0..MaxFaults
    BY ManagerAssumption DEF Managers
  <2> QED BY <2>1, <2>2, <2>3, IdleCommand DEF Init, TypeOK
<1>2. \A s \in Sessions : op[s].step = "idle" /\ op[s].manager = 0 /\ op[s].action = "list" BY DEF Init, Idle
<1>3. CommandFacts BY <1>2 DEF CommandFacts, Sound
<1>4. LocksFit BY <1>2, ManagerAssumption DEF LocksFit, Init
<1>5. MemoryFacts BY <1>2 DEF MemoryFacts, Init
<1>6. NumberFacts /\ ReachedFacts /\ WritesLogged
  BY <1>2 DEF NumberFacts, ReachedFacts, WritesLogged, Active, Init
<1>7. ShownFacts /\ QuietFacts BY <1>2 DEF ShownFacts, QuietFacts
<1> QED BY <1>1, <1>3, <1>4, <1>5, <1>6, <1>7 DEF IInv

\* IInv holds in every state, for any sessions, codes, managers and faults.
THEOREM ManagerInvariance == Spec => []IInv
<1>1. ASSUME IInv, [Next]_vars PROVE IInv'
  BY <1>1, TypeStep, CommandStep, LocksStep, MemoryStep, NumberStep, ReachedStep, WritesStep, ShownStep, QuietStep
  DEF IInv
<1> QED BY <1>1, Initially, PTL DEF Spec

\* Both locks are with the command whose step needs them, and a command that
\* has changed the codes has entered it in the management log when it ends, with
\* any number of managers on one lock and whatever the lock answers.
THEOREM NoWriteForgotten == Spec => []Consistent
<1>1. IInv => Consistent BY DEF IInv, Consistent
<1> QED BY <1>1, ManagerInvariance, PTL

\* Who reports success has found exactly the requested change on the lock.
LEMMA ReadBack ==
  ASSUME IInv, NEW s \in Sessions, Read2(s), ~Unverified(s)
  PROVE  /\ \A id \in Present(op[s].before) \ {op[s].id} : codes[id] = op[s].before[id]
         /\ op[s].action = "add" => \E id \in Ids : op[s].before[id] = None /\ codes[id] = op[s].pin
<1>1. /\ op[s] \in Commands /\ op[s].before \in Contents /\ Sound(op[s]) /\ codes \in Contents
      /\ op[s].action \in {"add", "remove"}
  BY DEF IInv, TypeOK, Commands, CommandFacts, Sound, Read2
<1>2. PICK id \in Ids : Verified(s, ReadContents(s), id) BY DEF Read2
<1> DEFINE c == ReadContents(s)
<1>3. \A k \in Ids : c[k] # None => codes[k] = c[k] BY DEF ReadContents
<1>4. CASE op[s].action = "add"
  <2>1. op[s].before[id] = None /\ c = [op[s].before EXCEPT ![id] = op[s].pin] BY <1>2, <1>4 DEF Verified
  <2>2. op[s].pin \in Pins /\ op[s].pin # None BY <1>1, <1>4, ManagerAssumption DEF Sound
  <2>3. c[id] = op[s].pin BY <1>1, <2>1 DEF Contents
  <2>4. codes[id] = op[s].pin BY <1>3, <2>2, <2>3
  <2>5. \A k \in Present(op[s].before) : c[k] = op[s].before[k] /\ c[k] # None
    BY <1>1, <2>1 DEF Contents, Present
  <2> QED BY <1>3, <2>1, <2>4, <2>5 DEF Present
<1>5. CASE op[s].action = "remove"
  <2>1. id = op[s].id /\ c = [op[s].before EXCEPT ![id] = None] BY <1>2, <1>5 DEF Verified
  <2>2. \A k \in Present(op[s].before) \ {op[s].id} : c[k] = op[s].before[k] /\ c[k] # None
    BY <1>1, <2>1 DEF Contents, Present
  <2> QED BY <1>3, <1>5, <2>2 DEF Present
<1> QED BY <1>1, <1>4, <1>5

\* Success is only reported for a change that is on the lock with all other
\* codes as they were, whatever happened at the keypad and on the air.
THEOREM SuccessIsReal == Spec => ChangeVerified
<1>1. ASSUME IInv, [Next]_vars, NEW s \in Sessions, op[s].step = "read2", op'[s].step = "idle",
             log'[op[s].manager][1].action # "unverified"
      PROVE  /\ \A id \in Present(op[s].before) \ {op[s].id} : codes[id] = op[s].before[id]
             /\ op[s].action = "add" => \E id \in Ids : op[s].before[id] = None /\ codes[id] = op[s].pin
  <2>1. TypeOK /\ NumberFacts BY <1>1 DEF IInv
  <2>2. Work(s)
    BY <1>1, <2>1, StepKinds, EndsMoves, WorldLeaves DEF vars, Begins, Enters, Goes
  <2>3. Read2(s)
    BY <1>1, <2>2 DEF Work, Acquire, List, Read, Write, List2, AutoLockRead, AutoLockWrite, AutoLockVerify
  <2>4. ~Unverified(s)
    <3>1. SUFFICES ASSUME Unverified(s) PROVE FALSE OBVIOUS
    <3>2. Event(s, "unverified") \in Entries /\ op[s].manager \in Managers /\ log[op[s].manager] \in Logs
      BY <1>1, <2>1, EventTypes DEF Active, TypeOK
    <3>3. log'[op[s].manager] = Logged(log[op[s].manager], Event(s, "unverified"))
      BY <2>1, <3>1, <3>2 DEF Unverified, SaveEvent, TypeOK
    <3>4. log'[op[s].manager][1] = Event(s, "unverified") BY <3>2, <3>3, LoggedEntry
    <3> QED BY <1>1, <3>4 DEF Event
  <2> QED BY <1>1, <2>3, <2>4, ReadBack
<1>2. ASSUME IInv, [Next]_vars
      PROVE  [\A s \in Sessions :
                LET m == op[s].manager IN
                (op[s].step = "read2" /\ op'[s].step = "idle" /\ log'[m][1].action # "unverified") =>
                  /\ \A id \in Present(op[s].before) \ {op[s].id} : codes[id] = op[s].before[id]
                  /\ op[s].action = "add" =>
                       \E id \in Ids : op[s].before[id] = None /\ codes[id] = op[s].pin]_vars
  BY <1>1, <1>2
<1> QED BY <1>2, ManagerInvariance, PTL DEF Spec, ChangeVerified

\* A write meets the list its user was looking at if nothing but this manager
\* touches the lock, and else if nothing came between its read and its write.
THEOREM WritesWhatWasShown == Spec => WriteAsShown
<1>1. ASSUME IInv, [Next]_vars
      PROVE  [\A s \in Sessions :
                (op[s].step = "write" /\ op'[s] # op[s] /\ (codes = op[s].before \/ (keypad = 0 /\ manager = 0)))
                  => shown[s].codes = codes]_vars
  BY <1>1 DEF IInv, ShownFacts, QuietFacts
<1> QED BY <1>1, ManagerInvariance, PTL DEF Spec, WriteAsShown


---------------------------------------------------------------------------
(* Progress: what CommandsEnd rests on, apart from fairness.               *)

\* The exchanges a command still has before it, at most.
Remaining(step) ==
  CASE step = "idle" -> 0
    [] step = "queued" -> 7
    [] step = "list" -> 6 [] step = "read" -> 5 [] step = "write" -> 4
    [] step = "list2" -> 3 [] step = "read2" -> 2
    [] step = "al_read" -> 3 [] step = "al_write" -> 2 [] step = "al_verify" -> 1

\* No step of a command leads back, whatever the lock answers and whatever the
\* other sessions, the keypad and reloads do (manager.py:112, execute).
CommandsShorten ==
  [][\A s \in Sessions :
       op[s].step # "idle" /\ op'[s] # op[s] => Remaining(op'[s].step) < Remaining(op[s].step)]_vars

\* The asyncio lock is taken before the operation lock: a queued command waits
\* for one that runs, a running one for an exchange of the setting, and that one
\* for nobody (manager.py:112, transport.py:42).
LocksOrdered ==
  /\ \A s \in Sessions : op[s].step = "queued" /\ holder[op[s].manager] # None =>
       op[holder[op[s].manager]].step \notin {"idle", "queued"}
  /\ bus # None => /\ op[bus].step \in {"al_write", "al_verify"}
                   /\ \A s \in Sessions \ {bus} : op[s].step \notin {"al_write", "al_verify"}

LEMMA StepValues ==
  ASSUME NEW o \in Commands
  PROVE  /\ o.step \in Steps
         /\ Remaining("idle") = 0 /\ Remaining("queued") = 7
         /\ Remaining("list") = 6 /\ Remaining("read") = 5 /\ Remaining("write") = 4
         /\ Remaining("list2") = 3 /\ Remaining("read2") = 2
         /\ Remaining("al_read") = 3 /\ Remaining("al_write") = 2 /\ Remaining("al_verify") = 1
BY DEF Remaining, Commands

\* Every command, of any session of any manager, is at its end after at most
\* seven steps of its own.
THEOREM CommandsComeToAnEnd == Spec => CommandsShorten
<1>1. ASSUME IInv, [Next]_vars, NEW s \in Sessions, op[s].step # "idle", op'[s] # op[s]
      PROVE  Remaining(op'[s].step) < Remaining(op[s].step)
  <2>1. TypeOK /\ op[s] \in Commands BY <1>1 DEF IInv, TypeOK
  <2>2. ASSUME NEW t \in Sessions, Begins(t) PROVE FALSE
    BY <1>1, <2>2 DEF Begins
  <2>3. ASSUME NEW t \in Sessions, Enters(t) PROVE Remaining(op'[s].step) < Remaining(op[s].step)
    BY <1>1, <2>1, <2>3, StepValues DEF Enters
  <2>4. ASSUME NEW t \in Sessions, Goes(t) PROVE Remaining(op'[s].step) < Remaining(op[s].step)
    BY <1>1, <2>1, <2>4, StepValues DEF Goes
  <2>5. ASSUME NEW t \in Sessions, Ends(t) PROVE Remaining(op'[s].step) < Remaining(op[s].step)
    <3>1. t = s /\ op'[s].step = "idle" BY <1>1, <2>1, <2>5, EndsMoves
    <3> QED BY <1>1, <2>1, <3>1, StepValues DEF Steps
  <2> QED BY <1>1, <2>1, <2>2, <2>3, <2>4, <2>5, StepKinds, WorldLeaves DEF vars
<1>2. IInv /\ [Next]_vars =>
        [\A s \in Sessions :
           op[s].step # "idle" /\ op'[s] # op[s] => Remaining(op'[s].step) < Remaining(op[s].step)]_vars
  BY <1>1
<1> QED BY <1>2, ManagerInvariance, PTL DEF Spec, CommandsShorten

\* Nobody waits in a circle, with any number of sessions and managers.
THEOREM NoCircularWait == Spec => []LocksOrdered
<1>1. ASSUME IInv PROVE LocksOrdered
  <2>1. TypeOK /\ LocksFit BY <1>1 DEF IInv
  <2>2. ASSUME NEW s \in Sessions, holder[op[s].manager] # None
        PROVE  op[holder[op[s].manager]].step \notin {"idle", "queued"}
    <3>1. op[s].manager \in Managers /\ holder[op[s].manager] \in Sessions BY <2>1, <2>2 DEF TypeOK, Commands
    <3> QED BY <2>1, <3>1 DEF LocksFit
  <2>3. ASSUME bus # None
        PROVE  /\ op[bus].step \in {"al_write", "al_verify"}
               /\ \A s \in Sessions \ {bus} : op[s].step \notin {"al_write", "al_verify"}
    BY <2>1, <2>3 DEF LocksFit, TypeOK
  <2> QED BY <2>2, <2>3 DEF LocksOrdered
<1> QED BY <1>1, ManagerInvariance, PTL
=============================================================================
