--------------------------- MODULE SchlageManager ---------------------------
(***************************************************************************)
(* The Home Assistant integration that manages the keypad codes of a lock: *)
(* schlage_local/manager.py (execute, _read, _save_event), transport.py    *)
(* (one exchange over Bluetooth, the auto-lock setting) and __init__.py    *)
(* (a reload makes a new Manager from the store).                          *)
(*                                                                         *)
(* One lock.  A code is its identifier and its content (PIN and flags).    *)
(* Each exchange with the lock is one step; between two of them codes may  *)
(* change at the keypad.  The lock lists identifiers only, as the          *)
(* supported model does, and their contents are read next.                 *)
(***************************************************************************)
EXTENDS Integers, Sequences

CONSTANTS Sessions,     \* browser sessions of administrators
          Ids,          \* identifiers the lock assigns; their number is its capacity
          Pins,
          Names,
          Timeouts,     \* auto-lock timeouts
          LogSize,      \* 200
          None,
          MaxCommands,  \* bound on the commands submitted
          MaxKeypad,    \* bound on changes made at the lock itself
          MaxFaults,    \* bound on exchanges that fail or lie
          MaxReloads    \* bound on reloads of the integration

ASSUME ManagerAssumption ==
  /\ None \notin Sessions \cup Ids \cup Pins \cup Names \cup Timeouts
  /\ LogSize \in Nat \ {0}
  /\ {MaxCommands, MaxKeypad, MaxFaults, MaxReloads} \subseteq Nat
  /\ Timeouts # {}

VARIABLES codes,     \* codes[id]: the content of that code on the lock, or None
          autoLock,  \* the auto-lock timeout on the lock
          manager,   \* the number of the manager that serves new commands
          names,     \* names[m]: the labels in manager m's memory
          log,       \* log[m]: the management log in its memory, newest first
          store,     \* .storage/schlage_local: labels and log
          holder,    \* holder[m]: the session with manager m's asyncio lock
          bus,       \* the session with the pairing's operation lock, across exchanges
          op,        \* op[s]: the command of session s
          shown,     \* shown[s]: the snapshot its panel may edit, and the timeout in its dialog
          commands, keypad, faults,  \* counters for the bounds
          reached,   \* history: commands that have changed the lock
          entered    \* history: entered[m]: commands that made an entry in manager m's log

vars == <<codes, autoLock, manager, names, log, store, holder, bus, op, shown,
          commands, keypad, faults, reached, entered>>
lockVars == <<codes, autoLock, reached>>
memoryVars == <<names, log, store, entered>>
counters == <<commands, keypad, faults>>

Managers == 0..MaxReloads
Contents == [Ids -> Pins \cup {None}]
Present(c) == {id \in Ids : c[id] # None}
\* The lock refuses a PIN it has already.
Unique(c) == \A a, b \in Present(c) : c[a] = c[b] => a = b
Actions == {"list", "add", "remove", "rename", "settings", "set_auto_lock"}
Steps == {"idle", "queued", "list", "read", "write", "list2", "read2",
          "al_read", "al_write", "al_verify"}

NoCodes == [id \in Ids |-> None]
NoEvents == <<>>
Idle == [step |-> "idle", action |-> "list", manager |-> 0, n |-> 0, id |-> None, pin |-> None,
         name |-> None, seconds |-> None, listed |-> {}, before |-> NoCodes, acked |-> None]
NotShown == [manager |-> None, codes |-> NoCodes, seconds |-> None]

Init ==
  /\ codes \in {c \in Contents : Unique(c)}
  /\ autoLock \in Timeouts
  /\ manager = 0
  /\ names = [m \in Managers |-> NoCodes]
  /\ log = [m \in Managers |-> NoEvents]
  /\ store = [names |-> NoCodes, log |-> NoEvents]
  /\ holder = [m \in Managers |-> None]
  /\ bus = None
  /\ op = [s \in Sessions |-> Idle]
  /\ shown = [s \in Sessions |-> NotShown]
  /\ commands = 0 /\ keypad = 0 /\ faults = 0
  /\ reached = {}
  /\ entered = [m \in Managers |-> {}]

---------------------------------------------------------------------------
(* Memory and results.                                                     *)

\* An entry of the log; op is the number of the command it stems from.
Event(s, action) == [op |-> op[s].n, action |-> action]

\* The log with a new entry; the oldest goes when it is full.
Logged(events, event) ==
  SubSeq(<<event>> \o events, 1, IF Len(events) < LogSize THEN Len(events) + 1 ELSE LogSize)

\* _save_event, with the labels as they then are.
SaveEvent(m, event, labels) ==
  LET events == Logged(log[m], event)
  IN /\ names' = [names EXCEPT ![m] = labels]
     /\ log' = [log EXCEPT ![m] = events]
     /\ store' = [names |-> labels, log |-> events]
     /\ entered' = [entered EXCEPT ![m] = @ \cup {event.op}]

\* Mutant: the lock is kept when the command ends.
FinishHolding(s) ==
  /\ op' = [op EXCEPT ![s] = Idle]
  /\ holder' = holder

\* Leaving `async with' by a return or an exception.
Finish(s) ==
  /\ op' = [op EXCEPT ![s] = Idle]
  /\ holder' = [holder EXCEPT ![op[s].manager] = None]

\* The panel after an error: its list is stale until the next one.  A settings
\* dialog is modal and reads the timeout again when it is opened or has failed.
Failed(s) ==
  /\ Finish(s)
  /\ shown' = [shown EXCEPT ![s] = IF op[s].action \in {"settings", "set_auto_lock"}
                                  THEN [@ EXCEPT !.seconds = None]
                                  ELSE NotShown]

\* Mutant: an unverified change is not recorded.
UnverifiedUnlogged(s) == Failed(s) /\ UNCHANGED memoryVars

\* The `except Exception' branch around a write.
Unverified(s) ==
  /\ SaveEvent(op[s].manager, Event(s, "unverified"), names[op[s].manager])
  /\ Failed(s)

\* An error before any write.
Refuse(s) == Failed(s) /\ UNCHANGED memoryVars

Snapshot(s, c) ==
  shown' = [shown EXCEPT ![s] = [manager |-> op[s].manager, codes |-> c, seconds |-> @.seconds]]

Fault == faults < MaxFaults /\ faults' = faults + 1
Exchange(s) == bus \in {None, s}
Goto(s, step) == op' = [op EXCEPT ![s].step = step]

---------------------------------------------------------------------------
(* The panel and the asyncio lock.                                         *)

Command(s, action, id, pin, name, seconds) ==
  /\ op[s].step = "idle"
  /\ commands < MaxCommands
  /\ commands' = commands + 1
  /\ op' = [op EXCEPT ![s] =
             [step |-> "queued", action |-> action, manager |-> manager, n |-> commands, id |-> id,
              pin |-> pin, name |-> name, seconds |-> seconds, listed |-> {}, before |-> NoCodes,
              acked |-> None]]
  /\ UNCHANGED <<lockVars, manager, memoryVars, holder, bus, shown, keypad, faults>>

\* The panel offers edits of a list that is not stale, and a timeout in a
\* dialog that has read it.
Submit(s) ==
  \/ Command(s, "list", None, None, None, None)
  \/ /\ shown[s].manager # None
     /\ \/ \E pin \in Pins, name \in Names : Command(s, "add", None, pin, name, None)
        \/ \E id \in Present(shown[s].codes) : Command(s, "remove", id, None, None, None)
        \/ \E id \in Present(shown[s].codes), name \in Names : Command(s, "rename", id, None, name, None)
  \/ Command(s, "settings", None, None, None, None)
  \/ /\ shown[s].seconds # None
     /\ \E seconds \in Timeouts : Command(s, "set_auto_lock", None, None, None, seconds)

Acquire(s) ==
  /\ op[s].step = "queued"
  /\ holder[op[s].manager] = None
  /\ holder' = [holder EXCEPT ![op[s].manager] = s]
  /\ Goto(s, IF op[s].action \in {"settings", "set_auto_lock"} THEN "al_read" ELSE "list")
  /\ UNCHANGED <<lockVars, manager, memoryVars, bus, shown, counters>>

---------------------------------------------------------------------------
(* _read: the identifiers, then their contents.                            *)

ListExchange(s, next) ==
  /\ Exchange(s)
  /\ op' = [op EXCEPT ![s] = [[@ EXCEPT !.listed = Present(codes)] EXCEPT !.step = next]]

\* The contents of the listed identifiers, all of which must still be there.
ReadContents(s) == [id \in Ids |-> IF id \in op[s].listed THEN codes[id] ELSE None]
ReadMatches(s) == op[s].listed \subseteq Present(codes)

List(s) ==
  /\ op[s].step = "list"
  /\ \/ ListExchange(s, "read") /\ UNCHANGED <<memoryVars, holder, shown, faults>>
     \/ Exchange(s) /\ Fault /\ Refuse(s)
  /\ UNCHANGED <<lockVars, manager, bus, commands, keypad>>

\* Mutant: the revision covers the identifiers only.
CurrentIds(s, c) == shown[s].manager = op[s].manager /\ Present(shown[s].codes) = Present(c)

\* The revision the panel sends was computed by this manager from these codes.
Current(s, c) == shown[s].manager = op[s].manager /\ shown[s].codes = c

Allowed(s, c) ==
  /\ Current(s, c)
  /\ op[s].action \in {"remove", "rename"} => c[op[s].id] # None
  /\ op[s].action = "add" => \E id \in Ids : c[id] = None
  /\ op[s].action = "add" => \A id \in Ids : c[id] # op[s].pin

\* The end of the first read, and what is decided from it without an await.
Read(s) ==
  LET m == op[s].manager
      c == ReadContents(s)
  IN
  /\ op[s].step = "read"
  /\ op[s].listed = {} \/ Exchange(s)
  /\ \/ /\ ~ReadMatches(s) \/ (op[s].action # "list" /\ ~Allowed(s, c))
        /\ Refuse(s) /\ UNCHANGED faults
     \/ op[s].listed # {} /\ Fault /\ Refuse(s)
     \/ /\ ReadMatches(s) /\ op[s].action = "list"
        /\ LET labels == [id \in Ids |-> IF c[id] = None THEN None ELSE names[m][id]]
           IN /\ names' = [names EXCEPT ![m] = labels]
              /\ store' = [names |-> labels, log |-> log[m]]
        /\ Snapshot(s, c) /\ Finish(s) /\ UNCHANGED <<log, entered, faults>>
     \/ /\ ReadMatches(s) /\ op[s].action = "rename" /\ Allowed(s, c)
        /\ SaveEvent(m, Event(s, "renamed"), [names[m] EXCEPT ![op[s].id] = op[s].name])
        /\ Snapshot(s, c) /\ Finish(s) /\ UNCHANGED faults
     \/ /\ ReadMatches(s) /\ op[s].action \in {"add", "remove"} /\ Allowed(s, c)
        /\ op' = [op EXCEPT ![s] = [[@ EXCEPT !.before = c] EXCEPT !.step = "write"]]
        /\ UNCHANGED <<memoryVars, holder, shown, faults>>
  /\ UNCHANGED <<codes, autoLock, reached, manager, bus, commands, keypad>>

---------------------------------------------------------------------------
(* The write and its verification.                                         *)

\* The lock carries out the command; it assigns any free identifier.
Apply(s, id) ==
  /\ IF op[s].action = "add"
     THEN /\ codes[id] = None
          /\ codes' = [codes EXCEPT ![id] = op[s].pin]
          /\ Unique(codes')
     ELSE /\ id = op[s].id
          /\ codes[id] # None
          /\ codes' = [codes EXCEPT ![id] = None]
  /\ reached' = reached \cup {[op |-> op[s].n, action |-> op[s].action]}

\* Acknowledged, acknowledged illegibly, refused, or no answer; the last two
\* outcomes leave the command's effect open or absent.
Write(s) ==
  /\ op[s].step = "write"
  /\ Exchange(s)
  /\ \/ /\ \E id \in Ids :
             /\ Apply(s, id)
             /\ \/ /\ op' = [op EXCEPT ![s] = [[@ EXCEPT !.acked = id] EXCEPT !.step = "list2"]]
                   /\ UNCHANGED faults
                \/ Goto(s, "list2") /\ Fault
        /\ UNCHANGED <<memoryVars, holder, shown>>
     \/ /\ Fault
        /\ Goto(s, "list2")
        /\ UNCHANGED <<lockVars, memoryVars, holder, shown>>
     \/ /\ Fault
        /\ UNCHANGED lockVars \/ \E id \in Ids : Apply(s, id)
        /\ Unverified(s)
     \/ /\ op[s].action = "remove" /\ codes[op[s].id] = None
        /\ Unverified(s)
        /\ UNCHANGED <<lockVars, faults>>
     \/ /\ op[s].action = "add"
        /\ Present(codes) = Ids \/ \E id \in Ids : codes[id] = op[s].pin
        /\ Unverified(s)
        /\ UNCHANGED <<lockVars, faults>>
  /\ UNCHANGED <<autoLock, manager, bus, commands, keypad>>

List2(s) ==
  /\ op[s].step = "list2"
  /\ \/ ListExchange(s, "read2") /\ UNCHANGED <<memoryVars, holder, shown, faults>>
     \/ Exchange(s) /\ Fault /\ Unverified(s)
  /\ UNCHANGED <<lockVars, manager, bus, commands, keypad>>

\* Mutant: the read-back only looks for the code that was added or removed.
VerifiedAlone(s, c, id) ==
  IF op[s].action = "add" THEN c[id] = op[s].pin ELSE id = op[s].id /\ c[id] = None

\* The read-back is the list before with exactly the requested change at id.
Verified(s, c, id) ==
  /\ op[s].acked \in {None, id}
  /\ IF op[s].action = "add"
     THEN op[s].before[id] = None /\ c = [op[s].before EXCEPT ![id] = op[s].pin]
     ELSE id = op[s].id /\ c = [op[s].before EXCEPT ![id] = None]

Read2(s) ==
  LET m == op[s].manager
      c == ReadContents(s)
      done == {id \in Ids : Verified(s, c, id)}
  IN
  /\ op[s].step = "read2"
  /\ op[s].listed = {} \/ Exchange(s)
  /\ \/ (~ReadMatches(s) \/ done = {}) /\ Unverified(s) /\ UNCHANGED faults
     \/ op[s].listed # {} /\ Fault /\ Unverified(s)
     \/ /\ ReadMatches(s)
        /\ \E id \in done :
             SaveEvent(m, Event(s, op[s].action),
                       [names[m] EXCEPT ![id] = IF op[s].action = "add" THEN op[s].name ELSE None])
        /\ Snapshot(s, c) /\ Finish(s) /\ UNCHANGED faults
  /\ UNCHANGED <<lockVars, manager, bus, commands, keypad>>

---------------------------------------------------------------------------
(* Transport.auto_lock: compare and set under the operation lock.          *)

\* The setting is as requested; the dialog closes.
Saved(s) ==
  /\ SaveEvent(op[s].manager, Event(s, "auto_lock_changed"), names[op[s].manager])
  /\ shown' = [shown EXCEPT ![s].seconds = None]
  /\ Finish(s)

AutoLockRead(s) ==
  /\ op[s].step = "al_read"
  /\ bus = None
  /\ \/ /\ op[s].action = "settings"
        /\ shown' = [shown EXCEPT ![s].seconds = autoLock]
        /\ Finish(s) /\ UNCHANGED <<memoryVars, bus, faults>>
     \/ /\ op[s].action = "set_auto_lock" /\ shown[s].seconds = autoLock
        /\ \/ /\ op[s].seconds # autoLock
              /\ bus' = s /\ Goto(s, "al_write")
              /\ UNCHANGED <<memoryVars, holder, shown>>
           \/ op[s].seconds = autoLock /\ Saved(s) /\ UNCHANGED bus
        /\ UNCHANGED faults
     \/ /\ op[s].action = "set_auto_lock" /\ shown[s].seconds # autoLock
        /\ Refuse(s) /\ UNCHANGED <<bus, faults>>
     \/ Fault /\ Refuse(s) /\ UNCHANGED bus
  /\ UNCHANGED <<lockVars, manager, commands, keypad>>

AutoLockWrite(s) ==
  /\ op[s].step = "al_write"
  /\ \/ /\ autoLock' = op[s].seconds /\ reached' = reached \cup {[op |-> op[s].n, action |-> op[s].action]}
        /\ Goto(s, "al_verify")
        /\ UNCHANGED <<bus, holder, memoryVars, shown, faults>>
     \/ /\ Fault
        /\ \/ UNCHANGED <<autoLock, reached>>
           \/ autoLock' = op[s].seconds /\ reached' = reached \cup {[op |-> op[s].n, action |-> op[s].action]}
        /\ bus' = None /\ Refuse(s)
  /\ UNCHANGED <<codes, manager, commands, keypad>>

AutoLockVerify(s) ==
  /\ op[s].step = "al_verify"
  /\ bus' = None
  /\ \/ autoLock = op[s].seconds /\ Saved(s) /\ UNCHANGED faults
     \/ autoLock # op[s].seconds /\ Refuse(s) /\ UNCHANGED faults
     \/ Fault /\ Refuse(s)
  /\ UNCHANGED <<lockVars, manager, commands, keypad>>

---------------------------------------------------------------------------
(* The rest of the world.                                                  *)

\* Somebody adds, replaces or removes a code at the lock, or its setting.
Keypad ==
  /\ keypad < MaxKeypad
  /\ keypad' = keypad + 1
  /\ \/ /\ \E id \in Ids, pin \in Pins \cup {None} :
             /\ codes[id] # pin
             /\ codes' = [codes EXCEPT ![id] = pin]
             /\ Unique(codes')
        /\ UNCHANGED autoLock
     \/ /\ \E t \in Timeouts \ {autoLock} : autoLock' = t
        /\ UNCHANGED codes
  /\ UNCHANGED <<manager, memoryVars, holder, bus, op, shown, commands, faults, reached>>

\* The integration is reloaded: a new Manager reads the store; commands of the
\* old one go on.
Reload ==
  /\ manager < MaxReloads
  /\ manager' = manager + 1
  /\ names' = [names EXCEPT ![manager + 1] = store.names]
  /\ log' = [log EXCEPT ![manager + 1] = store.log]
  /\ UNCHANGED <<lockVars, store, entered, holder, bus, op, shown, counters>>

---------------------------------------------------------------------------

Work(s) ==
  \/ Acquire(s) \/ List(s) \/ Read(s) \/ Write(s) \/ List2(s) \/ Read2(s)
  \/ AutoLockRead(s) \/ AutoLockWrite(s) \/ AutoLockVerify(s)

Next ==
  \/ \E s \in Sessions : Submit(s) \/ Work(s)
  \/ Keypad
  \/ Reload

Spec == Init /\ [][Next]_vars

\* Exchanges end (asyncio.timeout), and the event loop runs every task; a
\* waiter of an asyncio lock or of the operation lock is served in turn.
LiveSpec == Spec /\ \A s \in Sessions : WF_vars(Work(s)) /\ SF_vars(Acquire(s))

---------------------------------------------------------------------------
(* Properties.                                                             *)

Entries == [op : 0..MaxCommands - 1,
            action : {"unverified", "renamed", "add", "remove", "auto_lock_changed"}]
Labels == [Ids -> Names \cup {None}]
Logs == {events \in Seq(Entries) : Len(events) <= LogSize}
Commands == [step : Steps, action : Actions, manager : Managers, n : 0..MaxCommands,
             id : Ids \cup {None}, pin : Pins \cup {None}, name : Names \cup {None},
             seconds : Timeouts \cup {None}, listed : SUBSET Ids, before : Contents,
             acked : Ids \cup {None}]
Panels == [manager : Managers \cup {None}, codes : Contents, seconds : Timeouts \cup {None}]

TypeOK ==
  /\ codes \in Contents /\ Unique(codes)
  /\ autoLock \in Timeouts
  /\ manager \in Managers
  /\ names \in [Managers -> Labels]
  /\ log \in [Managers -> Logs]
  /\ store \in [names : Labels, log : Logs]
  /\ holder \in [Managers -> Sessions \cup {None}]
  /\ bus \in Sessions \cup {None}
  /\ op \in [Sessions -> Commands]
  /\ shown \in [Sessions -> Panels]
  /\ commands \in 0..MaxCommands /\ keypad \in 0..MaxKeypad /\ faults \in 0..MaxFaults
  /\ reached \subseteq [op : 0..MaxCommands - 1, action : Actions]
  /\ entered \in [Managers -> SUBSET (0..MaxCommands - 1)]

\* A manager's lock is with the command of its session that runs, the operation
\* lock with the one that changes the setting.
LocksFit ==
  \A s \in Sessions :
    /\ \A m \in Managers : holder[m] = s <=> op[s].step \notin {"idle", "queued"} /\ op[s].manager = m
    /\ bus = s <=> op[s].step \in {"al_write", "al_verify"}

\* Success is reported only when the code is on the lock (or, removed, was not
\* listed), and every other code that was there before is there unchanged,
\* whatever happened at the keypad meanwhile and whatever the lock answered
\* (manager.py:189, the read-back after a write).
ChangeVerified ==
  [][\A s \in Sessions :
       LET m == op[s].manager IN
       (op[s].step = "read2" /\ op'[s].step = "idle" /\ log'[m][1].action # "unverified") =>
         /\ \A id \in Present(op[s].before) \ {op[s].id} : codes[id] = op[s].before[id]
         /\ op[s].action = "add" =>
              \E id \in Ids : op[s].before[id] = None /\ codes[id] = op[s].pin
     ]_vars

\* A write meets the list of codes its user was looking at: at least when
\* nothing but this manager touches the lock, and otherwise unless the list
\* changed between the command's own read and its write.
WriteAsShown ==
  [][\A s \in Sessions :
       (op[s].step = "write" /\ op'[s] # op[s] /\ (codes = op[s].before \/ (keypad = 0 /\ manager = 0)))
         => shown[s].codes = codes]_vars

Running(n) == \E s \in Sessions : op[s].step # "idle" /\ op[s].n = n
\* It made an entry, and only a log that is full may have dropped that since.
Recorded(n) ==
  \E m \in Managers :
    /\ n \in entered[m]
    /\ Len(log[m]) = LogSize \/ \E i \in DOMAIN log[m] : log[m][i].op = n

\* Whatever the lock answers, a command that has changed the codes on the lock
\* is in the management log when it ends (manager.py:206, the exception branch
\* around a write; Home Assistant keeps running).
WritesLogged ==
  \A r \in reached : r.action # "set_auto_lock" => Running(r.op) \/ Recorded(r.op)

\* Both locks are with the command whose step needs them, all the time and in
\* each manager, and no write is forgotten.
Consistent == TypeOK /\ LocksFit /\ WritesLogged

\* Every command ends and frees the locks it holds, in every interleaving, a
\* reload with two managers on one lock included (manager.py:112, transport.py:42).
CommandsEnd == \A s \in Sessions : op[s].step # "idle" ~> op[s].step = "idle"
============================================================================
