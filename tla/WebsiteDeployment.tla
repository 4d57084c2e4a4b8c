-------------------------- MODULE WebsiteDeployment --------------------------
(***************************************************************************)
(* The website updater: class Deployment of                                *)
(* packages/website-updater/src/deployment.ts, driven by cli.ts.           *)
(*                                                                         *)
(* state.json is a journal.  An activation writes its intent (`pending'),  *)
(* switches the `current' symlink, checks the health of the site, and      *)
(* writes the outcome; the next operation recovers an activation that was  *)
(* cut short.  Each action is one durable step of the file system, and an  *)
(* operation can stop between any two of them: an exception, a kill, the   *)
(* unit's timeout, or a power failure.  The in-memory state is written     *)
(* right after each assignment, so it is state.json at every step.         *)
(*                                                                         *)
(* A generation is its GitHub release id; its tag and commit are one to    *)
(* one with it.  A tree is "whole" when its files match the inventory.     *)
(***************************************************************************)
EXTENDS Naturals, FiniteSets

CONSTANTS
    Releases,   \* website releases, by id
    None,       \* the JavaScript null
    Retain      \* config.retain

ASSUME WebsiteAssumption ==
    /\ Releases \subseteq Nat
    /\ None \notin Releases
    /\ Retain \in Nat
    /\ Retain >= 2

Generation == Releases \cup {None}
Trees == {"absent", "partial", "whole"}
NoPending == [candidate |-> None, previous |-> None]

VARIABLES
    mode,         \* config.mode
    pinned,       \* config.pinnedTag, set by a NixOS deployment
    latest,       \* the release GitHub's "latest" answers with
    current, previous, pending, generations, quarantined, held, \* state.json
    link,         \* the `current' symlink
    site,         \* public/releases/<commit>
    meta,         \* metadata/<commit>
    op,           \* the operation that runs
    pc,           \* its step
    candidate,    \* its candidate
    doomed,       \* the generations it is removing
    after         \* its step after the removal

config  == <<mode, pinned, latest>>
journal == <<current, previous, pending, generations, quarantined, held>>
trees   == <<site, meta>>
process == <<op, pc, candidate, doomed, after>>
vars    == <<config, journal, link, trees, process>>

Operations == {"update", "preview", "rollback", "resume", "retry"}
Steps == {"idle", "recover", "restoreLink", "forget", "remove", "recheck",
          "agree", "dispatch", "install", "replaceMetadata", "publishSite",
          "hold", "activate", "switch", "health", "accept", "prune",
          "savePruned", "unswitch", "reject"}

TypeOK ==
    /\ mode \in {"release", "preview"}
    /\ pinned \in Generation
    /\ latest \in Generation
    /\ current \in Generation
    /\ previous \in Generation
    /\ pending \in [candidate : Generation, previous : Generation]
    /\ generations \in SUBSET Releases
    /\ quarantined \in SUBSET Releases
    /\ held \in BOOLEAN
    /\ link \in Generation
    /\ site \in [Releases -> Trees]
    /\ meta \in [Releases -> Trees]
    /\ op \in Operations
    /\ pc \in Steps
    /\ candidate \in Generation
    /\ doomed \in SUBSET Releases
    /\ after \in {"idle", "recheck", "savePruned"}

Init ==
    /\ mode \in {"release", "preview"}
    /\ pinned = None
    /\ latest = None
    /\ current = None
    /\ previous = None
    /\ pending = NoPending
    /\ generations = {}
    /\ quarantined = {}
    /\ held = FALSE
    /\ link = None
    /\ site = [r \in Releases |-> "absent"]
    /\ meta = [r \in Releases |-> "absent"]
    /\ op = "update"
    /\ pc = "idle"
    /\ candidate = None
    /\ doomed = {}
    /\ after = "idle"

-----------------------------------------------------------------------------
(* Helpers *)

\* stored(): metadata and site are complete and belong together.
Stored(r) == site[r] = "whole" /\ meta[r] = "whole"

Goto(step) == pc' = step /\ UNCHANGED <<op, candidate, doomed, after>>

\* The process ends and its memory is gone.
Exit ==
    /\ op' = "update"
    /\ pc' = "idle"
    /\ candidate' = None
    /\ doomed' = {}
    /\ after' = "idle"

\* rmSync of a set of trees, then the step `next'.
RemoveThen(set, next) ==
    /\ pc' = "remove"
    /\ doomed' = set
    /\ after' = next
    /\ UNCHANGED <<op, candidate>>

\* rmSync is not atomic: a tree is partial before it is gone.
Removing(tree, r) ==
    [tree EXCEPT ![r] = IF @ = "whole" THEN "partial" ELSE "absent"]

\* discardUnaccepted(): an accepted generation keeps its files.
Unaccepted(r) == {r} \ generations

-----------------------------------------------------------------------------
(* Start and recovery *)

Begin(operation) ==
    /\ pc = "idle"
    /\ operation = "update" => mode = "release"
    /\ operation = "preview" => mode = "preview"
    /\ op' = operation
    /\ pc' = "recover"
    /\ UNCHANGED <<config, journal, link, trees, candidate, doomed, after>>

\* Mutant: the link is not restored.
RecoverJournalOnly ==
    /\ pc = "recover"
    /\ IF pending = NoPending THEN Goto("agree") ELSE Goto("forget")
    /\ UNCHANGED <<config, journal, link, trees>>

Recover ==
    /\ pc = "recover"
    /\ IF pending = NoPending THEN Goto("agree")
       ELSE IF pending.previous # None /\ ~Stored(pending.previous)
         THEN Exit
         ELSE Goto("restoreLink")
    /\ UNCHANGED <<config, journal, link, trees>>

RestoreLink ==
    /\ pc = "restoreLink"
    /\ link' = pending.previous
    /\ Goto("forget")
    /\ UNCHANGED <<config, journal, trees>>

Forget ==
    /\ pc = "forget"
    /\ current' = pending.previous
    /\ quarantined' = quarantined \cup {pending.candidate}
    /\ pending' = NoPending
    /\ RemoveThen(Unaccepted(pending.candidate), "recheck")
    /\ UNCHANGED <<config, previous, generations, held, link, trees>>

\* The site of a doomed generation goes first, its metadata second.
RemoveSite(r) ==
    /\ pc = "remove"
    /\ r \in doomed
    /\ site[r] # "absent"
    /\ site' = Removing(site, r)
    /\ UNCHANGED <<config, journal, link, meta, process>>

RemoveMetadata(r) ==
    /\ pc = "remove"
    /\ r \in doomed
    /\ site[r] = "absent"
    /\ meta[r] # "absent"
    /\ meta' = Removing(meta, r)
    /\ UNCHANGED <<config, journal, link, site, process>>

Removed ==
    /\ pc = "remove"
    /\ \A r \in doomed : site[r] = "absent" /\ meta[r] = "absent"
    /\ IF after = "idle" THEN Exit ELSE Goto(after)
    /\ UNCHANGED <<config, journal, link, trees>>

\* A failed health check throws (Stop); stored() throws here.
Recheck ==
    /\ pc = "recheck"
    /\ IF current = None \/ Stored(current) THEN Goto("agree") ELSE Exit
    /\ UNCHANGED <<config, journal, link, trees>>

Agree ==
    /\ pc = "agree"
    /\ IF link = current THEN Goto("dispatch") ELSE Exit
    /\ UNCHANGED <<config, journal, link, trees>>

-----------------------------------------------------------------------------
(* The operations *)

Wanted == IF pinned = None THEN latest ELSE pinned

\* Mutant: compared with the wrong generation.
DowngradeOfPrevious(r) == pinned = None /\ previous # None /\ r < previous

Downgrade(r) == pinned = None /\ current # None /\ r < current

\* Mutant: the hold is not consulted.
UpdateHeld ==
    /\ pc = "dispatch"
    /\ op = "update"
    /\ IF Wanted \in quarantined \cup {None, current} \/ Downgrade(Wanted)
         THEN Exit
         ELSE /\ pc' = "install"
              /\ candidate' = Wanted
              /\ UNCHANGED <<op, doomed, after>>
    /\ UNCHANGED <<config, journal, link, trees>>

Update ==
    /\ pc = "dispatch"
    /\ op = "update"
    /\ IF \/ held
          \/ Wanted \in quarantined \cup {None, current}
          \/ Downgrade(Wanted)
         THEN Exit
         ELSE /\ pc' = "install"
              /\ candidate' = Wanted
              /\ UNCHANGED <<op, doomed, after>>
    /\ UNCHANGED <<config, journal, link, trees>>

Preview(r) ==
    /\ pc = "dispatch"
    /\ op = "preview"
    /\ pc' = "install"
    /\ candidate' = r
    /\ UNCHANGED <<config, journal, link, trees, op, doomed, after>>

\* Mutants: the quarantine, or the current release, is not consulted.
InstallQuarantined ==
    /\ pc = "install"
    /\ IF site[candidate] = "absent" THEN Goto("replaceMetadata")
       ELSE IF ~Stored(candidate) \/ candidate = current THEN Exit
       ELSE Goto("activate")
    /\ UNCHANGED <<config, journal, link, trees>>

InstallCurrent ==
    /\ pc = "install"
    /\ IF candidate \in quarantined THEN Exit
       ELSE IF site[candidate] = "absent" THEN Goto("replaceMetadata")
       ELSE IF ~Stored(candidate) THEN Exit
       ELSE Goto("activate")
    /\ UNCHANGED <<config, journal, link, trees>>

\* A tree under the final name is used as it is; otherwise the orphaned
\* metadata of a crash is replaced before the site gets its name.
Install ==
    /\ pc = "install"
    /\ IF candidate \in quarantined THEN Exit
       ELSE IF site[candidate] = "absent" THEN Goto("replaceMetadata")
       ELSE IF ~Stored(candidate) \/ candidate = current THEN Exit
       ELSE Goto("activate")
    /\ UNCHANGED <<config, journal, link, trees>>

ReplaceMetadata ==
    /\ pc = "replaceMetadata"
    /\ IF meta[candidate] = "absent"
         THEN /\ meta' = [meta EXCEPT ![candidate] = "whole"]
              /\ Goto("publishSite")
         ELSE /\ meta' = Removing(meta, candidate)
              /\ UNCHANGED process
    /\ UNCHANGED <<config, journal, link, site>>

PublishSite ==
    /\ pc = "publishSite"
    /\ site' = [site EXCEPT ![candidate] = "whole"]
    /\ IF candidate = current THEN Exit ELSE Goto("activate")
    /\ UNCHANGED <<config, journal, link, meta>>

RollbackTo ==
    /\ pc = "dispatch"
    /\ op = "rollback"
    /\ IF previous = None THEN Exit
       ELSE IF ~Stored(previous) THEN Exit
       ELSE /\ pc' = "hold"
            /\ candidate' = previous
            /\ UNCHANGED <<op, doomed, after>>
    /\ UNCHANGED <<config, journal, link, trees>>

Hold ==
    /\ pc = "hold"
    /\ held' = TRUE
    /\ Goto("activate")
    /\ UNCHANGED <<config, current, previous, pending, generations, quarantined,
                   link, trees>>

Resume ==
    /\ pc = "dispatch"
    /\ op = "resume"
    /\ held' = FALSE
    /\ Exit
    /\ UNCHANGED <<config, current, previous, pending, generations, quarantined,
                   link, trees>>

Retry(r) ==
    /\ pc = "dispatch"
    /\ op = "retry"
    /\ quarantined' = quarantined \ {r}
    /\ Exit
    /\ UNCHANGED <<config, current, previous, pending, generations, held, link,
                   trees>>

-----------------------------------------------------------------------------
(* activate() *)

Activate ==
    /\ pc = "activate"
    /\ pending' = [candidate |-> candidate, previous |-> current]
    /\ Goto("switch")
    /\ UNCHANGED <<config, current, previous, generations, quarantined, held,
                   link, trees>>

Switch ==
    /\ pc = "switch"
    /\ \/ link' = candidate /\ Goto("health")
       \/ UNCHANGED link /\ Goto("unswitch")
    /\ UNCHANGED <<config, journal, trees>>

\* Mutant: the files go while the link still names them.
HealthWithoutUnswitch ==
    /\ pc = "health"
    /\ Goto("accept") \/ Goto("reject")
    /\ UNCHANGED <<config, journal, link, trees>>

Health ==
    /\ pc = "health"
    /\ Goto("accept") \/ Goto("unswitch")
    /\ UNCHANGED <<config, journal, link, trees>>

Accept ==
    /\ pc = "accept"
    /\ current' = candidate
    /\ previous' = current
    /\ pending' = NoPending
    /\ generations' = generations \cup {candidate}
    /\ Goto("prune")
    /\ UNCHANGED <<config, quarantined, held, link, trees>>

\* Mutant: the previous generation is not protected.
ExpiredPrevious ==
    {set \in SUBSET (generations \ {current}) :
        set # {} => Cardinality(generations \ set) >= Retain}

\* What prune() may remove: generations past their age, never the current,
\* the previous, or the Retain newest ones.  Ages are left open.
Expired ==
    {set \in SUBSET (generations \ {current, previous}) :
        set # {} => Cardinality(generations \ set) >= Retain}

Prune ==
    /\ pc = "prune"
    /\ \E set \in Expired : RemoveThen(set, "savePruned")
    /\ UNCHANGED <<config, journal, link, trees>>

SavePruned ==
    /\ pc = "savePruned"
    /\ generations' = generations \ doomed
    /\ Exit
    /\ UNCHANGED <<config, current, previous, pending, quarantined, held, link,
                   trees>>

\* Mutant: the link goes back to state.previous.
UnswitchToPrevious ==
    /\ pc = "unswitch"
    /\ link' = previous
    /\ Goto("reject")
    /\ UNCHANGED <<config, journal, trees>>

Unswitch ==
    /\ pc = "unswitch"
    /\ link' = pending.previous
    /\ Goto("reject")
    /\ UNCHANGED <<config, journal, trees>>

\* Mutant: the rejected release is not quarantined.
RejectOnly ==
    /\ pc = "reject"
    /\ pending' = NoPending
    /\ RemoveThen(Unaccepted(candidate), "idle")
    /\ UNCHANGED <<config, current, previous, generations, quarantined, held,
                   link, trees>>

Reject ==
    /\ pc = "reject"
    /\ pending' = NoPending
    /\ quarantined' = quarantined \cup {candidate}
    /\ RemoveThen(Unaccepted(candidate), "idle")
    /\ UNCHANGED <<config, current, previous, generations, held, link, trees>>

-----------------------------------------------------------------------------

\* An exception, a signal, the ten-minute timeout, or a power failure.
Stop ==
    /\ pc # "idle"
    /\ Exit
    /\ UNCHANGED <<config, journal, link, trees>>

Publish ==
    /\ mode = "release"
    /\ latest' \in Releases \ {latest}
    /\ UNCHANGED <<mode, pinned, journal, link, trees, process>>

Configure ==
    /\ mode = "release"
    /\ pc = "idle"
    /\ pinned' \in Generation \ {pinned}
    /\ UNCHANGED <<mode, latest, journal, link, trees, process>>

Work ==
    \/ Recover \/ RestoreLink \/ Forget \/ Removed \/ Recheck \/ Agree
    \/ \E r \in Releases :
         RemoveSite(r) \/ RemoveMetadata(r) \/ Preview(r) \/ Retry(r)
    \/ Update \/ Install \/ ReplaceMetadata \/ PublishSite
    \/ RollbackTo \/ Hold \/ Resume
    \/ Activate \/ Switch \/ Health \/ Accept \/ Prune \/ SavePruned
    \/ Unswitch \/ Reject

Next ==
    \/ \E operation \in Operations : Begin(operation)
    \/ Work
    \/ Stop \/ Publish \/ Configure

Spec == Init /\ [][Next]_vars

-----------------------------------------------------------------------------
(* Properties *)

\* Visitors get a complete site at every instant: whatever `current' points
\* to is whole, in the middle of an activation, a recovery, a pruning, or
\* after any of them was cut short.
ServedIntact == link # None => site[link] = "whole"

\* The journal knows what is served: without a pending activation it is the
\* accepted release; with one it is its candidate or what it will restore.
JournalAgrees ==
    IF pending = NoPending
      THEN link = current
      ELSE /\ link \in {pending.candidate, pending.previous}
           /\ pending.previous = current

\* There is something to roll back to: previous is never the current release.
PreviousDiffers == current # None => previous # current

\* The release a recovery or an operator's rollback would restore is there,
\* with its metadata, and it is not the one that is to be rolled back.
RollbackPossible ==
    /\ \A r \in {current, previous} \ {None} : Stored(r) /\ r \in generations
    /\ PreviousDiffers

\* A release that is not quarantined and not accepted either has no files
\* under its final name or has all of them, so that it can be installed.
\* docs/website.md:158 says of `retry': "allow that exact tag to be tried
\* again".
RetriedReleaseInstalls ==
    pc = "install" /\ candidate \notin quarantined => site[candidate] # "partial"

\* After an operator's rollback no update changes what is accepted or served,
\* except to finish the recovery of what was accepted before.
HeldStaysDown ==
    [][held /\ op = "update" =>
         current' = current /\ link' \in {link, current}]_vars

\* Without a pin an update never replaces the accepted release by an older
\* one, whatever was rolled back, recovered or withdrawn before.
NoDowngrade ==
    [][op = "update" /\ pinned = None /\ current # None =>
         current' \in Releases /\ current' >= current]_vars

\* An update never serves a quarantined release, not even for an instant.
QuarantineNotServed ==
    [][link' # link /\ link' # current /\ op \in {"update", "preview"} =>
         link' \notin quarantined]_vars

\* The updater is an atomic switch: visitors see the accepted release, or a
\* candidate on trial that is then committed or reverted, and never a site
\* with files missing (docs/website.md:137-141).
Promise == INSTANCE SiteTransaction WITH
    accepted <- current,
    shown    <- link,
    intact   <- {r \in Releases : site[r] = "whole"}
Implements == Promise!Spec

-----------------------------------------------------------------------------
(* The inductive invariant of WebsiteDeploymentProofs *)

Chosen == {"install", "replaceMetadata", "publishSite"}
Ready == {"hold", "activate"}
Untried == {"replaceMetadata", "publishSite", "activate", "switch"}
OnTrial == {"switch", "health", "accept", "unswitch", "reject"}

\* Metadata is published before its site and removed after it.
MetadataOutlivesSite ==
    \A r \in Releases : site[r] = "whole" => meta[r] = "whole"

\* The candidate of a pending activation could be served at this moment.
PendingIntact ==
    pending # NoPending =>
        /\ pending.candidate \in Releases \ {current}
        /\ Stored(pending.candidate)

\* What each step of a running operation can rely on.
StepFacts ==
    /\ pc \in Chosen \cup Ready \cup OnTrial => candidate \in Releases
    /\ pc \in Ready => candidate # current /\ Stored(candidate)
    /\ pc \in OnTrial =>
         pending = [candidate |-> candidate, previous |-> current]
    /\ pc \in {"restoreLink", "forget"} => pending # NoPending
    /\ pc \notin OnTrial \cup {"idle", "recover", "restoreLink", "forget"} =>
         pending = NoPending
    /\ pc \in {"switch", "forget", "reject"} => link = current
    /\ pc \in {"health", "accept"} => link = candidate
    /\ pc \in {"replaceMetadata", "publishSite"} => site[candidate] = "absent"
    /\ pc = "publishSite" => meta[candidate] = "whole"
    /\ pc \in {"remove", "savePruned"} =>
         current \notin doomed /\ previous \notin doomed

\* What the decision of an operation still holds for.
OperationFacts ==
    /\ pc = "hold" => op = "rollback"
    /\ op = "update" /\ pc \in Chosen \cup Ready \cup OnTrial =>
         /\ ~held
         /\ pinned = None /\ current # None => candidate >= current
    /\ op # "rollback" /\ pc \in Untried =>
         candidate \notin quarantined

IInv ==
    /\ TypeOK
    /\ ServedIntact
    /\ JournalAgrees
    /\ RollbackPossible
    /\ MetadataOutlivesSite
    /\ PendingIntact
    /\ StepFacts
    /\ OperationFacts
=============================================================================
