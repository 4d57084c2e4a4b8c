--------------------------- MODULE SiteTransaction ---------------------------
(***************************************************************************)
(* What the website updater promises its visitors, without its journal:    *)
(* one release is accepted, one is shown, and a release is shown on trial  *)
(* until it is committed or reverted.  At every instant what is shown and  *)
(* what is accepted is intact.                                             *)
(***************************************************************************)
CONSTANTS Releases, None

VARIABLES
    accepted,  \* the release that would be restored
    shown,     \* the release visitors get
    intact     \* the releases whose files are complete

Safe == {accepted, shown} \subseteq intact \cup {None}

Init ==
    /\ accepted = None
    /\ shown = None
    /\ intact = {}

Try(r) ==
    /\ shown = accepted
    /\ r # accepted
    /\ shown' = r
    /\ UNCHANGED <<accepted, intact>>

Commit ==
    /\ shown # accepted
    /\ accepted' = shown
    /\ UNCHANGED <<shown, intact>>

Revert ==
    /\ shown # accepted
    /\ shown' = accepted
    /\ UNCHANGED <<accepted, intact>>

\* Releases arrive, expire, and are removed; never one that is in use.
Store ==
    /\ intact' \in SUBSET Releases
    /\ UNCHANGED <<accepted, shown>>

Next ==
    /\ \/ \E r \in Releases : Try(r)
       \/ Commit \/ Revert \/ Store
    /\ Safe'

Spec == Init /\ [][Next]_<<accepted, shown, intact>>
=============================================================================
