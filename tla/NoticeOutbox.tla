---------------------------- MODULE NoticeOutbox ----------------------------
(***************************************************************************)
(* What the queue of deployment notices promises (docs/server-updates.md,  *)
(* "Deployment notifications"): a published notice waits until it has been *)
(* handed to Alertmanager or is older than the retention window, and       *)
(* notices are handed over in the order of their publication as long as    *)
(* nobody has set the clock back.                                          *)
(***************************************************************************)
EXTENDS Integers

CONSTANTS MaxEvents, Window

VARIABLES clock,     \* the wall clock
          stepped,   \* whether it has been set back
          recorded,  \* recorded[e]: when notice e was written down
          waiting, handed

outbox == <<waiting, handed>>

Events == 1 .. MaxEvents

\* Notices are numbered in the order of their publication.
Publish(e) ==
    /\ e \notin waiting \cup handed
    /\ \A earlier \in waiting : earlier < e
    /\ waiting' = waiting \cup {e}
    /\ UNCHANGED handed

HandOver(e) ==
    /\ e \in waiting
    /\ stepped \/ \A other \in waiting : e <= other
    /\ waiting' = waiting \ {e}
    /\ handed' = handed \cup {e}

Expire(e) ==
    /\ e \in waiting
    /\ clock - recorded[e] > Window
    /\ waiting' = waiting \ {e}
    /\ UNCHANGED handed

Init == waiting = {} /\ handed = {}

Next == \E e \in Events : Publish(e) \/ HandOver(e) \/ Expire(e)

Spec == Init /\ [][Next]_outbox
=============================================================================
