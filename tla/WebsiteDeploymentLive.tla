------------------------ MODULE WebsiteDeploymentLive ------------------------
(***************************************************************************)
(* Liveness of WebsiteDeployment.  From some moment on the world is calm:  *)
(* no operation is cut short, nothing is published or configured, and the  *)
(* operator may still roll back, resume and retry.  Health checks go on    *)
(* failing as they like.                                                   *)
(***************************************************************************)
EXTENDS MCWebsiteDeployment

VARIABLE calm

LiveInit == Init /\ mode = "release" /\ calm = FALSE

Disturbance == Stop \/ Publish \/ Configure

Operate == Work \/ \E operation \in Operations : Begin(operation)

LiveNext ==
    \/ Operate /\ UNCHANGED calm
    \/ ~calm /\ Disturbance /\ UNCHANGED calm
    \/ ~calm /\ calm' = TRUE /\ UNCHANGED vars

\* A started operation goes on; the timer fires every hour and does not find
\* the lock taken by an operator every time.
LiveSpec ==
    /\ LiveInit
    /\ [][LiveNext]_<<vars, calm>>
    /\ WF_<<vars, calm>>(Work /\ UNCHANGED calm)
    /\ SF_<<vars, calm>>(Begin("update") /\ UNCHANGED calm)

\* The hourly update has done what it can: no activation is pending, and the
\* wanted release is current unless it is held, quarantined, older, or its
\* files were damaged by a removal that was cut short.
Settled ==
    /\ pc = "idle"
    /\ pending = NoPending
    /\ \/ held
       \/ Wanted \in quarantined \cup {None, current}
       \/ Downgrade(Wanted)
       \/ site[Wanted] = "partial"

\* Once the world is calm the hourly update settles, again and again: an
\* interrupted activation is recovered and the wanted release is accepted or
\* rejected (update, recover and activate of deployment.ts).
UpdateSettles == <>calm => []<>Settled
=============================================================================
