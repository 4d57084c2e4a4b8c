------------------------ MODULE DeviceNetworkProofs ------------------------
(* The inductive invariant of DeviceNetwork and what follows from it.      *)
EXTENDS DeviceNetwork, TLAPS

\* A booted host that has not started the service satisfies the invariant.
LEMMA Initially == Init => IInv
<1> SUFFICES ASSUME Init PROVE IInv OBVIOUS
<1> USE DeviceAssumption DEF Init
<1>1. TypeOK
  <2>1. place \in [Interfaces -> {"host", "devices"}] OBVIOUS
  <2>2. disruptions \in 0 .. MaxDisruptions OBVIOUS
  <2>3. up \in SUBSET Interfaces /\ addressed \in SUBSET Interfaces OBVIOUS
  <2>4. config \in Configs /\ applied \in Interfaces OBVIOUS
  <2>5. inside \in SUBSET {"member", "shell"} OBVIOUS
  <2> HIDE DeviceAssumption
  <2> QED BY <2>1, <2>2, <2>3, <2>4, <2>5 DEF TypeOK
<1>2. NothingLost /\ Confined BY DEF NothingLost, Confined
<1>3. LinkFacts BY DEF LinkFacts
<1>4. UpFacts BY DEF UpFacts
<1>5. DownFacts BY DEF DownFacts, AllHome
<1> QED BY <1>1, <1>2, <1>3, <1>4, <1>5 DEF IInv

\* Every variable keeps its type.
LEMMA TypeStep == ASSUME IInv, [Next]_vars PROVE TypeOK'
<1> USE DeviceAssumption DEF TypeOK, Configs, UpSteps, DownSteps, files, namespace, links, history
<1> TypeOK BY DEF IInv
<1>1. CASE Start BY <1>1 DEF Start
<1>2. CASE Prepare BY <1>2 DEF Prepare, MayPrepare, StartFails, Valid
<1>3. CASE Check BY <1>3 DEF Check, Dedicated, StartFails
<1>4. CASE AddNamespace BY <1>4 DEF AddNamespace, StartFails
<1>5. CASE MarkOwned BY <1>5 DEF MarkOwned
<1>6. CASE MoveIn BY <1>6 DEF MoveIn
<1>7. CASE DisableForwarding BY <1>7 DEF DisableForwarding
<1>8. CASE DenyByDefault BY <1>8 DEF DenyByDefault
<1>9. CASE AcceptListed BY <1>9 DEF AcceptListed
<1>10. CASE AddAddress BY <1>10 DEF AddAddress
<1>11. CASE LinkUp BY <1>11 DEF LinkUp
<1>12. CASE CheckIsolation BY <1>12 DEF CheckIsolation, Isolated, StartFails
<1>13. CASE MemberStarts BY <1>13 DEF MemberStarts
<1>14. CASE Stop BY <1>14 DEF Stop
<1>15. CASE BeginDown BY <1>15 DEF BeginDown, Over, Cleaned
<1>16. CASE LinkDown BY <1>16 DEF LinkDown, Cleaned
<1>17. CASE Flush BY <1>17 DEF Flush, Cleaned
<1>18. CASE MoveOut BY <1>18 DEF MoveOut, Cleaned
<1>19. CASE DeleteNamespace BY <1>19 DEF DeleteNamespace, Over
<1>20. CASE Unmark BY <1>20 DEF Unmark, Over
<1>21. CASE UpCut BY <1>21 DEF UpCut, StartFails, Disrupt
<1>22. CASE DownCut
  <2>1. cut' \in BOOLEAN BY <1>22 DEF DownCut
  <2>2. disruptions' \in 0 .. MaxDisruptions BY <1>22 DEF DownCut, Disrupt
  <2> QED BY <1>22, <2>1, <2>2 DEF DownCut, Over
<1>23. CASE Reboot
  <2>1. place' \in [Interfaces -> {"host", "devices"}] BY <1>23 DEF Reboot
  <2>2. disruptions' \in 0 .. MaxDisruptions BY <1>23 DEF Reboot, Disrupt
  <2> QED BY <1>23, <2>1, <2>2 DEF Reboot
<1>24. CASE Configure BY <1>24 DEF Configure, Disrupt
<1>25. CASE AddExtra BY <1>25 DEF AddExtra, Disrupt
<1>26. CASE ShellEnters BY <1>26 DEF ShellEnters, Disrupt
<1>27. CASE ShellLeaves BY <1>27 DEF ShellLeaves
<1>28. CASE ForeignAdds BY <1>28 DEF ForeignAdds, Disrupt
<1>29. CASE ForeignDeletes BY <1>29 DEF ForeignDeletes
<1>30. CASE UNCHANGED vars BY <1>30 DEF vars
<1>31. ASSUME NEW i \in Uplinks, HostRaises(i) PROVE TypeOK' BY <1>31 DEF HostRaises
<1> QED BY <1>1, <1>2, <1>3, <1>4, <1>5, <1>6, <1>7, <1>8, <1>9, <1>10, <1>11, <1>12, <1>13, <1>14,
   <1>15, <1>16, <1>17, <1>18, <1>19, <1>20, <1>21, <1>22, <1>23, <1>24, <1>25, <1>26, <1>27, <1>28, <1>29, <1>30, <1>31 DEF Next, Up, Down

\* What is among the devices can be found again, and is confined while up: only
\* MoveIn and MoveOut move an interface, only LinkUp raises one there.
LEMMA PlaceStep == ASSUME IInv, [Next]_vars PROVE NothingLost' /\ Confined'
<1> USE DeviceAssumption DEF NothingLost, Confined, AllHome, files, namespace, links, history
<1> NothingLost /\ Confined /\ LinkFacts /\ UpFacts /\ DownFacts BY DEF IInv
<1> applied \in Interfaces /\ place \in [Interfaces -> {"host", "devices"}] BY DEF IInv, TypeOK
<1>1. CASE Start BY <1>1 DEF Start
<1>2. CASE Prepare BY <1>2 DEF Prepare, MayPrepare, StartFails
<1>3. CASE Check BY <1>3 DEF Check, Dedicated, StartFails
<1>4. CASE AddNamespace BY <1>4 DEF AddNamespace, StartFails
<1>5. CASE MarkOwned BY <1>5 DEF MarkOwned
<1>6. CASE MoveIn BY <1>6 DEF MoveIn, LinkFacts, UpFacts
<1>7. CASE DisableForwarding BY <1>7 DEF DisableForwarding
<1>8. CASE DenyByDefault BY <1>8 DEF DenyByDefault
<1>9. CASE AcceptListed BY <1>9 DEF AcceptListed
<1>10. CASE AddAddress BY <1>10 DEF AddAddress
<1>11. CASE LinkUp BY <1>11 DEF LinkUp, UpFacts
<1>12. CASE CheckIsolation BY <1>12 DEF CheckIsolation, Isolated, StartFails
<1>13. CASE MemberStarts BY <1>13 DEF MemberStarts
<1>14. CASE Stop BY <1>14 DEF Stop
<1>15. CASE BeginDown BY <1>15 DEF BeginDown, Over, Cleaned
<1>16. CASE LinkDown BY <1>16 DEF LinkDown, Cleaned
<1>17. CASE Flush BY <1>17 DEF Flush, Cleaned
<1>18. CASE MoveOut BY <1>18 DEF MoveOut, Cleaned
<1>19. CASE DeleteNamespace BY <1>19 DEF DeleteNamespace, Over, DownFacts
<1>20. CASE Unmark BY <1>20 DEF Unmark, Over, DownFacts
<1>21. CASE UpCut BY <1>21 DEF UpCut, StartFails, Disrupt
<1>22. CASE DownCut BY <1>22 DEF DownCut, Over, Disrupt
<1>23. CASE Reboot BY <1>23 DEF Reboot, Disrupt
<1>24. CASE Configure BY <1>24 DEF Configure, Disrupt
<1>25. CASE AddExtra BY <1>25 DEF AddExtra, Disrupt
<1>26. CASE ShellEnters BY <1>26 DEF ShellEnters, Disrupt
<1>27. CASE ShellLeaves BY <1>27 DEF ShellLeaves
<1>28. CASE ForeignAdds BY <1>28 DEF ForeignAdds, Disrupt
<1>29. CASE ForeignDeletes BY <1>29 DEF ForeignDeletes
<1>30. CASE UNCHANGED vars BY <1>30 DEF vars
<1>31. ASSUME NEW i \in Uplinks, HostRaises(i) PROVE NothingLost' /\ Confined' BY <1>31 DEF HostRaises
<1> QED BY <1>1, <1>2, <1>3, <1>4, <1>5, <1>6, <1>7, <1>8, <1>9, <1>10, <1>11, <1>12, <1>13, <1>14,
   <1>15, <1>16, <1>17, <1>18, <1>19, <1>20, <1>21, <1>22, <1>23, <1>24, <1>25, <1>26, <1>27, <1>28, <1>29, <1>30, <1>31 DEF Next, Up, Down

\* Only an interface that was unused when Check looked is taken, and none but an
\* uplink is put to use on the host.
LEMMA LinkStep == ASSUME IInv, [Next]_vars PROVE LinkFacts'
<1> USE DeviceAssumption DEF LinkFacts, AllHome, files, namespace, links, history
<1> NothingLost /\ LinkFacts /\ UpFacts /\ DownFacts BY DEF IInv
<1> applied \in Interfaces /\ place \in [Interfaces -> {"host", "devices"}] BY DEF IInv, TypeOK
<1>1. CASE Start BY <1>1 DEF Start
<1>2. CASE Prepare BY <1>2 DEF Prepare, MayPrepare, StartFails
<1>3. CASE Check
  <2>1. AllHome BY <1>3 DEF Check, UpFacts, NothingLost
  <2> QED BY <2>1, <1>3 DEF Check, Dedicated, StartFails
<1>4. CASE AddNamespace BY <1>4 DEF AddNamespace, StartFails
<1>5. CASE MarkOwned BY <1>5 DEF MarkOwned
<1>6. CASE MoveIn BY <1>6 DEF MoveIn, UpFacts
<1>7. CASE DisableForwarding BY <1>7 DEF DisableForwarding
<1>8. CASE DenyByDefault BY <1>8 DEF DenyByDefault
<1>9. CASE AcceptListed BY <1>9 DEF AcceptListed
<1>10. CASE AddAddress BY <1>10 DEF AddAddress, UpFacts
<1>11. CASE LinkUp BY <1>11 DEF LinkUp, UpFacts
<1>12. CASE CheckIsolation BY <1>12 DEF CheckIsolation, Isolated, StartFails
<1>13. CASE MemberStarts BY <1>13 DEF MemberStarts
<1>14. CASE Stop BY <1>14 DEF Stop
<1>15. CASE BeginDown BY <1>15 DEF BeginDown, Over, Cleaned
<1>16. CASE LinkDown BY <1>16 DEF LinkDown, Cleaned, DownFacts
<1>17. CASE Flush BY <1>17 DEF Flush, Cleaned, DownFacts
<1>18. CASE MoveOut BY <1>18 DEF MoveOut, Cleaned, DownFacts
<1>19. CASE DeleteNamespace BY <1>19 DEF DeleteNamespace, Over
<1>20. CASE Unmark BY <1>20 DEF Unmark, Over
<1>21. CASE UpCut BY <1>21 DEF UpCut, StartFails, Disrupt
<1>22. CASE DownCut BY <1>22 DEF DownCut, Over, Disrupt
<1>23. CASE Reboot BY <1>23 DEF Reboot, Disrupt
<1>24. CASE Configure BY <1>24 DEF Configure, Disrupt
<1>25. CASE AddExtra BY <1>25 DEF AddExtra, Disrupt
<1>26. CASE ShellEnters BY <1>26 DEF ShellEnters, Disrupt
<1>27. CASE ShellLeaves BY <1>27 DEF ShellLeaves
<1>28. CASE ForeignAdds BY <1>28 DEF ForeignAdds, Disrupt
<1>29. CASE ForeignDeletes BY <1>29 DEF ForeignDeletes
<1>30. CASE UNCHANGED vars BY <1>30 DEF vars
<1>31. ASSUME NEW i \in Uplinks, HostRaises(i) PROVE LinkFacts' BY <1>31 DEF HostRaises
<1> QED BY <1>1, <1>2, <1>3, <1>4, <1>5, <1>6, <1>7, <1>8, <1>9, <1>10, <1>11, <1>12, <1>13, <1>14,
   <1>15, <1>16, <1>17, <1>18, <1>19, <1>20, <1>21, <1>22, <1>23, <1>24, <1>25, <1>26, <1>27, <1>28, <1>29, <1>30, <1>31 DEF Next, Up, Down

\* What the steps of the start hand on to each other.
LEMMA UpStep == ASSUME IInv, [Next]_vars PROVE UpFacts'
<1> USE DeviceAssumption DEF UpFacts, AllHome, files, namespace, links, history
<1> NothingLost /\ LinkFacts /\ UpFacts /\ DownFacts BY DEF IInv
<1> applied \in Interfaces /\ place \in [Interfaces -> {"host", "devices"}] BY DEF IInv, TypeOK
<1>1. CASE Start BY <1>1 DEF Start
<1>2. CASE Prepare BY <1>2 DEF Prepare, MayPrepare, StartFails
<1>3. CASE Check BY <1>3 DEF Check, Dedicated, StartFails, NothingLost, LinkFacts
<1>4. CASE AddNamespace BY <1>4 DEF AddNamespace, StartFails
<1>5. CASE MarkOwned BY <1>5 DEF MarkOwned
<1>6. CASE MoveIn BY <1>6 DEF MoveIn
<1>7. CASE DisableForwarding BY <1>7 DEF DisableForwarding
<1>8. CASE DenyByDefault BY <1>8 DEF DenyByDefault
<1>9. CASE AcceptListed BY <1>9 DEF AcceptListed
<1>10. CASE AddAddress BY <1>10 DEF AddAddress
<1>11. CASE LinkUp BY <1>11 DEF LinkUp
<1>12. CASE CheckIsolation BY <1>12 DEF CheckIsolation, Isolated, StartFails
<1>13. CASE MemberStarts BY <1>13 DEF MemberStarts
<1>14. CASE Stop BY <1>14 DEF Stop
<1>15. CASE BeginDown BY <1>15 DEF BeginDown, Over, Cleaned
<1>16. CASE LinkDown BY <1>16 DEF LinkDown, Cleaned
<1>17. CASE Flush BY <1>17 DEF Flush, Cleaned
<1>18. CASE MoveOut BY <1>18 DEF MoveOut, Cleaned
<1>19. CASE DeleteNamespace BY <1>19 DEF DeleteNamespace, Over
<1>20. CASE Unmark BY <1>20 DEF Unmark, Over
<1>21. CASE UpCut BY <1>21 DEF UpCut, StartFails, Disrupt
<1>22. CASE DownCut BY <1>22 DEF DownCut, Over, Disrupt
<1>23. CASE Reboot BY <1>23 DEF Reboot, Disrupt
<1>24. CASE Configure BY <1>24 DEF Configure, Disrupt
<1>25. CASE AddExtra BY <1>25 DEF AddExtra, Disrupt
<1>26. CASE ShellEnters BY <1>26 DEF ShellEnters, Disrupt
<1>27. CASE ShellLeaves BY <1>27 DEF ShellLeaves
<1>28. CASE ForeignAdds BY <1>28 DEF ForeignAdds, Disrupt
<1>29. CASE ForeignDeletes BY <1>29 DEF ForeignDeletes
<1>30. CASE UNCHANGED vars BY <1>30 DEF vars
<1>31. ASSUME NEW i \in Uplinks, HostRaises(i) PROVE UpFacts' BY <1>31 DEF HostRaises
<1> QED BY <1>1, <1>2, <1>3, <1>4, <1>5, <1>6, <1>7, <1>8, <1>9, <1>10, <1>11, <1>12, <1>13, <1>14,
   <1>15, <1>16, <1>17, <1>18, <1>19, <1>20, <1>21, <1>22, <1>23, <1>24, <1>25, <1>26, <1>27, <1>28, <1>29, <1>30, <1>31 DEF Next, Up, Down

\* What the steps of the cleanup hand on to each other.
LEMMA DownStep == ASSUME IInv, [Next]_vars PROVE DownFacts'
<1> USE DeviceAssumption DEF DownFacts, AllHome, UpSteps, files, namespace, links, history
<1> NothingLost /\ LinkFacts /\ UpFacts /\ DownFacts BY DEF IInv
<1> applied \in Interfaces /\ place \in [Interfaces -> {"host", "devices"}] BY DEF IInv, TypeOK
<1>1. CASE Start BY <1>1 DEF Start
<1>2. CASE Prepare BY <1>2 DEF Prepare, MayPrepare, StartFails
<1>3. CASE Check BY <1>3 DEF Check, Dedicated, StartFails
<1>4. CASE AddNamespace BY <1>4 DEF AddNamespace, StartFails
<1>5. CASE MarkOwned BY <1>5 DEF MarkOwned, UpFacts
<1>6. CASE MoveIn BY <1>6 DEF MoveIn
<1>7. CASE DisableForwarding BY <1>7 DEF DisableForwarding
<1>8. CASE DenyByDefault BY <1>8 DEF DenyByDefault
<1>9. CASE AcceptListed BY <1>9 DEF AcceptListed
<1>10. CASE AddAddress BY <1>10 DEF AddAddress
<1>11. CASE LinkUp BY <1>11 DEF LinkUp
<1>12. CASE CheckIsolation BY <1>12 DEF CheckIsolation, Isolated, StartFails
<1>13. CASE MemberStarts BY <1>13 DEF MemberStarts
<1>14. CASE Stop BY <1>14 DEF Stop, UpFacts
<1>15. CASE BeginDown BY <1>15 DEF BeginDown, Over, Cleaned, NothingLost
<1>16. CASE LinkDown BY <1>16 DEF LinkDown, Cleaned
<1>17. CASE Flush BY <1>17 DEF Flush, Cleaned
<1>18. CASE MoveOut BY <1>18 DEF MoveOut, Cleaned, NothingLost
<1>19. CASE DeleteNamespace BY <1>19 DEF DeleteNamespace, Over
<1>20. CASE Unmark BY <1>20 DEF Unmark, Over
<1>21. CASE UpCut BY <1>21 DEF UpCut, StartFails, Disrupt
<1>22. CASE DownCut BY <1>22 DEF DownCut, Over, Disrupt
<1>23. CASE Reboot BY <1>23 DEF Reboot, Disrupt
<1>24. CASE Configure BY <1>24 DEF Configure, Disrupt
<1>25. CASE AddExtra BY <1>25 DEF AddExtra, Disrupt
<1>26. CASE ShellEnters BY <1>26 DEF ShellEnters, Disrupt
<1>27. CASE ShellLeaves BY <1>27 DEF ShellLeaves
<1>28. CASE ForeignAdds BY <1>28 DEF ForeignAdds, Disrupt
<1>29. CASE ForeignDeletes BY <1>29 DEF ForeignDeletes
<1>30. CASE UNCHANGED vars BY <1>30 DEF vars
<1>31. ASSUME NEW i \in Uplinks, HostRaises(i) PROVE DownFacts' BY <1>31 DEF HostRaises
<1> QED BY <1>1, <1>2, <1>3, <1>4, <1>5, <1>6, <1>7, <1>8, <1>9, <1>10, <1>11, <1>12, <1>13, <1>14,
   <1>15, <1>16, <1>17, <1>18, <1>19, <1>20, <1>21, <1>22, <1>23, <1>24, <1>25, <1>26, <1>27, <1>28, <1>29, <1>30, <1>31 DEF Next, Up, Down

\* IInv holds in every state, for any interfaces and any number of disturbances.
THEOREM Invariance == Spec => []IInv
<1>1. ASSUME IInv, [Next]_vars PROVE IInv'
  BY <1>1, TypeStep, PlaceStep, LinkStep, UpStep, DownStep DEF IInv
<1> QED BY <1>1, Initially, PTL DEF Spec

\* What the marker and config.json say of the namespace is true: what was moved
\* can be brought back, and nobody else's namespace is deleted unless down was
\* killed between its own deletion and the removal of the marker.
THEOREM MarkerTruthful == Spec => []Consistent
<1>1. ASSUME IInv PROVE Consistent
  <2>1. OthersSpared
    BY <1>1 DEF IInv, TypeOK, NothingLost, DownFacts, OthersSpared, DownSteps
  <2> QED BY <1>1, <2>1 DEF IInv, Consistent
<1> QED BY <1>1, Invariance, PTL

\* Wherever up or down is cut short, an interface that is up among the devices
\* is behind the firewall, for any interfaces and any number of disturbances.
THEOREM DevicesConfined == Spec => []Confined
BY Invariance, PTL DEF IInv

\* Only an interface that was found unused is taken, and a service that has
\* stopped has returned it, down and without addresses.
THEOREM InterfaceReturned == Spec => []StopReturns
<1>1. ASSUME IInv PROVE StopReturns
  <2>1. unit = "inactive" => AllHome /\ ~owned /\ ns # "ours" BY <1>1 DEF IInv, DownFacts
  <2>2. up \subseteq Interfaces /\ addressed \subseteq Interfaces BY <1>1 DEF IInv, TypeOK
  <2>3. AllHome => up \cup addressed \subseteq Uplinks
    BY <1>1, <2>2 DEF IInv, LinkFacts, AllHome
  <2> QED BY <1>1, <2>1, <2>3 DEF StopReturns, AllHome, IInv, LinkFacts
<1> QED BY <1>1, Invariance, PTL
-----------------------------------------------------------------------------
(* Progress: what Recovers rests on, apart from fairness. *)

\* The steps that are left of a start, with its cleanup, and of a cleanup.
StepsLeft(state) ==
  CASE state = "prepare" -> 17 [] state = "check" -> 16 [] state = "add" -> 15 [] state = "mark" -> 14
    [] state = "move" -> 13 [] state = "sysctl" -> 12 [] state = "policy" -> 11 [] state = "accept" -> 10
    [] state = "address" -> 9 [] state = "link" -> 8 [] state = "isolation" -> 7
    [] state = "post" -> 6 [] state = "linkdown" -> 5 [] state = "flush" -> 4 [] state = "return" -> 3
    [] state = "delete" -> 2 [] state = "unmark" -> 1
    [] OTHER -> 0

\* A start and a cleanup end, whatever fails, is killed or is done by others in
\* the meantime: the unit begins again only with the host (up, down).
CommandsAdvance ==
  [][unit' # unit /\ unit \in UpSteps \cup DownSteps =>
       \/ unit' = "prepare" /\ disruptions' = disruptions + 1
       \/ StepsLeft(unit') < StepsLeft(unit)]_vars

\* A start that nothing cuts short fails for a reason that the administrator can
\* see: the marker of a namespace that is to be cleaned up first, somebody else's
\* namespace or link, a stranded namespace, an uplink, an invalid configuration
\* (prepare, check, add and the isolation test of up).
StartFailsForCause ==
  [][unit' = "post" /\ unit \in UpSteps /\ disruptions' = disruptions =>
       owned \/ ns = "foreign" \/ Stranded \/ extra \/ applied \in Uplinks \/ config = Invalid]_vars

\* A cleanup that nothing cuts short, and that finds nobody in the namespace and
\* the namespace not yet deleted, leaves all that a new start needs: no marker, the
\* interface returned and down (down).
CleanupHelps ==
  [][unit' \in {"inactive", "failed"} /\ unit \in DownSteps /\ disruptions' = disruptions =>
       \/ ~owned' /\ AllHome' /\ up' \cup addressed' \subseteq Uplinks
       \/ inside # {} \/ ns = "none"]_vars

LEMMA StepsLeftValues ==
  /\ StepsLeft("prepare") = 17 /\ StepsLeft("check") = 16 /\ StepsLeft("add") = 15 /\ StepsLeft("mark") = 14
  /\ StepsLeft("move") = 13 /\ StepsLeft("sysctl") = 12 /\ StepsLeft("policy") = 11 /\ StepsLeft("accept") = 10
  /\ StepsLeft("address") = 9 /\ StepsLeft("link") = 8 /\ StepsLeft("isolation") = 7
  /\ StepsLeft("post") = 6 /\ StepsLeft("linkdown") = 5 /\ StepsLeft("flush") = 4 /\ StepsLeft("return") = 3
  /\ StepsLeft("delete") = 2 /\ StepsLeft("unmark") = 1
  /\ StepsLeft("inactive") = 0 /\ StepsLeft("failed") = 0 /\ StepsLeft("active") = 0
BY DEF StepsLeft

\* Every start and every cleanup comes to its end.
THEOREM CommandsComeToAnEnd == Spec => CommandsAdvance
<1>1. ASSUME [Next]_vars, unit' # unit, unit \in UpSteps \cup DownSteps
      PROVE  \/ unit' = "prepare" /\ disruptions' = disruptions + 1
             \/ StepsLeft(unit') < StepsLeft(unit)
  <2> USE <1>1, StepsLeftValues DEF UpSteps, DownSteps, files, namespace, links, history
  <2>1. CASE Prepare \/ Check \/ AddNamespace \/ CheckIsolation
    BY <2>1 DEF Prepare, Check, AddNamespace, CheckIsolation, StartFails
  <2>2. CASE \/ MarkOwned \/ MoveIn \/ DisableForwarding \/ DenyByDefault \/ AcceptListed \/ AddAddress \/ LinkUp
    BY <2>2 DEF MarkOwned, MoveIn, DisableForwarding, DenyByDefault, AcceptListed, AddAddress, LinkUp
  <2>3. CASE Start \/ Stop \/ MemberStarts BY <2>3 DEF Start, Stop, MemberStarts
  <2>4. ASSUME NEW failed, Over(failed) PROVE unit' \in {"failed", "inactive"} BY <2>4 DEF Over
  <2>5. CASE BeginDown
    <3>1. unit = "post" /\ unit' \in {"failed", "inactive", "unmark", "linkdown", "delete"}
      BY <2>4, <2>5 DEF BeginDown
    <3> QED BY <3>1
  <2>6. CASE LinkDown \/ Flush \/ MoveOut BY <2>6 DEF LinkDown, Flush, MoveOut
  <2>7. CASE DeleteNamespace \/ Unmark
    <3>1. unit \in {"delete", "unmark"} /\ unit' \in {"failed", "inactive", "unmark"}
      BY <2>4, <2>7 DEF DeleteNamespace, Unmark
    <3> QED BY <3>1
  <2>8. CASE UpCut BY <2>8 DEF UpCut, StartFails
  <2>9. CASE DownCut
    <3>1. unit' \in {"failed", "inactive"} BY <2>4, <2>9 DEF DownCut
    <3>2. unit \in DownSteps BY <2>9 DEF DownCut
    <3> QED BY <3>1, <3>2
  <2>10. CASE Reboot BY <2>10 DEF Reboot, Disrupt
  <2>11. CASE \/ Configure \/ AddExtra \/ ShellEnters \/ ShellLeaves \/ ForeignAdds \/ ForeignDeletes
              \/ (\E i \in Uplinks : HostRaises(i)) \/ UNCHANGED vars
    BY <2>11 DEF HostRaises, Configure, AddExtra, ShellEnters, ShellLeaves, ForeignAdds, ForeignDeletes, vars
  <2> QED BY <2>1, <2>2, <2>3, <2>5, <2>6, <2>7, <2>8, <2>9, <2>10, <2>11 DEF Next, Up, Down
<1>2. [Next]_vars =>
        [unit' # unit /\ unit \in UpSteps \cup DownSteps =>
           \/ unit' = "prepare" /\ disruptions' = disruptions + 1
           \/ StepsLeft(unit') < StepsLeft(unit)]_vars
  BY <1>1
<1> QED BY <1>2, PTL DEF Spec, CommandsAdvance

\* No start fails without a cause, for any interfaces and after any history.
THEOREM StartsSucceed == Spec => StartFailsForCause
<1>1. ASSUME IInv, [Next]_vars, unit' = "post", unit \in UpSteps, disruptions' = disruptions
      PROVE  owned \/ ns = "foreign" \/ Stranded \/ extra \/ applied \in Uplinks \/ config = Invalid
  <2> USE <1>1 DEF UpSteps, files, namespace, links, history
  <2>0. TypeOK /\ NothingLost /\ LinkFacts /\ UpFacts BY DEF IInv
  <2>1. disruptions' # disruptions + 1 BY <2>0, DeviceAssumption DEF TypeOK
  <2>2. CASE Prepare BY <2>2 DEF Prepare, MayPrepare, Valid, StartFails
  <2>3. CASE Check
    <3>1. CASE ns # "none" BY <2>0, <2>3, <3>1 DEF Check, TypeOK, Stranded
    <3>2. CASE ~Dedicated
      <4>1. applied \in Interfaces /\ place[applied] \in {"host", "devices"} BY <2>0 DEF TypeOK
      <4> QED BY <2>0, <3>2, <4>1 DEF Dedicated, NothingLost, LinkFacts
    <3> QED BY <2>3, <3>1, <3>2 DEF Check
  <2>4. CASE AddNamespace BY <2>0, <2>4 DEF AddNamespace, TypeOK, Stranded
  <2>5. CASE CheckIsolation BY <2>0, <2>5 DEF CheckIsolation, Isolated, UpFacts
  <2>6. CASE \/ MarkOwned \/ MoveIn \/ DisableForwarding \/ DenyByDefault \/ AcceptListed \/ AddAddress \/ LinkUp
    BY <2>6 DEF MarkOwned, MoveIn, DisableForwarding, DenyByDefault, AcceptListed, AddAddress, LinkUp
  <2>7. CASE \/ Start \/ MemberStarts \/ Stop \/ BeginDown \/ LinkDown \/ Flush \/ MoveOut \/ DeleteNamespace
             \/ Unmark
    BY <2>7 DEF Start, MemberStarts, Stop, BeginDown, LinkDown, Flush, MoveOut, DeleteNamespace, Unmark
  <2>8. CASE UpCut \/ DownCut \/ Reboot \/ Configure \/ AddExtra \/ ShellEnters \/ ForeignAdds
    BY <2>1, <2>8 DEF UpCut, DownCut, Reboot, Configure, AddExtra, ShellEnters, ForeignAdds, Disrupt
  <2>9. CASE ShellLeaves \/ ForeignDeletes \/ (\E i \in Uplinks : HostRaises(i)) \/ UNCHANGED vars
    BY <2>9 DEF ShellLeaves, ForeignDeletes, HostRaises, vars
  <2> QED BY <2>2, <2>3, <2>4, <2>5, <2>6, <2>7, <2>8, <2>9 DEF Next, Up, Down
<1>2. IInv /\ [Next]_vars =>
        [unit' = "post" /\ unit \in UpSteps /\ disruptions' = disruptions =>
           owned \/ ns = "foreign" \/ Stranded \/ extra \/ applied \in Uplinks \/ config = Invalid]_vars
  BY <1>1
<1> QED BY <1>2, Invariance, PTL DEF Spec, StartFailsForCause

\* A cleanup leaves nothing behind that keeps the next start from succeeding.
THEOREM CleanupsClear == Spec => CleanupHelps
<1>1. ASSUME IInv, IInv', [Next]_vars, unit' \in {"inactive", "failed"}, unit \in DownSteps,
             disruptions' = disruptions, inside = {}, ns # "none"
      PROVE  ~owned' /\ AllHome' /\ up' \cup addressed' \subseteq Uplinks
  <2> USE <1>1 DEF DownSteps, files, namespace, links, history
  <2>0. TypeOK /\ NothingLost /\ DownFacts BY DEF IInv
  <2>1. disruptions' # disruptions + 1 BY <2>0, DeviceAssumption DEF TypeOK
  <2>2. ~owned' /\ AllHome'
    <3>1. CASE BeginDown
      <4>1. ~owned /\ owned' = owned /\ place' = place BY <3>1 DEF BeginDown
      <4> QED BY <2>0, <4>1 DEF NothingLost, AllHome, TypeOK
    <3>2. CASE Unmark BY <2>0, <3>2 DEF Unmark, DownFacts, AllHome
    <3>3. CASE LinkDown \/ Flush \/ MoveOut \/ DeleteNamespace
      BY <3>3 DEF LinkDown, Flush, MoveOut, DeleteNamespace
    <3>4. CASE \/ Start \/ Prepare \/ Check \/ AddNamespace \/ CheckIsolation \/ MarkOwned \/ MoveIn
               \/ DisableForwarding \/ DenyByDefault \/ AcceptListed \/ AddAddress \/ LinkUp \/ MemberStarts \/ Stop
      BY <3>4 DEF Start, Prepare, Check, AddNamespace, CheckIsolation, MarkOwned, MoveIn, DisableForwarding,
         DenyByDefault, AcceptListed, AddAddress, LinkUp, MemberStarts, Stop
    <3>5. CASE UpCut \/ DownCut \/ Reboot \/ Configure \/ AddExtra \/ ShellEnters \/ ForeignAdds
      BY <2>1, <3>5 DEF UpCut, DownCut, Reboot, Configure, AddExtra, ShellEnters, ForeignAdds, Disrupt
    <3>6. CASE ShellLeaves \/ ForeignDeletes \/ (\E i \in Uplinks : HostRaises(i)) \/ UNCHANGED vars
      BY <3>6 DEF ShellLeaves, ForeignDeletes, HostRaises, vars
    <3> QED BY <3>1, <3>2, <3>3, <3>4, <3>5, <3>6 DEF Next, Up, Down
  <2>3. up' \subseteq Interfaces /\ addressed' \subseteq Interfaces /\ LinkFacts' BY DEF IInv, TypeOK
  <2>4. up' \cup addressed' \subseteq Uplinks BY <2>2, <2>3 DEF LinkFacts, AllHome
  <2> QED BY <2>2, <2>4
<1>2. IInv /\ IInv' /\ [Next]_vars =>
        [unit' \in {"inactive", "failed"} /\ unit \in DownSteps /\ disruptions' = disruptions =>
           \/ ~owned' /\ AllHome' /\ up' \cup addressed' \subseteq Uplinks
           \/ inside # {} \/ ns = "none"]_vars
  BY <1>1
<1> QED BY <1>2, Invariance, PTL DEF Spec, CleanupHelps
=============================================================================
