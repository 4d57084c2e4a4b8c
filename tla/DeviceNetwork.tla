---------------------------- MODULE DeviceNetwork ----------------------------
(***************************************************************************)
(* The isolated device network: device-network.service and the commands    *)
(* prepare, up and down of packages/device-network/device-network.py,      *)
(* which are its ExecStartPre, ExecStart and ExecStopPost                  *)
(* (modules/nixos/device-network.nix).                                     *)
(*                                                                         *)
(* up and down change several kernel objects and two files, one after the  *)
(* other; each step may fail or be the last before a kill (TimeoutStartSec,*)
(* TimeoutStopSec).  systemd runs down after a stop and after every start  *)
(* that failed.  The wired and the wireless interface differ only in how   *)
(* they are moved, which is one step here.                                 *)
(***************************************************************************)
EXTENDS Integers, FiniteSets

CONSTANTS Interfaces,
          Uplinks,        \* those that the host uses itself, once dhcpcd has brought them up
          Invalid,        \* a configuration that load refuses
          MaxDisruptions  \* bound on failures, kills, reboots, and other people's changes

ASSUME DeviceAssumption ==
    /\ Uplinks \subseteq Interfaces /\ Uplinks # Interfaces
    /\ Invalid \notin Interfaces
    /\ MaxDisruptions \in Nat

VARIABLES
    unit,       \* device-network.service: its state, or the step of its command
    failing,    \* whether it will be "failed" after the present command
    config,     \* network.json: the interface it names, or Invalid
    applied,    \* the interface in config.json of the runtime directory
    owned,      \* the marker in the runtime directory
    ns,         \* the namespace "devices": "none", "ours", or somebody's, "foreign"
    forwarding, \* net.ipv4.ip_forward or IPv6 in our namespace
    denying,    \* whether its INPUT and FORWARD policies are DROP
    place,      \* place[i]: "host" or "devices"
    up,         \* the interfaces that are up
    addressed,  \* those that have an address
    extra,      \* whether somebody has put another link into our namespace
    inside,     \* processes in our namespace: "member" and "shell"
    unused,     \* history: the interface that the last check found unused
    cut,        \* history: down was killed after it deleted the namespace
    disruptions

files == <<config, applied, owned>>
namespace == <<ns, forwarding, denying, extra>>
links == <<place, up, addressed>>
history == <<unused, cut, disruptions>>
vars == <<unit, failing, files, namespace, links, inside, history>>

Configs == Interfaces \cup {Invalid}
UpSteps == {"prepare", "check", "add", "mark", "move", "sysctl", "policy", "accept", "address",
            "link", "isolation"}
DownSteps == {"post", "linkdown", "flush", "return", "delete", "unmark"}

Init ==
    /\ unit = "inactive" /\ failing = FALSE
    /\ config \in Configs /\ applied \in Interfaces /\ owned = FALSE
    /\ ns = "none" /\ forwarding = TRUE /\ denying = FALSE /\ extra = FALSE
    /\ place = [i \in Interfaces |-> "host"]
    /\ up \in SUBSET Uplinks /\ addressed \in SUBSET up
    /\ inside = {} /\ unused = {}
    /\ cut = FALSE /\ disruptions = 0

Disrupt ==
    /\ disruptions < MaxDisruptions
    /\ disruptions' = disruptions + 1

\* A command of the start has ended with an error: ExecStopPost.
StartFails == unit' = "post" /\ failing' = TRUE

\* The service is over.
Over(failed) ==
    /\ unit' = IF failed THEN "failed" ELSE "inactive"
    /\ failing' = FALSE

-----------------------------------------------------------------------------
(* prepare *)

Start ==
    /\ unit \in {"inactive", "failed"}
    /\ unit' = "prepare" /\ failing' = FALSE
    /\ UNCHANGED <<files, namespace, links, inside, history>>

\* load and validate: one interface, a private subnet, known grants.
Valid(c) == c # Invalid

\* Mutant: the configuration is replaced whoever owns the namespace.
Unowned == Valid(config)

MayPrepare == Valid(config) /\ ~owned

Prepare ==
    /\ unit = "prepare"
    /\ IF MayPrepare
       THEN applied' = config /\ unit' = "check" /\ UNCHANGED failing
       ELSE StartFails /\ UNCHANGED applied
    /\ UNCHANGED <<config, owned, namespace, links, inside, history>>

-----------------------------------------------------------------------------
(* up *)

\* Mutant: an interface that is in use is taken.
AnyInterface == place[applied] = "host"

Dedicated == place[applied] = "host" /\ applied \notin up /\ applied \notin addressed

Check ==
    /\ unit = "check"
    /\ IF ns = "none" /\ Dedicated THEN unit' = "add" /\ UNCHANGED failing ELSE StartFails
    /\ unused' = {applied} \ (up \cup addressed)
    /\ UNCHANGED <<files, namespace, links, inside, cut, disruptions>>

\* Mutant: the marker is written first.
AddMarked ==
    /\ unit = "add" /\ owned' = TRUE
    /\ IF ns = "none"
       THEN ns' = "ours" /\ forwarding' = TRUE /\ denying' = FALSE /\ unit' = "mark" /\ UNCHANGED failing
       ELSE StartFails /\ UNCHANGED <<ns, forwarding, denying>>
    /\ UNCHANGED <<config, applied, extra, links, inside, history>>

\* ip netns add fails if the name is taken by now.
AddNamespace ==
    /\ unit = "add"
    /\ IF ns = "none"
       THEN ns' = "ours" /\ forwarding' = TRUE /\ denying' = FALSE /\ unit' = "mark" /\ UNCHANGED failing
       ELSE StartFails /\ UNCHANGED <<ns, forwarding, denying>>
    /\ UNCHANGED <<files, extra, links, inside, history>>

MarkOwned ==
    /\ unit = "mark" /\ unit' = "move"
    /\ owned' = TRUE
    /\ UNCHANGED <<failing, config, applied, namespace, links, inside, history>>

\* The kernel takes an interface down, and its addresses off, when it moves it:
\* the host may have brought it up since the check.
MoveIn ==
    /\ unit = "move" /\ unit' = "sysctl"
    /\ place' = [place EXCEPT ![applied] = "devices"]
    /\ up' = up \ {applied} /\ addressed' = addressed \ {applied}
    /\ UNCHANGED <<failing, files, namespace, inside, history>>

DisableForwarding ==
    /\ unit = "sysctl" /\ unit' = "policy"
    /\ forwarding' = FALSE
    /\ UNCHANGED <<failing, files, ns, denying, extra, links, inside, history>>

\* Mutant: the accepting rules are taken to be the whole firewall.
NoPolicy ==
    /\ unit = "policy" /\ unit' = "accept"
    /\ UNCHANGED <<failing, files, namespace, links, inside, history>>

DenyByDefault ==
    /\ unit = "policy" /\ unit' = "accept"
    /\ denying' = TRUE
    /\ UNCHANGED <<failing, files, ns, forwarding, extra, links, inside, history>>

AcceptListed ==
    /\ unit = "accept" /\ unit' = "address"
    /\ UNCHANGED <<failing, files, namespace, links, inside, history>>

AddAddress ==
    /\ unit = "address" /\ unit' = "link"
    /\ addressed' = addressed \cup {applied}
    /\ UNCHANGED <<failing, files, namespace, place, up, inside, history>>

LinkUp ==
    /\ unit = "link" /\ unit' = "isolation"
    /\ up' = up \cup {applied}
    /\ UNCHANGED <<failing, files, namespace, place, addressed, inside, history>>

Isolated == ~extra /\ ~forwarding /\ denying

CheckIsolation ==
    /\ unit = "isolation"
    /\ IF Isolated THEN unit' = "active" /\ UNCHANGED failing ELSE StartFails
    /\ UNCHANGED <<files, namespace, links, inside, history>>

-----------------------------------------------------------------------------
(* Members, the stop, and down *)

\* DHCP and DNS, the access point, the proxies: BindsTo= and After= the service.
MemberStarts ==
    /\ unit = "active" /\ "member" \notin inside
    /\ inside' = inside \cup {"member"}
    /\ UNCHANGED <<unit, failing, files, namespace, links, history>>

Stop ==
    /\ unit = "active"
    /\ inside' = inside \ {"member"}
    /\ unit' = "post"
    /\ UNCHANGED <<failing, files, namespace, links, history>>

\* Mutant: what the private configuration names now is cleaned up.
CleanConfigured == IF Valid(config) THEN config ELSE applied

Cleaned == applied

BeginDown ==
    /\ unit = "post"
    /\ \/ ~owned /\ Over(failing)
       \/ owned /\ ns = "none" /\ unit' = "unmark" /\ UNCHANGED failing
       \/ owned /\ ns # "none" /\ inside # {} /\ Over(TRUE)
       \/ /\ owned /\ ns # "none" /\ inside = {}
          /\ unit' = IF ns = "ours" /\ place[Cleaned] = "devices" THEN "linkdown" ELSE "delete"
          /\ UNCHANGED failing
    /\ UNCHANGED <<files, namespace, links, inside, history>>

LinkDown ==
    /\ unit = "linkdown" /\ unit' = "flush"
    /\ up' = up \ {Cleaned}
    /\ UNCHANGED <<failing, files, namespace, place, addressed, inside, history>>

Flush ==
    /\ unit = "flush" /\ unit' = "return"
    /\ addressed' = addressed \ {Cleaned}
    /\ UNCHANGED <<failing, files, namespace, place, up, inside, history>>

MoveOut ==
    /\ unit = "return" /\ unit' = "delete"
    /\ place' = [place EXCEPT ![Cleaned] = "host"]
    /\ UNCHANGED <<failing, files, namespace, up, addressed, inside, history>>

\* The name goes, unless it is gone by now; a shell that has entered meanwhile
\* keeps the rest for itself.
DeleteNamespace ==
    /\ unit = "delete"
    /\ IF ns = "none" THEN Over(TRUE) ELSE unit' = "unmark" /\ UNCHANGED failing
    /\ ns' = "none" /\ extra' = FALSE /\ inside' = {}
    /\ UNCHANGED <<files, forwarding, denying, links, history>>

\* Mutant: the marker is left to the next boot.
KeepMarker ==
    /\ unit = "unmark"
    /\ Over(failing)
    /\ UNCHANGED <<files, namespace, links, inside, history>>

Unmark ==
    /\ unit = "unmark"
    /\ owned' = FALSE
    /\ Over(failing)
    /\ UNCHANGED <<config, applied, namespace, links, inside, history>>

-----------------------------------------------------------------------------
(* Failures and other people *)

\* A command of up fails, or the start times out.
UpCut ==
    /\ unit \in UpSteps /\ Disrupt
    /\ StartFails
    /\ UNCHANGED <<files, namespace, links, inside, unused, cut>>

\* A command of down fails, or the stop times out.
DownCut ==
    /\ unit \in DownSteps /\ Disrupt
    /\ Over(TRUE)
    /\ cut' = (cut \/ unit = "unmark")
    /\ UNCHANGED <<files, namespace, links, inside, unused>>

\* /run and the namespaces are gone; multi-user.target wants the network.
Reboot ==
    /\ Disrupt
    /\ unit' = "prepare" /\ failing' = FALSE
    /\ owned' = FALSE /\ ns' = "none" /\ extra' = FALSE
    /\ place' = [i \in Interfaces |-> "host"] /\ up' = {} /\ addressed' = {}
    /\ inside' = {} /\ unused' = {} /\ cut' = FALSE
    /\ UNCHANGED <<config, applied, forwarding, denying>>

\* dhcpcd raises an uplink and gets its lease; nothing orders it with this unit.
HostRaises(i) ==
    /\ place[i] = "host"
    /\ \/ i \notin up /\ up' = up \cup {i} /\ UNCHANGED addressed
       \/ i \in up \ addressed /\ addressed' = addressed \cup {i} /\ UNCHANGED up
    /\ UNCHANGED <<unit, failing, files, namespace, place, inside, history>>

Configure ==
    /\ Disrupt
    /\ config' \in Configs \ {config}
    /\ UNCHANGED <<unit, failing, applied, owned, namespace, links, inside, unused, cut>>

AddExtra ==
    /\ ns = "ours" /\ ~extra /\ Disrupt
    /\ extra' = TRUE
    /\ UNCHANGED <<unit, failing, files, ns, forwarding, denying, links, inside, unused, cut>>

ShellEnters ==
    /\ ns # "none" /\ "shell" \notin inside /\ Disrupt
    /\ inside' = inside \cup {"shell"}
    /\ UNCHANGED <<unit, failing, files, namespace, links, unused, cut>>

ShellLeaves ==
    /\ "shell" \in inside
    /\ inside' = inside \ {"shell"}
    /\ UNCHANGED <<unit, failing, files, namespace, links, history>>

ForeignAdds ==
    /\ ns = "none" /\ Disrupt
    /\ ns' = "foreign"
    /\ UNCHANGED <<unit, failing, files, forwarding, denying, extra, links, inside, unused, cut>>

ForeignDeletes ==
    /\ ns = "foreign"
    /\ ns' = "none" /\ inside' = {}
    /\ UNCHANGED <<unit, failing, files, forwarding, denying, extra, links, history>>

Up ==
    \/ Prepare \/ Check \/ AddNamespace \/ MarkOwned \/ MoveIn \/ DisableForwarding
    \/ DenyByDefault \/ AcceptListed \/ AddAddress \/ LinkUp \/ CheckIsolation

Down == BeginDown \/ LinkDown \/ Flush \/ MoveOut \/ DeleteNamespace \/ Unmark

Next ==
    \/ Start \/ Up \/ MemberStarts \/ Stop \/ Down
    \/ UpCut \/ DownCut \/ Reboot \/ Configure \/ AddExtra \/ \E i \in Uplinks : HostRaises(i)
    \/ ShellEnters \/ ShellLeaves \/ ForeignAdds \/ ForeignDeletes

Spec == Init /\ [][Next]_vars

\* systemd goes on with what it began, somebody starts a failed service again
\* (it is reported by the monitoring), and visitors of the namespace leave.
FairSpec ==
    /\ Spec
    /\ WF_vars(Up) /\ WF_vars(Down) /\ WF_vars(unit = "failed" /\ Start)
    /\ WF_vars(ShellLeaves) /\ WF_vars(ForeignDeletes)

-----------------------------------------------------------------------------
(* Properties *)

TypeOK ==
    /\ unit \in UpSteps \cup DownSteps \cup {"inactive", "failed", "active"} /\ failing \in BOOLEAN
    /\ config \in Configs /\ applied \in Interfaces /\ owned \in BOOLEAN
    /\ ns \in {"none", "ours", "foreign"}
    /\ forwarding \in BOOLEAN /\ denying \in BOOLEAN /\ extra \in BOOLEAN
    /\ place \in [Interfaces -> {"host", "devices"}]
    /\ up \in SUBSET Interfaces /\ addressed \in SUBSET Interfaces
    /\ inside \in SUBSET {"member", "shell"}
    /\ unused \in SUBSET Interfaces /\ cut \in BOOLEAN /\ disruptions \in 0 .. MaxDisruptions

\* An interface that is up among the devices is behind the firewall, without
\* forwarding, wherever a start or a cleanup has been cut short (up, down).
Confined == \A i \in Interfaces : place[i] = "devices" /\ i \in up => denying /\ ~forwarding

\* Whatever was moved can be brought back: it is the interface that down will
\* look for, in a namespace that has its name and its marker, after any failure
\* and any change of the configuration (prepare, up, down).
NothingLost ==
    \A i \in Interfaces : place[i] = "devices" => ns = "ours" /\ owned /\ applied = i

\* down does not set about deleting somebody else's namespace of the same name,
\* unless it was killed before, between the deletion of its own and the removal of
\* the marker (up, down).
OthersSpared == unit \in DownSteps \ {"post", "unmark"} /\ ns = "foreign" => cut

\* What the marker and config.json say of the namespace is true.
Consistent == TypeOK /\ NothingLost /\ OthersSpared

\* The one interface that the host lacks was down and unaddressed when the start
\* that took it looked: an uplink is lost only to a configuration that names it and
\* a start that came before dhcpcd.  And a service that has stopped has returned it,
\* down and without addresses: all that is up is the host's own (up, down).
StopReturns ==
    /\ \A i \in Interfaces : place[i] = "devices" => i \in unused
    /\ unit = "inactive" =>
         /\ ns # "ours" /\ ~owned
         /\ \A i \in Interfaces : place[i] = "host"
         /\ up \cup addressed \subseteq Uplinks

\* The namespace was added and the start cut before the marker was written.
Stranded == ns = "ours" /\ ~owned /\ unit # "mark"

\* A failed service becomes active when it is started again, if not at once then
\* after a cleanup, unless its namespace is stranded or its configuration invalid or an uplink's.
Recovers == unit = "failed" ~> (unit = "active" \/ Stranded \/ config \in Uplinks \cup {Invalid})

-----------------------------------------------------------------------------
(* The inductive invariant (DeviceNetworkProofs) *)

AllHome == \A i \in Interfaces : place[i] = "host"

\* An interface that is up or has an address, and is no uplink, is among the
\* devices; what is there was found unused.
LinkFacts ==
    /\ \A i \in Interfaces \ Uplinks : i \in up \/ i \in addressed => place[i] = "devices"
    /\ \A i \in Interfaces : place[i] = "devices" => i \in unused

\* What each step of up may rely on.
UpFacts ==
    /\ unit \in {"check", "add", "mark"} => ~owned
    /\ unit \in {"add", "mark", "move"} => AllHome /\ applied \in unused
    /\ unit = "mark" => ns = "ours"
    /\ unit = "move" => owned /\ ns = "ours"
    /\ unit \in {"sysctl", "policy", "accept", "address", "link", "isolation", "active"} =>
         place[applied] = "devices"
    /\ unit \in {"policy", "accept", "address", "link", "isolation", "active"} => ~forwarding
    /\ unit \in {"accept", "address", "link", "isolation", "active"} => denying

\* What each step of down may rely on: a marker without its namespace has one
\* cause, and a stop, unlike the cleanup after a failure, finds all in place.
DownFacts ==
    /\ unit \in UpSteps \cup {"active", "inactive", "failed"} => ~failing
    /\ unit = "post" /\ ~failing => place[applied] = "devices"
    /\ unit \in {"linkdown", "flush", "return"} => place[applied] = "devices"
    /\ unit \in {"flush", "return"} => applied \notin up
    /\ unit = "return" => applied \notin addressed
    /\ unit \in {"delete", "unmark"} => owned /\ AllHome
    /\ unit = "unmark" => ns # "ours"
    /\ owned /\ ns # "ours" => unit = "unmark" \/ cut
    /\ unit = "inactive" => AllHome /\ ~owned /\ ns # "ours"

IInv == TypeOK /\ NothingLost /\ Confined /\ LinkFacts /\ UpFacts /\ DownFacts
=============================================================================
