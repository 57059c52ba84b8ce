---------------------------- MODULE DockerReboot ----------------------------
(***************************************************************************)
(* The Docker manager: RebootDockerServlet replaces the container that has *)
(* a given IP address by a new one of the same image, in five HTTP calls   *)
(* to Docker's remote API (RemoteApi): list, stop, remove, create, start.  *)
(* Each request runs in a thread of its own, and nothing orders them.      *)
(* Status codes are returned by RemoteApi and ignored by the servlet; only *)
(* an exception ends a request early.                                      *)
(*                                                                         *)
(* What a call does at the Docker host is taken from the status codes that *)
(* RemoteApi's comments quote.                                             *)
(***************************************************************************)
EXTENDS Naturals, FiniteSets

CONSTANTS
  Requests,     \* the requests, each served once
  Ids, Ips,     \* container ids and bridge addresses
  NoIp,         \* the IPAddress of a container that does not run; rebIP may be empty too
  NoId,         \* no container yet
  Deployed,     \* the containers that run at first
  AddsToList,   \* FALSE in the code: toDcokerContainer never adds to conterList
  MaxTroubles   \* bound: failed calls and containers that exit

\* A fresh id for each request, and an address for each container that runs.
ASSUME DockerAssumption ==
  /\ Deployed \subseteq Ids /\ NoId \notin Ids /\ NoIp \notin Ips
  /\ IsFiniteSet(Ids) /\ IsFiniteSet(Ips) /\ IsFiniteSet(Requests)
  /\ Cardinality(Ids \ Deployed) >= Cardinality(Requests)
  /\ Cardinality(Ips) >= Cardinality(Ids)
  /\ AddsToList \in BOOLEAN /\ MaxTroubles \in Nat

VARIABLES
  state,        \* of each id: "free", "created", "running", "stopped", "removed"
  ip,           \* NetworkSettings.Networks.bridge.IPAddress of each container
  reqPc,        \* where doGet is in each request
  rebIP,        \* the request's parameter
  target,       \* cont.getId() of the container that matched
  newContID,
  troubles

dockerVars  == <<state, ip>>
requestVars == <<reqPc, rebIP, target, newContID>>
vars == <<dockerVars, requestVars, troubles>>

Running == {c \in Ids : state[c] = "running"}

TypeOK ==
  /\ state \in [Ids -> {"free", "created", "running", "stopped", "removed"}]
  /\ ip \in [Ids -> Ips \cup {NoIp}]
  /\ reqPc \in [Requests -> {"list", "stop", "remove", "create", "start", "done"}]
  /\ rebIP \in [Requests -> Ips \cup {NoIp}]
  /\ target \in [Requests -> Ids \cup {NoId}]
  /\ newContID \in [Requests -> Ids \cup {NoId}]
  /\ troubles \in 0..MaxTroubles

Init ==
  /\ state = [c \in Ids |-> IF c \in Deployed THEN "running" ELSE "free"]
  /\ ip \in [Ids -> Ips \cup {NoIp}]
  /\ \A c \in Ids : ip[c] = NoIp <=> c \notin Deployed
  /\ \A c, d \in Deployed : c # d => ip[c] # ip[d]
  /\ reqPc = [r \in Requests |-> "list"]
  /\ rebIP \in [Requests -> Ips \cup {NoIp}]
  /\ target = [r \in Requests |-> NoId]
  /\ newContID = [r \in Requests |-> NoId]
  /\ troubles = 0

-----------------------------------------------------------------------------
(* The Docker host: what each call does when it succeeds.  A call about a  *)
(* container that is not in the right state changes nothing and answers    *)
(* with a status (304, 404, 500) that nobody looks at.                     *)

\* GET /containers/json?all=1: the created and the stopped ones as well.
Listed == {c \in Ids : state[c] \in {"created", "running", "stopped"}}

SetContainer(c, s, address) ==
  /\ state' = [state EXCEPT ![c] = s]
  /\ ip' = [ip EXCEPT ![c] = address]

\* POST /stop?t=5: killed after five seconds at the latest.
Stop(c) ==
  IF state[c] = "running" THEN SetContainer(c, "stopped", NoIp) ELSE UNCHANGED dockerVars

\* DELETE without force: not a running container.
Remove(c) ==
  IF state[c] \in {"created", "stopped"}
  THEN SetContainer(c, "removed", NoIp) ELSE UNCHANGED dockerVars

Create(c) == state[c] = "free" /\ SetContainer(c, "created", NoIp)

\* A container gets an address that no running one has.
Start(c) ==
  IF state[c] \in {"created", "stopped"}
  THEN \E address \in Ips \ {ip[d] : d \in Running} : SetContainer(c, "running", address)
  ELSE UNCHANGED dockerVars

-----------------------------------------------------------------------------
(* The servlet.                                                            *)

ReqGoto(r, from, to) == reqPc[r] = from /\ reqPc' = [reqPc EXCEPT ![r] = to]

\* JsonConvert.toDcokerContainer: the containers that doGet loops over.
Converted(listing) == IF AddsToList THEN listing ELSE {}

\* Mutant: the address is passed on in the place of the id.
M_ListContainersIp(r) ==
  LET matches == {c \in Converted(Listed) : ip[c] = rebIP[r]}
  IN /\ \/ matches = {} /\ ReqGoto(r, "list", "done") /\ UNCHANGED target
        \/ /\ ReqGoto(r, "list", "stop")
           /\ \E c \in matches : target' = [target EXCEPT ![r] = ip[c]]
     /\ UNCHANGED <<dockerVars, rebIP, newContID, troubles>>

\* listContainer, the conversion, and the loop as far as the first container that has
\* the address; the order of the listing is Docker's.
ListContainers(r) ==
  LET matches == {c \in Converted(Listed) : ip[c] = rebIP[r]}
  IN /\ \/ matches = {} /\ ReqGoto(r, "list", "done") /\ UNCHANGED target
        \/ /\ ReqGoto(r, "list", "stop")
           /\ \E c \in matches : target' = [target EXCEPT ![r] = c]
     /\ UNCHANGED <<dockerVars, rebIP, newContID, troubles>>

\* Mutant: the container is not stopped first.
M_StopContainerSkipped(r) ==
  /\ ReqGoto(r, "stop", "remove")
  /\ UNCHANGED <<dockerVars, rebIP, target, newContID, troubles>>

StopContainer(r) ==
  /\ ReqGoto(r, "stop", "remove")
  /\ Stop(target[r])
  /\ UNCHANGED <<rebIP, target, newContID, troubles>>

RemoveContainer(r) ==
  /\ ReqGoto(r, "remove", "create")
  /\ Remove(target[r])
  /\ UNCHANGED <<rebIP, target, newContID, troubles>>

\* Mutant: created, not started.
M_CreateContainerOnly(r) ==
  /\ ReqGoto(r, "create", "done")
  /\ \E c \in Ids : Create(c) /\ newContID' = [newContID EXCEPT ![r] = c]
  /\ UNCHANGED <<rebIP, target, troubles>>

CreateContainer(r) ==
  /\ ReqGoto(r, "create", "start")
  /\ \E c \in Ids : Create(c) /\ newContID' = [newContID EXCEPT ![r] = c]
  /\ UNCHANGED <<rebIP, target, troubles>>

\* Mutant: the old container is started again.
M_StartContainerOld(r) ==
  /\ ReqGoto(r, "start", "done")
  /\ Start(target[r])
  /\ UNCHANGED <<rebIP, target, newContID, troubles>>

StartContainer(r) ==
  /\ ReqGoto(r, "start", "done")
  /\ Start(newContID[r])
  /\ UNCHANGED <<rebIP, target, newContID, troubles>>

Serve(r) ==
  \/ ListContainers(r) \/ StopContainer(r) \/ RemoveContainer(r)
  \/ CreateContainer(r) \/ StartContainer(r)

-----------------------------------------------------------------------------
(* Trouble.                                                                *)

Trouble == troubles < MaxTroubles /\ troubles' = troubles + 1

\* The effect of the call that request r is about to make.
Effect(r) ==
  \/ reqPc[r] = "stop" /\ Stop(target[r])
  \/ reqPc[r] = "remove" /\ Remove(target[r])
  \/ reqPc[r] = "create" /\ \E c \in Ids : Create(c)
  \/ reqPc[r] = "start" /\ Start(newContID[r])

\* executeMethod, or the parsing of an answer, throws: the request is over.  The Docker
\* host may have done what it was asked all the same.  A container without a bridge
\* network in the listing, and an answer to create without an Id, throw as well.
CallThrows(r) ==
  /\ Trouble
  /\ reqPc[r] # "done" /\ reqPc' = [reqPc EXCEPT ![r] = "done"]
  /\ UNCHANGED dockerVars \/ Effect(r)
  /\ UNCHANGED <<rebIP, target, newContID>>

\* The Docker host answers with a status 500 and does nothing: the servlet goes on.
ServerError(r) ==
  /\ Trouble
  /\ ReqGoto(r, "stop", "remove") \/ ReqGoto(r, "remove", "create") \/ ReqGoto(r, "start", "done")
  /\ UNCHANGED <<dockerVars, rebIP, target, newContID>>

ContainerExits(c) ==
  /\ Trouble
  /\ c \in Running /\ SetContainer(c, "stopped", NoIp)
  /\ UNCHANGED requestVars

Next ==
  \/ \E r \in Requests : Serve(r) \/ CallThrows(r) \/ ServerError(r)
  \/ \E c \in Ids : ContainerExits(c)

Spec == Init /\ [][Next]_vars

\* The threads of the servlet container run, and Docker answers.
FairSpec == Spec /\ \A r \in Requests : WF_vars(Serve(r))

-----------------------------------------------------------------------------
(* Properties.                                                             *)

\* The requests that took a container away, or may have, and have not started theirs.
Replacing == {r \in Requests : reqPc[r] \in {"remove", "create", "start"}}

\* However many requests meet over one container, or over a container that another has
\* just created, and wherever they fail: what runs, what is being replaced and what went
\* wrong make up for every container that was deployed.
NeverFewer ==
  Cardinality(Running) + Cardinality(Replacing) + troubles >= Cardinality(Deployed)

\* A container that was created and is not running belongs to a request that is about to
\* start it, unless something failed: no reboot leaves one behind.
OrphanNeedsTrouble ==
  \A c \in Ids : state[c] = "created" =>
    troubles > 0 \/ \E r \in Requests : reqPc[r] = "start" /\ newContID[r] = c

\* Requests for different containers, none of which fails, leave as many running as
\* there were.  Two for the same one start two in its place; and one for an empty address
\* takes what another has just created for a container to be replaced.
DistinctTargets ==
  \A q, r \in Requests : q # r /\ target[q] # NoId => target[q] # target[r]
CountKept ==
  troubles = 0 /\ DistinctTargets /\ (\A r \in Requests : rebIP[r] # NoIp) /\ Replacing = {}
    => Cardinality(Running) = Cardinality(Deployed)

\* As long as nothing fails, a request for the address of a running container gets that
\* container replaced, whatever the other requests do meanwhile.
Rebooted ==
  [](troubles = 0) =>
    \A r \in Requests, c \in Ids :
      reqPc[r] = "list" /\ c \in Running /\ ip[c] = rebIP[r] ~> state[c] = "removed"

=============================================================================
