------------------------- MODULE DockerRebootProofs -------------------------
(***************************************************************************)
(* Theorems about the Docker manager, for any number of requests and       *)
(* containers: its types, that no reboot leaves a container behind that is *)
(* not started, that the number of containers falls only with trouble, and *)
(* that it stays when each request has a container of its own.             *)
(***************************************************************************)
EXTENDS DockerReboot, FiniteSetTheorems, TLAPS

-----------------------------------------------------------------------------
(* The invariants.                                                         *)

\* What a request holds: the container that it found exists, or did, and the one that it
\* created is no other request's.
Holding ==
  /\ \A r \in Requests : reqPc[r] \in {"stop", "remove"} =>
       target[r] \in Ids /\ state[target[r]] # "free"
  /\ \A r \in Requests : reqPc[r] = "start" =>
       newContID[r] \in Ids /\ state[newContID[r]] # "free"
  /\ \A q, r \in Requests : q # r /\ reqPc[q] = "start" /\ reqPc[r] = "start" =>
       newContID[q] # newContID[r]

TypeInv == TypeOK /\ Holding

\* The requests that still have to start a container for one that is gone.  One that is
\* about to remove what another has created, and not started, is not among them: the
\* other is, until it is removed.
Owes(r) ==
  \/ reqPc[r] = "remove" /\ state[target[r]] # "created"
  \/ reqPc[r] = "create"
  \/ reqPc[r] = "start" /\ state[newContID[r]] = "created"

Owing == {r \in Requests : Owes(r)}

\* What runs, what is owed and what went wrong make up for what was deployed.
Balance == Cardinality(Running) + Cardinality(Owing) + troubles >= Cardinality(Deployed)

-----------------------------------------------------------------------------
(* The type invariant.                                                     *)

\* A call leaves the containers and their addresses well-typed, and makes none new.
LEMMA CallTypes ==
  ASSUME TypeOK, NEW c \in Ids, Stop(c) \/ Remove(c) \/ Create(c) \/ Start(c)
  PROVE  /\ state' \in [Ids -> {"free", "created", "running", "stopped", "removed"}]
         /\ ip' \in [Ids -> Ips \cup {NoIp}]
         /\ \A d \in Ids : state[d] # "free" => state'[d] # "free"
<1>. USE DEF TypeOK, SetContainer, dockerVars
<1>1. CASE Stop(c)
  BY <1>1 DEF Stop
<1>2. CASE Remove(c)
  BY <1>2 DEF Remove
<1>3. CASE Create(c)
  BY <1>3 DEF Create
<1>4. CASE Start(c)
  BY <1>4 DEF Start
<1>. QED
  BY <1>1, <1>2, <1>3, <1>4

\* It holds at the start.
LEMMA TypeInit == Init => TypeInv
  BY DockerAssumption DEF Init, TypeInv, TypeOK, Holding

\* A request serves and fails as the types say.
LEMMA ServeType ==
  ASSUME TypeInv, NEW r \in Requests, Serve(r)
  PROVE  TypeInv'
<1>. USE DEF TypeInv, TypeOK, Holding, ReqGoto
<1>1. CASE ListContainers(r)
  BY <1>1 DEF ListContainers, Converted, Listed, dockerVars
<1>2. CASE StopContainer(r)
  <2>1. target[r] \in Ids
    BY <1>2 DEF StopContainer
  <2>2. /\ state' \in [Ids -> {"free", "created", "running", "stopped", "removed"}]
        /\ ip' \in [Ids -> Ips \cup {NoIp}]
        /\ \A d \in Ids : state[d] # "free" => state'[d] # "free"
    BY <1>2, <2>1, CallTypes DEF StopContainer
  <2>. QED
    BY <1>2, <2>1, <2>2 DEF StopContainer
<1>3. CASE RemoveContainer(r)
  <2>1. target[r] \in Ids
    BY <1>3 DEF RemoveContainer
  <2>2. /\ state' \in [Ids -> {"free", "created", "running", "stopped", "removed"}]
        /\ ip' \in [Ids -> Ips \cup {NoIp}]
        /\ \A d \in Ids : state[d] # "free" => state'[d] # "free"
    BY <1>3, <2>1, CallTypes DEF RemoveContainer
  <2>. QED
    BY <1>3, <2>2 DEF RemoveContainer
<1>4. ASSUME NEW c \in Ids, Create(c), newContID' = [newContID EXCEPT ![r] = c],
             CreateContainer(r)
      PROVE  TypeInv'
  <2>1. /\ state' \in [Ids -> {"free", "created", "running", "stopped", "removed"}]
        /\ ip' \in [Ids -> Ips \cup {NoIp}]
        /\ \A d \in Ids : state[d] # "free" => state'[d] # "free"
    BY <1>4, CallTypes
  <2>2. state[c] = "free" /\ state'[c] = "created"
    BY <1>4 DEF Create, SetContainer
  <2>. QED
    BY <1>4, <2>1, <2>2 DEF CreateContainer
<1>5. CASE StartContainer(r)
  <2>1. newContID[r] \in Ids
    BY <1>5 DEF StartContainer
  <2>2. /\ state' \in [Ids -> {"free", "created", "running", "stopped", "removed"}]
        /\ ip' \in [Ids -> Ips \cup {NoIp}]
        /\ \A d \in Ids : state[d] # "free" => state'[d] # "free"
    BY <1>5, <2>1, CallTypes DEF StartContainer
  <2>. QED
    BY <1>5, <2>2 DEF StartContainer
<1>6. ASSUME CreateContainer(r)
      PROVE  \E c \in Ids : Create(c) /\ newContID' = [newContID EXCEPT ![r] = c]
  BY <1>6 DEF CreateContainer
<1>. QED
  BY <1>1, <1>2, <1>3, <1>4, <1>5, <1>6 DEF Serve

\* What a call that throws does at the Docker host is what the call would have done.
LEMMA EffectTypes ==
  ASSUME TypeInv, NEW r \in Requests, UNCHANGED dockerVars \/ Effect(r)
  PROVE  /\ state' \in [Ids -> {"free", "created", "running", "stopped", "removed"}]
         /\ ip' \in [Ids -> Ips \cup {NoIp}]
         /\ \A d \in Ids : state[d] # "free" => state'[d] # "free"
<1>1. CASE UNCHANGED dockerVars
  BY <1>1 DEF dockerVars, TypeInv, TypeOK
<1>2. CASE Effect(r)
  <2>1. PICK c \in Ids : Stop(c) \/ Remove(c) \/ Create(c) \/ Start(c)
    BY <1>2 DEF Effect, TypeInv, Holding
  <2>. QED
    BY <2>1, CallTypes DEF TypeInv
<1>. QED
  BY <1>1, <1>2

\* Trouble does as well.
LEMMA TroubleType ==
  ASSUME TypeInv,
         \/ \E r \in Requests : CallThrows(r) \/ ServerError(r)
         \/ \E c \in Ids : ContainerExits(c)
  PROVE  TypeInv'
<1>. USE DEF TypeInv, TypeOK, Holding
<1>1. troubles' \in 0..MaxTroubles
  BY DockerAssumption DEF CallThrows, ServerError, ContainerExits, Trouble
<1>2. ASSUME NEW r \in Requests, CallThrows(r)
      PROVE  TypeInv'
  <2>1. /\ state' \in [Ids -> {"free", "created", "running", "stopped", "removed"}]
        /\ ip' \in [Ids -> Ips \cup {NoIp}]
        /\ \A d \in Ids : state[d] # "free" => state'[d] # "free"
    BY <1>2, EffectTypes DEF CallThrows
  <2>. QED
    BY <1>1, <1>2, <2>1 DEF CallThrows
<1>3. ASSUME NEW r \in Requests, ServerError(r)
      PROVE  TypeInv'
  BY <1>1, <1>3 DEF ServerError, ReqGoto, dockerVars
<1>4. ASSUME NEW c \in Ids, ContainerExits(c)
      PROVE  TypeInv'
  BY <1>1, <1>4 DEF ContainerExits, SetContainer, requestVars
<1>. QED
  BY <1>2, <1>3, <1>4

\* Every step preserves it, and so does no step.
LEMMA TypeNext == TypeInv /\ [Next]_vars => TypeInv'
<1>. SUFFICES ASSUME TypeInv, [Next]_vars
              PROVE  TypeInv'
  OBVIOUS
<1>1. CASE UNCHANGED vars
  BY <1>1 DEF TypeInv, TypeOK, Holding, vars, dockerVars, requestVars
<1>. QED
  BY <1>1, ServeType, TroubleType DEF Next

\* Hence it is an invariant.
LEMMA TypeCorrect == Spec => []TypeInv
  BY TypeInit, TypeNext, PTL DEF Spec

\* Every state is well-typed: a request stops and removes a container, never an address.
THEOREM TypeSafe == Spec => []TypeOK
  BY TypeCorrect, PTL DEF TypeInv

-----------------------------------------------------------------------------
(* No reboot leaves a container behind that is not started.                *)

\* Only a request that goes on to start it creates a container.
LEMMA OrphanNext ==
  ASSUME TypeInv, OrphanNeedsTrouble, [Next]_vars
  PROVE  OrphanNeedsTrouble'
<1>. USE DEF OrphanNeedsTrouble, TypeInv, TypeOK, Holding, SetContainer
<1>1. CASE UNCHANGED vars
  BY <1>1 DEF vars, dockerVars, requestVars
<1>2. ASSUME NEW r \in Requests, Serve(r)
      PROVE  OrphanNeedsTrouble'
  <2>. USE DEF ReqGoto
  <2>1. CASE ListContainers(r)
    BY <2>1 DEF ListContainers, dockerVars
  <2>2. CASE StopContainer(r)
    BY <2>2 DEF StopContainer, Stop, dockerVars
  <2>3. CASE RemoveContainer(r)
    BY <2>3 DEF RemoveContainer, Remove, dockerVars
  <2>4. CASE CreateContainer(r)
    <3>1. PICK c \in Ids : Create(c) /\ newContID' = [newContID EXCEPT ![r] = c]
      BY <2>4 DEF CreateContainer
    <3>. QED
      BY <2>4, <3>1 DEF CreateContainer, Create
  <2>5. CASE StartContainer(r)
    BY <2>5 DEF StartContainer, Start, dockerVars
  <2>. QED
    BY <1>2, <2>1, <2>2, <2>3, <2>4, <2>5 DEF Serve
<1>3. CASE \/ \E r \in Requests : CallThrows(r) \/ ServerError(r)
           \/ \E c \in Ids : ContainerExits(c)
  BY <1>3, DockerAssumption DEF CallThrows, ServerError, ContainerExits, Trouble
<1>. QED
  BY <1>1, <1>2, <1>3 DEF Next

\* As long as nothing fails, a container that is created and does not run is about to be
\* started, whatever requests meet.
THEOREM NoOrphans == Spec => []OrphanNeedsTrouble
<1>1. Init => OrphanNeedsTrouble
  BY DEF Init, OrphanNeedsTrouble
<1>. QED
  BY <1>1, OrphanNext, TypeCorrect, PTL DEF Spec

-----------------------------------------------------------------------------
(* The number of containers falls only with trouble.                       *)

\* What one more or one less element does to a number of elements.
LEMMA Counts ==
  ASSUME NEW A, NEW B, IsFiniteSet(A), IsFiniteSet(B)
  PROVE  /\ Cardinality(A) \in Nat /\ Cardinality(B) \in Nat
         /\ A \subseteq B => Cardinality(A) <= Cardinality(B)
         /\ \A x : A \ {x} \subseteq B => Cardinality(A) <= Cardinality(B) + 1
         /\ \A x : x \notin A /\ A \cup {x} \subseteq B => Cardinality(A) + 1 <= Cardinality(B)
         /\ \A x, y : x \notin A /\ (A \ {y}) \cup {x} \subseteq B =>
              Cardinality(A) <= Cardinality(B)
<1>1. Cardinality(A) \in Nat /\ Cardinality(B) \in Nat
  BY FS_CardinalityType
<1>2. \A S \in SUBSET B : Cardinality(S) <= Cardinality(B)
  BY FS_Subset
<1>3. ASSUME NEW x, A \ {x} \subseteq B
      PROVE  Cardinality(A) <= Cardinality(B) + 1
  <2>1. Cardinality(A \ {x}) = IF x \in A THEN Cardinality(A) - 1 ELSE Cardinality(A)
    BY FS_RemoveElement
  <2>2. Cardinality(A \ {x}) <= Cardinality(B)
    BY <1>2, <1>3
  <2>. QED
    BY <1>1, <2>1, <2>2
<1>4. ASSUME NEW x, x \notin A, A \cup {x} \subseteq B
      PROVE  Cardinality(A) + 1 <= Cardinality(B)
  <2>1. Cardinality(A \cup {x}) = Cardinality(A) + 1
    BY <1>4, FS_AddElement
  <2>2. Cardinality(A \cup {x}) <= Cardinality(B)
    BY <1>2, <1>4
  <2>. QED
    BY <2>1, <2>2
<1>5. ASSUME NEW x, NEW y, x \notin A, (A \ {y}) \cup {x} \subseteq B
      PROVE  Cardinality(A) <= Cardinality(B)
  <2>1. /\ Cardinality(A \ {y}) = IF y \in A THEN Cardinality(A) - 1 ELSE Cardinality(A)
        /\ IsFiniteSet(A \ {y})
    BY FS_RemoveElement
  <2>2. Cardinality((A \ {y}) \cup {x}) = Cardinality(A \ {y}) + 1
    BY <1>5, <2>1, FS_AddElement
  <2>3. Cardinality((A \ {y}) \cup {x}) <= Cardinality(B)
    BY <1>2, <1>5
  <2>. QED
    BY <1>1, <2>1, <2>2, <2>3
<1>. QED
  BY <1>1, <1>2, <1>3, <1>4, <1>5

\* The ways in which the balance is kept: nothing is lost, one container is exchanged for
\* one that is owed or the other way round, one request owes instead of another, or what
\* is lost is counted.
LEMMA BalanceKept ==
  ASSUME TypeInv, Balance,
         \/ Running \subseteq Running' /\ Owing \subseteq Owing' /\ troubles' = troubles
         \/ \E c, r : /\ Running \ {c} \subseteq Running'
                      /\ r \notin Owing /\ Owing \cup {r} \subseteq Owing' /\ troubles' = troubles
         \/ \E c, r : /\ c \notin Running /\ Running \cup {c} \subseteq Running'
                      /\ Owing \ {r} \subseteq Owing' /\ troubles' = troubles
         \/ \E q, r : /\ Running \subseteq Running'
                      /\ r \notin Owing /\ (Owing \ {q}) \cup {r} \subseteq Owing'
                      /\ troubles' = troubles
         \/ \E c : /\ Running \ {c} \subseteq Running' /\ Owing \subseteq Owing'
                   /\ troubles' = troubles + 1
         \/ \E r : /\ Running \subseteq Running' /\ Owing \ {r} \subseteq Owing'
                   /\ troubles' = troubles + 1
  PROVE  Balance'
<1>1. IsFiniteSet(Running) /\ IsFiniteSet(Running') /\ IsFiniteSet(Owing) /\ IsFiniteSet(Owing')
  BY DockerAssumption, FS_Subset DEF Running, Owing
<1>2. Cardinality(Deployed) \in Nat /\ troubles \in Nat
  BY DockerAssumption, FS_Subset, FS_CardinalityType DEF TypeInv, TypeOK
<1>. DEFINE R == Cardinality(Running)   RR == Cardinality(Running')
            O == Cardinality(Owing)     OO == Cardinality(Owing')
<1>3. /\ R \in Nat /\ RR \in Nat
      /\ Running \subseteq Running' => R <= RR
      /\ \A x : Running \ {x} \subseteq Running' => R <= RR + 1
      /\ \A x : x \notin Running /\ Running \cup {x} \subseteq Running' => R + 1 <= RR
  BY <1>1, Counts
<1>4. /\ O \in Nat /\ OO \in Nat
      /\ Owing \subseteq Owing' => O <= OO
      /\ \A x : Owing \ {x} \subseteq Owing' => O <= OO + 1
      /\ \A x : x \notin Owing /\ Owing \cup {x} \subseteq Owing' => O + 1 <= OO
      /\ \A x, y : x \notin Owing /\ (Owing \ {y}) \cup {x} \subseteq Owing' => O <= OO
  BY <1>1, Counts
<1>5. R + O + troubles >= Cardinality(Deployed)
  BY DEF Balance
<1>. HIDE DEF R, RR, O, OO
<1>6. RR + OO + troubles' >= Cardinality(Deployed)
  <2>1. \/ R <= RR /\ O <= OO /\ troubles' = troubles
        \/ R <= RR + 1 /\ O + 1 <= OO /\ troubles' = troubles
        \/ R + 1 <= RR /\ O <= OO + 1 /\ troubles' = troubles
        \/ R <= RR + 1 /\ O <= OO /\ troubles' = troubles + 1
        \/ R <= RR /\ O <= OO + 1 /\ troubles' = troubles + 1
    BY <1>3, <1>4, Zenon
  <2>. QED
    BY <1>2, <1>3, <1>4, <1>5, <2>1
<1>. QED
  BY <1>6 DEF Balance, RR, OO

\* A request that serves keeps the balance.
LEMMA BalanceServe ==
  ASSUME TypeInv, Balance, NEW r \in Requests, Serve(r)
  PROVE  Balance'
<1>. USE DEF TypeInv, TypeOK, Holding, ReqGoto, SetContainer
<1>0. troubles' = troubles
  BY DEF Serve, ListContainers, StopContainer, RemoveContainer, CreateContainer, StartContainer
<1>1. CASE ListContainers(r)
  <2>1. Running \subseteq Running' /\ Owing \subseteq Owing'
    BY <1>1 DEF ListContainers, dockerVars, Running, Owing, Owes
  <2>. QED
    BY <1>0, <2>1, BalanceKept
<1>2. CASE StopContainer(r)
  <2>. DEFINE c == target[r]
  <2>1. c \in Ids /\ r \notin Owing
    BY <1>2 DEF StopContainer, Running, Owing, Owes
  <2>2. CASE state[c] = "running"
    <3>1. Running \ {c} \subseteq Running' /\ Owing \cup {r} \subseteq Owing'
      BY <1>2, <2>1, <2>2 DEF StopContainer, Stop, Running, Owing, Owes
    <3>. QED
      BY <1>0, <2>1, <3>1, BalanceKept
  <2>3. CASE state[c] # "running"
    <3>1. Running \subseteq Running' /\ Owing \subseteq Owing'
      BY <1>2, <2>1, <2>3 DEF StopContainer, Stop, dockerVars, Running, Owing, Owes
    <3>. QED
      BY <1>0, <3>1, BalanceKept
  <2>. QED
    BY <2>2, <2>3
<1>3. CASE RemoveContainer(r)
  <2>. DEFINE c == target[r]
  <2>1. c \in Ids
    BY <1>3 DEF RemoveContainer
  <2>2. CASE state[c] = "created"
    <3>1. Running \subseteq Running' /\ r \notin Owing
      BY <1>3, <2>1, <2>2 DEF RemoveContainer, Remove, Running, Owing, Owes
    <3>2. \E q : (Owing \ {q}) \cup {r} \subseteq Owing'
      <4>1. CASE \E q \in Requests : reqPc[q] = "start" /\ newContID[q] = c
        <5>1. PICK q \in Requests : reqPc[q] = "start" /\ newContID[q] = c
          BY <4>1
        <5>2. (Owing \ {q}) \cup {r} \subseteq Owing'
          BY <1>3, <2>1, <2>2, <5>1 DEF RemoveContainer, Remove, Running, Owing, Owes
        <5>. QED
          BY <5>2
      <4>2. CASE ~ \E q \in Requests : reqPc[q] = "start" /\ newContID[q] = c
        <5>1. (Owing \ {r}) \cup {r} \subseteq Owing'
          BY <1>3, <2>1, <2>2, <4>2 DEF RemoveContainer, Remove, Running, Owing, Owes
        <5>. QED
          BY <5>1
      <4>. QED
        BY <4>1, <4>2
    <3>. QED
      BY <1>0, <3>1, <3>2, BalanceKept
  <2>3. CASE state[c] # "created"
    <3>1. Running \subseteq Running' /\ Owing \subseteq Owing'
      BY <1>3, <2>1, <2>3 DEF RemoveContainer, Remove, dockerVars, Running, Owing, Owes
    <3>. QED
      BY <1>0, <3>1, BalanceKept
  <2>. QED
    BY <2>2, <2>3
<1>4. CASE CreateContainer(r)
  <2>1. PICK c \in Ids : Create(c) /\ newContID' = [newContID EXCEPT ![r] = c]
    BY <1>4 DEF CreateContainer
  <2>2. Running \subseteq Running' /\ Owing \subseteq Owing'
    BY <1>4, <2>1 DEF CreateContainer, Create, Running, Owing, Owes
  <2>. QED
    BY <1>0, <2>2, BalanceKept
<1>5. CASE StartContainer(r)
  <2>. DEFINE c == newContID[r]
  <2>1. c \in Ids
    BY <1>5 DEF StartContainer
  <2>2. CASE state[c] \in {"created", "stopped"}
    <3>1. c \notin Running /\ Running \cup {c} \subseteq Running' /\ Owing \ {r} \subseteq Owing'
      BY <1>5, <2>1, <2>2 DEF StartContainer, Start, Running, Owing, Owes
    <3>. QED
      BY <1>0, <3>1, BalanceKept
  <2>3. CASE state[c] \notin {"created", "stopped"}
    <3>1. Running \subseteq Running' /\ Owing \subseteq Owing'
      BY <1>5, <2>1, <2>3 DEF StartContainer, Start, dockerVars, Running, Owing, Owes
    <3>. QED
      BY <1>0, <3>1, BalanceKept
  <2>. QED
    BY <2>2, <2>3
<1>. QED
  BY <1>1, <1>2, <1>3, <1>4, <1>5 DEF Serve

\* Trouble costs one container, or one request that owes one, at most.
LEMMA BalanceTrouble ==
  ASSUME TypeInv, Balance,
         \/ \E r \in Requests : CallThrows(r) \/ ServerError(r)
         \/ \E c \in Ids : ContainerExits(c)
  PROVE  Balance'
<1>. USE DEF TypeInv, TypeOK, Holding, SetContainer
<1>0. troubles' = troubles + 1
  BY DEF CallThrows, ServerError, ContainerExits, Trouble
<1>1. ASSUME NEW r \in Requests, CallThrows(r)
      PROVE  Balance'
  <2>1. \A q \in Requests : q # r => reqPc'[q] = reqPc[q]
    BY <1>1 DEF CallThrows
  <2>2. newContID' = newContID /\ target' = target
    BY <1>1 DEF CallThrows
  <2>3. CASE UNCHANGED dockerVars
    <3>1. Running \subseteq Running' /\ Owing \ {r} \subseteq Owing'
      BY <2>1, <2>2, <2>3 DEF dockerVars, Running, Owing, Owes
    <3>. QED
      BY <1>0, <3>1, BalanceKept
  <2>4. CASE reqPc[r] = "stop" /\ Stop(target[r])
    <3>1. Running \ {target[r]} \subseteq Running' /\ Owing \subseteq Owing'
      BY <2>1, <2>2, <2>4 DEF Stop, dockerVars, Running, Owing, Owes
    <3>. QED
      BY <1>0, <3>1, BalanceKept
  <2>5. CASE reqPc[r] = "remove" /\ Remove(target[r])
    <3>. DEFINE c == target[r]
    <3>1. Running \subseteq Running'
      BY <2>5 DEF Remove, dockerVars, Running, Owing, Owes
    <3>2. CASE \E q \in Requests : reqPc[q] = "start" /\ newContID[q] = c /\ state[c] = "created"
      <4>1. PICK q \in Requests : reqPc[q] = "start" /\ newContID[q] = c /\ state[c] = "created"
        BY <3>2
      <4>2. Owing \ {q} \subseteq Owing'
        BY <2>1, <2>2, <2>5, <4>1 DEF Remove, dockerVars, Running, Owing, Owes
      <4>. QED
        BY <1>0, <3>1, <4>2, BalanceKept
    <3>3. CASE ~ \E q \in Requests : reqPc[q] = "start" /\ newContID[q] = c /\ state[c] = "created"
      <4>1. Owing \ {r} \subseteq Owing'
        BY <2>1, <2>2, <2>5, <3>3 DEF Remove, dockerVars, Running, Owing, Owes
      <4>. QED
        BY <1>0, <3>1, <4>1, BalanceKept
    <3>. QED
      BY <3>2, <3>3
  <2>6. ASSUME NEW c \in Ids, reqPc[r] = "create", Create(c)
        PROVE  Balance'
    <3>1. Running \subseteq Running' /\ Owing \ {r} \subseteq Owing'
      BY <2>1, <2>2, <2>6 DEF Create, Running, Owing, Owes
    <3>. QED
      BY <1>0, <3>1, BalanceKept
  <2>7. CASE reqPc[r] = "start" /\ Start(newContID[r])
    <3>1. Running \subseteq Running' /\ Owing \ {r} \subseteq Owing'
      BY <2>1, <2>2, <2>7 DEF Start, dockerVars, Running, Owing, Owes
    <3>. QED
      BY <1>0, <3>1, BalanceKept
  <2>. QED
    BY <1>1, <2>3, <2>4, <2>5, <2>6, <2>7 DEF CallThrows, Effect
<1>2. ASSUME NEW r \in Requests, ServerError(r)
      PROVE  Balance'
  <2>1. Running \subseteq Running' /\ Owing \ {r} \subseteq Owing'
    BY <1>2 DEF ServerError, ReqGoto, dockerVars, Running, Owing, Owes
  <2>. QED
    BY <1>0, <2>1, BalanceKept
<1>3. ASSUME NEW c \in Ids, ContainerExits(c)
      PROVE  Balance'
  <2>1. Running \ {c} \subseteq Running' /\ Owing \subseteq Owing'
    BY <1>3 DEF ContainerExits, requestVars, Running, Owing, Owes
  <2>. QED
    BY <1>0, <2>1, BalanceKept
<1>. QED
  BY <1>1, <1>2, <1>3

\* What a request owes it is about to replace.
LEMMA OwingReplaces == TypeInv /\ Balance => NeverFewer
<1>. SUFFICES ASSUME TypeInv, Balance
              PROVE  NeverFewer
  OBVIOUS
<1>1. Owing \subseteq Replacing
  BY DEF Owing, Owes, Replacing
<1>2. IsFiniteSet(Running) /\ IsFiniteSet(Owing) /\ IsFiniteSet(Replacing)
  BY DockerAssumption, FS_Subset DEF Running, Owing, Replacing
<1>3. /\ Cardinality(Owing) <= Cardinality(Replacing)
      /\ Cardinality(Owing) \in Nat /\ Cardinality(Replacing) \in Nat
  BY <1>1, <1>2, Counts
<1>4. /\ Cardinality(Running) \in Nat /\ Cardinality(Deployed) \in Nat /\ troubles \in Nat
  BY <1>2, DockerAssumption, FS_Subset, FS_CardinalityType DEF TypeInv, TypeOK
<1>. QED
  BY <1>3, <1>4 DEF Balance, NeverFewer

\* However many requests meet over one container and wherever they fail, each container
\* that was deployed runs, is being replaced, or is made up for by a failure.
THEOREM NoneMissing == Spec => []NeverFewer
<1>1. Init => Balance
  <2>. SUFFICES ASSUME Init PROVE Balance
    OBVIOUS
  <2>1. Running = Deployed /\ Owing = {} /\ troubles = 0
    BY DockerAssumption DEF Init, Running, Owing, Owes
  <2>2. Cardinality(Deployed) \in Nat /\ Cardinality({}) = 0
    BY DockerAssumption, FS_Subset, FS_CardinalityType, FS_EmptySet
  <2>. QED
    BY <2>1, <2>2 DEF Balance
<1>2. TypeInv /\ Balance /\ [Next]_vars => Balance'
  <2>. SUFFICES ASSUME TypeInv, Balance, [Next]_vars
                PROVE  Balance'
    OBVIOUS
  <2>1. CASE UNCHANGED vars
    BY <2>1 DEF vars, dockerVars, requestVars, Balance, Running, Owing, Owes
  <2>. QED
    BY <2>1, BalanceServe, BalanceTrouble DEF Next
<1>. QED
  BY <1>1, <1>2, OwingReplaces, TypeCorrect, PTL DEF Spec


-----------------------------------------------------------------------------
(* The number of containers does not rise either, if no two requests are   *)
(* for the same one.                                                       *)

\* An address is that of a running container, and a request that has not listed the
\* containers yet has found none.
Addresses ==
  /\ \A c \in Ids : ip[c] # NoIp => state[c] = "running"
  /\ \A r \in Requests : reqPc[r] = "list" => target[r] = NoId

\* Nothing failed, and no request is for the container of another.
Alone == troubles = 0 /\ DistinctTargets /\ \A r \in Requests : rebIP[r] # NoIp

\* Each request then finds its container as it left it, and makes up for what it took.
Undisturbed ==
  /\ \A r \in Requests :
       /\ reqPc[r] = "stop" => state[target[r]] = "running"
       /\ reqPc[r] = "remove" => state[target[r]] = "stopped"
       /\ reqPc[r] = "start" => state[newContID[r]] = "created"
  /\ Cardinality(Running) + Cardinality(Replacing) = Cardinality(Deployed)

CountInv == Addresses /\ (Alone => Undisturbed)

\* Only a running container has an address.
LEMMA AddressesStep ==
  ASSUME TypeInv, Addresses, [Next]_vars
  PROVE  Addresses'
<1>. USE DEF TypeInv, TypeOK, Holding, Addresses, SetContainer, dockerVars
<1>1. ASSUME NEW c \in Ids, Stop(c) \/ Remove(c) \/ Create(c) \/ Start(c)
      PROVE  \A d \in Ids : ip'[d] # NoIp => state'[d] = "running"
  BY <1>1 DEF Stop, Remove, Create, Start
<1>2. UNCHANGED dockerVars => \A d \in Ids : ip'[d] # NoIp => state'[d] = "running"
  OBVIOUS
<1>3. ASSUME NEW r \in Requests, Serve(r) \/ CallThrows(r) \/ ServerError(r)
      PROVE  Addresses'
  <2>1. \A q \in Requests : reqPc'[q] = "list" => reqPc[q] = "list" /\ target'[q] = target[q]
    BY <1>3 DEF Serve, ListContainers, StopContainer, RemoveContainer, CreateContainer,
                StartContainer, CallThrows, ServerError, ReqGoto
  <2>2. \/ UNCHANGED dockerVars
        \/ \E c \in Ids : Stop(c) \/ Remove(c) \/ Create(c) \/ Start(c)
    BY <1>3 DEF Serve, ListContainers, StopContainer, RemoveContainer, CreateContainer,
                StartContainer, CallThrows, ServerError, Effect, ReqGoto
  <2>. QED
    BY <1>1, <1>2, <2>1, <2>2
<1>4. ASSUME NEW c \in Ids, ContainerExits(c)
      PROVE  Addresses'
  BY <1>4 DEF ContainerExits, requestVars
<1>5. CASE UNCHANGED vars
  BY <1>5 DEF vars, requestVars
<1>. QED
  BY <1>3, <1>4, <1>5 DEF Next

\* A request keeps out of the way of the others as long as nothing fails.
LEMMA AloneBefore ==
  ASSUME TypeInv, Addresses, Alone', [Next]_vars
  PROVE  /\ Alone /\ UNCHANGED troubles
         /\ UNCHANGED vars \/ \E r \in Requests : Serve(r)
<1>. USE DEF TypeInv, TypeOK, Alone
<1>1. UNCHANGED vars \/ \E r \in Requests : Serve(r)
  <2>1. troubles \in Nat /\ troubles' # troubles + 1
    BY DockerAssumption
  <2>. QED
    BY <2>1 DEF Next, CallThrows, ServerError, ContainerExits, Trouble
<1>2. UNCHANGED <<troubles, rebIP>>
  BY <1>1 DEF vars, requestVars, Serve, ListContainers, StopContainer, RemoveContainer,
              CreateContainer, StartContainer
<1>3. \A r \in Requests : target'[r] = target[r] \/ target[r] = NoId
  BY <1>1 DEF vars, requestVars, Serve, ListContainers, StopContainer, RemoveContainer,
              CreateContainer, StartContainer, ReqGoto, Addresses
<1>4. DistinctTargets
  BY <1>3 DEF DistinctTargets
<1>. QED
  BY <1>1, <1>2, <1>4

\* A number of containers that changes by one against a number of requests.
LEMMA SumKept ==
  ASSUME NEW A, NEW AA, NEW B, NEW BB,
         IsFiniteSet(A), IsFiniteSet(AA), IsFiniteSet(B), IsFiniteSet(BB),
         \/ AA = A /\ BB = B
         \/ \E c, r : c \in A /\ AA = A \ {c} /\ r \notin B /\ BB = B \cup {r}
         \/ \E c, r : c \notin A /\ AA = A \cup {c} /\ r \in B /\ BB = B \ {r}
  PROVE  Cardinality(AA) + Cardinality(BB) = Cardinality(A) + Cardinality(B)
<1>1. \A S : IsFiniteSet(S) => Cardinality(S) \in Nat
  BY FS_CardinalityType
<1>2. \A S, x : IsFiniteSet(S) /\ x \in S => Cardinality(S \ {x}) = Cardinality(S) - 1
  BY FS_RemoveElement
<1>3. \A S, x : IsFiniteSet(S) /\ x \notin S => Cardinality(S \cup {x}) = Cardinality(S) + 1
  BY FS_AddElement
<1>. QED
  BY <1>1, <1>2, <1>3

\* Serving keeps the sum of what runs and what is replaced.
LEMMA UndisturbedServe ==
  ASSUME TypeInv, Addresses, Alone, Undisturbed, Alone', NEW r \in Requests, Serve(r)
  PROVE  Undisturbed'
<1>. USE DEF TypeInv, TypeOK, Holding, Undisturbed, ReqGoto, SetContainer
<1>0. /\ IsFiniteSet(Running) /\ IsFiniteSet(Running')
      /\ IsFiniteSet(Replacing) /\ IsFiniteSet(Replacing')
  BY DockerAssumption, FS_Subset DEF Running, Replacing
<1>a. \A q \in Requests : q # r /\ target'[r] # NoId => target'[q] # target'[r]
  BY DEF Alone, DistinctTargets
<1>1. CASE ListContainers(r)
  <2>1. Running' = Running /\ Replacing' = Replacing
    BY <1>1 DEF ListContainers, dockerVars, Running, Replacing
  <2>2. reqPc'[r] = "stop" => state'[target'[r]] = "running"
    <3>. SUFFICES ASSUME reqPc'[r] = "stop" PROVE state'[target'[r]] = "running"
      OBVIOUS
    <3>1. PICK c \in Ids : ip[c] = rebIP[r] /\ target' = [target EXCEPT ![r] = c]
      BY <1>1 DEF ListContainers, Converted, Listed
    <3>2. state[c] = "running" /\ state' = state
      BY <1>1, <3>1 DEF Alone, Addresses, ListContainers, dockerVars
    <3>. QED
      BY <3>1, <3>2
  <2>3. \A q \in Requests : q # r => reqPc'[q] = reqPc[q] /\ target'[q] = target[q]
    BY <1>1 DEF ListContainers
  <2>. QED
    BY <1>1, <2>1, <2>2, <2>3 DEF ListContainers, dockerVars
<1>2. CASE StopContainer(r)
  <2>. DEFINE c == target[r]
  <2>1. /\ c \in Ids /\ state[c] = "running" /\ target' = target /\ newContID' = newContID
        /\ state' = [state EXCEPT ![c] = "stopped"]
        /\ reqPc[r] = "stop" /\ reqPc' = [reqPc EXCEPT ![r] = "remove"]
    BY <1>2 DEF StopContainer, Stop
  <2>2. /\ c \in Running /\ Running' = Running \ {c}
        /\ r \notin Replacing /\ Replacing' = Replacing \cup {r}
    BY <2>1 DEF Running, Replacing
  <2>3. Cardinality(Running') + Cardinality(Replacing') = Cardinality(Running) + Cardinality(Replacing)
    BY <1>0, <2>2, SumKept
  <2>4. \A q \in Requests : q # r => target[q] # c
    BY <1>a, <2>1, DockerAssumption
  <2>. QED
    BY <2>1, <2>3, <2>4
<1>3. CASE RemoveContainer(r)
  <2>. DEFINE c == target[r]
  <2>1. /\ c \in Ids /\ state[c] = "stopped" /\ target' = target /\ newContID' = newContID
        /\ state' = [state EXCEPT ![c] = "removed"]
        /\ reqPc[r] = "remove" /\ reqPc' = [reqPc EXCEPT ![r] = "create"]
    BY <1>3 DEF RemoveContainer, Remove
  <2>2. Running' = Running /\ Replacing' = Replacing
    BY <2>1 DEF Running, Replacing
  <2>4. \A q \in Requests : q # r => target[q] # c
    BY <1>a, <2>1, DockerAssumption
  <2>. QED
    BY <2>1, <2>2, <2>4
<1>4. CASE CreateContainer(r)
  <2>1. PICK c \in Ids : Create(c) /\ newContID' = [newContID EXCEPT ![r] = c]
    BY <1>4 DEF CreateContainer
  <2>2. /\ state[c] = "free" /\ target' = target /\ state' = [state EXCEPT ![c] = "created"]
        /\ reqPc[r] = "create" /\ reqPc' = [reqPc EXCEPT ![r] = "start"]
    BY <1>4, <2>1 DEF CreateContainer, Create
  <2>3. Running' = Running /\ Replacing' = Replacing
    BY <2>2 DEF Running, Replacing
  <2>. QED
    BY <2>1, <2>2, <2>3
<1>5. CASE StartContainer(r)
  <2>. DEFINE c == newContID[r]
  <2>1. /\ c \in Ids /\ state[c] = "created" /\ target' = target /\ newContID' = newContID
        /\ state' = [state EXCEPT ![c] = "running"]
        /\ reqPc[r] = "start" /\ reqPc' = [reqPc EXCEPT ![r] = "done"]
    BY <1>5 DEF StartContainer, Start
  <2>2. /\ c \notin Running /\ Running' = Running \cup {c}
        /\ r \in Replacing /\ Replacing' = Replacing \ {r}
    BY <2>1 DEF Running, Replacing
  <2>3. Cardinality(Running') + Cardinality(Replacing') = Cardinality(Running) + Cardinality(Replacing)
    BY <1>0, <2>2, SumKept
  <2>4. \A q \in Requests : q # r /\ reqPc[q] = "start" => newContID[q] # c
    BY <2>1
  <2>. QED
    BY <2>1, <2>3, <2>4
<1>. QED
  BY <1>1, <1>2, <1>3, <1>4, <1>5 DEF Serve

\* Requests for different containers, none of which fails, leave as many running as were
\* deployed: each takes one that runs, and starts one that no other request holds.
THEOREM CountStays == Spec => []CountKept
<1>1. Init => CountInv
  <2>. SUFFICES ASSUME Init PROVE CountInv
    OBVIOUS
  <2>1. Addresses
    BY DEF Init, Addresses
  <2>2. Running = Deployed /\ Replacing = {}
    BY DockerAssumption DEF Init, Running, Replacing
  <2>3. Cardinality(Deployed) \in Nat /\ Cardinality({}) = 0
    BY DockerAssumption, FS_Subset, FS_CardinalityType, FS_EmptySet
  <2>4. Undisturbed
    BY <2>2, <2>3 DEF Undisturbed, Init
  <2>. QED
    BY <2>1, <2>4 DEF CountInv
<1>2. TypeInv /\ CountInv /\ [Next]_vars => CountInv'
  <2>. SUFFICES ASSUME TypeInv, CountInv, [Next]_vars
                PROVE  CountInv'
    OBVIOUS
  <2>1. Addresses'
    BY AddressesStep DEF CountInv
  <2>2. ASSUME Alone'
        PROVE  Undisturbed'
    <3>1. Alone /\ (UNCHANGED vars \/ \E r \in Requests : Serve(r))
      BY <2>2, AloneBefore DEF CountInv
    <3>2. CASE UNCHANGED vars
      BY <3>1, <3>2
      DEF vars, dockerVars, requestVars, CountInv, Undisturbed, Running, Replacing
    <3>. QED
      BY <2>2, <3>1, <3>2, UndisturbedServe DEF CountInv
  <2>. QED
    BY <2>1, <2>2 DEF CountInv
<1>3. TypeInv /\ CountInv => CountKept
  <2>. SUFFICES ASSUME TypeInv, CountInv, Alone, Replacing = {}
                PROVE  Cardinality(Running) = Cardinality(Deployed)
    BY DEF CountKept, Alone
  <2>1. Cardinality(Running) \in Nat /\ Cardinality({}) = 0
    BY DockerAssumption, FS_Subset, FS_CardinalityType, FS_EmptySet DEF Running
  <2>. QED
    BY <2>1 DEF CountInv, Undisturbed
<1>. QED
  BY <1>1, <1>2, <1>3, TypeCorrect, PTL DEF Spec

=============================================================================
