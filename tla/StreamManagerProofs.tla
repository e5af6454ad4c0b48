------------------------- MODULE StreamManagerProofs -------------------------
(***************************************************************************)
(* Machine-checked proofs about StreamManager, for any sets of clients and *)
(* interests and any subset of interests that may fail to open.            *)
(***************************************************************************)
EXTENDS StreamManager, TLAPS

-----------------------------------------------------------------------------
(* The lock queues.                                                        *)

(* Joining the tail of a queue: the newcomer is queued, nobody else moves. *)
LEMMA JoinQueue ==
  ASSUME NEW S, NEW lock \in Seq(S), NEW p \in S
  PROVE  /\ Append(lock, p) \in Seq(S)
         /\ Len(Append(lock, p)) = Len(lock) + 1
         /\ Append(lock, p)[Len(lock) + 1] = p
         /\ \A k \in 1..Len(lock) : Append(lock, p)[k] = lock[k]
         /\ \A q : Queued(Append(lock, p), q) <=> Queued(lock, q) \/ q = p
         /\ \A q : Holds(lock, q) => Holds(Append(lock, p), q)
  BY DEF Queued, Holds

(* The head leaves: everybody else is still queued, one place further up.  *)
LEMMA LeaveQueue ==
  ASSUME NEW S, NEW lock \in Seq(S), lock # <<>>
  PROVE  /\ Tail(lock) \in Seq(S)
         /\ Len(Tail(lock)) = Len(lock) - 1
         /\ Len(lock) \in Nat \ {0}
         /\ \A k \in 1..Len(Tail(lock)) : Tail(lock)[k] = lock[k + 1] /\ k + 1 \in 1..Len(lock)
         /\ \A q : Queued(Tail(lock), q) => Queued(lock, q)
         /\ \A q : Queued(lock, q) /\ ~Holds(lock, q) => Queued(Tail(lock), q)
  <1>1. /\ Tail(lock) \in Seq(S)
        /\ Len(Tail(lock)) = Len(lock) - 1
        /\ Len(lock) \in Nat \ {0}
    OBVIOUS
  <1>2. \A k \in 1..Len(Tail(lock)) : Tail(lock)[k] = lock[k + 1] /\ k + 1 \in 1..Len(lock)
    BY <1>1
  <1>3. \A q : Queued(Tail(lock), q) => Queued(lock, q)
    BY <1>1, <1>2 DEF Queued
  <1>4. ASSUME NEW q, Queued(lock, q), ~Holds(lock, q)
        PROVE  Queued(Tail(lock), q)
    <2>1. PICK k \in 1..Len(lock) : lock[k] = q
      BY <1>4 DEF Queued
    <2>2. k # 1
      BY <2>1, <1>4, <1>1 DEF Holds
    <2>3. k - 1 \in 1..Len(Tail(lock)) /\ Tail(lock)[k - 1] = lock[k]
      BY <2>1, <2>2, <1>1, <1>2
    <2>4. QED
      BY <2>1, <2>3 DEF Queued
  <1>5. QED
    BY <1>1, <1>2, <1>3, <1>4

(* Cancelling waiters: the queue keeps its length, and whoever is neither  *)
(* a cancelled task nor the dead mark keeps its place.                     *)
LEMMA BuryQueue ==
  ASSUME NEW S, NEW lock \in Seq(S), NEW T, Dead \in S
  PROVE  /\ Bury(lock, T) \in Seq(S)
         /\ Len(Bury(lock, T)) = Len(lock)
         /\ \A q : q \notin T /\ q # Dead => 
              /\ \A k \in 1..Len(lock) : Bury(lock, T)[k] = q <=> lock[k] = q
              /\ Queued(Bury(lock, T), q) <=> Queued(lock, q)
              /\ Holds(Bury(lock, T), q) <=> Holds(lock, q)
  <1>1. Bury(lock, T) \in Seq(S) /\ Len(Bury(lock, T)) = Len(lock)
    BY DEF Bury
  <1>2. \A k \in 1..Len(lock) :
          Bury(lock, T)[k] = IF lock[k] \in T THEN Dead ELSE lock[k]
    BY DEF Bury
  <1>3. ASSUME NEW q, q \notin T, q # Dead
        PROVE  /\ \A k \in 1..Len(lock) : Bury(lock, T)[k] = q <=> lock[k] = q
               /\ Queued(Bury(lock, T), q) <=> Queued(lock, q)
               /\ Holds(Bury(lock, T), q) <=> Holds(lock, q)
    <2>1. \A k \in 1..Len(lock) : Bury(lock, T)[k] = q <=> lock[k] = q
      BY <1>2, <1>3
    <2>2. Queued(Bury(lock, T), q) <=> Queued(lock, q)
      BY <2>1, <1>1 DEF Queued
    <2>3. Holds(Bury(lock, T), q) <=> Holds(lock, q)
      <3>1. lock # <<>> <=> Len(lock) \in Nat \ {0}
        OBVIOUS
      <3>2. Bury(lock, T) # <<>> <=> Len(lock) \in Nat \ {0}
        BY <1>1
      <3>3. lock # <<>> => Head(lock) = lock[1] /\ Head(Bury(lock, T)) = Bury(lock, T)[1]
        BY <1>1, <3>1, <3>2
      <3>4. QED
        BY <2>1, <3>1, <3>2, <3>3 DEF Holds
    <2>4. QED
      BY <2>1, <2>2, <2>3
  <1>4. QED
    BY <1>1, <1>3

-----------------------------------------------------------------------------
(* Types.                                                                  *)

(* The initial state is well typed.                                        *)
LEMMA InitType == Init => TypeOK
  BY DEF Init, TypeOK, HandlerPhases, CleanupPhases, StopPhases

(* What joining or leaving the tail of either lock's queue yields.         *)
LEMMA QueueTypes ==
  ASSUME TypeOK
  PROVE  /\ \A p \in Procs : Append(managerLock, p) \in Seq(Procs)
         /\ \A p \in Procs : Append(routerLock, p) \in Seq(Procs)
         /\ \A p : Holds(managerLock, p) => Tail(managerLock) \in Seq(Procs)
         /\ \A p : Holds(routerLock, p) => Tail(routerLock) \in Seq(Procs)
         /\ \A T : Bury(managerLock, T) \in Seq(Procs)
         /\ \A p, T : Holds(managerLock, p) => Bury(Tail(managerLock), T) \in Seq(Procs)
  <1>1. Dead \in Procs /\ managerLock \in Seq(Procs) /\ routerLock \in Seq(Procs)
    BY DEF TypeOK, Procs
  <1>2. QED
    BY <1>1, JoinQueue, LeaveQueue, BuryQueue DEF Holds

(* Every step of a task keeps the types.                                   *)
LEMMA NextType == TypeOK /\ [Next]_vars => TypeOK'
  <1> SUFFICES ASSUME TypeOK, [Next]_vars
               PROVE  TypeOK'
    OBVIOUS
  <1> USE ProcsAssumption, FailableAssumption
      DEF TypeOK, HandlerPhases, CleanupPhases, StopPhases, Moves, stateVars, registerVars, routerVars
  <1>0. /\ Clients \subseteq Procs /\ Interests \subseteq Procs
        /\ Stop \in Procs /\ Dead \in Procs
    BY DEF Procs
  <1> USE <1>0, QueueTypes
  <1>1. ASSUME NEW c \in Clients, NEW w \in (SUBSET Interests) \ {{}}, Connect(c, w)
        PROVE  TypeOK'
    BY <1>1 DEF Connect
  <1>2. ASSUME NEW c \in Clients, HandlerStep(c)
        PROVE  TypeOK'
    <2>1. CASE Refuse(c)
      BY <2>1 DEF Refuse
    <2>2. CASE BeginRegister(c)
      BY <2>2 DEF BeginRegister
    <2>3. ASSUME NEW i \in Interests, Join(c, i)
          PROVE  TypeOK'
      BY <2>3 DEF Join, WithoutTasks
    <2>4. ASSUME NEW i \in Interests, Open(c, i)
          PROVE  TypeOK'
      BY <2>4 DEF Open
    <2>5. CASE OpenSucceeds(c)
      BY <2>5 DEF OpenSucceeds
    <2>6. CASE OpenFails(c)
      BY <2>6 DEF OpenFails
    <2>7. ASSUME NEW i \in Interests, Rollback(c, i)
          PROVE  TypeOK'
      BY <2>7 DEF Rollback
    <2>8. CASE RollbackUnsubscribed(c)
      BY <2>8 DEF RollbackUnsubscribed, Unsubscribe
    <2>9. CASE RegisterFails(c)
      BY <2>9 DEF RegisterFails
    <2>10. CASE Admit(c)
      BY <2>10 DEF Admit
    <2>11. CASE Unregister(c)
      <3>1. CASE c \in clients
        <4>1. clients' \in SUBSET Clients
          BY <2>11, <3>1 DEF Unregister
        <4>1a. subscribers' \in [Interests -> SUBSET Clients]
          <5>1. subscribers' = [i \in Interests |->
                   IF i \in request[c] \cap interests
                   THEN subscribers[i] \ {c} ELSE subscribers[i]]
            BY <2>11, <3>1 DEF Unregister
          <5>2. QED
            BY <5>1
        <4>2. cleanupTask' \in [Interests -> BOOLEAN]
          BY <2>11, <3>1 DEF Unregister
        <4>3. cleanup' \in [Interests -> CleanupPhases]
          BY <2>11, <3>1 DEF Unregister
        <4>4. managerLock' \in Seq(Procs) /\ handler' \in [Clients -> HandlerPhases]
          BY <2>11 DEF Unregister
        <4>5. UNCHANGED <<request, interests, stopper, todo, opened, target, routerLock,
                          routed, upstream>>
          BY <2>11 DEF Unregister
        <4>6. \A d \in Clients :
                handler'[d] \in {"opening", "unsubscribing"} => target' \in Interests
          BY <2>11 DEF Unregister
        <4>7. QED
          BY <4>1, <4>2, <4>3, <4>4, <4>5, <4>6, <4>1a
      <3>2. CASE c \notin clients
        BY <2>11, <3>2 DEF Unregister
      <3>3. QED
        BY <3>1, <3>2
    <2>20. QED
      BY <1>2, <2>1, <2>2, <2>3, <2>4, <2>5, <2>6, <2>7, <2>8, <2>9, <2>10, <2>11 DEF HandlerStep
  <1>3. ASSUME NEW c \in Clients, Disconnect(c)
        PROVE  TypeOK'
    BY <1>3 DEF Disconnect
  <1>4. ASSUME NEW i \in Interests, CleanupStep(i)
        PROVE  TypeOK'
    <2>1. CASE CleanupWakes(i)
      BY <2>1 DEF CleanupWakes
    <2>2. CASE CleanupChecks(i)
      <3>1. CASE Reapable(i)
        <4>1. /\ interests' \in SUBSET Interests
              /\ cleanupTask' \in [Interests -> BOOLEAN]
              /\ cleanup' \in [Interests -> CleanupPhases]
          BY <2>2, <3>1 DEF CleanupChecks
        <4>2. managerLock' \in Seq(Procs) /\ routerLock' \in Seq(Procs)
          <5>1. Append(routerLock, i) \in Seq(Procs) /\ Tail(managerLock) \in Seq(Procs)
            BY <2>2 DEF CleanupChecks
          <5>2. QED
            BY <2>2, <3>1, <5>1 DEF CleanupChecks
        <4>3. UNCHANGED <<handler, request, clients, subscribers, stopper, todo, opened,
                          target, routed, upstream>>
          BY <2>2 DEF CleanupChecks
        <4>4. QED
          BY <4>1, <4>2, <4>3
      <3>2. CASE ~Reapable(i)
        BY <2>2, <3>2 DEF CleanupChecks
      <3>3. QED
        BY <3>1, <3>2
    <2>3. CASE CleanupUnsubscribes(i)
      BY <2>3 DEF CleanupUnsubscribes, Unsubscribe
    <2>4. QED
      BY <1>4, <2>1, <2>2, <2>3 DEF CleanupStep
  <1>5. CASE DeadWaiterLeaves
    BY <1>5 DEF DeadWaiterLeaves
  <1>6. CASE StopBegins
    BY <1>6 DEF StopBegins
  <1>7. CASE StopStep
    <2>1. CASE StopClears
      BY <2>1 DEF StopClears, WithoutTasks
    <2>2. CASE StopGathered
      BY <2>2 DEF StopGathered
    <2>3. CASE RouterCloses
      BY <2>3 DEF RouterCloses
    <2>4. CASE ProvidersClose
      BY <2>4 DEF ProvidersClose
    <2>5. QED
      BY <1>7, <2>1, <2>2, <2>3, <2>4 DEF StopStep
  <1>8. CASE UNCHANGED vars
    BY <1>8 DEF vars
  <1>9. QED
    BY <1>1, <1>2, <1>3, <1>4, <1>5, <1>6, <1>7, <1>8 DEF Next, Terminated

(* The state of the manager, the router and their tasks is always well     *)
(* typed, for any number of clients and interests.                         *)
THEOREM TypeCorrect == Spec => []TypeOK
  BY InitType, NextType, PTL DEF Spec

-----------------------------------------------------------------------------
(* Safety.                                                                 *)

(* Inside the manager lock's block there is nobody but its holder.         *)
LEMMA OneHolder ==
  ASSUME SafetyInv, NEW p, Holds(managerLock, p)
  PROVE  \A d \in Clients : Critical(d) => d = p
  BY DEF SafetyInv, ManagerQueue, Holds

(* Whoever is inside the block holds the lock.                             *)
LEMMA CriticalHolds ==
  ASSUME SafetyInv, NEW c \in Clients, Critical(c)
  PROVE  Holds(managerLock, c)
  BY DEF SafetyInv, ManagerQueue

(* Nobody inside the block, no registration at the router.                 *)
LEMMA NobodyAtRouter ==
  ASSUME SafetyInv, \A d \in Clients : ~Critical(d)
  PROVE  \A k \in 1..Len(routerLock), d \in Clients : routerLock[k] # d
  BY DEF SafetyInv, RouterQueue, Critical

(* A registration whose turn it is at the router is the only one there.    *)
LEMMA AloneAtRouter ==
  ASSUME SafetyInv, NEW c \in Clients, Holds(routerLock, c)
  PROVE  /\ Len(routerLock) = 1
         /\ Len(Tail(routerLock)) = 0
         /\ \A i \in Interests : cleanup[i] # "unsubscribing"
  <1>1. routerLock \in Seq(Procs) /\ routerLock # <<>> /\ Head(routerLock) = c
    BY DEF SafetyInv, TypeOK, Holds
  <1>2. 1 \in 1..Len(routerLock) /\ routerLock[1] = c
    BY <1>1
  <1>3. Len(routerLock) = 1
    BY <1>2 DEF SafetyInv, RouterQueue
  <1>4. \A i \in Interests : ~Queued(routerLock, i)
    BY <1>2, <1>3, ProcsAssumption DEF Queued
  <1>5. QED
    BY <1>1, <1>3, <1>4, LeaveQueue DEF SafetyInv, RouterQueue

(* Joining and leaving the two queues.                                     *)
LEMMA ManagerJoin ==
  ASSUME TypeOK, NEW p \in Procs
  PROVE  /\ Len(Append(managerLock, p)) = Len(managerLock) + 1
         /\ Len(managerLock) \in Nat
         /\ Append(managerLock, p)[Len(managerLock) + 1] = p
         /\ \A k \in 1..Len(managerLock) : Append(managerLock, p)[k] = managerLock[k]
         /\ \A q : Queued(Append(managerLock, p), q) <=> Queued(managerLock, q) \/ q = p
         /\ \A q : Holds(managerLock, q) => Holds(Append(managerLock, p), q)
  BY JoinQueue DEF TypeOK

(* The holder leaves the manager lock: the rest keep their turn.           *)
LEMMA ManagerLeave ==
  ASSUME TypeOK, NEW p, Holds(managerLock, p)
  PROVE  /\ Len(Tail(managerLock)) = Len(managerLock) - 1
         /\ Len(managerLock) \in Nat \ {0}
         /\ managerLock[1] = p
         /\ \A k \in 1..Len(Tail(managerLock)) :
              Tail(managerLock)[k] = managerLock[k + 1] /\ k + 1 \in 1..Len(managerLock)
         /\ \A q : Queued(Tail(managerLock), q) => Queued(managerLock, q)
         /\ \A q : Queued(managerLock, q) /\ q # p => Queued(Tail(managerLock), q)
  <1>1. managerLock \in Seq(Procs) /\ managerLock # <<>> /\ Head(managerLock) = p
    BY DEF TypeOK, Holds
  <1>2. QED
    BY <1>1, LeaveQueue DEF Holds

(* A task asks for the router lock.                                        *)
LEMMA RouterJoin ==
  ASSUME TypeOK, NEW p \in Procs
  PROVE  /\ Len(Append(routerLock, p)) = Len(routerLock) + 1
         /\ Len(routerLock) \in Nat
         /\ Append(routerLock, p)[Len(routerLock) + 1] = p
         /\ \A k \in 1..Len(routerLock) : Append(routerLock, p)[k] = routerLock[k]
         /\ \A q : Queued(Append(routerLock, p), q) <=> Queued(routerLock, q) \/ q = p
  BY JoinQueue DEF TypeOK

(* The holder leaves the router lock.                                      *)
LEMMA RouterLeave ==
  ASSUME TypeOK, NEW p, Holds(routerLock, p)
  PROVE  /\ Len(Tail(routerLock)) = Len(routerLock) - 1
         /\ Len(routerLock) \in Nat \ {0}
         /\ \A k \in 1..Len(Tail(routerLock)) :
              Tail(routerLock)[k] = routerLock[k + 1] /\ k + 1 \in 1..Len(routerLock)
         /\ \A q : Queued(routerLock, q) /\ q # p => Queued(Tail(routerLock), q)
  <1>1. routerLock \in Seq(Procs) /\ routerLock # <<>> /\ Head(routerLock) = p
    BY DEF TypeOK, Holds
  <1>2. QED
    BY <1>1, LeaveQueue DEF Holds

(* Connect: register's entry joins the queue only while the process runs,  *)
(* so it is never behind Stop.                                             *)
LEMMA ConnectSafe ==
  ASSUME SafetyInv, TypeOK', NEW c \in Clients, NEW w \in (SUBSET Interests) \ {{}},
         Connect(c, w)
  PROVE  SafetyInv'
  <1> USE ProcsAssumption
      DEF TypeOK, Moves, Critical, InRegister, BeingOpened, stateVars,
          registerVars, routerVars, Connect
  <1>1. ManagerQueue'
    BY ManagerJoin DEF SafetyInv, ManagerQueue, Procs
  <1>2. RouterQueue'
    BY DEF SafetyInv, RouterQueue, Procs
  <1>3. RegisterProgress'
    BY DEF SafetyInv, RegisterProgress
  <1>4. RegisteredSubscribes'
    BY DEF SafetyInv, RegisteredSubscribes
  <1>5. InterestsAreLive'
    BY DEF SafetyInv, InterestsAreLive
  <1>6. NoOrphanUpstream'
    BY DEF SafetyInv, NoOrphanUpstream
  <1>7. StopIsFinal'
    BY DEF SafetyInv, StopIsFinal
  <1>8. QED
    BY <1>1, <1>2, <1>3, <1>4, <1>5, <1>6, <1>7 DEF SafetyInv

(* Refuse: nothing but a handler's phase changes.                          *)
LEMMA RefuseSafe ==
  ASSUME SafetyInv, TypeOK', NEW c \in Clients, Refuse(c)
  PROVE  SafetyInv'
  <1> USE ProcsAssumption
      DEF TypeOK, Moves, Critical, InRegister, BeingOpened, stateVars,
          registerVars, routerVars, Refuse
  <1>1. ManagerQueue'
    BY DEF SafetyInv, ManagerQueue, Procs
  <1>2. RouterQueue'
    BY DEF SafetyInv, RouterQueue, Procs
  <1>3. RegisterProgress'
    BY DEF SafetyInv, RegisterProgress
  <1>4. RegisteredSubscribes'
    BY DEF SafetyInv, RegisteredSubscribes
  <1>5. InterestsAreLive'
    BY DEF SafetyInv, InterestsAreLive
  <1>6. NoOrphanUpstream'
    BY DEF SafetyInv, NoOrphanUpstream
  <1>7. StopIsFinal'
    BY DEF SafetyInv, StopIsFinal
  <1>8. QED
    BY <1>1, <1>2, <1>3, <1>4, <1>5, <1>6, <1>7 DEF SafetyInv

(* BeginRegister: the holder enters the block with nothing done yet.       *)
LEMMA BeginRegisterSafe ==
  ASSUME SafetyInv, TypeOK', NEW c \in Clients, BeginRegister(c)
  PROVE  SafetyInv'
  <1> USE ProcsAssumption
      DEF TypeOK, Moves, Critical, InRegister, BeingOpened, stateVars,
          registerVars, routerVars, BeginRegister
  <1>a. \A d \in Clients : Critical(d) => d = c
    BY OneHolder
  <1>1. ManagerQueue'
    BY <1>a DEF SafetyInv, ManagerQueue, Procs
  <1>2. RouterQueue'
    BY <1>a DEF SafetyInv, RouterQueue, Procs
  <1>3. RegisterProgress'
    BY <1>a DEF SafetyInv, RegisterProgress
  <1>4. RegisteredSubscribes'
    BY <1>a DEF SafetyInv, RegisteredSubscribes
  <1>5. InterestsAreLive'
    BY <1>a DEF SafetyInv, InterestsAreLive
  <1>6. NoOrphanUpstream'
    BY <1>a DEF SafetyInv, NoOrphanUpstream
  <1>7. StopIsFinal'
    BY <1>a DEF SafetyInv, StopIsFinal
  <1>8. QED
    BY <1>1, <1>2, <1>3, <1>4, <1>5, <1>6, <1>7 DEF SafetyInv

(* Join: the holder subscribes to an interest that exists; the cancelled   *)
(* cleanup leaves only a dead mark.                                        *)
LEMMA JoinSafe ==
  ASSUME SafetyInv, TypeOK', NEW c \in Clients, NEW i \in Interests, Join(c, i)
  PROVE  SafetyInv'
  <1> USE ProcsAssumption
      DEF TypeOK, Moves, Critical, InRegister, BeingOpened, stateVars,
          registerVars, routerVars, Join, WithoutTasks
  <1>a. Holds(managerLock, c) /\ \A d \in Clients : Critical(d) => d = c
    BY CriticalHolds, OneHolder
  <1>1. ManagerQueue'
    <2> DEFINE T == IF cleanupTask[i] THEN {i} ELSE {}
    <2>1. /\ managerLock \in Seq(Procs) /\ Dead \in Procs
          /\ managerLock' = Bury(managerLock, T)
          /\ \A q \in Clients \cup {Stop} : q \notin T /\ q # Dead
      BY DEF SafetyInv, Procs
    <2> HIDE DEF T
    <2>2. Len(managerLock') = Len(managerLock)
      BY <2>1, BuryQueue
    <2>3. \A q \in Clients \cup {Stop} :
            /\ \A k \in 1..Len(managerLock) : managerLock'[k] = q <=> managerLock[k] = q
            /\ Queued(managerLock', q) <=> Queued(managerLock, q)
            /\ Holds(managerLock', q) <=> Holds(managerLock, q)
      BY <2>1, BuryQueue
    <2>4. ManagerQueue /\ UNCHANGED <<handler, stopper>>
      BY DEF SafetyInv
    <2>5. \A d \in Clients : /\ (Critical(d) => Holds(managerLock, d))'
                              /\ (InRegister(d) => Queued(managerLock, d))'
      BY <2>3, <2>4 DEF ManagerQueue
    <2>6. stopper' = "running" => ~Queued(managerLock', Stop)
      BY <2>3, <2>4 DEF ManagerQueue
    <2>7. ASSUME stopper' = "clearing", NEW j \in 1..Len(managerLock), NEW k \in 1..Len(managerLock),
                 j < k, managerLock'[j] = Stop, NEW d \in Clients, managerLock'[k] = d
          PROVE  ~InRegister(d)'
      <3>1. managerLock[j] = Stop /\ managerLock[k] = d
        BY <2>3, <2>7
      <3>2. QED
        BY <3>1, <2>4, <2>7 DEF ManagerQueue
    <2>8. stopper' = "clearing" =>
            \A j, k \in 1..Len(managerLock') :
              j < k /\ managerLock'[j] = Stop =>
                \A d \in Clients : managerLock'[k] = d => ~InRegister(d)'
      BY ONLY <2>2, <2>7
    <2>9. QED
      BY ONLY <2>5, <2>6, <2>8 DEF ManagerQueue
  <1>2. RouterQueue'
    BY <1>a DEF SafetyInv, RouterQueue, Procs
  <1>3. RegisterProgress'
    BY <1>a DEF SafetyInv, RegisterProgress
  <1>4. RegisteredSubscribes'
    BY <1>a DEF SafetyInv, RegisteredSubscribes
  <1>5. InterestsAreLive'
    BY <1>a DEF SafetyInv, InterestsAreLive
  <1>6. NoOrphanUpstream'
    BY <1>a DEF SafetyInv, NoOrphanUpstream
  <1>7. StopIsFinal'
    BY <1>a DEF SafetyInv, StopIsFinal
  <1>8. QED
    BY <1>1, <1>2, <1>3, <1>4, <1>5, <1>6, <1>7 DEF SafetyInv

(* Open: a new interest is being opened, and the request for it is last in *)
(* the router's queue.                                                     *)
LEMMA OpenSafe ==
  ASSUME SafetyInv, TypeOK', NEW c \in Clients, NEW i \in Interests, Open(c, i)
  PROVE  SafetyInv'
  <1> USE ProcsAssumption
      DEF TypeOK, Moves, Critical, InRegister, BeingOpened, stateVars,
          registerVars, routerVars, Open
  <1>a. Holds(managerLock, c) /\ \A d \in Clients : Critical(d) => d = c
    BY CriticalHolds, OneHolder
  <1>1. ManagerQueue'
    BY <1>a DEF SafetyInv, ManagerQueue, Procs
  <1>2. RouterQueue'
    BY <1>a, RouterJoin DEF SafetyInv, RouterQueue, Procs
  <1>3. RegisterProgress'
    BY <1>a DEF SafetyInv, RegisterProgress
  <1>4. RegisteredSubscribes'
    BY <1>a DEF SafetyInv, RegisteredSubscribes
  <1>5. InterestsAreLive'
    BY <1>a DEF SafetyInv, InterestsAreLive
  <1>6. NoOrphanUpstream'
    BY <1>a DEF SafetyInv, NoOrphanUpstream
  <1>7. StopIsFinal'
    BY <1>a DEF SafetyInv, StopIsFinal
  <1>8. QED
    BY <1>1, <1>2, <1>3, <1>4, <1>5, <1>6, <1>7 DEF SafetyInv

(* OpenSucceeds: the registration was alone in the router's queue, so no   *)
(* older unsubscribe is left.                                              *)
LEMMA OpenSucceedsSafe ==
  ASSUME SafetyInv, TypeOK', NEW c \in Clients, OpenSucceeds(c)
  PROVE  SafetyInv'
  <1> USE ProcsAssumption
      DEF TypeOK, Moves, Critical, InRegister, BeingOpened, stateVars,
          registerVars, routerVars, OpenSucceeds
  <1>a. Holds(managerLock, c) /\ \A d \in Clients : Critical(d) => d = c
    BY CriticalHolds, OneHolder
  <1>b. /\ Len(Tail(routerLock)) = 0
        /\ \A j \in Interests : cleanup[j] # "unsubscribing"
    BY AloneAtRouter
  <1>1. ManagerQueue'
    BY <1>a, <1>b DEF SafetyInv, ManagerQueue, Procs
  <1>2. RouterQueue'
    BY <1>a, <1>b, RouterLeave DEF SafetyInv, RouterQueue, Procs
  <1>3. RegisterProgress'
    BY <1>a, <1>b DEF SafetyInv, RegisterProgress
  <1>4. RegisteredSubscribes'
    BY <1>a, <1>b DEF SafetyInv, RegisteredSubscribes
  <1>5. InterestsAreLive'
    BY <1>a, <1>b DEF SafetyInv, InterestsAreLive
  <1>6. NoOrphanUpstream'
    BY <1>a, <1>b DEF SafetyInv, NoOrphanUpstream, RegisterProgress
  <1>7. StopIsFinal'
    BY <1>a, <1>b DEF SafetyInv, StopIsFinal
  <1>8. QED
    BY <1>1, <1>2, <1>3, <1>4, <1>5, <1>6, <1>7 DEF SafetyInv

(* OpenFails: the interest stays without an upstream, which only a         *)
(* failable one may.                                                       *)
LEMMA OpenFailsSafe ==
  ASSUME SafetyInv, TypeOK', NEW c \in Clients, OpenFails(c)
  PROVE  SafetyInv'
  <1> USE ProcsAssumption
      DEF TypeOK, Moves, Critical, InRegister, BeingOpened, stateVars,
          registerVars, routerVars, OpenFails
  <1>a. Holds(managerLock, c) /\ \A d \in Clients : Critical(d) => d = c
    BY CriticalHolds, OneHolder
  <1>b. /\ Len(Tail(routerLock)) = 0
        /\ \A j \in Interests : cleanup[j] # "unsubscribing"
    BY AloneAtRouter
  <1>1. ManagerQueue'
    BY <1>a, <1>b DEF SafetyInv, ManagerQueue, Procs
  <1>2. RouterQueue'
    BY <1>a, <1>b, RouterLeave DEF SafetyInv, RouterQueue, Procs
  <1>3. RegisterProgress'
    BY <1>a, <1>b DEF SafetyInv, RegisterProgress
  <1>4. RegisteredSubscribes'
    BY <1>a, <1>b DEF SafetyInv, RegisteredSubscribes
  <1>5. InterestsAreLive'
    BY <1>a, <1>b DEF SafetyInv, InterestsAreLive
  <1>6. NoOrphanUpstream'
    BY <1>a, <1>b DEF SafetyInv, NoOrphanUpstream
  <1>7. StopIsFinal'
    BY <1>a, <1>b DEF SafetyInv, StopIsFinal
  <1>8. QED
    BY <1>1, <1>2, <1>3, <1>4, <1>5, <1>6, <1>7 DEF SafetyInv

(* Rollback: only an interest that nobody else has joined is taken back.   *)
LEMMA RollbackSafe ==
  ASSUME SafetyInv, TypeOK', NEW c \in Clients, NEW i \in Interests, Rollback(c, i)
  PROVE  SafetyInv'
  <1> USE ProcsAssumption
      DEF TypeOK, Moves, Critical, InRegister, BeingOpened, stateVars,
          registerVars, routerVars, Rollback
  <1>a. Holds(managerLock, c) /\ \A d \in Clients : Critical(d) => d = c
    BY CriticalHolds, OneHolder
  <1>1. ManagerQueue'
    BY <1>a DEF SafetyInv, ManagerQueue, Procs
  <1>2. RouterQueue'
    <2>1. \A k \in 1..Len(routerLock), d \in Clients : routerLock[k] # d
      BY <1>a DEF SafetyInv, RouterQueue
    <2>2. c \in Procs
      BY DEF Procs
    <2>3. QED
      BY <2>1, <2>2, RouterJoin DEF SafetyInv, RouterQueue
  <1>3. RegisterProgress'
    BY <1>a DEF SafetyInv, RegisterProgress
  <1>4. RegisteredSubscribes'
    BY DEF SafetyInv, RegisteredSubscribes, RegisterProgress
  <1>5. InterestsAreLive'
    BY <1>a DEF SafetyInv, InterestsAreLive
  <1>6. NoOrphanUpstream'
    BY <1>a DEF SafetyInv, NoOrphanUpstream
  <1>7. StopIsFinal'
    BY <1>a DEF SafetyInv, StopIsFinal
  <1>8. QED
    BY <1>1, <1>2, <1>3, <1>4, <1>5, <1>6, <1>7 DEF SafetyInv

(* RollbackUnsubscribed: the interest was taken out of the map before.     *)
LEMMA RollbackUnsubscribedSafe ==
  ASSUME SafetyInv, TypeOK', NEW c \in Clients, RollbackUnsubscribed(c)
  PROVE  SafetyInv'
  <1> USE ProcsAssumption
      DEF TypeOK, Moves, Critical, InRegister, BeingOpened, stateVars,
          registerVars, routerVars, RollbackUnsubscribed,
          Unsubscribe
  <1>a. Holds(managerLock, c) /\ \A d \in Clients : Critical(d) => d = c
    BY CriticalHolds, OneHolder
  <1>b. /\ Len(Tail(routerLock)) = 0
        /\ \A j \in Interests : cleanup[j] # "unsubscribing"
    BY AloneAtRouter
  <1>1. ManagerQueue'
    BY <1>a, <1>b DEF SafetyInv, ManagerQueue, Procs
  <1>2. RouterQueue'
    BY <1>a, <1>b, RouterLeave DEF SafetyInv, RouterQueue, Procs
  <1>3. RegisterProgress'
    BY <1>a, <1>b DEF SafetyInv, RegisterProgress
  <1>4. RegisteredSubscribes'
    BY <1>a, <1>b DEF SafetyInv, RegisteredSubscribes
  <1>5. InterestsAreLive'
    BY <1>a, <1>b DEF SafetyInv, InterestsAreLive, RegisterProgress
  <1>6. NoOrphanUpstream'
    BY <1>a DEF SafetyInv, NoOrphanUpstream, InterestsAreLive, StopIsFinal
  <1>7. StopIsFinal'
    BY <1>a, <1>b DEF SafetyInv, StopIsFinal
  <1>8. QED
    BY <1>1, <1>2, <1>3, <1>4, <1>5, <1>6, <1>7 DEF SafetyInv

(* RegisterFails: the lock is released with nothing opened left.           *)
LEMMA RegisterFailsSafe ==
  ASSUME SafetyInv, TypeOK', NEW c \in Clients, RegisterFails(c)
  PROVE  SafetyInv'
  <1> USE ProcsAssumption
      DEF TypeOK, Moves, Critical, InRegister, BeingOpened, stateVars,
          registerVars, routerVars, RegisterFails
  <1>a. \A d \in Clients : Critical(d) => d = c
    BY OneHolder
  <1>1. ManagerQueue'
    BY <1>a, ManagerLeave DEF SafetyInv, ManagerQueue, Procs
  <1>2. RouterQueue'
    BY <1>a DEF SafetyInv, RouterQueue, Procs
  <1>3. RegisterProgress'
    BY <1>a DEF SafetyInv, RegisterProgress
  <1>4. RegisteredSubscribes'
    BY <1>a DEF SafetyInv, RegisteredSubscribes
  <1>5. InterestsAreLive'
    BY <1>a DEF SafetyInv, InterestsAreLive
  <1>6. NoOrphanUpstream'
    BY <1>a DEF SafetyInv, NoOrphanUpstream
  <1>7. StopIsFinal'
    BY <1>a DEF SafetyInv, StopIsFinal
  <1>8. QED
    BY <1>1, <1>2, <1>3, <1>4, <1>5, <1>6, <1>7 DEF SafetyInv

(* Admit: the client has subscribed to all it asked for.                   *)
LEMMA AdmitSafe ==
  ASSUME SafetyInv, TypeOK', NEW c \in Clients, Admit(c)
  PROVE  SafetyInv'
  <1> USE ProcsAssumption
      DEF TypeOK, Moves, Critical, InRegister, BeingOpened, stateVars,
          registerVars, routerVars, Admit
  <1>a. \A d \in Clients : Critical(d) => d = c
    BY OneHolder
  <1>1. ManagerQueue'
    BY <1>a, ManagerLeave DEF SafetyInv, ManagerQueue, Procs
  <1>2. RouterQueue'
    BY <1>a DEF SafetyInv, RouterQueue, Procs
  <1>3. RegisterProgress'
    BY <1>a DEF SafetyInv, RegisterProgress
  <1>4. RegisteredSubscribes'
    BY DEF SafetyInv, RegisteredSubscribes, RegisterProgress
  <1>5. InterestsAreLive'
    BY <1>a DEF SafetyInv, InterestsAreLive
  <1>6. NoOrphanUpstream'
    BY <1>a DEF SafetyInv, NoOrphanUpstream
  <1>7. StopIsFinal'
    BY <1>a DEF SafetyInv, StopIsFinal
  <1>8. QED
    BY <1>1, <1>2, <1>3, <1>4, <1>5, <1>6, <1>7 DEF SafetyInv

(* Disconnect: only a place in the queue changes.                          *)
LEMMA DisconnectSafe ==
  ASSUME SafetyInv, TypeOK', NEW c \in Clients, Disconnect(c)
  PROVE  SafetyInv'
  <1> USE ProcsAssumption
      DEF TypeOK, Moves, Critical, InRegister, BeingOpened, stateVars,
          registerVars, routerVars, Disconnect
  <1>1. ManagerQueue'
    BY ManagerJoin DEF SafetyInv, ManagerQueue, Procs
  <1>2. RouterQueue'
    BY DEF SafetyInv, RouterQueue, Procs
  <1>3. RegisterProgress'
    BY DEF SafetyInv, RegisterProgress
  <1>4. RegisteredSubscribes'
    BY DEF SafetyInv, RegisteredSubscribes
  <1>5. InterestsAreLive'
    BY DEF SafetyInv, InterestsAreLive
  <1>6. NoOrphanUpstream'
    BY DEF SafetyInv, NoOrphanUpstream
  <1>7. StopIsFinal'
    BY DEF SafetyInv, StopIsFinal
  <1>8. QED
    BY <1>1, <1>2, <1>3, <1>4, <1>5, <1>6, <1>7 DEF SafetyInv

(* What an unregister leaves alone.                                        *)
LEMMA UnregisterFrame ==
  ASSUME TypeOK, NEW c \in Clients, Unregister(c)
  PROVE  /\ clients' \subseteq clients
         /\ UNCHANGED <<interests, stopper, upstream>>
         /\ \A d \in Clients : handler'[d] = handler[d] \/ handler'[d] = "gone"
         /\ \A i \in Interests :
              \/ cleanup'[i] = cleanup[i]
              \/ i \in interests /\ cleanup'[i] = "sleeping"
  <1>1. \A d \in Clients : handler'[d] = handler[d] \/ handler'[d] = "gone"
    BY DEF Unregister, Moves, TypeOK
  <1>2. UNCHANGED <<interests, stopper, upstream>>
    BY DEF Unregister, routerVars
  <1>3. CASE c \in clients
    <2>1. clients' \subseteq clients
      BY <1>3 DEF Unregister
    <2>2. cleanup' = [i \in Interests |->
                        IF i \in LeftIdle(c) THEN "sleeping" ELSE cleanup[i]]
      BY <1>3 DEF Unregister
    <2>3. LeftIdle(c) \subseteq interests
      BY DEF LeftIdle
    <2>4. QED
      BY <1>1, <1>2, <2>1, <2>2, <2>3
  <1>4. CASE c \notin clients
    <2>1. clients' = clients /\ cleanup' = cleanup
      BY <1>4 DEF Unregister
    <2>2. QED
      BY <1>1, <1>2, <2>1
  <1>5. QED
    BY <1>3, <1>4

(* Unregister: no registration is in its block, so an idle interest is not *)
(* being opened.                                                           *)
LEMMA UnregisterSafe ==
  ASSUME SafetyInv, TypeOK', NEW c \in Clients, Unregister(c)
  PROVE  SafetyInv'
  <1>c. /\ clients' \subseteq clients
        /\ UNCHANGED <<interests, stopper, upstream>>
        /\ \A d \in Clients : handler'[d] = handler[d] \/ handler'[d] = "gone"
        /\ \A i \in Interests :
             \/ cleanup'[i] = cleanup[i]
             \/ i \in interests /\ cleanup'[i] = "sleeping"
    BY UnregisterFrame DEF SafetyInv
  <1>e. \A d \in Clients : InRegister(d)' => InRegister(d)
    BY <1>c DEF InRegister
  <1>7. StopIsFinal'
    BY <1>c, <1>e DEF SafetyInv, StopIsFinal
  <1> USE ProcsAssumption
      DEF TypeOK, Moves, Critical, InRegister, BeingOpened, stateVars,
          registerVars, routerVars, Unregister, LeftIdle
  <1>a. \A d \in Clients : Critical(d) => d = c
    BY OneHolder
  <1>b. \A d \in Clients : ~Critical(d)
    BY <1>a
  <1>d. \A i \in interests : cleanup[i] # "unsubscribing"
    BY <1>b DEF SafetyInv, InterestsAreLive
  <1>1. ManagerQueue'
    BY <1>a, ManagerLeave DEF SafetyInv, ManagerQueue, Procs
  <1>2. RouterQueue'
    <2>1. \A k \in 1..Len(routerLock), d \in Clients : routerLock[k] # d
      <3> HIDE DEF Critical
      <3>1. QED
        BY <1>b, NobodyAtRouter
    <2>2. \A i \in Interests : cleanup'[i] = "unsubscribing" => cleanup[i] = "unsubscribing"
      BY <1>c
    <2>3. \A i \in Interests : cleanup[i] = "unsubscribing" => Queued(routerLock, i)
      BY DEF SafetyInv, RouterQueue
    <2>4. routerLock' = routerLock
      OBVIOUS
    <2> HIDE DEF Unregister
    <2>5. QED
      BY <2>1, <2>2, <2>3, <2>4 DEF RouterQueue, Queued
  <1>3. RegisterProgress'
    BY <1>a DEF SafetyInv, RegisterProgress
  <1>4. RegisteredSubscribes'
    <2>1. CASE c \in clients
      BY <1>a, <2>1 DEF SafetyInv, RegisteredSubscribes
    <2>2. CASE c \notin clients
      BY <1>a, <2>2 DEF SafetyInv, RegisteredSubscribes
    <2>3. QED
      BY <2>1, <2>2
  <1>5. InterestsAreLive'
    <2>1. CASE c \in clients
      BY <1>a, <2>1 DEF SafetyInv, InterestsAreLive
    <2>2. CASE c \notin clients
      BY <1>a, <2>2 DEF SafetyInv, InterestsAreLive
    <2>3. QED
      BY <2>1, <2>2
  <1>6. NoOrphanUpstream'
    <2>1. \A i \in Interests : cleanup[i] = "unsubscribing" => cleanup'[i] = "unsubscribing"
      BY <1>c, <1>d
    <2>2. \A d \in Clients : handler[d] # "unsubscribing"
      BY <1>b
    <2>3. UNCHANGED <<upstream, interests, stopper>>
      OBVIOUS
    <2>4. \A i \in upstream : i \in Interests
      OBVIOUS
    <2>5. NoOrphanUpstream
      BY DEF SafetyInv
    <2> HIDE DEF Unregister, TypeOK
    <2>6. QED
      BY <2>1, <2>2, <2>3, <2>4, <2>5 DEF NoOrphanUpstream
  <1>8. QED
    BY <1>1, <1>2, <1>3, <1>4, <1>5, <1>6, <1>7 DEF SafetyInv

(* CleanupWakes: only a place in the queue changes.                        *)
LEMMA CleanupWakesSafe ==
  ASSUME SafetyInv, TypeOK', NEW i \in Interests, CleanupWakes(i)
  PROVE  SafetyInv'
  <1> USE ProcsAssumption
      DEF TypeOK, Moves, Critical, InRegister, BeingOpened, stateVars,
          registerVars, routerVars, CleanupWakes
  <1>1. ManagerQueue'
    BY ManagerJoin DEF SafetyInv, ManagerQueue, Procs
  <1>2. RouterQueue'
    BY DEF SafetyInv, RouterQueue, Procs
  <1>3. RegisterProgress'
    BY DEF SafetyInv, RegisterProgress
  <1>4. RegisteredSubscribes'
    BY DEF SafetyInv, RegisteredSubscribes
  <1>5. InterestsAreLive'
    BY DEF SafetyInv, InterestsAreLive
  <1>6. NoOrphanUpstream'
    BY DEF SafetyInv, NoOrphanUpstream
  <1>7. StopIsFinal'
    BY DEF SafetyInv, StopIsFinal
  <1>8. QED
    BY <1>1, <1>2, <1>3, <1>4, <1>5, <1>6, <1>7 DEF SafetyInv

(* CleanupChecks: an interest without subscribers goes; the request to     *)
(* unsubscribe it is queued at once.                                       *)
LEMMA CleanupChecksSafe ==
  ASSUME SafetyInv, TypeOK', NEW i \in Interests, CleanupChecks(i)
  PROVE  SafetyInv'
  <1> USE ProcsAssumption
      DEF TypeOK, Moves, Critical, InRegister, BeingOpened, stateVars,
          registerVars, routerVars, CleanupChecks, Reapable
  <1>a. \A d \in Clients : Critical(d) => d = i
    BY OneHolder
  <1>1. ManagerQueue'
    BY <1>a, ManagerLeave DEF SafetyInv, ManagerQueue, Procs
  <1>2. RouterQueue'
    <2>0. \A d \in Clients : ~Critical(d)
      BY <1>a
    <2>1. \A k \in 1..Len(routerLock), d \in Clients : routerLock[k] # d
      <3> HIDE DEF Critical
      <3>1. QED
        BY <2>0, NobodyAtRouter
    <2>2. i \in Procs
      BY DEF Procs
    <2>3. CASE Reapable(i)
      <3>0. routerLock' = Append(routerLock, i)
        BY <2>3
      <3>1. /\ Len(routerLock') = Len(routerLock) + 1 /\ Len(routerLock) \in Nat
            /\ \A k \in 1..Len(routerLock) : routerLock'[k] = routerLock[k]
            /\ routerLock'[Len(routerLock) + 1] = i
            /\ \A q : Queued(routerLock', q) <=> Queued(routerLock, q) \/ q = i
        BY <2>2, <3>0, RouterJoin DEF SafetyInv
      <3>2. \A k \in 1..Len(routerLock'), d \in Clients : routerLock'[k] # d
        BY <2>1, <3>1
      <3>3. \A j \in Interests : cleanup'[j] = "unsubscribing" => Queued(routerLock', j)
        BY <2>3, <3>1 DEF SafetyInv, RouterQueue
      <3>4. QED
        BY <3>2, <3>3 DEF RouterQueue
    <2>4. CASE ~Reapable(i)
      BY <2>1, <2>4 DEF SafetyInv, RouterQueue
    <2>5. QED
      BY <2>3, <2>4
  <1>3. RegisterProgress'
    BY <1>a DEF SafetyInv, RegisterProgress
  <1>4. RegisteredSubscribes'
    BY <1>a DEF SafetyInv, RegisteredSubscribes
  <1>5. InterestsAreLive'
    BY <1>a DEF SafetyInv, InterestsAreLive
  <1>6. NoOrphanUpstream'
    <2>1. CASE Reapable(i)
      BY <1>a, <2>1 DEF SafetyInv, NoOrphanUpstream
    <2>2. CASE ~Reapable(i)
      BY <1>a, <2>2 DEF SafetyInv, NoOrphanUpstream
    <2>3. QED
      BY <2>1, <2>2
  <1>7. StopIsFinal'
    BY <1>a DEF SafetyInv, StopIsFinal
  <1>8. QED
    BY <1>1, <1>2, <1>3, <1>4, <1>5, <1>6, <1>7 DEF SafetyInv

(* CleanupUnsubscribes: an interest that is in the map again is being      *)
(* opened.                                                                 *)
LEMMA CleanupUnsubscribesSafe ==
  ASSUME SafetyInv, TypeOK', NEW i \in Interests, CleanupUnsubscribes(i)
  PROVE  SafetyInv'
  <1> USE ProcsAssumption
      DEF TypeOK, Moves, Critical, InRegister, BeingOpened, stateVars,
          registerVars, routerVars, CleanupUnsubscribes,
          Unsubscribe
  <1>1. ManagerQueue'
    BY DEF SafetyInv, ManagerQueue, Procs
  <1>2. RouterQueue'
    BY RouterLeave DEF SafetyInv, RouterQueue, Procs
  <1>3. RegisterProgress'
    BY DEF SafetyInv, RegisterProgress
  <1>4. RegisteredSubscribes'
    BY DEF SafetyInv, RegisteredSubscribes
  <1>5. InterestsAreLive'
    BY DEF SafetyInv, InterestsAreLive
  <1>6. NoOrphanUpstream'
    BY DEF SafetyInv, NoOrphanUpstream, InterestsAreLive, StopIsFinal
  <1>7. StopIsFinal'
    BY DEF SafetyInv, StopIsFinal
  <1>8. QED
    BY <1>1, <1>2, <1>3, <1>4, <1>5, <1>6, <1>7 DEF SafetyInv

(* DeadWaiterLeaves: the queue loses a dead mark.                          *)
LEMMA DeadWaiterLeavesSafe ==
  ASSUME SafetyInv, TypeOK', DeadWaiterLeaves
  PROVE  SafetyInv'
  <1> USE ProcsAssumption
      DEF TypeOK, Moves, Critical, InRegister, BeingOpened, stateVars,
          registerVars, routerVars, DeadWaiterLeaves
  <1>a. \A d \in Clients : Critical(d) => d = Dead
    BY OneHolder
  <1>1. ManagerQueue'
    BY <1>a, ManagerLeave DEF SafetyInv, ManagerQueue, Procs
  <1>2. RouterQueue'
    BY <1>a DEF SafetyInv, RouterQueue, Procs
  <1>3. RegisterProgress'
    BY <1>a DEF SafetyInv, RegisterProgress
  <1>4. RegisteredSubscribes'
    BY <1>a DEF SafetyInv, RegisteredSubscribes
  <1>5. InterestsAreLive'
    BY <1>a DEF SafetyInv, InterestsAreLive
  <1>6. NoOrphanUpstream'
    BY <1>a DEF SafetyInv, NoOrphanUpstream
  <1>7. StopIsFinal'
    BY <1>a DEF SafetyInv, StopIsFinal
  <1>8. QED
    BY <1>1, <1>2, <1>3, <1>4, <1>5, <1>6, <1>7 DEF SafetyInv

(* StopBegins: Stop joins at the tail: whoever registers is before it.     *)
LEMMA StopBeginsSafe ==
  ASSUME SafetyInv, TypeOK', StopBegins
  PROVE  SafetyInv'
  <1> USE ProcsAssumption
      DEF TypeOK, Moves, Critical, InRegister, BeingOpened, stateVars,
          registerVars, routerVars, StopBegins
  <1>1. ManagerQueue'
    <2>1. Stop \in Procs
      BY DEF Procs
    <2>2. \A k \in 1..Len(managerLock) : managerLock[k] # Stop
      BY DEF SafetyInv, ManagerQueue, Queued
    <2>3. \A j, k \in 1..Len(managerLock') : j < k => managerLock'[j] # Stop
      BY <2>1, <2>2, ManagerJoin
    <2>4. QED
      BY <2>1, <2>3, ManagerJoin DEF SafetyInv, ManagerQueue
  <1>2. RouterQueue'
    BY DEF SafetyInv, RouterQueue, Procs
  <1>3. RegisterProgress'
    BY DEF SafetyInv, RegisterProgress
  <1>4. RegisteredSubscribes'
    BY DEF SafetyInv, RegisteredSubscribes
  <1>5. InterestsAreLive'
    BY DEF SafetyInv, InterestsAreLive
  <1>6. NoOrphanUpstream'
    BY DEF SafetyInv, NoOrphanUpstream
  <1>7. StopIsFinal'
    BY DEF SafetyInv, StopIsFinal
  <1>8. QED
    BY <1>1, <1>2, <1>3, <1>4, <1>5, <1>6, <1>7 DEF SafetyInv

(* StopClears: at the head of the queue Stop has no registration behind    *)
(* it.                                                                     *)
LEMMA StopClearsSafe ==
  ASSUME SafetyInv, TypeOK', StopClears
  PROVE  SafetyInv'
  <1> USE ProcsAssumption
      DEF TypeOK, Moves, Critical, InRegister, BeingOpened, stateVars,
          registerVars, routerVars, StopClears, WithoutTasks
  <1>a. \A d \in Clients : Critical(d) => d = Stop
    BY OneHolder
  <1>c. \A d \in Clients : ~InRegister(d)
    <2>1. SUFFICES ASSUME NEW d \in Clients, InRegister(d)
                   PROVE  FALSE
      OBVIOUS
    <2>2. PICK k \in 1..Len(managerLock) : managerLock[k] = d
      BY <2>1 DEF SafetyInv, ManagerQueue, Queued
    <2>3. managerLock[1] = Stop /\ Len(managerLock) \in Nat \ {0}
      BY ManagerLeave DEF SafetyInv
    <2>4. 1 < k /\ 1 \in 1..Len(managerLock)
      BY <2>2, <2>3
    <2>5. ManagerQueue /\ stopper = "clearing"
      BY DEF SafetyInv
    <2>6. QED
      BY <2>1, <2>2, <2>3, <2>4, <2>5 DEF ManagerQueue
  <1>1. ManagerQueue'
    BY <1>a, <1>c DEF SafetyInv, ManagerQueue
  <1>2. RouterQueue'
    BY <1>a DEF SafetyInv, RouterQueue, Procs
  <1>3. RegisterProgress'
    BY <1>a DEF SafetyInv, RegisterProgress
  <1>4. RegisteredSubscribes'
    BY <1>a DEF SafetyInv, RegisteredSubscribes
  <1>5. InterestsAreLive'
    BY <1>a DEF SafetyInv, InterestsAreLive
  <1>6. NoOrphanUpstream'
    BY <1>a DEF SafetyInv, NoOrphanUpstream
  <1>7. StopIsFinal'
    BY <1>c DEF SafetyInv, StopIsFinal
  <1>8. QED
    BY <1>1, <1>2, <1>3, <1>4, <1>5, <1>6, <1>7 DEF SafetyInv

(* StopGathered: no registration is left that could be in the router's     *)
(* queue.                                                                  *)
LEMMA StopGatheredSafe ==
  ASSUME SafetyInv, TypeOK', StopGathered
  PROVE  SafetyInv'
  <1> USE ProcsAssumption
      DEF TypeOK, Moves, Critical, InRegister, BeingOpened, stateVars,
          registerVars, routerVars, StopGathered
  <1>1. ManagerQueue'
    BY DEF SafetyInv, ManagerQueue, Procs
  <1>2. RouterQueue'
    <2>1. \A k \in 1..Len(routerLock), d \in Clients : routerLock[k] # d
      BY DEF SafetyInv, RouterQueue, StopIsFinal
    <2>2. Stop \in Procs
      BY DEF Procs
    <2>3. QED
      BY <2>1, <2>2, RouterJoin DEF SafetyInv, RouterQueue
  <1>3. RegisterProgress'
    BY DEF SafetyInv, RegisterProgress
  <1>4. RegisteredSubscribes'
    BY DEF SafetyInv, RegisteredSubscribes
  <1>5. InterestsAreLive'
    BY DEF SafetyInv, InterestsAreLive
  <1>6. NoOrphanUpstream'
    BY DEF SafetyInv, NoOrphanUpstream
  <1>7. StopIsFinal'
    BY DEF SafetyInv, StopIsFinal
  <1>8. QED
    BY <1>1, <1>2, <1>3, <1>4, <1>5, <1>6, <1>7 DEF SafetyInv

(* RouterCloses: the maps are empty.                                       *)
LEMMA RouterClosesSafe ==
  ASSUME SafetyInv, TypeOK', RouterCloses
  PROVE  SafetyInv'
  <1> USE ProcsAssumption
      DEF TypeOK, Moves, Critical, InRegister, BeingOpened, stateVars,
          registerVars, routerVars, RouterCloses
  <1>1. ManagerQueue'
    BY DEF SafetyInv, ManagerQueue, Procs
  <1>2. RouterQueue'
    BY RouterLeave DEF SafetyInv, RouterQueue, Procs
  <1>3. RegisterProgress'
    BY DEF SafetyInv, RegisterProgress
  <1>4. RegisteredSubscribes'
    BY DEF SafetyInv, RegisteredSubscribes
  <1>5. InterestsAreLive'
    BY DEF SafetyInv, InterestsAreLive
  <1>6. NoOrphanUpstream'
    BY DEF SafetyInv, NoOrphanUpstream
  <1>7. StopIsFinal'
    BY DEF SafetyInv, StopIsFinal
  <1>8. QED
    BY <1>1, <1>2, <1>3, <1>4, <1>5, <1>6, <1>7 DEF SafetyInv

(* ProvidersClose: nothing is left upstream.                               *)
LEMMA ProvidersCloseSafe ==
  ASSUME SafetyInv, TypeOK', ProvidersClose
  PROVE  SafetyInv'
  <1> USE ProcsAssumption
      DEF TypeOK, Moves, Critical, InRegister, BeingOpened, stateVars,
          registerVars, routerVars, ProvidersClose
  <1>1. ManagerQueue'
    BY DEF SafetyInv, ManagerQueue, Procs
  <1>2. RouterQueue'
    BY DEF SafetyInv, RouterQueue, Procs
  <1>3. RegisterProgress'
    BY DEF SafetyInv, RegisterProgress
  <1>4. RegisteredSubscribes'
    BY DEF SafetyInv, RegisteredSubscribes
  <1>5. InterestsAreLive'
    BY DEF SafetyInv, InterestsAreLive, StopIsFinal
  <1>6. NoOrphanUpstream'
    BY DEF SafetyInv, NoOrphanUpstream
  <1>7. StopIsFinal'
    BY DEF SafetyInv, StopIsFinal
  <1>8. QED
    BY <1>1, <1>2, <1>3, <1>4, <1>5, <1>6, <1>7 DEF SafetyInv

(* The invariant holds initially.                                          *)
LEMMA InitSafe == Init => SafetyInv
  <1> SUFFICES ASSUME Init PROVE SafetyInv
    OBVIOUS
  <1>1. TypeOK
    BY InitType
  <1>2. ManagerQueue /\ RouterQueue
    BY DEF Init, ManagerQueue, RouterQueue, Critical, InRegister, Queued
  <1>3. RegisterProgress /\ RegisteredSubscribes /\ InterestsAreLive
    BY DEF Init, RegisterProgress, RegisteredSubscribes, InterestsAreLive, Critical
  <1>4. NoOrphanUpstream /\ StopIsFinal
    BY DEF Init, NoOrphanUpstream, StopIsFinal
  <1>5. QED
    BY <1>1, <1>2, <1>3, <1>4 DEF SafetyInv

(* Every step preserves the invariant: one case per action.                *)
LEMMA NextSafe == SafetyInv /\ [Next]_vars => SafetyInv'
  <1> SUFFICES ASSUME SafetyInv, [Next]_vars
               PROVE  SafetyInv'
    OBVIOUS
  <1>1. TypeOK'
    BY NextType DEF SafetyInv
  <1>2. ASSUME NEW c \in Clients, NEW w \in (SUBSET Interests) \ {{}}, Connect(c, w)
        PROVE  SafetyInv'
    BY <1>1, <1>2, ConnectSafe
  <1>3. ASSUME NEW c \in Clients, HandlerStep(c)
        PROVE  SafetyInv'
    BY <1>1, <1>3, RefuseSafe, BeginRegisterSafe, JoinSafe, OpenSafe, OpenSucceedsSafe,
       OpenFailsSafe, RollbackSafe, RollbackUnsubscribedSafe, RegisterFailsSafe, AdmitSafe,
       UnregisterSafe DEF HandlerStep
  <1>4. ASSUME NEW c \in Clients, Disconnect(c)
        PROVE  SafetyInv'
    BY <1>1, <1>4, DisconnectSafe
  <1>5. ASSUME NEW i \in Interests, CleanupStep(i)
        PROVE  SafetyInv'
    BY <1>1, <1>5, CleanupWakesSafe, CleanupChecksSafe, CleanupUnsubscribesSafe
       DEF CleanupStep
  <1>6. CASE DeadWaiterLeaves
    BY <1>1, <1>6, DeadWaiterLeavesSafe
  <1>7. CASE StopBegins
    BY <1>1, <1>7, StopBeginsSafe
  <1>8. CASE StopStep
    BY <1>1, <1>8, StopClearsSafe, StopGatheredSafe, RouterClosesSafe, ProvidersCloseSafe
       DEF StopStep
  <1>9. CASE UNCHANGED vars
    <2> USE <1>9 DEF vars, stateVars, registerVars, routerVars, SafetyInv
    <2>1. ManagerQueue' /\ RouterQueue'
      BY DEF ManagerQueue, RouterQueue, Critical, InRegister, Queued, Holds
    <2>2. RegisterProgress' /\ RegisteredSubscribes' /\ InterestsAreLive'
      BY DEF RegisterProgress, RegisteredSubscribes, InterestsAreLive, Critical, BeingOpened
    <2>3. NoOrphanUpstream' /\ StopIsFinal'
      BY DEF NoOrphanUpstream, StopIsFinal, InRegister
    <2>4. QED
      BY <1>1, <2>1, <2>2, <2>3
  <1>10. QED
    BY <1>2, <1>3, <1>4, <1>5, <1>6, <1>7, <1>8, <1>9 DEF Next, Terminated

(* The invariant that carries all the safety properties of the stream      *)
(* manager: queues, bookkeeping and upstream subscriptions agree.          *)
THEOREM SafetyCorrect == Spec => []SafetyInv
  BY InitSafe, NextSafe, PTL DEF Spec

(* Served follows from the invariant.                                      *)
LEMMA InvServed == SafetyInv => Served
  <1> SUFFICES ASSUME SafetyInv, NEW c \in clients, NEW i \in request[c], i \notin Failable
               PROVE  i \in upstream
    BY DEF Served
  <1>1. i \in interests /\ subscribers[i] # {}
    BY DEF SafetyInv, RegisteredSubscribes
  <1>2. ~BeingOpened(i)
    BY <1>1 DEF SafetyInv, RegisterProgress, BeingOpened
  <1>3. QED
    BY <1>1, <1>2 DEF SafetyInv, InterestsAreLive

(* A registered client that asked only for interests whose opening cannot  *)
(* fail has an upstream subscription for each of them, at all times.       *)
THEOREM ServedCorrect == Spec => []Served
  BY SafetyCorrect, InvServed, PTL

(* No upstream subscription is ever forgotten.                             *)
THEOREM NoOrphanCorrect == Spec => []NoOrphanUpstream
  <1>1. SafetyInv => NoOrphanUpstream
    BY DEF SafetyInv
  <1>2. QED
    BY <1>1, SafetyCorrect, PTL

(* Nothing registers after stop has cleared the maps, and nothing is       *)
(* upstream after it has closed the providers.                             *)
THEOREM StopCorrect == Spec => []StopIsFinal
  <1>1. SafetyInv => StopIsFinal
    BY DEF SafetyInv
  <1>2. QED
    BY <1>1, SafetyCorrect, PTL

-----------------------------------------------------------------------------
(* Refinement.                                                             *)

(* Initial states map to initial states.                                   *)
LEMMA InitDemand == Init => Demand!Init
  BY DEF Init, Demand!Init

(* Every step of the stream manager is a step of the abstract              *)
(* specification or leaves its variables alone.                            *)
LEMMA NextDemand == SafetyInv /\ SafetyInv' /\ [Next]_vars => [Demand!Next]_(Demand!vars)
  <1> SUFFICES ASSUME SafetyInv, SafetyInv', [Next]_vars
               PROVE  [Demand!Next]_(Demand!vars)
    OBVIOUS
  <1> USE DEF Moves, stateVars, registerVars, routerVars, Demand!vars
  <1>1. ASSUME NEW c \in Clients, NEW w \in (SUBSET Interests) \ {{}}, Connect(c, w)
        PROVE  [Demand!Next]_(Demand!vars)
    <2>1. Demand!Ask(c, w)
      BY <1>1 DEF Connect, Demand!Ask, SafetyInv, RegisteredSubscribes
    <2>2. QED
      BY <2>1 DEF Demand!Next
  <1>2. ASSUME NEW c \in Clients, HandlerStep(c)
        PROVE  [Demand!Next]_(Demand!vars)
    <2>1. CASE Refuse(c) \/ BeginRegister(c) \/ OpenFails(c) \/ RegisterFails(c)
               \/ (\E i \in Interests : Join(c, i) \/ Open(c, i) \/ Rollback(c, i))
      BY <2>1 DEF Refuse, BeginRegister, OpenFails, RegisterFails, Join, Open, Rollback
    <2>2. CASE OpenSucceeds(c)
      <3>1. target \in Interests /\ stopper \in {"running", "clearing"}
        BY <2>2 DEF OpenSucceeds, SafetyInv, TypeOK, StopIsFinal, InRegister
      <3>2. Demand!Acquire(target)
        BY <2>2, <3>1 DEF OpenSucceeds, Demand!Acquire
      <3>3. QED
        BY <3>1, <3>2 DEF Demand!Next
    <2>3. CASE RollbackUnsubscribed(c)
      <3>1. target \in Interests \ interests
        BY <2>3 DEF RollbackUnsubscribed, SafetyInv, RegisterProgress
      <3>2. \A d \in clients : target \notin request[d]
        BY <3>1 DEF SafetyInv, RegisteredSubscribes
      <3>3. Demand!Release(target) \/ UNCHANGED Demand!vars
        BY <2>3, <3>2 DEF RollbackUnsubscribed, Unsubscribe, Demand!Release
      <3>4. QED
        BY <3>1, <3>3 DEF Demand!Next
    <2>4. CASE Admit(c)
      <3>1. stopper \in {"running", "clearing"}
        BY <2>4 DEF Admit, SafetyInv, TypeOK, StopIsFinal, InRegister, StopPhases
      <3>2. request[c] \ Failable \subseteq upstream
        <4>1. \A i \in request[c] : i \in interests
          BY <2>4 DEF Admit, SafetyInv, RegisterProgress
        <4>2. \A d \in Clients : handler[d] # "opening"
          BY <2>4, OneHolder DEF Admit, Critical
        <4>3. QED
          BY <4>1, <4>2 DEF SafetyInv, InterestsAreLive, BeingOpened
      <3>3. Demand!Serve(c)
        BY <2>4, <3>1, <3>2 DEF Admit, Demand!Serve
      <3>4. QED
        BY <3>3 DEF Demand!Next
    <2>5. CASE Unregister(c)
      <3>1. Demand!Leave(c) \/ UNCHANGED Demand!vars
        BY <2>5 DEF Unregister, Demand!Leave
      <3>2. QED
        BY <3>1 DEF Demand!Next
    <2>6. QED
      BY <1>2, <2>1, <2>2, <2>3, <2>4, <2>5 DEF HandlerStep
  <1>3. ASSUME NEW c \in Clients, Disconnect(c)
        PROVE  [Demand!Next]_(Demand!vars)
    BY <1>3 DEF Disconnect
  <1>4. ASSUME NEW i \in Interests, CleanupStep(i)
        PROVE  [Demand!Next]_(Demand!vars)
    <2>1. CASE CleanupWakes(i) \/ CleanupChecks(i)
      BY <2>1 DEF CleanupWakes, CleanupChecks
    <2>2. CASE CleanupUnsubscribes(i)
      <3>1. \A d \in clients : i \notin request[d]
        BY <2>2 DEF CleanupUnsubscribes, SafetyInv, InterestsAreLive, BeingOpened,
                    RegisterProgress, RegisteredSubscribes
      <3>2. Demand!Release(i) \/ UNCHANGED Demand!vars
        BY <2>2, <3>1 DEF CleanupUnsubscribes, Unsubscribe, Demand!Release
      <3>3. QED
        BY <3>2 DEF Demand!Next
    <2>3. QED
      BY <1>4, <2>1, <2>2 DEF CleanupStep
  <1>5. CASE DeadWaiterLeaves \/ StopBegins
    BY <1>5 DEF DeadWaiterLeaves, StopBegins
  <1>6. CASE StopStep
    <2>1. CASE StopClears
      <3>1. Demand!Drain
        BY <2>1 DEF StopClears, Demand!Drain
      <3>2. QED
        BY <3>1 DEF Demand!Next
    <2>2. CASE StopGathered \/ RouterCloses
      BY <2>2 DEF StopGathered, RouterCloses
    <2>3. CASE ProvidersClose
      <3>1. Demand!Close
        BY <2>3 DEF ProvidersClose, Demand!Close
      <3>2. QED
        BY <3>1 DEF Demand!Next
    <2>4. QED
      BY <1>6, <2>1, <2>2, <2>3 DEF StopStep
  <1>7. CASE UNCHANGED vars
    BY <1>7 DEF vars
  <1>8. QED
    BY <1>1, <1>2, <1>3, <1>4, <1>5, <1>6, <1>7 DEF Next, Terminated

(* The stream manager implements QuoteDemand: no served client loses an    *)
(* upstream subscription, and a shutdown is final.                         *)
THEOREM DemandImplemented == Spec => ImplementsDemand
  BY InitDemand, NextDemand, SafetyCorrect, PTL DEF Spec, ImplementsDemand, Demand!Spec

=============================================================================
