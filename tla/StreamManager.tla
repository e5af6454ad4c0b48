---------------------------- MODULE StreamManager ----------------------------
(***************************************************************************)
(* Registration and upstream lifecycle of the quote stream:                *)
(* src/app/services/stream_manager.py on top of the multi-provider router  *)
(* of src/app/services/stream_provider_router.py.                          *)
(*                                                                         *)
(* Every WebSocket handler, every idle-cleanup task and the shutdown are   *)
(* asyncio tasks of one event loop.  An action is the code one task runs   *)
(* between two suspension points; tasks interleave at `await`.  The two    *)
(* asyncio locks are FIFO queues of tasks: the head holds the lock, and a  *)
(* task that reaches `async with lock` joins the tail in the same step in  *)
(* which it got there.  A free lock is granted without a suspension; the   *)
(* model lets other tasks run there too, which only adds behaviours.       *)
(*                                                                         *)
(* An unsubscribe returns: each provider logs its own failures there.  Not *)
(* modelled: the cancellation of a handler inside register.                *)
(***************************************************************************)
EXTENDS Naturals, Sequences

CONSTANTS
  Clients,    \* WebSocket connections; one handler task each
  Interests,  \* quote interests; also the name of an interest's cleanup task
  Stop,       \* the task that runs StreamManager.stop
  Dead,       \* a cancelled waiter still in a lock's queue
  Failable    \* the interests whose upstream opening may fail

ASSUME ProcsAssumption ==
  /\ Clients \cap Interests = {}
  /\ Stop \notin Clients \cup Interests
  /\ Dead \notin Clients \cup Interests \cup {Stop}

ASSUME FailableAssumption == Failable \subseteq Interests

VARIABLES
  handler,      \* [Clients -> phase of the handler task]
  request,      \* [Clients -> the interests of its registration]
  clients,      \* keys of StreamManager._clients
  interests,    \* keys of StreamManager._interests
  subscribers,  \* InterestState.subscribers of each interest
  cleanupTask,  \* InterestState.cleanup_task is not None
  cleanup,      \* phase of the interest's cleanup task
  stopper,      \* phase of stop; _stopping is set from "clearing" on
  todo,         \* register: interests its loop has not processed yet
  opened,       \* register: local list `opened`
  target,       \* register: the interest it awaits the provider for
  managerLock,  \* StreamManager._lock: the holder and its waiters, in order
  routerLock,   \* MultiProviderStreamProvider._lock, likewise
  routed,       \* keys of MultiProviderStreamProvider._interest_providers
  upstream      \* interests the child providers are subscribed to

registerVars == <<todo, opened, target>>
routerVars   == <<routerLock, routed, upstream>>
stateVars    == <<clients, interests, subscribers, cleanupTask>>
vars == <<handler, request, stateVars, cleanup, stopper, registerVars,
          managerLock, routerVars>>

Procs == Clients \cup Interests \cup {Stop, Dead}

HandlerPhases ==
  {"new", "registering", "admitting", "opening", "rollback", "unsubscribing",
   "failed", "refused", "registered", "unregistering", "gone"}
CleanupPhases == {"none", "sleeping", "locking", "unsubscribing"}
StopPhases ==
  {"running", "clearing", "gathering", "closing", "closingProviders", "stopped"}

(* The type of every variable; target names an interest in the phases that *)
(* read it.                                                                *)
TypeOK ==
  /\ handler     \in [Clients -> HandlerPhases]
  /\ request     \in [Clients -> SUBSET Interests]
  /\ clients     \in SUBSET Clients
  /\ interests   \in SUBSET Interests
  /\ subscribers \in [Interests -> SUBSET Clients]
  /\ cleanupTask \in [Interests -> BOOLEAN]
  /\ cleanup     \in [Interests -> CleanupPhases]
  /\ stopper     \in StopPhases
  /\ todo        \in SUBSET Interests
  /\ opened      \in SUBSET Interests
  /\ target      \in Interests \cup {Stop}
  /\ \A c \in Clients :
       handler[c] \in {"opening", "unsubscribing"} => target \in Interests
  /\ managerLock \in Seq(Procs)
  /\ routerLock  \in Seq(Procs)
  /\ routed      \in SUBSET Interests
  /\ upstream    \in SUBSET Interests

(* __init__: nothing registered, nothing open; target has no value yet.    *)
Init ==
  /\ handler     = [c \in Clients |-> "new"]
  /\ request     = [c \in Clients |-> {}]
  /\ clients     = {}
  /\ interests   = {}
  /\ subscribers = [i \in Interests |-> {}]
  /\ cleanupTask = [i \in Interests |-> FALSE]
  /\ cleanup     = [i \in Interests |-> "none"]
  /\ stopper     = "running"
  /\ todo        = {}
  /\ opened      = {}
  /\ target      = Stop
  /\ managerLock = <<>>
  /\ routerLock  = <<>>
  /\ routed      = {}
  /\ upstream    = {}

-----------------------------------------------------------------------------
(* asyncio.Lock.                                                           *)

Holds(lock, p) == lock # <<>> /\ Head(lock) = p

(* task.cancel() on cleanup tasks.  One that sleeps returns at once; one   *)
(* that waits for the manager lock leaves a dead waiter in the queue until *)
(* the cancellation reaches it (DeadWaiterLeaves).                         *)
Bury(lock, S) == [k \in 1..Len(lock) |-> IF lock[k] \in S THEN Dead ELSE lock[k]]
WithoutTasks(S) == [i \in Interests |-> IF i \in S THEN "none" ELSE cleanup[i]]

(* A handler task moves on from one phase of the handler to the next.      *)
Moves(c, from, to) ==
  /\ handler[c] = from
  /\ handler' = [handler EXCEPT ![c] = to]

-----------------------------------------------------------------------------
(* register.                                                               *)

(* Mutant of Connect: register without the _stopping check.                *)
ConnectWhileStopping(c, w) ==
  /\ Moves(c, "new", "registering")
  /\ request' = [request EXCEPT ![c] = w]
  /\ managerLock' = Append(managerLock, c)
  /\ UNCHANGED <<stateVars, cleanup, stopper, registerVars, routerVars>>

(* The _stopping check, start() (which never suspends once started) and    *)
(* the request for the lock: no other task runs in between.  The set w is  *)
(* the client's symbol list; parse_symbols has made it non-empty and       *)
(* duplicate-free.                                                         *)
Connect(c, w) ==
  /\ stopper = "running"
  /\ Moves(c, "new", "registering")
  /\ request' = [request EXCEPT ![c] = w]
  /\ managerLock' = Append(managerLock, c)
  /\ UNCHANGED <<stateVars, cleanup, stopper, registerVars, routerVars>>

(* stop has begun: ProviderUnavailableError, the socket closes with 1011.  *)
Refuse(c) ==
  /\ stopper # "running"
  /\ Moves(c, "new", "refused")
  /\ UNCHANGED <<request, stateVars, cleanup, stopper, registerVars,
                 managerLock, routerVars>>

(* The lock is granted and the loop over registration.interests begins.    *)
BeginRegister(c) ==
  /\ Holds(managerLock, c)
  /\ Moves(c, "registering", "admitting")
  /\ todo' = request[c]
  /\ opened' = {}
  /\ UNCHANGED <<request, stateVars, cleanup, stopper, target, managerLock,
                 routerVars>>

(* Mutant of Join: `opened` also collects the interests that were there.   *)
JoinRecordsOpened(c, i) ==
  /\ handler[c] = "admitting"
  /\ i \in todo \cap interests
  /\ LET cancelled == IF cleanupTask[i] THEN {i} ELSE {}
     IN /\ cleanup' = WithoutTasks(cancelled)
        /\ managerLock' = Bury(managerLock, cancelled)
  /\ cleanupTask' = [cleanupTask EXCEPT ![i] = FALSE]
  /\ subscribers' = [subscribers EXCEPT ![i] = @ \cup {c}]
  /\ todo' = todo \ {i}
  /\ opened' = opened \cup {i}
  /\ UNCHANGED <<handler, request, clients, interests, stopper, target,
                 routerVars>>

(* One iteration of the loop for an interest that _interests already has:  *)
(* cancel a pending cleanup, add the subscriber.  The loop follows the     *)
(* order of the client's symbols, which may be any order.                  *)
Join(c, i) ==
  /\ handler[c] = "admitting"
  /\ i \in todo \cap interests
  /\ LET cancelled == IF cleanupTask[i] THEN {i} ELSE {}
     IN /\ cleanup' = WithoutTasks(cancelled)
        /\ managerLock' = Bury(managerLock, cancelled)
  /\ cleanupTask' = [cleanupTask EXCEPT ![i] = FALSE]
  /\ subscribers' = [subscribers EXCEPT ![i] = @ \cup {c}]
  /\ todo' = todo \ {i}
  /\ UNCHANGED <<handler, request, clients, interests, stopper, opened, target,
                 routerVars>>

(* Mutant of Open: the subscribe overtakes the router lock's waiters.      *)
OpenOvertakes(c, i) ==
  /\ Moves(c, "admitting", "opening")
  /\ i \in todo \ interests
  /\ interests' = interests \cup {i}
  /\ subscribers' = [subscribers EXCEPT ![i] = {}]
  /\ cleanupTask' = [cleanupTask EXCEPT ![i] = FALSE]
  /\ target' = i
  /\ routerLock' = <<c>> \o routerLock
  /\ UNCHANGED <<request, clients, cleanup, stopper, todo, opened, managerLock,
                 routed, upstream>>

(* An iteration for a new interest: a fresh InterestState goes into        *)
(* _interests before the provider is awaited, so that the request for the  *)
(* router lock is queued in the same step.                                 *)
Open(c, i) ==
  /\ Moves(c, "admitting", "opening")
  /\ i \in todo \ interests
  /\ interests' = interests \cup {i}
  /\ subscribers' = [subscribers EXCEPT ![i] = {}]
  /\ cleanupTask' = [cleanupTask EXCEPT ![i] = FALSE]
  /\ target' = i
  /\ routerLock' = Append(routerLock, c)
  /\ UNCHANGED <<request, clients, cleanup, stopper, todo, opened, managerLock,
                 routed, upstream>>

(* router.subscribe_quote returns: the child is subscribed, the mapping is *)
(* recorded, and the rest of the iteration runs without a suspension.      *)
OpenSucceeds(c) ==
  /\ Holds(routerLock, c)
  /\ Moves(c, "opening", "admitting")
  /\ routerLock' = Tail(routerLock)
  /\ routed' = routed \cup {target}
  /\ upstream' = upstream \cup {target}
  /\ opened' = opened \cup {target}
  /\ subscribers' = [subscribers EXCEPT ![target] = @ \cup {c}]
  /\ todo' = todo \ {target}
  /\ UNCHANGED <<request, clients, interests, cleanupTask, cleanup, stopper,
                 target, managerLock>>

(* router.subscribe_quote raises before the mapping is recorded; the       *)
(* target was never appended to `opened`.                                  *)
OpenFails(c) ==
  /\ Holds(routerLock, c)
  /\ Moves(c, "opening", "rollback")
  /\ target \in Failable
  /\ routerLock' = Tail(routerLock)
  /\ UNCHANGED <<request, stateVars, cleanup, stopper, registerVars,
                 managerLock, routed, upstream>>

(* except Exception: the next interest of `opened`, whose order is that of *)
(* the loop above, is popped and its unsubscribe awaited.  Nothing else is *)
(* undone.                                                                 *)
Rollback(c, i) ==
  /\ Moves(c, "rollback", "unsubscribing")
  /\ i \in opened
  /\ opened' = opened \ {i}
  /\ interests' = interests \ {i}
  /\ subscribers' = [subscribers EXCEPT ![i] = {}]
  /\ cleanupTask' = [cleanupTask EXCEPT ![i] = FALSE]
  /\ target' = i
  /\ routerLock' = Append(routerLock, c)
  /\ UNCHANGED <<request, clients, cleanup, stopper, todo, managerLock, routed,
                 upstream>>

(* Mutant of Unsubscribe: the mapping goes, the child is not told.         *)
UnsubscribeMapOnly(i) ==
  /\ routerLock' = Tail(routerLock)
  /\ routed' = routed \ {i}
  /\ upstream' = upstream

(* router.unsubscribe: a mapped interest leaves the mapping and its child. *)
Unsubscribe(i) ==
  /\ routerLock' = Tail(routerLock)
  /\ routed' = routed \ {i}
  /\ upstream' = IF i \in routed THEN upstream \ {i} ELSE upstream

RollbackUnsubscribed(c) ==
  /\ Holds(routerLock, c)
  /\ Moves(c, "unsubscribing", "rollback")
  /\ Unsubscribe(target)
  /\ UNCHANGED <<request, stateVars, cleanup, stopper, registerVars,
                 managerLock>>

(* Mutant of RegisterFails: the lock is not released on the error path.    *)
RegisterFailsLocked(c) ==
  /\ Holds(managerLock, c)
  /\ Moves(c, "rollback", "failed")
  /\ opened = {}
  /\ UNCHANGED <<request, stateVars, cleanup, stopper, registerVars, managerLock,
                 routerVars>>

(* The rollback is over and the exception leaves the lock's block.         *)
RegisterFails(c) ==
  /\ Holds(managerLock, c)
  /\ Moves(c, "rollback", "failed")
  /\ opened = {}
  /\ managerLock' = Tail(managerLock)
  /\ UNCHANGED <<request, stateVars, cleanup, stopper, registerVars, routerVars>>

(* The loop is over: the client is in _clients and the lock is released.   *)
Admit(c) ==
  /\ Holds(managerLock, c)
  /\ Moves(c, "admitting", "registered")
  /\ todo = {}
  /\ clients' = clients \cup {c}
  /\ managerLock' = Tail(managerLock)
  /\ UNCHANGED <<request, interests, subscribers, cleanupTask, cleanup, stopper,
                 registerVars, routerVars>>

-----------------------------------------------------------------------------
(* unregister and the idle cleanup.                                        *)

(* The socket is gone or the registration closed: the handler's `finally`. *)
Disconnect(c) ==
  /\ Moves(c, "registered", "unregistering")
  /\ managerLock' = Append(managerLock, c)
  /\ UNCHANGED <<request, stateVars, cleanup, stopper, registerVars, routerVars>>

(* Mutant of LeftIdle: the subscribers are looked at before the discard.   *)
LeftIdleBeforeDiscard(c) ==
  {i \in request[c] \cap interests : subscribers[i] = {} /\ ~cleanupTask[i]}

(* The interests of c that unregister leaves without a subscriber and      *)
(* without a cleanup task.                                                 *)
LeftIdle(c) ==
  {i \in request[c] \cap interests : subscribers[i] \subseteq {c} /\ ~cleanupTask[i]}

Unregister(c) ==
  /\ Holds(managerLock, c)
  /\ Moves(c, "unregistering", "gone")
  /\ managerLock' = Tail(managerLock)
  /\ IF c \in clients
     THEN /\ clients' = clients \ {c}
          /\ subscribers' = [i \in Interests |->
               IF i \in request[c] \cap interests
               THEN subscribers[i] \ {c} ELSE subscribers[i]]
          /\ cleanupTask' = [i \in Interests |->
               IF i \in LeftIdle(c) THEN TRUE ELSE cleanupTask[i]]
          /\ cleanup' = [i \in Interests |->
               IF i \in LeftIdle(c) THEN "sleeping" ELSE cleanup[i]]
     ELSE UNCHANGED <<clients, subscribers, cleanupTask, cleanup>>
  /\ UNCHANGED <<request, interests, stopper, registerVars, routerVars>>

(* asyncio.sleep(idle_grace_seconds) ends; the task asks for the lock.     *)
CleanupWakes(i) ==
  /\ cleanup[i] = "sleeping"
  /\ cleanup' = [cleanup EXCEPT ![i] = "locking"]
  /\ managerLock' = Append(managerLock, i)
  /\ UNCHANGED <<handler, request, stateVars, stopper, registerVars, routerVars>>

Reapable(i) == i \in interests /\ subscribers[i] = {}

(* Mutant of CleanupChecks: the interest is unsubscribed but not popped.   *)
CleanupKeepsInterest(i) ==
  /\ Holds(managerLock, i)
  /\ cleanup[i] = "locking"
  /\ managerLock' = Tail(managerLock)
  /\ IF Reapable(i)
     THEN /\ cleanupTask' = [cleanupTask EXCEPT ![i] = FALSE]
          /\ cleanup' = [cleanup EXCEPT ![i] = "unsubscribing"]
          /\ routerLock' = Append(routerLock, i)
     ELSE /\ cleanup' = [cleanup EXCEPT ![i] = "none"]
          /\ UNCHANGED <<cleanupTask, routerLock>>
  /\ UNCHANGED <<handler, request, clients, interests, subscribers, stopper,
                 registerVars, routed, upstream>>

(* The lock is granted: an interest still idle is popped, the lock is      *)
(* released and the request for the router lock queued, in one step.       *)
CleanupChecks(i) ==
  /\ Holds(managerLock, i)
  /\ cleanup[i] = "locking"
  /\ managerLock' = Tail(managerLock)
  /\ IF Reapable(i)
     THEN /\ interests' = interests \ {i}
          /\ cleanupTask' = [cleanupTask EXCEPT ![i] = FALSE]
          /\ cleanup' = [cleanup EXCEPT ![i] = "unsubscribing"]
          /\ routerLock' = Append(routerLock, i)
     ELSE /\ cleanup' = [cleanup EXCEPT ![i] = "none"]
          /\ UNCHANGED <<interests, cleanupTask, routerLock>>
  /\ UNCHANGED <<handler, request, clients, subscribers, stopper, registerVars,
                 routed, upstream>>

CleanupUnsubscribes(i) ==
  /\ Holds(routerLock, i)
  /\ cleanup[i] = "unsubscribing"
  /\ cleanup' = [cleanup EXCEPT ![i] = "none"]
  /\ Unsubscribe(i)
  /\ UNCHANGED <<handler, request, stateVars, stopper, registerVars, managerLock>>

(* The CancelledError of a cancelled waiter takes it out of the queue.     *)
DeadWaiterLeaves ==
  /\ Holds(managerLock, Dead)
  /\ managerLock' = Tail(managerLock)
  /\ UNCHANGED <<handler, request, stateVars, cleanup, stopper, registerVars,
                 routerVars>>

-----------------------------------------------------------------------------
(* stop and the router's close.                                            *)

StopBegins ==
  /\ stopper = "running"
  /\ stopper' = "clearing"
  /\ managerLock' = Append(managerLock, Stop)
  /\ UNCHANGED <<handler, request, stateVars, cleanup, registerVars, routerVars>>

(* The maps are cleared under the lock, the lock is released, and the      *)
(* cleanup tasks found in the states are cancelled, in one step.           *)
StopClears ==
  /\ Holds(managerLock, Stop)
  /\ stopper = "clearing"
  /\ stopper' = "gathering"
  /\ clients' = {}
  /\ interests' = {}
  /\ subscribers' = [i \in Interests |-> {}]
  /\ cleanupTask' = [i \in Interests |-> FALSE]
  /\ LET cancelled == {i \in interests : cleanupTask[i]}
     IN /\ cleanup' = WithoutTasks(cancelled)
        /\ managerLock' = Bury(Tail(managerLock), cancelled)
  /\ UNCHANGED <<handler, request, registerVars, routerVars>>

(* gather() has seen the cancelled cleanups end; provider.close() asks for *)
(* the router lock.                                                        *)
StopGathered ==
  /\ stopper = "gathering"
  /\ \A k \in 1..Len(managerLock) : managerLock[k] # Dead
  /\ stopper' = "closing"
  /\ routerLock' = Append(routerLock, Stop)
  /\ UNCHANGED <<handler, request, stateVars, cleanup, registerVars, managerLock,
                 routed, upstream>>

RouterCloses ==
  /\ Holds(routerLock, Stop)
  /\ stopper = "closing"
  /\ stopper' = "closingProviders"
  /\ routed' = {}
  /\ routerLock' = Tail(routerLock)
  /\ UNCHANGED <<handler, request, stateVars, cleanup, registerVars, managerLock,
                 upstream>>

ProvidersClose ==
  /\ stopper = "closingProviders"
  /\ stopper' = "stopped"
  /\ upstream' = {}
  /\ UNCHANGED <<handler, request, stateVars, cleanup, registerVars, managerLock,
                 routerLock, routed>>

-----------------------------------------------------------------------------
HandlerStep(c) ==
  \/ Refuse(c)
  \/ BeginRegister(c)
  \/ \E i \in Interests : Join(c, i)
  \/ \E i \in Interests : Open(c, i)
  \/ OpenSucceeds(c)
  \/ OpenFails(c)
  \/ \E i \in Interests : Rollback(c, i)
  \/ RollbackUnsubscribed(c)
  \/ RegisterFails(c)
  \/ Admit(c)
  \/ Unregister(c)

CleanupStep(i) ==
  \/ CleanupWakes(i)
  \/ CleanupChecks(i)
  \/ CleanupUnsubscribes(i)

StopStep ==
  \/ StopClears
  \/ StopGathered
  \/ RouterCloses
  \/ ProvidersClose

(* The process ends only when every task has; deadlock anywhere else is an *)
(* error.                                                                  *)
Terminated ==
  /\ stopper = "stopped"
  /\ \A c \in Clients : handler[c] \in {"failed", "refused", "gone"}
  /\ UNCHANGED vars

Next ==
  \/ \E c \in Clients, w \in (SUBSET Interests) \ {{}} : Connect(c, w)
  \/ \E c \in Clients : HandlerStep(c)
  \/ \E c \in Clients : Disconnect(c)
  \/ \E i \in Interests : CleanupStep(i)
  \/ DeadWaiterLeaves
  \/ StopBegins
  \/ StopStep
  \/ Terminated

Spec == Init /\ [][Next]_vars

(* The event loop runs every ready task, FIFO locks are granted in turn,   *)
(* sleeps end and a provider call returns or raises.  Nothing makes a      *)
(* client connect or leave, or the process stop.                           *)
Fairness ==
  /\ \A c \in Clients : WF_vars(HandlerStep(c))
  /\ \A i \in Interests : WF_vars(CleanupStep(i))
  /\ WF_vars(DeadWaiterLeaves)
  /\ WF_vars(StopStep)

FairSpec == Spec /\ Fairness

-----------------------------------------------------------------------------
(* Safety.                                                                 *)

(* A registered client has an upstream subscription for each of its        *)
(* interests, whatever cleanups, other registrations and their rollbacks   *)
(* do meanwhile; only an interest whose opening can fail is left out.      *)
Served == \A c \in clients : request[c] \ Failable \subseteq upstream

(* No upstream subscription is forgotten: it belongs to an interest the    *)
(* manager still has, or the task that gave the interest up is on its way  *)
(* to unsubscribe it, or the shutdown is about to close every provider.    *)
NoOrphanUpstream ==
  \A i \in upstream :
    \/ i \in interests
    \/ cleanup[i] = "unsubscribing"
    \/ i = target /\ \E c \in Clients : handler[c] = "unsubscribing"
    \/ stopper \in {"gathering", "closing", "closingProviders"}

InRegister(c) ==
  handler[c] \in {"registering", "admitting", "opening", "rollback", "unsubscribing"}

(* Once stop has cleared the maps nothing enters them again, although a    *)
(* registration may have been anywhere in the queue for the lock when the  *)
(* flag was set; after the providers are closed nothing reopens them.      *)
StopIsFinal ==
  stopper \notin {"running", "clearing"} =>
    /\ clients = {} /\ interests = {}
    /\ \A c \in Clients : ~InRegister(c)
    /\ stopper = "stopped" => upstream = {}

(* The bookkeeping of locks, tasks and maps keeps the promise of           *)
(* QuoteDemand: no interest is unsubscribed under a served client.         *)
Demand == INSTANCE QuoteDemand WITH
  served <- clients,
  wants  <- request,
  live   <- upstream,
  phase  <- CASE stopper \in {"running", "clearing"} -> "open"
              [] stopper = "stopped" -> "closed"
              [] OTHER -> "draining"

ImplementsDemand == Demand!Spec

-----------------------------------------------------------------------------
(* The inductive invariant behind the safety properties.                   *)

Queued(lock, p) == \E k \in 1..Len(lock) : lock[k] = p

(* The phases of register inside its `async with self._lock` block.        *)
Critical(c) == handler[c] \in {"admitting", "opening", "rollback", "unsubscribing"}

(* The manager lock: whoever is inside the block holds it, whoever waits   *)
(* is in the queue, and no registration is queued behind the shutdown.     *)
ManagerQueue ==
  /\ \A c \in Clients :
       /\ Critical(c) => Holds(managerLock, c)
       /\ InRegister(c) => Queued(managerLock, c)
  /\ stopper = "running" => ~Queued(managerLock, Stop)
  /\ stopper = "clearing" =>
       \A j, k \in 1..Len(managerLock) :
         j < k /\ managerLock[j] = Stop =>
           \A c \in Clients : managerLock[k] = c => ~InRegister(c)

(* The router lock: a registration is always last in it, so that every     *)
(* unsubscribe begun earlier is over when its subscribe is served.         *)
RouterQueue ==
  /\ \A k \in 1..Len(routerLock), c \in Clients :
       routerLock[k] = c =>
         k = Len(routerLock) /\ handler[c] \in {"opening", "unsubscribing"}
  /\ \A i \in Interests : cleanup[i] = "unsubscribing" => Queued(routerLock, i)

(* What a registration in progress has done so far.                        *)
RegisterProgress ==
  \A c \in Clients :
    /\ handler[c] \in {"admitting", "opening"} =>
         \A i \in request[c] \ todo : i \in interests /\ c \in subscribers[i]
    /\ handler[c] = "opening" => target \in todo \cap interests /\ subscribers[target] = {}
    /\ handler[c] = "unsubscribing" => target \in Interests \ interests
    /\ Critical(c) => \A i \in opened : i \in interests /\ subscribers[i] = {c}

(* A registered client subscribes to every interest it asked for.          *)
RegisteredSubscribes ==
  \A c \in clients :
    /\ handler[c] \in {"registered", "unregistering"}
    /\ \A i \in request[c] : i \in interests /\ c \in subscribers[i]

BeingOpened(i) == i = target /\ \E c \in Clients : handler[c] = "opening"

(* An interest of the manager is upstream or being opened; one that is     *)
(* still to be unsubscribed is there only because it is being reopened.    *)
InterestsAreLive ==
  /\ \A i \in interests \ Failable : i \in upstream \/ BeingOpened(i)
  /\ \A i \in interests : cleanup[i] = "unsubscribing" => BeingOpened(i)
  /\ stopper \notin {"closingProviders", "stopped"} => routed = upstream

SafetyInv ==
  /\ TypeOK
  /\ ManagerQueue
  /\ RouterQueue
  /\ RegisterProgress
  /\ RegisteredSubscribes
  /\ InterestsAreLive
  /\ NoOrphanUpstream
  /\ StopIsFinal

-----------------------------------------------------------------------------
(* Liveness, under FairSpec.                                               *)

Wanted(i) ==
  \/ subscribers[i] # {}
  \/ \E c \in Clients : InRegister(c) /\ i \in request[c]

(* An upstream subscription that no subscriber holds and no registration   *)
(* is about to join is given up, or wanted again.                          *)
IdleIsReleased ==
  \A i \in Interests : (i \in upstream /\ ~Wanted(i)) ~> (i \notin upstream \/ Wanted(i))

(* A registration that waits for the lock gets an answer, whoever holds or *)
(* waits for the two locks.                                                *)
RegisterReturns ==
  \A c \in Clients : InRegister(c) ~> handler[c] \in {"registered", "failed"}

(* A shutdown that has begun closes every provider, although it waits for  *)
(* the registrations and cleanups ahead of it.                             *)
StopReturns == stopper = "clearing" ~> stopper = "stopped"

-----------------------------------------------------------------------------
(* What the documents say and the code does not do.                        *)

(* docs/spec.md on CONNECTING: the subscription is accepted while the      *)
(* upstream is being opened.  So an accepted client has it open or on its  *)
(* way, for every interest.                                                *)
AcceptedMeansOpening ==
  \A c \in clients : \A i \in request[c] : i \in upstream \/ BeingOpened(i)

(* A connection that asked for i and has not ended.                        *)
HasClient(i) ==
  \E c \in Clients : i \in request[c] /\ handler[c] \notin {"failed", "gone"}

(* docs/system-design.md: upstream streams close when no matching clients  *)
(* remain.                                                                 *)
UnusedUpstreamCloses ==
  \A i \in Interests :
    (i \in upstream /\ ~HasClient(i)) ~> (i \notin upstream \/ HasClient(i))
=============================================================================
