---------------------------- MODULE ThreadSafety ----------------------------
(***************************************************************************)
(* The thread-safety helpers (src/thread_safety.cpp,                       *)
(* include/rtes/thread_safety.hpp), as four machines that share nothing:   *)
(* scoped_lock with the DeadlockDetector, WorkDrainer, ShutdownManager,    *)
(* and the RaceDetector.                                                   *)
(***************************************************************************)
EXTENDS Integers, Sequences, FiniteSets, SequencesExt

CONSTANTS LockThreads, Mutexes,
          MaxWork,       \* bound on the work items offered
          Initiators,    \* threads that call initiate_shutdown()
          Waiters,       \* threads that call wait_for_shutdown()
          Components,    \* names given to register_component()
          MaxRegistrations,   \* bound on the calls of register_component()
          RaceWindow,    \* 100 microseconds
          RaceKeep,      \* one millisecond
          MaxClock, MaxAccesses

-----------------------------------------------------------------------------
(* scoped_lock *)

VARIABLES mutexOwner,   \* which thread really holds each mutex
          lockOwners,   \* lock_owners_
          threadLocks,  \* thread_locks_
          lockPc        \* per thread: <<>> or <<mutex, next step>>

lockVars == <<mutexOwner, lockOwners, threadLocks, lockPc>>

Nobody == "nobody"

LockInit ==
  /\ mutexOwner = [m \in Mutexes |-> Nobody] /\ lockOwners = [m \in Mutexes |-> Nobody]
  /\ threadLocks = [t \in LockThreads |-> <<>>]
  /\ lockPc = [t \in LockThreads |-> <<>>]

(* would_cause_deadlock(): a lock the thread holds is also owned by the owner of the wanted one. *)
WouldCauseDeadlock(t, m) ==
  /\ lockOwners[m] \notin {Nobody, t}
  /\ \E i \in DOMAIN threadLocks[t] : lockOwners[threadLocks[t][i]] = lockOwners[m]

(* The constructor's check; it throws on a deadlock it sees. *)
CheckDeadlock(t, m) ==
  /\ lockPc[t] = <<>> /\ ~ \E i \in DOMAIN threadLocks[t] : threadLocks[t][i] = m
  /\ lockPc' = [lockPc EXCEPT ![t] = IF WouldCauseDeadlock(t, m) THEN <<>> ELSE <<m, "lock">>]
  /\ UNCHANGED <<mutexOwner, lockOwners, threadLocks>>

(* mtx.lock() *)
LockMutex(t) ==
  /\ lockPc[t] # <<>> /\ lockPc[t][2] = "lock"
  /\ mutexOwner[lockPc[t][1]] = Nobody
  /\ mutexOwner' = [mutexOwner EXCEPT ![lockPc[t][1]] = t]
  /\ lockPc' = [lockPc EXCEPT ![t][2] = "register"]
  /\ UNCHANGED <<lockOwners, threadLocks>>

RegisterAcquisition(t) ==
  /\ lockPc[t] # <<>> /\ lockPc[t][2] = "register"
  /\ lockOwners' = [lockOwners EXCEPT ![lockPc[t][1]] = t]
  /\ threadLocks' = [threadLocks EXCEPT ![t] = Append(@, lockPc[t][1])]
  /\ lockPc' = [lockPc EXCEPT ![t] = <<>>]
  /\ UNCHANGED <<mutexOwner>>

(* The destructor of the innermost guard: it tells the detector and does not unlock. *)
ReleaseLock(t) ==
  /\ lockPc[t] = <<>> /\ threadLocks[t] # <<>>
  /\ lockOwners' = [lockOwners EXCEPT ![Last(threadLocks[t])] = Nobody]
  /\ threadLocks' = [threadLocks EXCEPT ![t] = Front(@)]
  /\ UNCHANGED <<mutexOwner, lockPc>>

LockNext ==
  \E t \in LockThreads : \/ \E m \in Mutexes : CheckDeadlock(t, m)
                         \/ LockMutex(t) \/ RegisterAcquisition(t) \/ ReleaseLock(t)

-----------------------------------------------------------------------------
(* WorkDrainer, one worker in process_work() and the thread that shuts down. *)

VARIABLES workQueue,    \* work_queue_
          workMutex,    \* who holds work_mutex_: "free", "adder", "worker", "drainer"
          draining,     \* draining_
          adder,        \* add_work_item(): "idle", "locked"
          workWorker,   \* process_work(): "out", "check", "sleep", "waiting", "woken", "loop", "ran"
          drainer,      \* drain_work(): "idle", "notify", "lock", "done"
          work          \* history: items offered and items run

drainVars == <<workQueue, workMutex, draining, adder, workWorker, drainer, work>>

DrainInit ==
  /\ workQueue = <<>> /\ workMutex = "free" /\ draining = FALSE
  /\ adder = "idle" /\ workWorker = "out" /\ drainer = "idle"
  /\ work = [offered |-> 0, run |-> {}]

(* add_work_item(): the lock, then the test, the push and the wake-up. *)
AdderLock ==
  /\ adder = "idle" /\ workMutex = "free" /\ work.offered < MaxWork
  /\ adder' = "locked" /\ workMutex' = "adder"
  /\ UNCHANGED <<workQueue, draining, workWorker, drainer, work>>

AddWorkItem ==
  /\ adder = "locked"
  /\ work' = [work EXCEPT !.offered = @ + 1]
  /\ workQueue' = IF draining THEN workQueue ELSE Append(workQueue, work.offered + 1)
  /\ workWorker' = IF ~draining /\ workWorker = "waiting" THEN "woken" ELSE workWorker
  /\ adder' = "idle" /\ workMutex' = "free"
  /\ UNCHANGED <<draining, drainer>>

(* process_work(): taking the lock, at first, after a wake-up and after each item. *)
WorkerLock ==
  /\ workWorker \in {"out", "woken", "ran"} /\ workMutex = "free"
  /\ workWorker' = IF workWorker = "ran" THEN "loop" ELSE "check"
  /\ workMutex' = "worker"
  /\ UNCHANGED <<workQueue, draining, adder, drainer, work>>

(* The predicate of wait(), and the wait itself, which lets go of the lock. *)
WorkerCheck ==
  /\ workWorker = "check"
  /\ workWorker' = IF workQueue # <<>> \/ draining THEN "loop" ELSE "sleep"
  /\ UNCHANGED <<workQueue, workMutex, draining, adder, drainer, work>>

WorkerSleep ==
  /\ workWorker = "sleep"
  /\ workWorker' = "waiting" /\ workMutex' = "free"
  /\ UNCHANGED <<workQueue, draining, adder, drainer, work>>

(* while (!work_queue_.empty() && !draining_): an item is run without the lock. *)
WorkerTurn ==
  /\ workWorker = "loop"
  /\ IF workQueue # <<>> /\ ~draining
     THEN /\ workQueue' = Tail(workQueue)
          /\ work' = [work EXCEPT !.run = @ \cup {Head(workQueue)}]
          /\ workWorker' = "ran"
     ELSE workWorker' = "out" /\ UNCHANGED <<workQueue, work>>
  /\ workMutex' = "free"
  /\ UNCHANGED <<draining, adder, drainer>>


(* drain_work(): the flag, without the lock. *)
DrainFlag ==
  /\ drainer = "idle"
  /\ draining' = TRUE /\ drainer' = "notify"
  /\ UNCHANGED <<workQueue, workMutex, adder, workWorker, work>>

(* notify_all(): only a worker that already waits hears it. *)
DrainNotify ==
  /\ drainer = "notify"
  /\ workWorker' = IF workWorker = "waiting" THEN "woken" ELSE workWorker
  /\ drainer' = "lock"
  /\ UNCHANGED <<workQueue, workMutex, draining, adder, work>>

DrainClear ==
  /\ drainer = "lock" /\ workMutex = "free"
  /\ workQueue' = <<>>
  /\ drainer' = "done"
  /\ UNCHANGED <<workMutex, draining, adder, workWorker, work>>

DrainNext ==
  \/ AdderLock \/ AddWorkItem
  \/ WorkerLock \/ WorkerCheck \/ WorkerSleep \/ WorkerTurn
  \/ DrainFlag \/ DrainNotify \/ DrainClear

-----------------------------------------------------------------------------
(* ShutdownManager. *)

VARIABLES components,         \* components_
          activeComponents,   \* active_components_
          shutdownRequested,  \* shutdown_requested_
          managerMutex,      \* who holds shutdown_mutex_
          initiator,          \* initiate_shutdown(): [pc, left], with the functions left to call
          waiter,             \* wait_for_shutdown(): "out", "check", "sleep", "waiting", "woken", "returned"
          called              \* history: the components shut down, and those registered before the request

shutdownVars == <<components, activeComponents, shutdownRequested, managerMutex, initiator, waiter, called>>

ShutdownInit ==
  /\ components = {} /\ activeComponents = 0 /\ shutdownRequested = FALSE /\ managerMutex = Nobody
  /\ initiator = [i \in Initiators |-> [pc |-> "out", left |-> {}]]
  /\ waiter = [w \in Waiters |-> "out"]
  /\ called = [stopped |-> {}, early |-> {}]

(* register_component() takes mutex_ alone; an initiator holds it shared until it returns.  *)
(* A name that is registered again is counted again.                                        *)
RegisterComponent(c) ==
  /\ activeComponents < MaxRegistrations
  /\ \A i \in Initiators : initiator[i].pc \notin {"calls", "notify"}
  /\ components' = components \cup {c} /\ activeComponents' = activeComponents + 1
  /\ called' = [called EXCEPT !.early = IF shutdownRequested THEN @ ELSE @ \cup {c}]
  /\ UNCHANGED <<shutdownRequested, managerMutex, initiator, waiter>>

RequestShutdown(i) ==
  /\ initiator[i].pc = "out"
  /\ shutdownRequested' = TRUE
  /\ initiator' = [initiator EXCEPT ![i].pc = "lock"]
  /\ UNCHANGED <<components, activeComponents, managerMutex, waiter, called>>

LockComponents(i) ==
  /\ initiator[i].pc = "lock"
  /\ initiator' = [initiator EXCEPT ![i] = [pc |-> "calls", left |-> components]]
  /\ UNCHANGED <<components, activeComponents, shutdownRequested, managerMutex, waiter, called>>

(* One shutdown function, whatever it throws; the counter stays as it is. *)
CallShutdown(i) ==
  /\ initiator[i].pc = "calls"
  /\ \/ /\ initiator[i].left = {}
        /\ initiator' = [initiator EXCEPT ![i].pc = "notify"] /\ UNCHANGED called
     \/ \E c \in initiator[i].left :
          /\ initiator' = [initiator EXCEPT ![i].left = @ \ {c}]
          /\ called' = [called EXCEPT !.stopped = @ \cup {c}]
  /\ UNCHANGED <<components, activeComponents, shutdownRequested, managerMutex, waiter>>

(* notify_all() under shutdown_mutex_ *)
NotifyWaiters(i) ==
  /\ initiator[i].pc = "notify" /\ managerMutex = Nobody
  /\ waiter' = [w \in Waiters |-> IF waiter[w] = "waiting" THEN "woken" ELSE waiter[w]]
  /\ initiator' = [initiator EXCEPT ![i].pc = "done"]
  /\ UNCHANGED <<components, activeComponents, shutdownRequested, managerMutex, called>>

(* wait_for_shutdown(): the lock, the predicate, and the sleep that lets go of the lock. *)
WaiterLock(w) ==
  /\ waiter[w] \in {"out", "woken"} /\ managerMutex = Nobody
  /\ waiter' = [waiter EXCEPT ![w] = "check"] /\ managerMutex' = w
  /\ UNCHANGED <<components, activeComponents, shutdownRequested, initiator, called>>

WaiterCheck(w) ==
  /\ waiter[w] = "check"
  /\ IF shutdownRequested /\ activeComponents = 0
     THEN waiter' = [waiter EXCEPT ![w] = "returned"] /\ managerMutex' = Nobody
     ELSE waiter' = [waiter EXCEPT ![w] = "sleep"] /\ UNCHANGED managerMutex
  /\ UNCHANGED <<components, activeComponents, shutdownRequested, initiator, called>>

WaiterSleep(w) ==
  /\ waiter[w] = "sleep"
  /\ waiter' = [waiter EXCEPT ![w] = "waiting"] /\ managerMutex' = Nobody
  /\ UNCHANGED <<components, activeComponents, shutdownRequested, initiator, called>>

Initiate(i) == RequestShutdown(i) \/ LockComponents(i) \/ CallShutdown(i) \/ NotifyWaiters(i)
AwaitShutdown(w) == WaiterLock(w) \/ WaiterCheck(w) \/ WaiterSleep(w)

ShutdownNext ==
  \/ \E c \in Components : RegisterComponent(c)
  \/ \E i \in Initiators : Initiate(i)
  \/ \E w \in Waiters : AwaitShutdown(w)

-----------------------------------------------------------------------------
(* RaceDetector, for one address. *)

VARIABLES raceClock, accesses, raceDetected,
          accessLog      \* history: the accesses since the last synchronization point

raceVars == <<raceClock, accesses, raceDetected, accessLog>>

RaceInit == raceClock = 0 /\ accesses = <<>> /\ raceDetected = FALSE /\ accessLog = <<>>

RaceTick ==
  /\ raceClock < MaxClock
  /\ raceClock' = raceClock + 1
  /\ UNCHANGED <<accesses, raceDetected, accessLog>>

Conflict(a, b) == a.thread # b.thread /\ (a.write \/ b.write)

(* remove_if(timestamp < cutoff) *)
Recent(as, time) == SelectSeq(as, LAMBDA a : a.time >= time - RaceKeep)

(* register_memory_access(): a conflict within the window is reported and not stored. *)
RegisterMemoryAccess(t, write) ==
  LET a == [thread |-> t, write |-> write, time |-> raceClock]
      race == \E i \in DOMAIN accesses : Conflict(accesses[i], a) /\ raceClock - accesses[i].time < RaceWindow
  IN  /\ Len(accessLog) < MaxAccesses
      /\ accessLog' = Append(accessLog, a)
      /\ raceDetected' = (raceDetected \/ race)
      /\ accesses' = IF race THEN accesses ELSE Recent(Append(accesses, a), raceClock)
      /\ UNCHANGED raceClock

(* register_synchronization_point() *)
SynchronizationPoint ==
  /\ accesses' = <<>> /\ accessLog' = IF raceDetected THEN accessLog ELSE <<>>
  /\ UNCHANGED <<raceClock, raceDetected>>

RaceNext ==
  \/ RaceTick \/ SynchronizationPoint
  \/ \E t \in LockThreads, write \in BOOLEAN : RegisterMemoryAccess(t, write)

-----------------------------------------------------------------------------
(***************************************************************************)
(* DeadlockDetector: what it records is true: a thread it names as owner   *)
(* really holds the mutex, and each of a thread's recorded locks is        *)
(* recorded as that thread's.  For that reason would_cause_deadlock() is   *)
(* never true: it looks for a lock that two threads own.                   *)
(***************************************************************************)
DetectorTruthful ==
  /\ \A m \in Mutexes : lockOwners[m] # Nobody => mutexOwner[m] = lockOwners[m]
  /\ \A t \in LockThreads : \A i \in DOMAIN threadLocks[t] : lockOwners[threadLocks[t][i]] = t
  /\ ~ \E t \in LockThreads, m \in Mutexes : WouldCauseDeadlock(t, m)

(***************************************************************************)
(* WorkDrainer: once drain_work() has returned the queue is empty and no   *)
(* item enters it any more, although the flag is raised without the lock   *)
(* that add_work_item() tests it under.                                    *)
(***************************************************************************)
DrainedStaysEmpty == drainer = "done" => workQueue = <<>>

(***************************************************************************)
(* ShutdownManager: once one initiate_shutdown() has returned, every       *)
(* component that was registered before the shutdown was requested has     *)
(* been shut down, also when two threads initiate and components go on     *)
(* registering.  The counter that wait_for_shutdown() tests is never below *)
(* the number of components, and zero only without any.                    *)
(***************************************************************************)
ShutdownReaches ==
  /\ (\E i \in Initiators : initiator[i].pc = "done") => called.early \subseteq called.stopped
  /\ activeComponents >= Cardinality(components)

(***************************************************************************)
(* ShutdownManager: no wake-up is lost although shutdown_requested_ is set *)
(* without shutdown_mutex_: with no component registered, everyone who     *)
(* waits when the shutdown is requested returns.                           *)
(***************************************************************************)
WaitersWake ==
  \A w \in Waiters :
    (shutdownRequested /\ waiter[w] \in {"check", "sleep", "waiting", "woken"})
      ~> (waiter[w] = "returned" \/ activeComponents > 0)

(***************************************************************************)
(* RaceDetector: a race is reported exactly when two threads accessed the  *)
(* address within the window, one of them writing, and with no             *)
(* synchronization point in between; what it forgets and what it does not  *)
(* store never matters.                                                    *)
(***************************************************************************)
RaceReportExact ==
  raceDetected <=>
    \E i, j \in DOMAIN accessLog :
       i < j /\ Conflict(accessLog[i], accessLog[j]) /\ accessLog[j].time - accessLog[i].time < RaceWindow

=============================================================================
