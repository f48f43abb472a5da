----------------------------- MODULE SafeQueue -----------------------------
(***************************************************************************)
(* The task queue between web_server's event loop and its RtmpThread:      *)
(* SafeQueue with its mutex and two condition variables, and the loop of   *)
(* WorkThread::Run that takes from it.  WebServer uses the queue as if     *)
(* posting and taking were single steps; here each is what happens between *)
(* taking and releasing m_mutex, and notify_one is a step of its own.      *)
(* The template promises to work for any number of threads on both sides.  *)
(***************************************************************************)
EXTENDS Naturals, Sequences, FiniteSets

CONSTANTS Producers, Consumers,
          MaxSize,      \* m_max_size
          MaxTasks      \* bound of the model: tasks ever posted

ASSUME QueueAssumption ==
    /\ IsFiniteSet(Producers) /\ IsFiniteSet(Consumers)
    /\ Producers \cap Consumers = {}
    /\ MaxSize \in Nat \ {0}
    /\ MaxTasks \in Nat

Threads == Producers \cup Consumers

VARIABLES tasks,        \* m_queue; a task is the number it was made as
          at,           \* where each thread is
          item,         \* task_ptr of each thread in PushBack or PopFront
          made          \* the number of tasks made

queueVars == <<tasks, at, item, made>>

NoTask == 0

(* "blocked": waiting on m_pop_cv (a producer) or m_push_cv (a consumer);  *)
(* "woken": notified, or awake for no reason, and about to look again;     *)
(* "notify": past the critical section, about to call notify_one.          *)
Places == {"idle", "blocked", "woken", "notify"}
At(T, place) == {t \in T : at[t] = place}
Blocked(T) == At(T, "blocked")

QueueTypeOK ==
    /\ tasks \in Seq(1..MaxTasks)
    /\ Len(tasks) <= MaxSize
    /\ at \in [Threads -> Places]
    /\ item \in [Threads -> 0..MaxTasks]
    /\ made \in 0..MaxTasks

QueueInit ==
    /\ tasks = <<>>
    /\ at = [t \in Threads |-> "idle"]
    /\ item = [t \in Threads |-> NoTask]
    /\ made = 0

-----------------------------------------------------------------------------
(* The critical section of PushBack up to the wait or the unlock. *)
EnterPush(p, task) ==
    /\ item' = [item EXCEPT ![p] = task]
    /\ IF Len(tasks) < MaxSize
       THEN tasks' = Append(tasks, task) /\ at' = [at EXCEPT ![p] = "notify"]
       ELSE at' = [at EXCEPT ![p] = "blocked"] /\ UNCHANGED tasks

(* PostTask: a new task is pushed. *)
PushBack(p) ==
    /\ at[p] = "idle"
    /\ made < MaxTasks
    /\ made' = made + 1
    /\ EnterPush(p, made + 1)

(* The producer's wait on m_pop_cv ends. *)
PushWakes(p) ==
    /\ at[p] = "woken"
    /\ EnterPush(p, item[p])
    /\ UNCHANGED made

(* Faulty variant: m_push_cv is notified only when the queue was empty. *)
NotifyPushIfFirst(p) ==
    /\ at[p] = "notify"
    /\ IF Blocked(Consumers) = {} \/ Len(tasks) > 1
       THEN at' = [at EXCEPT ![p] = "idle"]
       ELSE \E c \in Blocked(Consumers) : at' = [at EXCEPT ![p] = "idle", ![c] = "woken"]
    /\ UNCHANGED <<tasks, item, made>>

(* m_push_cv.notify_one() *)
NotifyPush(p) ==
    /\ at[p] = "notify"
    /\ IF Blocked(Consumers) = {}
       THEN at' = [at EXCEPT ![p] = "idle"]
       ELSE \E c \in Blocked(Consumers) : at' = [at EXCEPT ![p] = "idle", ![c] = "woken"]
    /\ UNCHANGED <<tasks, item, made>>

(* PopFront, entered by WorkThread::Run once the last task is handled, or  *)
(* after its wait on m_push_cv. *)
PopFront(c) ==
    /\ at[c] \in {"idle", "woken"}
    /\ IF tasks # <<>>
       THEN /\ item' = [item EXCEPT ![c] = Head(tasks)]
            /\ tasks' = Tail(tasks)
            /\ at' = [at EXCEPT ![c] = "notify"]
       ELSE at' = [at EXCEPT ![c] = "blocked"] /\ UNCHANGED <<tasks, item>>
    /\ UNCHANGED made

(* Faulty variant: m_pop_cv is not notified. *)
NotifyPopNever(c) ==
    /\ at[c] = "notify"
    /\ at' = [at EXCEPT ![c] = "idle"]
    /\ UNCHANGED <<tasks, item, made>>

(* m_pop_cv.notify_one(); the task is handled after it. *)
NotifyPop(c) ==
    /\ at[c] = "notify"
    /\ IF Blocked(Producers) = {}
       THEN at' = [at EXCEPT ![c] = "idle"]
       ELSE \E p \in Blocked(Producers) : at' = [at EXCEPT ![c] = "idle", ![p] = "woken"]
    /\ UNCHANGED <<tasks, item, made>>

(* A condition variable may wake a thread that nobody notified. *)
SpuriousWakeup(t) ==
    /\ at[t] = "blocked"
    /\ at' = [at EXCEPT ![t] = "woken"]
    /\ UNCHANGED <<tasks, item, made>>

Produce(p) == PushBack(p) \/ PushWakes(p) \/ NotifyPush(p)
Consume(c) == PopFront(c) \/ NotifyPop(c)

QueueNext ==
    \/ \E p \in Producers : Produce(p)
    \/ \E c \in Consumers : Consume(c)
    \/ \E t \in Threads : SpuriousWakeup(t)

QueueSpec == QueueInit /\ [][QueueNext]_queueVars

(* The operating system runs every thread that is not blocked.  New posts  *)
(* and spurious wake-ups are never forced.                                 *)
QueueFairSpec ==
    /\ QueueSpec
    /\ \A p \in Producers : WF_queueVars(PushWakes(p) \/ NotifyPush(p))
    /\ \A c \in Consumers : WF_queueVars(Consume(c))

-----------------------------------------------------------------------------
(* Properties.                                                             *)

(* No wake-up is lost: as long as some consumer is blocked, there is for   *)
(* every task in the queue a producer about to notify or a consumer awake. *)
ConsumersNotified ==
    Blocked(Consumers) # {} =>
        Len(tasks) <= Cardinality(At(Producers, "notify"))
                      + Cardinality(At(Consumers, "woken"))

(* The same for producers and free places.                                 *)
ProducersNotified ==
    Blocked(Producers) # {} =>
        MaxSize <= Len(tasks) + Cardinality(At(Consumers, "notify"))
                   + Cardinality(At(Producers, "woken"))

(* The tasks that are in the queue or still waiting for room in PushBack.  *)
Pending == {tasks[i] : i \in 1..Len(tasks)}
           \cup {item[p] : p \in At(Producers, "blocked") \cup At(Producers, "woken")}

(* Every task that was posted is taken, even those whose producer had to   *)
(* wait; in particular the event loop never waits for ever.                *)
EveryTaskTaken == \A task \in 1..MaxTasks : (task \in Pending) ~> (task \notin Pending)
=============================================================================
