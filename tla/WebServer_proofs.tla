-------------------------- MODULE WebServer_proofs --------------------------
(***************************************************************************)
(* Proofs about WebServer, for any number of devices and browsers and any  *)
(* queue size, and at the end about SafeQueue, the queue between its two   *)
(* threads: no wake-up is lost, for any number of threads on either side.  *)
(***************************************************************************)
EXTENDS WebServer, SafeQueue, FiniteSetTheorems, TLAPS

(* A connection that does not work has nothing subscribed to on it. *)
AskedNeedsConnection == client # "connected" => asked = {} /\ flow = {}

(* The last thing the thread is still to be told of a wanted device is to  *)
(* start it: no stop task of an earlier life of the device comes after.    *)
WantedStartsLast == \A d \in deviceIds : Controls(d) # {} => Settled(d)

(* The inductive invariant. *)
IInv ==
    /\ TypeOK
    /\ AskedNeedsConnection
    /\ NullClientHasTimer
    /\ ClientsPlay
    /\ WatchedIsWanted
    /\ AskedIsWanted
    /\ UnwantedIsReleased
    /\ WantedStartsLast
    /\ WantedIsPushed

-----------------------------------------------------------------------------
(* The queue.                                                              *)

LEMMA TaskForms ==
    ASSUME NEW d \in Devices
    PROVE  /\ Start(d) \in Tasks /\ Stop(d) \in Tasks /\ Frame(d) \in Tasks
           /\ Start(d) # Stop(d) /\ Start(d) # Frame(d) /\ Stop(d) # Frame(d)
           /\ \A e \in Devices \ {d} : Start(d) # Start(e) /\ Stop(d) # Stop(e)
BY DEF Start, Stop, Frame, Tasks

LEMMA TaskCases ==
    ASSUME NEW task \in Tasks
    PROVE  task[2] \in Devices /\ task \in {Start(task[2]), Stop(task[2]), Frame(task[2])}
BY DEF Start, Stop, Frame, Tasks

(* A posted task decides about its device and leaves the others as they    *)
(* were; a frame decides nothing.                                          *)
LEMMA PostLemma ==
    ASSUME TypeOK, NEW task \in Tasks, PostTask(task), rtmp' = rtmp,
           NEW e \in Devices
    PROVE  /\ queue' \in Seq(Tasks) /\ Len(queue') <= MaxQueue
           /\ task = Start(e) => Settled(e)'
           /\ task = Stop(e) => ~Settled(e)' /\ Controls(e)' # {}
           /\ task \notin {Start(e), Stop(e)} =>
                  Controls(e)' = Controls(e) /\ Settled(e)' = Settled(e)
<1>1. /\ queue \in Seq(Tasks) /\ Len(queue) < MaxQueue
      /\ queue' = Append(queue, task)
  BY DEF TypeOK, PostTask
<1>2. /\ queue' \in Seq(Tasks) /\ Len(queue') = Len(queue) + 1
      /\ \A i \in 1..Len(queue) : queue'[i] = queue[i]
      /\ queue'[Len(queue) + 1] = task
  BY <1>1
<1>3. Len(queue) \in Nat
  BY <1>1
<1>4. ASSUME task \in {Start(e), Stop(e)}
      PROVE  Controls(e)' = Controls(e) \cup {Len(queue) + 1}
  BY <1>2, <1>3, <1>4 DEF Controls, Start, Stop
<1>5. ASSUME task \notin {Start(e), Stop(e)}
      PROVE  Controls(e)' = Controls(e)
  BY <1>2, <1>3, <1>5 DEF Controls, Start, Stop
<1>6. Controls(e) \subseteq 1..Len(queue)
  BY DEF Controls
<1>7. Len(queue') <= MaxQueue
  BY <1>1, <1>2, <1>3, MaxQueueAssumption
<1>8. task = Start(e) => Settled(e)'
  BY <1>2, <1>3, <1>4, <1>6 DEF Settled, Start
<1>9. task = Stop(e) => ~Settled(e)' /\ Controls(e)' # {}
  <2> SUFFICES ASSUME task = Stop(e)
               PROVE  ~Settled(e)' /\ Controls(e)' # {}
    OBVIOUS
  <2>1. Len(queue) + 1 \in Controls(e)' /\ \A j \in Controls(e)' : j <= Len(queue) + 1
    BY <1>3, <1>4, <1>6
  <2>2. \A i \in Controls(e)' : (\A j \in Controls(e)' : j <= i) => i = Len(queue) + 1
    BY <2>1, <1>3, <1>4, <1>6
  <2>3. queue'[Len(queue) + 1] # Start(e)'
    BY <1>2, TaskForms DEF Start, Stop
  <2>4. QED
    BY <2>1, <2>2, <2>3 DEF Settled
<1>10. task \notin {Start(e), Stop(e)} => Settled(e)' = Settled(e)
  BY <1>2, <1>5, <1>6 DEF Settled, Start
<1>11. QED
  BY <1>2, <1>5, <1>7, <1>8, <1>9, <1>10

(* A handled task leaves the outcome for every device as it was, but for   *)
(* a push that failed.                                                     *)
LEMMA RunLemma ==
    ASSUME TypeOK, queue # <<>>, HandlerTask(Head(queue)), queue' = Tail(queue),
           NEW e \in Devices
    PROVE  /\ queue' \in Seq(Tasks) /\ Len(queue') <= MaxQueue
           /\ rtmp' \subseteq Devices /\ pushFailed' \subseteq Devices
           /\ Settled(e)' => Settled(e)
           /\ Settled(e) => Settled(e)' \/ (Controls(e)' = {} /\ e \in pushFailed')
           /\ Controls(e)' # {} => Controls(e) # {}
           /\ Controls(e) = {} /\ e \in pushFailed => e \in pushFailed'
<1> DEFINE task == Head(queue)
           d == task[2]
<1>1. /\ queue \in Seq(Tasks) /\ Len(queue) \in Nat /\ Len(queue) > 0
      /\ Len(queue) <= MaxQueue /\ task = queue[1] /\ task \in Tasks
  BY DEF TypeOK
<1>2. /\ queue' \in Seq(Tasks) /\ Len(queue') = Len(queue) - 1
      /\ \A i \in 1..Len(queue') : queue'[i] = queue[i + 1]
  BY <1>1
<1>3. d \in Devices /\ task \in {Start(d), Stop(d), Frame(d)}
  BY <1>1, TaskCases
<1> HIDE DEF task, d
<1>4. \A i \in Nat : i \in Controls(e)' <=> i \in 1..Len(queue') /\ i + 1 \in Controls(e)
  BY <1>1, <1>2 DEF Controls, Start, Stop
<1>5. Controls(e)' # {} => Controls(e) # {}
  BY <1>4 DEF Controls
<1>6. \A k \in Controls(e) : k = 1 \/ (k - 1 \in Controls(e)' /\ k \in Nat)
  BY <1>1, <1>2, <1>4 DEF Controls
<1>7. 1 \in Controls(e) <=> task \in {Start(e), Stop(e)}
  BY <1>1 DEF Controls
<1>8. Controls(e)' # {} => (Settled(e)' <=> Settled(e))
  <2> SUFFICES ASSUME Controls(e)' # {}
               PROVE  Settled(e)' <=> Settled(e)
    OBVIOUS
  <2>1. PICK m \in Controls(e)' : TRUE
    OBVIOUS
  <2>2. m \in Nat /\ m >= 1 /\ m + 1 \in Controls(e)
    BY <2>1, <1>1, <1>2, <1>4 DEF Controls
  <2>3. Controls(e)' \subseteq Nat /\ Controls(e) \subseteq Nat
    BY <1>1, <1>2 DEF Controls
  <2>4. ASSUME NEW i \in Controls(e)', \A j \in Controls(e)' : j <= i,
               queue'[i] = Start(e)'
        PROVE  Settled(e)
    <3>1. i \in Nat /\ i + 1 \in Controls(e) /\ queue[i + 1] = Start(e)
      BY <2>3, <2>4, <1>2, <1>4 DEF Start
    <3>2. i >= 1
      BY <2>4, <1>1, <1>2 DEF Controls
    <3>3. \A j \in Controls(e) : j <= i + 1
      BY <2>3, <2>4, <3>1, <3>2, <1>6
    <3>4. QED
      BY <3>1, <3>3 DEF Settled
  <2>5. ASSUME NEW k \in Controls(e), \A j \in Controls(e) : j <= k,
               queue[k] = Start(e)
        PROVE  Settled(e)'
    <3>1. k \in Nat /\ k # 1
      BY <2>2, <2>3, <2>5
    <3>2. k - 1 \in Controls(e)' /\ k - 1 \in Nat
      BY <2>3, <2>5, <3>1, <1>6
    <3>3. queue'[k - 1] = Start(e)'
      BY <3>1, <3>2, <2>5, <1>2, <1>4 DEF Start
    <3>4. \A j \in Controls(e)' : j <= k - 1
      BY <2>3, <2>5, <3>1, <1>4
    <3>5. QED
      BY <3>2, <3>3, <3>4 DEF Settled
  <2>6. QED
    BY <2>1, <2>2, <2>4, <2>5 DEF Settled
<1>9. HandlerTask(task)
  BY DEF task
<1>10. /\ rtmp' \subseteq Devices /\ pushFailed' \subseteq Devices
       /\ e # d => (e \in rtmp' <=> e \in rtmp) /\ (e \in pushFailed' <=> e \in pushFailed)
       /\ task = Start(d) => d \in rtmp'
       /\ task = Stop(d) => d \notin rtmp'
       /\ task = Frame(d) => /\ d \in rtmp' => d \in rtmp
                             /\ d \in rtmp => d \in rtmp' \/ d \in pushFailed'
                             /\ d \in pushFailed => d \in pushFailed'
  BY <1>3, <1>9, TaskForms DEF HandlerTask, PushFails, TypeOK, threadVars, d
<1>11. ASSUME Controls(e)' = {}, 1 \in Controls(e)
       PROVE  /\ e = d
              /\ Settled(e)' <=> Settled(e)
  <2>1. e = d /\ (task = Start(d) \/ task = Stop(d))
    BY <1>11, <1>3, <1>7 DEF Start, Stop, Frame
  <2>2. Controls(e) = {1}
    BY <1>6, <1>11
  <2>3. Settled(e) <=> task = Start(e)
    BY <2>2, <1>1 DEF Settled
  <2>4. Settled(e)' <=> e \in rtmp'
    BY <1>11 DEF Settled
  <2>5. QED
    BY <2>1, <2>3, <2>4, <1>10, TaskForms
<1>12. ASSUME Controls(e)' = {}, 1 \notin Controls(e)
       PROVE  /\ Controls(e) = {}
              /\ Settled(e)' => Settled(e)
              /\ Settled(e) => Settled(e)' \/ e \in pushFailed'
  <2>1. Controls(e) = {}
    BY <1>6, <1>12
  <2>2. (Settled(e) <=> e \in rtmp) /\ (Settled(e)' <=> e \in rtmp')
    BY <1>12, <2>1 DEF Settled
  <2>3. e = d => task = Frame(d)
    BY <1>12, <1>3, <1>7
  <2>4. QED
    BY <2>1, <2>2, <2>3, <1>10
<1>13. ASSUME Controls(e) = {}, e \in pushFailed
       PROVE  e \in pushFailed'
  <2>1. e = d => task = Frame(d)
    BY <1>13, <1>3, <1>7
  <2>2. QED
    BY <1>13, <2>1, <1>10
<1>14. Len(queue') <= MaxQueue
  BY <1>1, <1>2, MaxQueueAssumption
<1>15. QED
  BY <1>2, <1>5, <1>8, <1>10, <1>11, <1>12, <1>13, <1>14

(* No step of the loop but a posted task changes what the thread is told. *)
LEMMA QueueKept ==
    ASSUME TypeOK, queue' = queue, rtmp' = rtmp, NEW e \in Devices
    PROVE  /\ queue' \in Seq(Tasks) /\ Len(queue') <= MaxQueue
           /\ Controls(e)' = Controls(e) /\ Settled(e)' = Settled(e)
BY DEF TypeOK, Controls, Settled, Start

-----------------------------------------------------------------------------
LEMMA InitInv == Init => IInv
<1> SUFFICES ASSUME Init PROVE IInv
  OBVIOUS
<1>1. queue = <<>> /\ Len(queue) = 0 /\ queue \in Seq(Tasks) /\ Len(queue) <= MaxQueue
  BY MaxQueueAssumption DEF Init
<1>2. \A d \in Devices : Controls(d) = {} /\ ~Settled(d)
  <2>1. 1..Len(queue) = {}
    BY <1>1
  <2>2. \A d \in Devices : Controls(d) = {}
    BY <2>1 DEF Controls
  <2>3. QED
    BY <2>2 DEF Init, Settled
<1>3. client \in ClientStates /\ timer \in BOOLEAN /\ (client = "none" <=> timer)
  BY DEF Init, ClientStates
<1>4. TypeOK
  BY <1>1, <1>3 DEF Init, TypeOK
<1>5. QED
  BY <1>2, <1>3, <1>4 DEF Init, IInv, AskedNeedsConnection, NullClientHasTimer, ClientsPlay,
     WatchedIsWanted, AskedIsWanted, UnwantedIsReleased, WantedStartsLast, WantedIsPushed

LEMMA RestartInv == IInv /\ Restart => IInv'
<1> SUFFICES ASSUME IInv, Restart PROVE IInv'
  OBVIOUS
<1>1. queue' = <<>> /\ Len(queue') = 0 /\ queue' \in Seq(Tasks) /\ Len(queue') <= MaxQueue
  BY MaxQueueAssumption DEF Restart
<1>2. \A d \in Devices : Controls(d)' = {} /\ ~Settled(d)'
  BY <1>1 DEF Restart, Controls, Settled
<1>3. client' \in ClientStates /\ timer' \in BOOLEAN /\ (client' = "none" <=> timer')
  BY DEF Restart, ClientStates
<1>4. players' \in [Devices -> SUBSET Browsers]
  BY DEF Restart
<1>5. TypeOK'
  BY <1>1, <1>3, <1>4 DEF Restart, TypeOK
<1>6. QED
  BY <1>2, <1>3, <1>5 DEF Restart, IInv, AskedNeedsConnection, NullClientHasTimer, ClientsPlay,
     WatchedIsWanted, AskedIsWanted, UnwantedIsReleased, WantedStartsLast, WantedIsPushed, TypeOK

(* Connection events touch neither the wishes nor the thread. *)
LEMMA LinkInv ==
    ASSUME IInv, ConnectCompletes \/ OnClientError \/ OnConnectTimer
    PROVE  IInv'
<1>1. /\ UNCHANGED <<httpVars, queue, threadVars, players>>
      /\ client' \in ClientStates /\ timer' \in BOOLEAN
      /\ client' = "none" <=> timer'
      /\ asked' = {} /\ flow' = {}
  BY DEF ConnectCompletes, OnClientError, OnConnectTimer, OnClientConnect, ClientStates,
     IInv, TypeOK, NullClientHasTimer
<1>2. \A e \in Devices : Controls(e)' = Controls(e) /\ Settled(e)' = Settled(e)
  BY <1>1, QueueKept DEF IInv, threadVars
<1>3. QED
  BY <1>1, <1>2 DEF httpVars, threadVars, IInv, TypeOK, AskedNeedsConnection,
     NullClientHasTimer, ClientsPlay, WatchedIsWanted, AskedIsWanted, UnwantedIsReleased,
     WantedStartsLast, WantedIsPushed

(* The parts of the invariant that are about wishes and tasks, after       *)
(* NotifyStart and NotifyStop.                                             *)
LEMMA NotifyStartInv ==
    ASSUME IInv, NEW d \in Devices, NotifyStart(d),
           UNCHANGED <<client, timer, threadVars>>
    PROVE  /\ d \in deviceIds' /\ deviceIds \subseteq deviceIds' /\ deviceIds' \subseteq Devices
           /\ asked' \subseteq flow' /\ flow' \subseteq Devices
           /\ queue' \in Seq(Tasks) /\ Len(queue') <= MaxQueue
           /\ AskedNeedsConnection' /\ NullClientHasTimer' /\ AskedIsWanted'
           /\ UnwantedIsReleased' /\ WantedStartsLast' /\ WantedIsPushed'
<1>1. CASE d \in deviceIds
  <2>1. UNCHANGED <<deviceIds, asked, flow, queue, client, timer, rtmp, pushFailed>>
    BY <1>1 DEF NotifyStart, threadVars
  <2>2. \A e \in Devices : Controls(e)' = Controls(e) /\ Settled(e)' = Settled(e)
    BY <2>1, QueueKept DEF IInv
  <2>3. QED
    BY <1>1, <2>1, <2>2 DEF IInv, TypeOK, AskedNeedsConnection, NullClientHasTimer,
       AskedIsWanted, UnwantedIsReleased, WantedStartsLast, WantedIsPushed
<1>2. CASE d \notin deviceIds
  <2>1. /\ deviceIds' = deviceIds \cup {d}
        /\ asked' = IF client = "connected" THEN asked \cup {d} ELSE asked
        /\ flow' = IF client = "connected" THEN flow \cup {d} ELSE flow
        /\ PostTask(Start(d))
        /\ UNCHANGED <<client, timer, rtmp, pushFailed>>
    BY <1>2 DEF NotifyStart, threadVars
  <2>2. /\ queue' \in Seq(Tasks) /\ Len(queue') <= MaxQueue
        /\ Settled(d)'
    BY <2>1, PostLemma, TaskForms DEF IInv
  <2>3. \A e \in Devices \ {d} : Controls(e)' = Controls(e) /\ Settled(e)' = Settled(e)
    <3> TAKE e \in Devices \ {d}
    <3>1. Start(d) \notin {Start(e), Stop(e)}
      BY DEF Start, Stop
    <3>2. QED
      BY <2>1, <3>1, PostLemma, TaskForms DEF IInv
  <2>4. QED
    BY <1>2, <2>1, <2>2, <2>3 DEF IInv, TypeOK, AskedNeedsConnection, NullClientHasTimer,
       AskedIsWanted, UnwantedIsReleased, WantedStartsLast, WantedIsPushed
<1>3. QED
  BY <1>1, <1>2

LEMMA NotifyStopInv ==
    ASSUME IInv, NEW d \in Devices, NotifyStop(d),
           UNCHANGED <<client, timer, flow, threadVars>>
    PROVE  /\ deviceIds' = deviceIds \ {d}
           /\ asked' \subseteq flow'
           /\ queue' \in Seq(Tasks) /\ Len(queue') <= MaxQueue
           /\ AskedNeedsConnection' /\ NullClientHasTimer' /\ AskedIsWanted'
           /\ UnwantedIsReleased' /\ WantedStartsLast' /\ WantedIsPushed'
<1>1. /\ deviceIds' = deviceIds \ {d}
      /\ asked' = IF client = "connected" THEN asked \ {d} ELSE asked
      /\ PostTask(Stop(d))
      /\ UNCHANGED <<client, timer, flow, rtmp, pushFailed>>
  BY DEF NotifyStop, threadVars
<1>2. /\ queue' \in Seq(Tasks) /\ Len(queue') <= MaxQueue
      /\ ~Settled(d)'
  BY <1>1, PostLemma, TaskForms DEF IInv
<1>3. \A e \in Devices \ {d} : Controls(e)' = Controls(e) /\ Settled(e)' = Settled(e)
  <2> TAKE e \in Devices \ {d}
  <2>1. Stop(d) \notin {Start(e), Stop(e)}
    BY DEF Start, Stop
  <2>2. QED
    BY <1>1, <2>1, PostLemma, TaskForms DEF IInv
<1>4. QED
  BY <1>1, <1>2, <1>3 DEF IInv, TypeOK, AskedNeedsConnection, NullClientHasTimer,
     AskedIsWanted, UnwantedIsReleased, WantedStartsLast, WantedIsPushed

LEMMA SessionPlayInv ==
    ASSUME IInv, NEW d \in Devices, NEW b \in Browsers, SessionPlay(d, b)
    PROVE  IInv'
<1>1. /\ UNCHANGED <<client, timer, threadVars>>
      /\ players' = [players EXCEPT ![d] = @ \cup {b}]
      /\ clients' = [clients EXCEPT ![d] = @ \cup {b}]
  BY DEF SessionPlay
<1>2. /\ ClientsPlay'
      /\ \A e \in Devices \ {d} : clients'[e] = clients[e]
      /\ clients' \in [Devices -> SUBSET Browsers] /\ players' \in [Devices -> SUBSET Browsers]
  BY <1>1 DEF IInv, TypeOK, ClientsPlay
<1>3. CASE clients[d] = {}
  <2>1. NotifyStart(d)
    BY <1>3 DEF SessionPlay
  <2>2. QED
    BY <1>1, <1>2, <2>1, NotifyStartInv DEF IInv, TypeOK, WatchedIsWanted, threadVars
<1>4. CASE clients[d] # {}
  <2>1. UNCHANGED <<deviceIds, asked, flow, queue, client, timer, rtmp, pushFailed>>
    BY <1>1, <1>4 DEF SessionPlay, threadVars
  <2>2. \A e \in Devices : Controls(e)' = Controls(e) /\ Settled(e)' = Settled(e)
    BY <2>1, QueueKept DEF IInv
  <2>3. TypeOK' /\ ClientsPlay' /\ WatchedIsWanted'
    BY <1>1, <1>2, <1>4, <2>1 DEF IInv, TypeOK, WatchedIsWanted
  <2>4. QED
    BY <2>1, <2>2, <2>3 DEF IInv, TypeOK, AskedNeedsConnection, NullClientHasTimer,
       AskedIsWanted, UnwantedIsReleased, WantedStartsLast, WantedIsPushed
<1>5. QED
  BY <1>3, <1>4

LEMMA SessionStopInv ==
    ASSUME IInv, NEW d \in Devices, NEW b \in Browsers, SessionStop(d, b)
    PROVE  IInv'
<1>1. /\ UNCHANGED <<client, timer, flow, threadVars>>
      /\ players' = [players EXCEPT ![d] = @ \ {b}]
      /\ clients' = [clients EXCEPT ![d] = @ \ {b}]
  BY DEF SessionStop
<1>2. /\ ClientsPlay'
      /\ \A e \in Devices \ {d} : clients'[e] = clients[e]
      /\ clients' \in [Devices -> SUBSET Browsers] /\ players' \in [Devices -> SUBSET Browsers]
  BY <1>1 DEF IInv, TypeOK, ClientsPlay
<1>3. CASE clients'[d] = {}
  <2>1. NotifyStop(d)
    BY <1>3 DEF SessionStop
  <2>2. QED
    BY <1>1, <1>2, <1>3, <2>1, NotifyStopInv DEF IInv, TypeOK, WatchedIsWanted, threadVars
<1>4. CASE clients'[d] # {}
  <2>1. UNCHANGED <<deviceIds, asked, flow, queue, client, timer, rtmp, pushFailed>>
    BY <1>1, <1>4 DEF SessionStop, threadVars
  <2>2. \A e \in Devices : Controls(e)' = Controls(e) /\ Settled(e)' = Settled(e)
    BY <2>1, QueueKept DEF IInv
  <2>3. TypeOK' /\ ClientsPlay' /\ WatchedIsWanted'
    BY <1>1, <1>2, <1>4, <2>1 DEF IInv, TypeOK, WatchedIsWanted
  <2>4. QED
    BY <2>1, <2>2, <2>3 DEF IInv, TypeOK, AskedNeedsConnection, NullClientHasTimer,
       AskedIsWanted, UnwantedIsReleased, WantedStartsLast, WantedIsPushed
<1>5. QED
  BY <1>3, <1>4

LEMMA WebOnPlayInv ==
    ASSUME IInv, NEW d \in Devices, WebOnPlay(d)
    PROVE  IInv'
<1>1. NotifyStart(d) /\ UNCHANGED <<clients, client, timer, threadVars, players>>
  BY DEF WebOnPlay
<1>2. QED
  BY <1>1, NotifyStartInv DEF IInv, TypeOK, ClientsPlay, WatchedIsWanted, threadVars

LEMMA OnClientMessageInv ==
    ASSUME IInv, NEW d \in Devices, OnClientMessage(d)
    PROVE  IInv'
<1>1. PostTask(Frame(d)) /\ UNCHANGED <<httpVars, linkVars, rtmp, pushFailed, players>>
  BY DEF OnClientMessage, threadVars
<1>2. \A e \in Devices : Frame(d) \notin {Start(e), Stop(e)}
  BY DEF Start, Stop, Frame
<1>3. \A e \in Devices : Controls(e)' = Controls(e) /\ Settled(e)' = Settled(e)
  BY <1>1, <1>2, PostLemma, TaskForms DEF IInv
<1>4. queue' \in Seq(Tasks) /\ Len(queue') <= MaxQueue
  BY <1>1, PostLemma, TaskForms DEF IInv
<1>5. QED
  BY <1>1, <1>3, <1>4 DEF httpVars, linkVars, IInv, TypeOK, AskedNeedsConnection,
     NullClientHasTimer, ClientsPlay, WatchedIsWanted, AskedIsWanted, UnwantedIsReleased,
     WantedStartsLast, WantedIsPushed

LEMMA RunInv == IInv /\ Run => IInv'
<1> SUFFICES ASSUME IInv, Run PROVE IInv'
  OBVIOUS
<1>1. /\ queue # <<>> /\ HandlerTask(Head(queue)) /\ queue' = Tail(queue)
      /\ UNCHANGED <<httpVars, linkVars, players>> /\ TypeOK
  BY DEF Run, IInv
<1>2. CASE Devices = {}
  BY <1>1, <1>2, TaskCases DEF TypeOK
<1>3. CASE Devices # {}
  <2>1. /\ queue' \in Seq(Tasks) /\ Len(queue') <= MaxQueue
        /\ rtmp' \subseteq Devices /\ pushFailed' \subseteq Devices
    BY <1>1, <1>3, RunLemma
  <2>2. \A e \in Devices :
            /\ Settled(e)' => Settled(e)
            /\ Settled(e) => Settled(e)' \/ (Controls(e)' = {} /\ e \in pushFailed')
            /\ Controls(e)' # {} => Controls(e) # {}
            /\ Controls(e) = {} /\ e \in pushFailed => e \in pushFailed'
    BY <1>1, RunLemma
  <2>3. WantedIsPushed' /\ WantedStartsLast' /\ UnwantedIsReleased'
    BY <1>1, <2>2 DEF IInv, TypeOK, httpVars, WantedIsPushed, WantedStartsLast, UnwantedIsReleased
  <2>4. QED
    BY <1>1, <2>1, <2>3 DEF httpVars, linkVars, IInv, TypeOK, AskedNeedsConnection,
       NullClientHasTimer, ClientsPlay, WatchedIsWanted, AskedIsWanted
<1>4. QED
  BY <1>2, <1>3

LEMMA NextInv == IInv /\ [Next]_vars => IInv'
<1> SUFFICES ASSUME IInv, [Next]_vars PROVE IInv'
  OBVIOUS
<1>1. CASE Restart
  BY <1>1, RestartInv
<1>2. CASE ConnectCompletes \/ OnClientError \/ OnConnectTimer
  BY <1>2, LinkInv
<1>3. CASE Run
  BY <1>3, RunInv
<1>4. CASE \E d \in Devices : WebOnPlay(d) \/ OnClientMessage(d)
  BY <1>4, WebOnPlayInv, OnClientMessageInv
<1>5. CASE \E d \in Devices, b \in Browsers : SessionPlay(d, b) \/ SessionStop(d, b)
  BY <1>5, SessionPlayInv, SessionStopInv
<1>6. CASE UNCHANGED vars
  BY <1>6 DEF vars, IInv, TypeOK, AskedNeedsConnection, NullClientHasTimer, ClientsPlay,
     WatchedIsWanted, AskedIsWanted, UnwantedIsReleased, WantedStartsLast, WantedIsPushed,
     Settled, Controls
<1>7. QED
  BY <1>1, <1>2, <1>3, <1>4, <1>5, <1>6 DEF Next

(* The inductive invariant holds in every reachable state. *)
THEOREM Invariance == Spec => []IInv
BY InitInv, NextInv, PTL DEF Spec

(* Every variable keeps its type and the task queue its bound. *)
THEOREM TypeCorrect == Spec => []TypeOK
<1>1. IInv => TypeOK
  BY DEF IInv
<1>2. QED
  BY <1>1, Invariance, PTL

(* However tasks, frames and failed pushes are interleaved, an unwanted    *)
(* device is left without RTMP client once the queue has drained.          *)
THEOREM UnwantedReleased == Spec => []UnwantedIsReleased
<1>1. IInv => UnwantedIsReleased
  BY DEF IInv
<1>2. QED
  BY <1>1, Invariance, PTL

(* A wanted device is left with an RTMP client unless a push of it failed. *)
THEOREM WantedPushed == Spec => []WantedIsPushed
<1>1. IInv => WantedIsPushed
  BY DEF IInv
<1>2. QED
  BY <1>1, Invariance, PTL

(* A device some browser watches is wanted. *)
THEOREM WatchedWanted == Spec => []WatchedIsWanted
<1>1. IInv => WatchedIsWanted
  BY DEF IInv
<1>2. QED
  BY <1>1, Invariance, PTL

(* jt1078_server is asked only for wanted devices. *)
THEOREM AskedWanted == Spec => []AskedIsWanted
<1>1. IInv => AskedIsWanted
  BY DEF IInv
<1>2. QED
  BY <1>1, Invariance, PTL

(* The browsers web_server counts are ones SRS plays to. *)
THEOREM CountedPlay == Spec => []ClientsPlay
<1>1. IInv => ClientsPlay
  BY DEF IInv
<1>2. QED
  BY <1>1, Invariance, PTL

(* The client is null exactly while the reconnect timer is armed. *)
THEOREM TimerReplacesClient == Spec => []NullClientHasTimer
<1>1. IInv => NullClientHasTimer
  BY DEF IInv
<1>2. QED
  BY <1>1, Invariance, PTL

LEMMA PostedLast ==
    ASSUME TypeOK, NEW task \in Tasks, PostTask(task), NEW other, Posted(other)
    PROVE  other = task
BY DEF TypeOK, PostTask, Posted

(* No step posts a second start of a device on the connection it is asked  *)
(* for on.                                                                 *)
THEOREM OneStart == Spec => StartedOnce
<1>1. ASSUME IInv, [Next]_vars, NEW d \in Devices, Posted(Start(d))
      PROVE  d \notin asked
  <2>1. queue \in Seq(Tasks) /\ Len(queue) \in Nat /\ Len(queue') = Len(queue) + 1
    BY <1>1 DEF IInv, TypeOK, Posted
  <2>2. queue' # queue /\ queue' # <<>>
    BY <2>1
  <2>3. ASSUME NEW e \in Devices, NotifyStart(e)
        PROVE  d \notin asked
    <3>1. PostTask(Start(e)) /\ e \notin deviceIds
      BY <2>2, <2>3 DEF NotifyStart
    <3>2. Start(d) = Start(e)
      BY <1>1, <3>1, PostedLast, TaskForms DEF IInv
    <3>3. QED
      BY <1>1, <3>1, <3>2, TaskForms DEF IInv, AskedIsWanted
  <2>4. ASSUME NEW e \in Devices, PostTask(Stop(e)) \/ PostTask(Frame(e))
        PROVE  FALSE
    <3>1. Start(d) = Stop(e) \/ Start(d) = Frame(e)
      BY <1>1, <2>4, PostedLast, TaskForms DEF IInv
    <3>2. QED
      BY <3>1 DEF Start, Stop, Frame
  <2>5. CASE Run
    BY <2>1, <2>5 DEF Run
  <2>6. CASE Restart \/ ConnectCompletes \/ OnClientError \/ OnConnectTimer
    BY <2>2, <2>6 DEF Restart, ConnectCompletes, OnClientError, OnConnectTimer
  <2>7. CASE \E e \in Devices : WebOnPlay(e) \/ OnClientMessage(e)
    BY <2>3, <2>4, <2>7 DEF WebOnPlay, OnClientMessage
  <2>8. CASE \E e \in Devices, b \in Browsers : SessionPlay(e, b) \/ SessionStop(e, b)
    <3>1. PICK e \in Devices, b \in Browsers : SessionPlay(e, b) \/ SessionStop(e, b)
      BY <2>8
    <3>2. NotifyStart(e) \/ NotifyStop(e) \/ UNCHANGED queue
      BY <3>1 DEF SessionPlay, SessionStop
    <3>3. QED
      BY <2>2, <2>3, <2>4, <3>2 DEF NotifyStop
  <2>9. CASE UNCHANGED vars
    BY <2>2, <2>9 DEF vars
  <2>10. QED
    BY <1>1, <2>5, <2>6, <2>7, <2>8, <2>9 DEF Next
<1>2. IInv /\ [Next]_vars => [\A d \in Devices : Posted(Start(d)) => d \notin asked]_vars
  BY <1>1
<1>3. QED
  BY <1>2, Invariance, PTL DEF Spec, StartedOnce
-----------------------------------------------------------------------------
(* The queue between the threads: SafeQueue.                               *)

(* A producer inside PushBack has a task to push. *)
WaitingHasTask ==
    \A p \in Producers : at[p] \in {"blocked", "woken"} => item[p] \in 1..MaxTasks

(* The inductive invariant. *)
QueueInv ==
    /\ QueueTypeOK
    /\ WaitingHasTask
    /\ ConsumersNotified
    /\ ProducersNotified

-----------------------------------------------------------------------------
(* Counting the threads at a place.                                        *)

LEMMA CountType ==
    ASSUME NEW T, T = Producers \/ T = Consumers, NEW place
    PROVE  /\ IsFiniteSet(At(T, place)) /\ Cardinality(At(T, place)) \in Nat
           /\ IsFiniteSet(At(T, place)') /\ Cardinality(At(T, place)') \in Nat
<1>1. IsFiniteSet(T)
  BY QueueAssumption
<1>2. At(T, place) \subseteq T /\ At(T, place)' \subseteq T
  BY DEF At
<1>3. QED
  BY <1>1, <1>2, FS_Subset, FS_CardinalityType

(* Threads that do not move, and a thread that moves between other places. *)
LEMMA CountSame ==
    ASSUME NEW T, NEW place,
           \A u \in T : at'[u] = at[u] \/ place \notin {at[u], at'[u]}
    PROVE  At(T, place)' = At(T, place)
BY DEF At

LEMMA CountLeaves ==
    ASSUME NEW T, T = Producers \/ T = Consumers, NEW t \in T,
           \A u \in T \ {t} : at'[u] = at[u], NEW place,
           at[t] = place, at'[t] # place
    PROVE  Cardinality(At(T, place)') = Cardinality(At(T, place)) - 1
<1>1. At(T, place)' = At(T, place) \ {t} /\ t \in At(T, place)
  BY DEF At
<1>2. QED
  BY <1>1, CountType, FS_RemoveElement

LEMMA CountEnters ==
    ASSUME NEW T, T = Producers \/ T = Consumers, NEW t \in T,
           \A u \in T \ {t} : at'[u] = at[u], NEW place,
           at'[t] = place, at[t] # place
    PROVE  Cardinality(At(T, place)') = Cardinality(At(T, place)) + 1
<1>1. At(T, place)' = At(T, place) \cup {t} /\ t \notin At(T, place)
  BY DEF At
<1>2. QED
  BY <1>1, CountType, FS_AddElement

LEMMA HeadType ==
    ASSUME NEW S, NEW s \in Seq(S), s # <<>>
    PROVE  Head(s) \in S
OBVIOUS

-----------------------------------------------------------------------------
LEMMA QueueInitInv == QueueInit => QueueInv
<1> SUFFICES ASSUME QueueInit PROVE QueueInv
  OBVIOUS
<1>1. tasks = <<>> /\ Len(tasks) = 0 /\ tasks \in Seq(1..MaxTasks) /\ Len(tasks) <= MaxSize
  BY QueueAssumption DEF QueueInit
<1>2. QueueTypeOK
  BY <1>1, QueueAssumption DEF QueueInit, QueueTypeOK, Places, NoTask
<1>3. Blocked(Producers) = {} /\ Blocked(Consumers) = {}
  BY DEF QueueInit, Blocked, At, Threads
<1>4. WaitingHasTask
  BY DEF QueueInit, WaitingHasTask, Threads
<1>5. QED
  BY <1>2, <1>3, <1>4 DEF QueueInv, ConsumersNotified, ProducersNotified

(* The critical section of PushBack.                                       *)
LEMMA EnterPushInv ==
    ASSUME QueueInv, NEW p \in Producers, at[p] \in {"idle", "woken"},
           NEW task \in 1..MaxTasks, EnterPush(p, task), made' \in 0..MaxTasks
    PROVE  QueueInv'
<1>1. /\ tasks \in Seq(1..MaxTasks) /\ Len(tasks) \in Nat /\ Len(tasks) <= MaxSize
      /\ MaxSize \in Nat
      /\ at \in [Threads -> Places] /\ item \in [Threads -> 0..MaxTasks]
      /\ p \in Threads /\ p \notin Consumers
      /\ \A c \in Consumers : c \in Threads /\ c # p
      /\ item' = [item EXCEPT ![p] = task]
  BY QueueAssumption DEF QueueInv, QueueTypeOK, Threads, EnterPush
<1>2. CASE Len(tasks) < MaxSize
  <2>1. tasks' = Append(tasks, task) /\ at' = [at EXCEPT ![p] = "notify"]
    BY <1>2 DEF EnterPush
  <2>2. tasks' \in Seq(1..MaxTasks) /\ Len(tasks') = Len(tasks) + 1
    BY <1>1, <2>1
  <2>3. QueueTypeOK' /\ WaitingHasTask'
    BY <1>1, <1>2, <2>1, <2>2, QueueAssumption
       DEF QueueInv, QueueTypeOK, WaitingHasTask, Places, Threads
  <2>4. /\ at'[p] = "notify"
        /\ \A u \in Producers \ {p} : at'[u] = at[u]
        /\ \A u \in Consumers : at'[u] = at[u]
    BY <1>1, <2>1 DEF Threads
  <2>5. ConsumersNotified'
    <3>1. Cardinality(At(Producers, "notify")') = Cardinality(At(Producers, "notify")) + 1
      BY <2>4, CountEnters
    <3>2. At(Consumers, "woken")' = At(Consumers, "woken") /\ Blocked(Consumers)' = Blocked(Consumers)
      BY <2>4, CountSame DEF Blocked
    <3>3. QED
      BY <1>1, <2>2, <3>1, <3>2, CountType DEF QueueInv, ConsumersNotified
  <2>6. ProducersNotified'
    <3>1. /\ At(Consumers, "notify")' = At(Consumers, "notify")
          /\ Blocked(Producers)' = Blocked(Producers)
      BY <2>4, CountSame DEF Blocked
    <3>2. Cardinality(At(Producers, "woken")') >= Cardinality(At(Producers, "woken")) - 1
      <4>1. CASE at[p] = "woken"
        BY <2>4, <4>1, CountLeaves, CountType
      <4>2. CASE at[p] # "woken"
        BY <2>4, <4>2, CountSame, CountType
      <4>3. QED
        BY <4>1, <4>2
    <3>3. QED
      BY <1>1, <2>2, <3>1, <3>2, CountType DEF QueueInv, ProducersNotified
  <2>7. QED
    BY <2>3, <2>5, <2>6 DEF QueueInv
<1>3. CASE ~(Len(tasks) < MaxSize)
  <2>1. tasks' = tasks /\ at' = [at EXCEPT ![p] = "blocked"]
    BY <1>3 DEF EnterPush
  <2>2. QueueTypeOK' /\ WaitingHasTask'
    BY <1>1, <2>1 DEF QueueInv, QueueTypeOK, WaitingHasTask, Places, Threads
  <2>3. /\ at'[p] = "blocked"
        /\ \A u \in Producers \ {p} : at'[u] = at[u]
        /\ \A u \in Consumers : at'[u] = at[u]
    BY <1>1, <2>1 DEF Threads
  <2>4. ConsumersNotified'
    <3>1. /\ At(Producers, "notify")' = At(Producers, "notify")
          /\ At(Consumers, "woken")' = At(Consumers, "woken")
          /\ Blocked(Consumers)' = Blocked(Consumers)
      BY <2>3, CountSame DEF Blocked
    <3>2. QED
      BY <2>1, <3>1 DEF QueueInv, ConsumersNotified
  <2>5. ProducersNotified'
    BY <1>1, <1>3, <2>1, CountType DEF ProducersNotified
  <2>6. QED
    BY <2>2, <2>4, <2>5 DEF QueueInv
<1>4. QED
  BY <1>2, <1>3

(* The critical section of PopFront.                                       *)
LEMMA PopFrontInv ==
    ASSUME QueueInv, NEW c \in Consumers, PopFront(c)
    PROVE  QueueInv'
<1>1. /\ tasks \in Seq(1..MaxTasks) /\ Len(tasks) \in Nat /\ Len(tasks) <= MaxSize
      /\ MaxSize \in Nat
      /\ at \in [Threads -> Places] /\ item \in [Threads -> 0..MaxTasks]
      /\ c \in Threads /\ c \notin Producers
      /\ at[c] \in {"idle", "woken"}
      /\ made' = made
  BY QueueAssumption DEF QueueInv, QueueTypeOK, Threads, PopFront
<1>2. CASE tasks # <<>>
  <2>1. /\ item' = [item EXCEPT ![c] = Head(tasks)]
        /\ tasks' = Tail(tasks)
        /\ at' = [at EXCEPT ![c] = "notify"]
    BY <1>2 DEF PopFront
  <2>2. /\ tasks' \in Seq(1..MaxTasks) /\ Len(tasks') = Len(tasks) - 1 /\ Len(tasks') \in Nat
        /\ Head(tasks) \in 1..MaxTasks
    <3>1. Len(tasks) > 0
      BY <1>1, <1>2
    <3>2. tasks' \in Seq(1..MaxTasks) /\ Len(tasks') = Len(tasks) - 1
      BY <1>1, <1>2, <2>1
    <3>3. Head(tasks) \in 1..MaxTasks
      BY <1>1, <1>2, HeadType
    <3>4. QED
      BY <1>1, <3>1, <3>2, <3>3
  <2>3. QueueTypeOK' /\ WaitingHasTask'
    BY <1>1, <2>1, <2>2 DEF QueueInv, QueueTypeOK, WaitingHasTask, Places, Threads
  <2>4. /\ at'[c] = "notify"
        /\ \A u \in Consumers \ {c} : at'[u] = at[u]
        /\ \A u \in Producers : at'[u] = at[u]
    BY <1>1, <2>1 DEF Threads
  <2>5. ProducersNotified'
    <3>1. Cardinality(At(Consumers, "notify")') = Cardinality(At(Consumers, "notify")) + 1
      BY <1>1, <2>4, CountEnters
    <3>2. At(Producers, "woken")' = At(Producers, "woken") /\ Blocked(Producers)' = Blocked(Producers)
      BY <2>4, CountSame DEF Blocked
    <3>3. QED
      BY <1>1, <2>2, <3>1, <3>2, CountType DEF QueueInv, ProducersNotified
  <2>6. ConsumersNotified'
    <3>1. /\ At(Producers, "notify")' = At(Producers, "notify")
          /\ Blocked(Consumers)' = Blocked(Consumers)
      BY <1>1, <2>4, CountSame DEF Blocked
    <3>2. Cardinality(At(Consumers, "woken")') >= Cardinality(At(Consumers, "woken")) - 1
      <4>1. CASE at[c] = "woken"
        BY <2>4, <4>1, CountLeaves, CountType
      <4>2. CASE at[c] # "woken"
        BY <2>4, <4>2, CountSame, CountType
      <4>3. QED
        BY <4>1, <4>2
    <3>3. QED
      BY <1>1, <2>2, <3>1, <3>2, CountType DEF QueueInv, ConsumersNotified
  <2>7. QED
    BY <2>3, <2>5, <2>6 DEF QueueInv
<1>3. CASE tasks = <<>>
  <2>1. /\ at' = [at EXCEPT ![c] = "blocked"] /\ tasks' = tasks /\ item' = item
        /\ Len(tasks') = 0
    BY <1>3 DEF PopFront
  <2>2. QueueTypeOK' /\ WaitingHasTask'
    BY <1>1, <2>1 DEF QueueInv, QueueTypeOK, WaitingHasTask, Places, Threads
  <2>3. /\ at'[c] = "blocked"
        /\ \A u \in Consumers \ {c} : at'[u] = at[u]
        /\ \A u \in Producers : at'[u] = at[u]
    BY <1>1, <2>1 DEF Threads
  <2>4. ProducersNotified'
    <3>1. /\ At(Consumers, "notify")' = At(Consumers, "notify")
          /\ At(Producers, "woken")' = At(Producers, "woken")
          /\ Blocked(Producers)' = Blocked(Producers)
      BY <1>1, <2>3, CountSame DEF Blocked
    <3>2. QED
      BY <2>1, <3>1 DEF QueueInv, ProducersNotified
  <2>5. ConsumersNotified'
    BY <2>1, CountType DEF ConsumersNotified
  <2>6. QED
    BY <2>2, <2>4, <2>5 DEF QueueInv
<1>4. QED
  BY <1>2, <1>3

(* notify_one of either side, and wake-ups without cause: T are the        *)
(* notifiers, U those that may be blocked.                                 *)
LEMMA NotifyPushInv ==
    ASSUME QueueInv, NEW p \in Producers, NotifyPush(p)
    PROVE  QueueInv'
<1>1. /\ at \in [Threads -> Places] /\ p \in Threads /\ p \notin Consumers
      /\ at[p] = "notify" /\ UNCHANGED <<tasks, item, made>>
      /\ tasks \in Seq(1..MaxTasks) /\ Len(tasks) \in Nat /\ MaxSize \in Nat
  BY QueueAssumption DEF QueueInv, QueueTypeOK, Threads, NotifyPush
<1>2. CASE Blocked(Consumers) = {}
  <2>1. at' = [at EXCEPT ![p] = "idle"]
    BY <1>2 DEF NotifyPush
  <2>2. /\ at'[p] = "idle" /\ \A u \in Threads \ {p} : at'[u] = at[u]
        /\ at' \in [Threads -> Places]
    BY <1>1, <2>1 DEF Places
  <2>3. QueueTypeOK' /\ WaitingHasTask'
    BY <1>1, <2>2 DEF QueueInv, QueueTypeOK, WaitingHasTask, Threads
  <2>4. /\ Blocked(Consumers)' = {}
        /\ Blocked(Producers)' = Blocked(Producers)
        /\ At(Consumers, "notify")' = At(Consumers, "notify")
        /\ At(Producers, "woken")' = At(Producers, "woken")
    BY <1>1, <1>2, <2>2, CountSame DEF Blocked, Threads
  <2>5. QED
    BY <1>1, <2>3, <2>4 DEF QueueInv, ConsumersNotified, ProducersNotified
<1>3. CASE Blocked(Consumers) # {}
  <2>1. PICK c \in Blocked(Consumers) : at' = [at EXCEPT ![p] = "idle", ![c] = "woken"]
    BY <1>3 DEF NotifyPush
  <2>2. c \in Consumers /\ c \in Threads /\ c \notin Producers /\ c # p /\ at[c] = "blocked"
    BY <1>1, <2>1, QueueAssumption DEF Blocked, At, Threads
  <2>3. /\ at'[p] = "idle" /\ at'[c] = "woken" /\ \A u \in Threads \ {p, c} : at'[u] = at[u]
        /\ at' \in [Threads -> Places]
    BY <1>1, <2>1, <2>2 DEF Places
  <2>4. QueueTypeOK' /\ WaitingHasTask'
    BY <1>1, <2>2, <2>3 DEF QueueInv, QueueTypeOK, WaitingHasTask, Threads
  <2>5. /\ \A u \in Producers \ {p} : at'[u] = at[u]
        /\ \A u \in Consumers \ {c} : at'[u] = at[u]
    BY <1>1, <2>2, <2>3 DEF Threads
  <2>6. /\ Cardinality(At(Producers, "notify")') = Cardinality(At(Producers, "notify")) - 1
        /\ Cardinality(At(Consumers, "woken")') = Cardinality(At(Consumers, "woken")) + 1
    BY <1>1, <2>2, <2>3, <2>5, CountLeaves, CountEnters
  <2>7. /\ Blocked(Producers)' = Blocked(Producers)
        /\ At(Consumers, "notify")' = At(Consumers, "notify")
        /\ At(Producers, "woken")' = At(Producers, "woken")
    BY <1>1, <2>2, <2>3, <2>5, CountSame DEF Blocked
  <2>8. QED
    BY <1>1, <1>3, <2>4, <2>6, <2>7, CountType DEF QueueInv, ConsumersNotified, ProducersNotified
<1>4. QED
  BY <1>2, <1>3

LEMMA NotifyPopInv ==
    ASSUME QueueInv, NEW c \in Consumers, NotifyPop(c)
    PROVE  QueueInv'
<1>1. /\ at \in [Threads -> Places] /\ c \in Threads /\ c \notin Producers
      /\ at[c] = "notify" /\ UNCHANGED <<tasks, item, made>>
      /\ tasks \in Seq(1..MaxTasks) /\ Len(tasks) \in Nat /\ MaxSize \in Nat
  BY QueueAssumption DEF QueueInv, QueueTypeOK, Threads, NotifyPop
<1>2. CASE Blocked(Producers) = {}
  <2>1. at' = [at EXCEPT ![c] = "idle"]
    BY <1>2 DEF NotifyPop
  <2>2. /\ at'[c] = "idle" /\ \A u \in Threads \ {c} : at'[u] = at[u]
        /\ at' \in [Threads -> Places]
    BY <1>1, <2>1 DEF Places
  <2>3. QueueTypeOK' /\ WaitingHasTask'
    BY <1>1, <2>2 DEF QueueInv, QueueTypeOK, WaitingHasTask, Threads
  <2>4. /\ Blocked(Producers)' = {}
        /\ Blocked(Consumers)' = Blocked(Consumers)
        /\ At(Producers, "notify")' = At(Producers, "notify")
        /\ At(Consumers, "woken")' = At(Consumers, "woken")
    BY <1>1, <1>2, <2>2, CountSame DEF Blocked, Threads
  <2>5. QED
    BY <1>1, <2>3, <2>4 DEF QueueInv, ConsumersNotified, ProducersNotified
<1>3. CASE Blocked(Producers) # {}
  <2>1. PICK p \in Blocked(Producers) : at' = [at EXCEPT ![c] = "idle", ![p] = "woken"]
    BY <1>3 DEF NotifyPop
  <2>2. p \in Producers /\ p \in Threads /\ p \notin Consumers /\ c # p /\ at[p] = "blocked"
    BY <1>1, <2>1, QueueAssumption DEF Blocked, At, Threads
  <2>3. /\ at'[c] = "idle" /\ at'[p] = "woken" /\ \A u \in Threads \ {p, c} : at'[u] = at[u]
        /\ at' \in [Threads -> Places]
    BY <1>1, <2>1, <2>2 DEF Places
  <2>4. QueueTypeOK' /\ WaitingHasTask'
    BY <1>1, <2>2, <2>3 DEF QueueInv, QueueTypeOK, WaitingHasTask, Threads
  <2>5. /\ \A u \in Producers \ {p} : at'[u] = at[u]
        /\ \A u \in Consumers \ {c} : at'[u] = at[u]
    BY <1>1, <2>2, <2>3 DEF Threads
  <2>6. /\ Cardinality(At(Consumers, "notify")') = Cardinality(At(Consumers, "notify")) - 1
        /\ Cardinality(At(Producers, "woken")') = Cardinality(At(Producers, "woken")) + 1
    BY <1>1, <2>2, <2>3, <2>5, CountLeaves, CountEnters
  <2>7. /\ Blocked(Consumers)' = Blocked(Consumers)
        /\ At(Producers, "notify")' = At(Producers, "notify")
        /\ At(Consumers, "woken")' = At(Consumers, "woken")
    BY <1>1, <2>2, <2>3, <2>5, CountSame DEF Blocked
  <2>8. QED
    BY <1>1, <1>3, <2>4, <2>6, <2>7, CountType DEF QueueInv, ConsumersNotified, ProducersNotified
<1>4. QED
  BY <1>2, <1>3

LEMMA SpuriousInv ==
    ASSUME QueueInv, NEW t \in Threads, SpuriousWakeup(t)
    PROVE  QueueInv'
<1>1. /\ at \in [Threads -> Places] /\ at[t] = "blocked" /\ at' = [at EXCEPT ![t] = "woken"]
      /\ UNCHANGED <<tasks, item, made>>
      /\ tasks \in Seq(1..MaxTasks) /\ Len(tasks) \in Nat /\ MaxSize \in Nat
  BY QueueAssumption DEF QueueInv, QueueTypeOK, SpuriousWakeup
<1>2. /\ at'[t] = "woken" /\ \A u \in Threads \ {t} : at'[u] = at[u]
      /\ at' \in [Threads -> Places]
  BY <1>1 DEF Places
<1>3. QueueTypeOK' /\ WaitingHasTask'
  BY <1>1, <1>2 DEF QueueInv, QueueTypeOK, WaitingHasTask, Threads
<1>4. /\ At(Producers, "notify")' = At(Producers, "notify")
      /\ At(Consumers, "notify")' = At(Consumers, "notify")
      /\ Blocked(Producers)' \subseteq Blocked(Producers)
      /\ Blocked(Consumers)' \subseteq Blocked(Consumers)
  BY <1>1, <1>2 DEF At, Blocked, Threads
<1>5. CASE t \in Producers
  <2>1. At(Consumers, "woken")' = At(Consumers, "woken")
    BY <1>2, <1>5, CountSame, QueueAssumption DEF Threads
  <2>2. Cardinality(At(Producers, "woken")') = Cardinality(At(Producers, "woken")) + 1
    BY <1>1, <1>2, <1>5, CountEnters DEF Threads
  <2>3. QED
    BY <1>1, <1>3, <1>4, <2>1, <2>2, CountType DEF QueueInv, ConsumersNotified, ProducersNotified
<1>6. CASE t \in Consumers
  <2>1. At(Producers, "woken")' = At(Producers, "woken")
    BY <1>2, <1>6, CountSame, QueueAssumption DEF Threads
  <2>2. Cardinality(At(Consumers, "woken")') = Cardinality(At(Consumers, "woken")) + 1
    BY <1>1, <1>2, <1>6, CountEnters DEF Threads
  <2>3. QED
    BY <1>1, <1>3, <1>4, <2>1, <2>2, CountType DEF QueueInv, ConsumersNotified, ProducersNotified
<1>7. QED
  BY <1>5, <1>6 DEF Threads

LEMMA QueueNextInv == QueueInv /\ [QueueNext]_queueVars => QueueInv'
<1> SUFFICES ASSUME QueueInv, [QueueNext]_queueVars PROVE QueueInv'
  OBVIOUS
<1>1. ASSUME NEW p \in Producers, PushBack(p) PROVE QueueInv'
  <2>1. /\ made \in Nat /\ MaxTasks \in Nat
        /\ made + 1 \in 1..MaxTasks /\ made' \in 0..MaxTasks
    BY <1>1, QueueAssumption DEF PushBack, QueueInv, QueueTypeOK
  <2>2. QED
    BY <1>1, <2>1, EnterPushInv DEF PushBack
<1>2. ASSUME NEW p \in Producers, PushWakes(p) PROVE QueueInv'
  BY <1>2, EnterPushInv DEF PushWakes, QueueInv, QueueTypeOK, WaitingHasTask
<1>3. ASSUME NEW p \in Producers, NotifyPush(p) PROVE QueueInv'
  BY <1>3, NotifyPushInv
<1>4. ASSUME NEW c \in Consumers, Consume(c) PROVE QueueInv'
  BY <1>4, PopFrontInv, NotifyPopInv DEF Consume
<1>5. ASSUME NEW t \in Threads, SpuriousWakeup(t) PROVE QueueInv'
  BY <1>5, SpuriousInv
<1>6. CASE UNCHANGED queueVars
  BY <1>6 DEF queueVars, QueueInv, QueueTypeOK, WaitingHasTask, ConsumersNotified, ProducersNotified, Blocked, At
<1>7. QED
  BY <1>1, <1>2, <1>3, <1>4, <1>5, <1>6 DEF QueueNext, Produce

(* The inductive invariant holds in every reachable state. *)
THEOREM QueueInvariance == QueueSpec => []QueueInv
BY QueueInitInv, QueueNextInv, PTL DEF QueueSpec

(* The queue never outgrows m_max_size and every variable keeps its type.  *)
THEOREM QueueTypeCorrect == QueueSpec => []QueueTypeOK
<1>1. QueueInv => QueueTypeOK
  BY DEF QueueInv
<1>2. QED
  BY <1>1, QueueInvariance, PTL

(* No wake-up of a consumer is lost. *)
THEOREM ConsumersAreNotified == QueueSpec => []ConsumersNotified
<1>1. QueueInv => ConsumersNotified
  BY DEF QueueInv
<1>2. QED
  BY <1>1, QueueInvariance, PTL

(* No wake-up of a producer is lost. *)
THEOREM ProducersAreNotified == QueueSpec => []ProducersNotified
<1>1. QueueInv => ProducersNotified
  BY DEF QueueInv
<1>2. QED
  BY <1>1, QueueInvariance, PTL
=============================================================================
