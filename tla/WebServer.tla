----------------------------- MODULE WebServer -----------------------------
(***************************************************************************)
(* One of web_server's two WebServers (real-time or history): the HTTP     *)
(* callbacks of SRS and of the web site, the connection to jt1078_server,  *)
(* and the RtmpThread that pushes a device's frames to SRS.  The handlers  *)
(* of the libevent loop are one action each; the thread runs beside them   *)
(* and shares nothing with the loop but the task queue.                    *)
(***************************************************************************)
EXTENDS Naturals, Sequences

CONSTANTS Devices,      \* device_id_t
          Browsers,     \* SRS client_ids
          MaxQueue      \* SafeQueue::m_max_size: posting to a full queue waits

ASSUME MaxQueueAssumption == MaxQueue \in Nat \ {0}

VARIABLES clients,      \* HttpSessionStat::m_mapClients
          deviceIds,    \* DeviceIdMgr::m_setDeviceId
          client,       \* m_jt1078_client: "none" is nullptr, "dead" is a client
                        \* whose AsyncConnect returned false
          timer,        \* m_connect_timer is pending
          asked,        \* the devices subscribed to on the present connection
          flow,         \* those asked for at any time on it: frames may be under way
          queue,        \* the tasks of the RtmpThread
          rtmp,         \* RtmpMgr::m_mapClient
          players,      \* SRS: the browsers it plays a device to
          pushFailed    \* history: released for a failed push, not started since

httpVars == <<clients, deviceIds>>
linkVars == <<client, timer, asked, flow>>
threadVars == <<rtmp, pushFailed>>
vars == <<clients, deviceIds, client, timer, asked, flow, queue, rtmp, players,
          pushFailed>>

ClientStates == {"none", "connecting", "connected", "dead"}
Start(d) == <<"start", d>>
Stop(d) == <<"stop", d>>
Frame(d) == <<"frame", d>>
Tasks == {"start", "stop", "frame"} \X Devices

TypeOK ==
    /\ clients \in [Devices -> SUBSET Browsers]
    /\ deviceIds \subseteq Devices
    /\ client \in ClientStates
    /\ timer \in BOOLEAN
    /\ asked \subseteq flow
    /\ flow \subseteq Devices
    /\ queue \in Seq(Tasks) /\ Len(queue) <= MaxQueue
    /\ rtmp \subseteq Devices
    /\ players \in [Devices -> SUBSET Browsers]
    /\ pushFailed \subseteq Devices

-----------------------------------------------------------------------------
(* InitHttpHandlers calls AsyncConnectServer once; when that fails         *)
(* outright the process ends at once, so three outcomes remain.            *)
Init ==
    /\ clients = [d \in Devices |-> {}] /\ deviceIds = {}
    /\ \/ client \in {"connecting", "connected"} /\ timer = FALSE
       \/ client = "none" /\ timer = TRUE
    /\ asked = {} /\ flow = {}
    /\ queue = <<>> /\ rtmp = {} /\ pushFailed = {}
    /\ players = [d \in Devices |-> {}]

(* The process ends and is started again.  SRS plays on; the on_stop       *)
(* callbacks of the browsers that left meanwhile are lost.                 *)
Restart ==
    /\ clients' = [d \in Devices |-> {}] /\ deviceIds' = {}
    /\ \/ client' \in {"connecting", "connected"} /\ timer' = FALSE
       \/ client' = "none" /\ timer' = TRUE
    /\ asked' = {} /\ flow' = {}
    /\ queue' = <<>> /\ rtmp' = {} /\ pushFailed' = {}
    /\ players' \in {p \in [Devices -> SUBSET Browsers] :
                         \A d \in Devices : p[d] \subseteq players[d]}

-----------------------------------------------------------------------------
(* What the HTTP handlers call.                                            *)

(* SafeQueue::PushBack waits on m_pop_cv until the queue has room. *)
PostTask(task) ==
    /\ Len(queue) < MaxQueue
    /\ queue' = Append(queue, task)

(* Faulty variants: the thread is told only over a working connection; no  *)
(* device is filtered out. *)
NotifyStartOnline(d) ==
    IF d \in deviceIds
    THEN UNCHANGED <<deviceIds, asked, flow, queue>>
    ELSE /\ deviceIds' = deviceIds \cup {d}
         /\ IF client = "connected"
            THEN asked' = asked \cup {d} /\ flow' = flow \cup {d} /\ PostTask(Start(d))
            ELSE UNCHANGED <<asked, flow, queue>>
NotifyStartUnfiltered(d) ==
    /\ deviceIds' = deviceIds \cup {d}
    /\ asked' = IF client = "connected" THEN asked \cup {d} ELSE asked
    /\ flow' = IF client = "connected" THEN flow \cup {d} ELSE flow
    /\ PostTask(Start(d))

(* NotifyStart: a device already in m_device_id_mgr is filtered out. *)
NotifyStart(d) ==
    IF d \in deviceIds
    THEN UNCHANGED <<deviceIds, asked, flow, queue>>
    ELSE /\ deviceIds' = deviceIds \cup {d}
         /\ asked' = IF client = "connected" THEN asked \cup {d} ELSE asked
         /\ flow' = IF client = "connected" THEN flow \cup {d} ELSE flow
         /\ PostTask(Start(d))

(* Faulty variants: the unsubscription is not sent; the thread is not told *)
(* or is told to start. *)
NotifyStopUnsent(d) ==
    /\ deviceIds' = deviceIds \ {d}
    /\ asked' = asked
    /\ PostTask(Stop(d))
NotifyStopStarting(d) ==
    /\ deviceIds' = deviceIds \ {d}
    /\ asked' = asked \ {d}
    /\ PostTask(Start(d))

(* NotifyStop does not ask whether the device was started. *)
NotifyStop(d) ==
    /\ deviceIds' = deviceIds \ {d}
    /\ asked' = IF client = "connected" THEN asked \ {d} ELSE asked
    /\ PostTask(Stop(d))

(* SRS asks whether b may play d. *)
SessionPlay(d, b) ==
    /\ b \notin players[d]
    /\ players' = [players EXCEPT ![d] = @ \cup {b}]
    /\ IF clients[d] = {}
       THEN NotifyStart(d)
       ELSE UNCHANGED <<deviceIds, asked, flow, queue>>
    /\ clients' = [clients EXCEPT ![d] = @ \cup {b}]
    /\ UNCHANGED <<client, timer, threadVars>>

(* Faulty variant: EmptyClientId is not asked. *)
SessionStopAlways(d, b) ==
    /\ b \in players[d]
    /\ players' = [players EXCEPT ![d] = @ \ {b}]
    /\ clients' = [clients EXCEPT ![d] = @ \ {b}]
    /\ NotifyStop(d)
    /\ UNCHANGED <<client, timer, flow, threadVars>>

(* SRS tells that b plays d no longer. *)
SessionStop(d, b) ==
    /\ b \in players[d]
    /\ players' = [players EXCEPT ![d] = @ \ {b}]
    /\ clients' = [clients EXCEPT ![d] = @ \ {b}]
    /\ IF clients'[d] = {}
       THEN NotifyStop(d)
       ELSE UNCHANGED <<deviceIds, asked, queue>>
    /\ UNCHANGED <<client, timer, flow, threadVars>>

(* The web site is about to play d: HttpWebOnPlayHandler. *)
WebOnPlay(d) ==
    /\ NotifyStart(d)
    /\ UNCHANGED <<clients, client, timer, threadVars, players>>

-----------------------------------------------------------------------------
(* The connection to jt1078_server.                                        *)

(* OnClientConnect: a failed client is dropped and the timer armed.  After *)
(* a success nothing is sent.                                              *)
OnClientConnect(ok) ==
    /\ client' = IF ok THEN "connected" ELSE "none"
    /\ timer' = ~ok
    /\ asked' = {} /\ flow' = {}

(* The pending connect completes, fails or times out. *)
ConnectCompletes ==
    /\ client = "connecting"
    /\ \E ok \in BOOLEAN : OnClientConnect(ok)
    /\ UNCHANGED <<httpVars, queue, threadVars, players>>

OnClientError ==
    /\ client = "connected"
    /\ client' = "none" /\ timer' = TRUE
    /\ asked' = {} /\ flow' = {}
    /\ UNCHANGED <<httpVars, queue, threadVars, players>>

(* OnConnectTimer, AsyncConnectServer: pending, answered at once, or       *)
(* failed, which is only logged.                                           *)
OnConnectTimer ==
    /\ timer
    /\ \/ /\ client' \in {"connecting", "dead"} /\ timer' = FALSE
          /\ asked' = {} /\ flow' = {}
       \/ \E ok \in BOOLEAN : OnClientConnect(ok)
    /\ UNCHANGED <<httpVars, queue, threadVars, players>>

(* A frame of d arrives and is posted to the thread. *)
OnClientMessage(d) ==
    /\ client = "connected"
    /\ d \in flow
    /\ PostTask(Frame(d))
    /\ UNCHANGED <<httpVars, linkVars, threadVars, players>>

-----------------------------------------------------------------------------
(* The RtmpThread.                                                         *)

(* Faulty variant: a stop task leaves the RTMP client in place. *)
HandlerTaskStopless(task) ==
    LET d == task[2]
    IN  \/ /\ task = Start(d)
           /\ rtmp' = rtmp \cup {d}
           /\ pushFailed' = pushFailed \ {d}
        \/ /\ task = Stop(d)
           /\ UNCHANGED threadVars
        \/ /\ task = Frame(d)
           /\ UNCHANGED threadVars

(* The stream to SRS, which a device's first frame opens, cannot be opened *)
(* or written.                                                             *)
PushFails(d) ==
    /\ d \in rtmp
    /\ rtmp' = rtmp \ {d}
    /\ pushFailed' = pushFailed \cup {d}

(* HandlerTask: start creates the RTMP client unless there is one, stop    *)
(* releases it, a frame is pushed by the client of its device, if any,     *)
(* which is released when that fails.                                      *)
HandlerTask(task) ==
    LET d == task[2]
    IN  \/ /\ task = Start(d)
           /\ rtmp' = rtmp \cup {d}
           /\ pushFailed' = pushFailed \ {d}
        \/ /\ task = Stop(d)
           /\ rtmp' = rtmp \ {d}
           /\ pushFailed' = pushFailed \ {d}
        \/ /\ task = Frame(d)
           /\ UNCHANGED threadVars
        \/ task = Frame(d) /\ PushFails(d)

(* WorkThread::Run takes the next task and handles it; only the thread     *)
(* touches what HandlerTask changes. *)
Run ==
    /\ queue # <<>>
    /\ HandlerTask(Head(queue))
    /\ queue' = Tail(queue)
    /\ UNCHANGED <<httpVars, linkVars, players>>

-----------------------------------------------------------------------------
Next ==
    \/ Restart
    \/ ConnectCompletes
    \/ OnClientError
    \/ OnConnectTimer
    \/ Run
    \/ \E d \in Devices : WebOnPlay(d) \/ OnClientMessage(d)
    \/ \E d \in Devices, b \in Browsers : SessionPlay(d, b) \/ SessionStop(d, b)

Spec == Init /\ [][Next]_vars

(* The thread runs as long as the process does and each push ends in       *)
(* success or an error. *)
FairSpec == Spec /\ WF_vars(Run)

-----------------------------------------------------------------------------
(* Properties.                                                             *)

(* The tasks in the queue that create or release the RTMP client of d. *)
Controls(d) == {i \in 1..Len(queue) : queue[i] \in {Start(d), Stop(d)}}

(* Whether d has an RTMP client when the queue has drained, pushes aside. *)
Settled(d) ==
    IF Controls(d) = {}
    THEN d \in rtmp
    ELSE \E i \in Controls(d) : /\ \A j \in Controls(d) : j <= i
                                /\ queue[i] = Start(d)

(* The thread lags behind the loop but agrees with it in the end: a device *)
(* nobody wants is left without RTMP client, however start and stop tasks, *)
(* frames and failed pushes are interleaved ...                            *)
UnwantedIsReleased == \A d \in Devices : Settled(d) => d \in deviceIds

(* ... and a wanted one has a client, unless a push of it failed: nothing  *)
(* recreates the client before the device is stopped and started again.    *)
WantedIsPushed == \A d \in deviceIds : Settled(d) \/ d \in pushFailed

(* A device some browser watches is wanted, whatever the web site's own    *)
(* requests and the other browsers did.                                    *)
WatchedIsWanted == \A d \in Devices : clients[d] # {} => d \in deviceIds

(* web_server asks jt1078_server only for devices that are wanted: a       *)
(* stopped device is withdrawn on the connection it was asked for on.      *)
AskedIsWanted == asked \subseteq deviceIds

(* web_server never counts a browser that SRS does not play to. *)
ClientsPlay == \A d \in Devices : clients[d] \subseteq players[d]

(* The null client has a reconnect timer that replaces it, and only it. *)
NullClientHasTimer == client = "none" <=> timer

(* The RTMP client of a device that is not wanted any more goes.  A        *)
(* restarted or reconnected process may want it again first.               *)
ReleasedInTheEnd ==
    \A d \in Devices :
        (d \in rtmp /\ d \notin deviceIds) ~> (d \notin rtmp \/ d \in deviceIds)

Posted(task) == Len(queue') = Len(queue) + 1 /\ queue'[Len(queue')] = task

(* README.md: one channel is subscribed to once, however many browsers and *)
(* requests of the web site ask for it.                                    *)
StartedOnce == [][\A d \in Devices : Posted(Start(d)) => d \notin asked]_vars

(* WebServer.cpp:136, README.md: after a reconnection the subscriptions    *)
(* are sent again.                                                         *)
WantedIsAsked == client = "connected" => deviceIds \subseteq asked
=============================================================================
