---------------------------- MODULE CarWebServer ----------------------------
(***************************************************************************)
(* new_web_server: browsers ask over WebSocket for a device each, and one  *)
(* connection, CarTcpClient, asks jt1078_server for the devices that have  *)
(* a topic.  Everything runs on one asio io_context: a handler runs to its *)
(* end, and the completions of reads, writes, connects and the timer wait  *)
(* in the io_context's queue, so that a completion may belong to a socket  *)
(* that has been closed, or connected again, in the meantime.              *)
(***************************************************************************)
EXTENDS Naturals, Sequences

CONSTANTS Devices,
          Viewers,          \* the browsers' connection_hdls
          NoDevice,         \* of a viewer that has not asked, or is not there
          MaxVisits,        \* bound: how often browsers come and go
          MaxFailures       \* bound: connections that fail, break or are cut

ASSUME CarWebServerAssumption ==
    /\ NoDevice \notin Devices
    /\ MaxVisits \in Nat /\ MaxFailures \in Nat

VARIABLES subscribers,  \* m_subscribers: the device each viewer asked for
          topics,       \* the devices in m_topics
          members,      \* of each device, its topic's m_hdls
          socket,       \* m_socket: "closed" (or not connected), "connecting", "connected",
                        \* and "cut" when the other side is gone and nobody has noticed
          reads,        \* async_reads outstanding
          timer,        \* m_timer; m_is_waitting unless "idle"
          completions,  \* the completions in the io_context's queue
          queued,       \* what the requests written while connecting add up to
          named,        \* the devices they name
          asked,        \* the devices jt1078_server has been asked for on this connection
          garbled,      \* history: requests of this connection were not what was written
          visits, failures

viewerVars == <<subscribers, topics, members, visits>>
requestVars == <<queued, named, asked, garbled>>
linkVars == <<socket, reads, timer, completions, failures>>
vars == <<viewerVars, requestVars, linkVars>>

Results == {"connected", "connectFailed", "readError", "writeError", "timer"}

TypeOK ==
    /\ subscribers \in [Viewers -> Devices \cup {NoDevice}]
    /\ topics \subseteq Devices
    /\ members \in [Devices -> SUBSET Viewers]
    /\ socket \in {"closed", "connecting", "connected", "cut"}
    /\ reads \in 0..1
    /\ timer \in {"idle", "armed", "queued"}
    /\ completions \in Seq(Results)
    /\ queued \subseteq Devices /\ named \subseteq Devices /\ asked \subseteq Devices
    /\ garbled \in BOOLEAN
    /\ visits \in 0..MaxVisits
    /\ failures \in 0..MaxFailures

(* The constructor of TcpClient connects.                                  *)
Init ==
    /\ subscribers = [v \in Viewers |-> NoDevice]
    /\ topics = {}
    /\ members = [d \in Devices |-> {}]
    /\ socket = "connecting"
    /\ reads = 0
    /\ timer = "idle"
    /\ completions = <<>>
    /\ queued = {} /\ named = {} /\ asked = {}
    /\ garbled = FALSE
    /\ visits = 0 /\ failures = 0

-----------------------------------------------------------------------------
(* CarTcpClient::SendPacket, for the requests that add devices and those   *)
(* that remove them.  Its two async_writes succeed or fail together.  They *)
(* keep no copy of the request, which is on the stack: on a connected      *)
(* socket it is written at once, on a connecting one later.                *)
SendPacket(add, remove) ==
    \/ /\ socket = "closed"
       /\ completions' = Append(completions, "writeError")
       /\ UNCHANGED requestVars
    \/ /\ socket = "connecting"
       /\ queued' = (queued \cup add) \ remove
       /\ named' = named \cup add \cup remove
       /\ UNCHANGED <<asked, garbled, completions>>
    \/ /\ socket = "connected"
       /\ asked' = (asked \cup add) \ remove
       /\ UNCHANGED <<queued, named, garbled, completions>>
    \/ /\ socket = "cut"
       /\ completions' \in {completions, Append(completions, "writeError")}
       /\ UNCHANGED requestVars

Notify(add, remove) ==
    IF add \cup remove = {} THEN UNCHANGED <<requestVars, completions>>
    ELSE SendPacket(add, remove)

Visit ==
    /\ visits < MaxVisits
    /\ visits' = visits + 1
    /\ UNCHANGED <<socket, reads, timer, failures>>

(* GetTopic with bCreateIfNotExists: the topics after it.                  *)
GetTopic(d) == topics \cup {d}

(* onOpen with the URI of a device: only a new topic is asked for.         *)
OnOpen(v, d) ==
    /\ Visit
    /\ subscribers[v] = NoDevice
    /\ subscribers' = [subscribers EXCEPT ![v] = d]
    /\ members' = [members EXCEPT ![d] = @ \cup {v}]
    /\ topics' = GetTopic(d)
    /\ Notify({d} \ topics, {})

(* Of every topic: v may be in none.                                       *)
RemoveSubscriber(v) == [d \in Devices |-> members[d] \ {v}]

(* GetEmptyTopicList after RemoveSubscriber(v).                            *)
EmptyTopics(v) == {d \in topics : members[d] \subseteq {v}}

(* Faulty variant: nothing is told to jt1078_server. *)
OnCloseSilent(v) ==
    /\ Visit
    /\ subscribers' = [subscribers EXCEPT ![v] = NoDevice]
    /\ members' = RemoveSubscriber(v)
    /\ topics' = topics \ EmptyTopics(v)
    /\ UNCHANGED <<requestVars, completions>>

(* onClose, of a viewer whose URI was refused too.                         *)
OnClose(v) ==
    /\ Visit
    /\ subscribers' = [subscribers EXCEPT ![v] = NoDevice]
    /\ members' = RemoveSubscriber(v)
    /\ topics' = topics \ EmptyTopics(v)
    /\ Notify({}, EmptyTopics(v))

-----------------------------------------------------------------------------
(* The handlers of the completions, in the queue's order.                  *)

Completed(result) ==
    /\ completions # <<>> /\ Head(completions) = result
    /\ UNCHANGED <<viewerVars, failures>>

StartTimer == timer' = IF timer = "idle" THEN "armed" ELSE timer

(* What closing the socket completes: the connect, with the writes behind  *)
(* it, or the read.  The writes' errors follow at once and find nothing    *)
(* left to do.                                                             *)
Aborted ==
    (IF socket = "connecting" THEN <<"connectFailed">> ELSE <<>>)
        \o (IF reads > 0 THEN <<"readError">> ELSE <<>>)

Close ==
    /\ completions' = Tail(completions) \o Aborted
    /\ reads' = 0
    /\ queued' = {} /\ named' = {} /\ asked' = {}
    /\ garbled' = FALSE

HandlerConnect ==
    \/ /\ Completed("connected")
       /\ socket # "closed"
       /\ reads' = reads + 1
       /\ completions' = Tail(completions)
       /\ UNCHANGED <<socket, timer, requestVars>>
    \/ /\ Completed("connected")
       /\ socket = "closed"
       /\ completions' = Append(Tail(completions), "readError")
       /\ UNCHANGED <<socket, timer, reads, requestVars>>
    \/ /\ Completed("connectFailed")
       /\ StartTimer
       /\ completions' = Tail(completions)
       /\ UNCHANGED <<socket, reads, requestVars>>

(* Faulty variant: the socket stays open. *)
HandlerErrorOpen ==
    /\ Completed("readError") \/ Completed("writeError")
    /\ StartTimer
    /\ completions' = Tail(completions)
    /\ UNCHANGED <<socket, reads, requestVars>>

(* HandlerReadError and HandlerWriteError.                                 *)
HandlerError ==
    /\ Completed("readError") \/ Completed("writeError")
    /\ Close
    /\ StartTimer
    /\ socket' = "closed"

(* Faulty variant: the timer is taken for waiting for good. *)
OnTimerStillWaiting ==
    /\ Completed("timer")
    /\ Close
    /\ socket' = "connecting"
    /\ UNCHANGED timer

(* ReConnect: Close and Connect.                                           *)
OnTimerReconnectJt1078Server ==
    /\ Completed("timer")
    /\ Close
    /\ socket' = "connecting"
    /\ timer' = "idle"

-----------------------------------------------------------------------------
(* The network and the clock.                                              *)

Post(result) == completions' = Append(completions, result)
Failure == failures < MaxFailures /\ failures' = failures + 1

(* The requests that waited are written from memory that other functions   *)
(* have used since: they may still be what they were, name other devices,  *)
(* or make jt1078_server cut the connection for an invalid header.         *)
ConnectCompletes ==
    /\ socket = "connecting"
    /\ Post("connected")
    /\ queued' = {} /\ named' = {}
    /\ \/ /\ socket' = "connected" /\ asked' = queued
          /\ UNCHANGED <<garbled, failures>>
       \/ /\ named # {} /\ Failure
          /\ socket' = "connected" /\ asked' \in SUBSET named /\ garbled' = TRUE
       \/ /\ named # {} /\ Failure
          /\ socket' = "cut"
          /\ UNCHANGED <<asked, garbled>>
    /\ UNCHANGED <<viewerVars, reads, timer>>

ConnectFails ==
    /\ socket = "connecting" /\ Failure
    /\ socket' = "closed"
    /\ Post("connectFailed")
    /\ queued' = {} /\ named' = {}
    /\ UNCHANGED <<viewerVars, reads, timer, asked, garbled>>

ConnectionBreaks ==
    /\ socket = "connected" /\ Failure
    /\ socket' = "cut"
    /\ asked' = {} /\ garbled' = FALSE
    /\ UNCHANGED <<viewerVars, reads, timer, completions, queued, named>>

ReadFails ==
    /\ socket = "cut" /\ reads > 0
    /\ reads' = 0
    /\ Post("readError")
    /\ UNCHANGED <<viewerVars, requestVars, socket, timer, failures>>

(* Completions posted before the timer was started may still be queued.    *)
TimerExpires ==
    /\ timer = "armed"
    /\ timer' = "queued"
    /\ Post("timer")
    /\ UNCHANGED <<viewerVars, requestVars, socket, reads, failures>>

Handlers == HandlerConnect \/ HandlerError \/ OnTimerReconnectJt1078Server

Next ==
    \/ \E v \in Viewers : OnClose(v) \/ \E d \in Devices : OnOpen(v, d)
    \/ Handlers
    \/ ConnectCompletes \/ ConnectFails \/ ConnectionBreaks
    \/ ReadFails \/ TimerExpires

Spec == Init /\ [][Next]_vars

(* The io_context runs what is in its queue, a lost connection is noticed, *)
(* the timer expires, and a connect that does not fail completes.          *)
Fairness ==
    /\ WF_vars(Handlers) /\ WF_vars(ReadFails)
    /\ WF_vars(TimerExpires) /\ WF_vars(ConnectCompletes)

FairSpec == Spec /\ Fairness

-----------------------------------------------------------------------------
(* Properties.                                                             *)

(* The topics, their members and m_subscribers say the same: a topic is    *)
(* there exactly while some viewer watches its device.                     *)
TopicsAreWatched ==
    /\ \A d \in Devices : members[d] = {v \in Viewers : subscribers[v] = d}
    /\ topics = {d \in Devices : members[d] # {}}

(* Nothing is asked of jt1078_server, now or once connected, that no       *)
(* viewer watches, unless a request was garbled.                           *)
AskedIsWatched == (asked \cup queued \subseteq topics) \/ garbled

(* The client is never left without a connection that is read, an attempt, *)
(* a timer, or a completion that will lead to one of them.                 *)
NeverStuck ==
    \/ timer = "armed"
    \/ socket = "connecting"
    \/ socket # "closed" /\ reads = 1
    \/ completions # <<>>

(* The reconnect timer only waits while there is no connection and no      *)
(* attempt: ReConnect never closes a connection that is alive.             *)
TimerSparesConnection == timer # "idle" => socket = "closed"

(* Once connections hold, and if the process gets through its queue within *)
(* the timer's five seconds, the client is connected and reads in the end. *)
Drained == \A i \in DOMAIN completions : completions[i] = "writeError"
ConnectedInTheEnd ==
    <>[][timer' = "queued" /\ timer # "queued" => Drained]_vars
        => <>[](socket = "connected" /\ reads = 1)
=============================================================================
