------------------------------ MODULE PcServer ------------------------------
(***************************************************************************)
(* The pc_server process: viewers (PC clients) each watch at most one      *)
(* device; PcServer keeps one connection to jt1078_server's ForwardServer  *)
(* and asks it for exactly the devices somebody watches.  One libevent     *)
(* loop: a handler is one action.  What matters of the connection is the   *)
(* set of devices asked for on it, since ForwardServer keeps its           *)
(* subscriptions per connection; the frames themselves are only told       *)
(* apart by their device.                                                  *)
(***************************************************************************)
CONSTANTS Viewers,      \* PcSession connections
          Devices,      \* device_id_t
          NoDevice      \* the empty device id string

ASSUME NoDeviceAssumption == NoDevice \notin Devices

VARIABLES sessions,     \* PcManager::m_mapPc
          canWrite,     \* sessions whose m_bFdCanWrite is still true
          broken,       \* sessions whose connection has ended
          device,       \* PcSession's device id
          watchers,     \* PcPublisher::m_channels
          client,       \* m_client: "none" is nullptr, "dead" is a client whose
                        \* AsyncConnect returned false
          timer,        \* m_connect_timer is pending (m_bWaitTimer)
          asked,        \* the devices asked for, and not withdrawn, on the
                        \* present connection to jt1078_server
          crashed       \* a null m_client was dereferenced

viewerVars == <<sessions, canWrite, broken>>
linkVars == <<client, timer>>
vars == <<sessions, canWrite, broken, device, watchers, client, timer, asked,
          crashed>>

ClientStates == {"none", "connecting", "connected", "dead"}

TypeOK ==
    /\ sessions \subseteq Viewers
    /\ canWrite \subseteq sessions
    /\ broken \subseteq sessions
    /\ device \in [Viewers -> Devices \cup {NoDevice}]
    /\ watchers \in [Devices -> SUBSET Viewers]
    /\ client \in ClientStates
    /\ timer \in BOOLEAN
    /\ asked \subseteq Devices
    /\ crashed \in BOOLEAN

-----------------------------------------------------------------------------
(* Init calls AsyncConnectServer once; when that fails outright the        *)
(* process ends at once, so three outcomes remain.                         *)
Init ==
    /\ sessions = {} /\ canWrite = {} /\ broken = {}
    /\ device = [v \in Viewers |-> NoDevice]
    /\ watchers = [d \in Devices |-> {}]
    /\ asked = {}
    /\ crashed = FALSE
    /\ \/ client \in {"connecting", "connected"} /\ timer = FALSE
       \/ client = "none" /\ timer = TRUE

(* Dereferencing the null m_client ends the process and all it held. *)
Crash ==
    /\ sessions' = {} /\ canWrite' = {} /\ broken' = {}
    /\ device' = [v \in Viewers |-> NoDevice]
    /\ watchers' = [d \in Devices |-> {}]
    /\ asked' = {}
    /\ crashed' = TRUE
    /\ client' = "none" /\ timer' = FALSE

(* start_pc_server.sh is run again. *)
Restart ==
    /\ crashed
    /\ crashed' = FALSE
    /\ \/ client' \in {"connecting", "connected"} /\ timer' = FALSE
       \/ client' = "none" /\ timer' = TRUE
    /\ UNCHANGED <<viewerVars, device, watchers, asked>>

-----------------------------------------------------------------------------
(* The connection to jt1078_server.                                        *)

(* GetAllDeviceId(true): the devices somebody watches. *)
WatchedDevices == {d \in Devices : watchers[d] # {}}

(* Faulty variant: nothing is asked for again after a reconnection. *)
OnClientConnectSilent(ok) ==
    /\ asked' = {}
    /\ client' = IF ok THEN "connected" ELSE "none"
    /\ timer' = ~ok

(* OnClientConnect: on success every watched device is asked for on the    *)
(* new connection; on failure the client is dropped and the timer armed.   *)
OnClientConnect(ok) ==
    /\ asked' = IF ok THEN WatchedDevices ELSE {}
    /\ client' = IF ok THEN "connected" ELSE "none"
    /\ timer' = ~ok

(* The pending connect completes, fails or times out. *)
ConnectCompletes ==
    /\ ~crashed
    /\ client = "connecting"
    /\ \E ok \in BOOLEAN : OnClientConnect(ok)
    /\ UNCHANGED <<viewerVars, device, watchers, crashed>>

(* End of file, a read error or an undecodable packet from jt1078_server. *)
OnClientError ==
    /\ ~crashed
    /\ client = "connected"
    /\ client' = "none" /\ timer' = TRUE
    /\ asked' = {}
    /\ UNCHANGED <<viewerVars, device, watchers, crashed>>

(* OnConnectTimer, AsyncConnectServer: the connect is pending, or is       *)
(* refused or accepted at once, in which case OnClientConnect is called    *)
(* before AsyncConnect returns; or socket() or connect() fails in another  *)
(* way, AsyncConnect returns false, and that is only logged.               *)
OnConnectTimer ==
    /\ ~crashed
    /\ timer
    /\ \/ /\ client' = "connecting" /\ timer' = FALSE
          /\ asked' = {}
       \/ \E ok \in BOOLEAN : OnClientConnect(ok)
       \/ /\ client' = "dead" /\ timer' = FALSE
          /\ asked' = {}
    /\ UNCHANGED <<viewerVars, device, watchers, crashed>>

(* OnClientMessage, PcPublisher::Publish: a frame of d goes to its         *)
(* watchers; one that cannot be written to any more leaves the list.       *)
OnClientMessage(d) ==
    /\ ~crashed
    /\ client = "connected"
    /\ \E failing \in SUBSET (watchers[d] \cap canWrite \cap broken) :
           /\ canWrite' = canWrite \ failing
           /\ watchers' = [watchers EXCEPT ![d] = @ \cap canWrite']
    /\ UNCHANGED <<sessions, broken, device, linkVars, asked, crashed>>

-----------------------------------------------------------------------------
(* The viewers.                                                            *)

OnNewConnection(v) ==
    /\ ~crashed
    /\ v \notin sessions
    /\ sessions' = sessions \cup {v}
    /\ canWrite' = canWrite \cup {v}
    /\ UNCHANGED <<broken, device, watchers, linkVars, asked, crashed>>

ConnectionBreaks(v) ==
    /\ v \in sessions \ broken
    /\ broken' = broken \cup {v}
    /\ UNCHANGED <<sessions, canWrite, device, watchers, linkVars, asked,
                   crashed>>

(* PcPublisher::DelSubscriber for the device v watches, if any. *)
WatchersWithout(v) ==
    [d \in Devices |-> IF d = device[v] THEN watchers[d] \ {v} ELSE watchers[d]]

(* Faulty variant: IsEmptySubscriber is asked before DelSubscriber. *)
AbandonedBefore(v) == {d \in Devices : d = device[v] /\ watchers[d] = {}}

(* The devices whose last watcher v is: withdrawing v withdraws the        *)
(* request.  DelSubscriber need not have found v for IsEmptySubscriber to  *)
(* hold.                                                                   *)
Abandoned(v) == {d \in Devices : d = device[v] /\ WatchersWithout(v)[d] = {}}

(* SubscribeDeviceId(v, d) over a working connection.  d may be the empty  *)
(* string.  TryUnsubscriberOldDeviceId leaves the lists alone when the     *)
(* device stays the same.                                                  *)
SubscribeDeviceId(v, d) ==
    LET moving == device[v] # d
        left == IF moving THEN WatchersWithout(v) ELSE watchers
        kept == IF moving THEN asked \ Abandoned(v) ELSE asked
        joined == [e \in Devices |-> IF e = d THEN left[e] \cup {v} ELSE left[e]]
    IN  /\ watchers' = joined
        /\ asked' = kept \cup {e \in Devices : e = d /\ joined[e] = {v}}
        /\ device' = [device EXCEPT ![v] = d]

(* UnSubscribeDeviceId(v). *)
UnSubscribeDeviceId(v) ==
    /\ watchers' = WatchersWithout(v)
    /\ asked' = IF client = "connected" THEN asked \ Abandoned(v) ELSE asked
    /\ device' = [device EXCEPT ![v] = NoDevice]

(* A subscribe packet.  While jt1078_server is not connected it is dropped. *)
OnSubscribe(v, d) ==
    /\ ~crashed
    /\ v \in sessions
    /\ IF client = "connected"
       THEN SubscribeDeviceId(v, d)
       ELSE UNCHANGED <<watchers, asked, device>>
    /\ UNCHANGED <<viewerVars, linkVars, crashed>>

(* An unsubscribe packet, dropped in the same way. *)
OnUnSubscribe(v) ==
    /\ ~crashed
    /\ v \in sessions
    /\ IF client = "connected"
       THEN UnSubscribeDeviceId(v)
       ELSE UNCHANGED <<watchers, asked, device>>
    /\ UNCHANGED <<viewerVars, linkVars, crashed>>

(* ReleasePcSessionDeviceId: not guarded by the connection's state, so     *)
(* when the last watcher of a device goes m_client is used, null or not.   *)
OnPacketError(v) ==
    /\ ~crashed
    /\ v \in sessions
    /\ IF client = "none" /\ Abandoned(v) # {}
       THEN Crash
       ELSE /\ UnSubscribeDeviceId(v)
            /\ sessions' = sessions \ {v}
            /\ canWrite' = canWrite \ {v}
            /\ broken' = broken \ {v}
            /\ UNCHANGED <<linkVars, crashed>>

-----------------------------------------------------------------------------
Next ==
    \/ ConnectCompletes
    \/ OnClientError
    \/ OnConnectTimer
    \/ Restart
    \/ \E d \in Devices : OnClientMessage(d)
    \/ \E v \in Viewers : \/ OnNewConnection(v)
                          \/ ConnectionBreaks(v)
                          \/ OnUnSubscribe(v)
                          \/ OnPacketError(v)
    \/ \E v \in Viewers, d \in Devices \cup {NoDevice} : OnSubscribe(v, d)

Spec == Init /\ [][Next]_vars

-----------------------------------------------------------------------------
(* Properties.                                                             *)

(* While the connection works, every device that has a watcher has been    *)
(* asked for on this very connection, across reconnections, device         *)
(* switches and watchers dropped for failed writes.                        *)
WatchedIsAsked == client = "connected" => WatchedDevices \subseteq asked

(* jt1078_server is asked for a device nobody watches only while the read  *)
(* error of a dropped watcher is still to come: its handler withdraws the  *)
(* request.                                                                *)
AskedIsWatched ==
    \A d \in asked :
        \/ watchers[d] # {}
        \/ \E v \in sessions : device[v] = d /\ v \notin canWrite /\ v \in broken

(* A session watches the one device it is registered with, and no list     *)
(* holds a released session.                                               *)
OneDevicePerSession ==
    \A d \in Devices : \A v \in watchers[d] : v \in sessions /\ device[v] = d

(* A viewer that can be written to gets the frames of its device. *)
HealthyWatches ==
    \A v \in canWrite, d \in Devices : device[v] = d => v \in watchers[d]

(* m_client is null exactly while the reconnect timer runs: no path drops  *)
(* the client and forgets the timer, or leaves a timer behind that would   *)
(* replace a live client.                                                  *)
NullClientHasTimer == ~crashed => (client = "none" <=> timer)
=============================================================================
