--------------------------- MODULE ForwardServer ---------------------------
(***************************************************************************)
(* One half (real-time or history) of the jt1078_server process: the       *)
(* ForwardServer that serves subscribers, the Jt1078Server that accepts    *)
(* the cars, and the commands the two cause on the Redis list read by the  *)
(* 808 platform.  Everything runs on one libevent loop, so a handler with  *)
(* all the calls it makes is one action; the interleaving is that of the   *)
(* events: new connections, complete packets, read errors.                 *)
(*                                                                         *)
(* A session or car is named by a member of a constant set that stands for *)
(* "an id nobody holds": the same member connects again once every trace   *)
(* of its last connection is gone.                                         *)
(***************************************************************************)
CONSTANTS Sessions,     \* subscriber connections (session_id_t)
          WebSessions,  \* those opened by web_server; the others are pc_server's
          Devices,      \* device_id_t = channel_id_t
          Cars,         \* car connections
          NoDevice,     \* INVALID_DEVICE_ID
          Realtime      \* m_is_realtime: which of the two servers this is

ASSUME SessionsAssumption == WebSessions \subseteq Sessions
ASSUME DevicesAssumption == NoDevice \notin Devices
ASSUME RealtimeAssumption == Realtime \in BOOLEAN

VARIABLES subscribers,  \* ForwardServer::m_mapSubscriber
          canWrite,     \* sessions whose m_bFdCanWrite is still true
          broken,       \* sessions whose connection the peer or the network ended
          channels,     \* keys of Publisher::m_mapChannel
          members,      \* each Channel's own m_mapSubscriber
          cars,         \* CarManager::m_mapCar
          carDevice,    \* CarSession::m_device_id
          told,         \* the last command pushed for a device on the 808 list
          wants         \* history: the subscriptions sent and not withdrawn

subVars == <<subscribers, canWrite, broken>>
chanVars == <<channels, members>>
carVars == <<cars, carDevice>>
vars == <<subscribers, canWrite, broken, channels, members, cars, carDevice,
          told, wants>>

-----------------------------------------------------------------------------
TypeOK ==
    /\ subscribers \subseteq Sessions
    /\ canWrite \subseteq subscribers
    /\ broken \subseteq subscribers
    /\ channels \subseteq Devices
    /\ members \in [Devices -> SUBSET Sessions]
    /\ cars \subseteq Cars
    /\ carDevice \in [Cars -> Devices \cup {NoDevice}]
    /\ told \in [Devices -> {"none", "open", "close"}]
    /\ wants \subseteq Sessions \X Devices

Init ==
    /\ subscribers = {} /\ canWrite = {} /\ broken = {}
    /\ channels = {} /\ members = [d \in Devices |-> {}]
    /\ cars = {} /\ carDevice = [c \in Cars |-> NoDevice]
    /\ told = [d \in Devices |-> "none"]
    /\ wants = {}

-----------------------------------------------------------------------------
(* What the handlers share.                                                *)

(* NotifyOpenCarTerminal: SendCommandTo808 has no message that asks for a  *)
(* history stream, so only the real-time server tells anybody.             *)
NotifyOpenCarTerminal(d) ==
    told' = IF Realtime THEN [told EXCEPT ![d] = "open"] ELSE told

(* Faulty variant: only the channels this very handler emptied are seen. *)
EmptiedChannels(m) == {d \in channels : m[d] = {} /\ members[d] # {}}

(* The channels a scan finds empty when the subscriber lists are m. *)
EmptyChannels(m) == {d \in channels : m[d] = {}}

(* Faulty variant: the device of a car is not compared. *)
DisconnectAllCars(released) ==
    /\ cars' = IF released = {} THEN cars ELSE {}
    /\ carDevice' = IF released = {} THEN carDevice ELSE [c \in Cars |-> NoDevice]

(* CarManager::DelCarByDeviceId for every released device: all connections *)
(* of the device are dropped, whatever their number.                       *)
DisconnectCars(released) ==
    /\ cars' = {c \in cars : carDevice[c] \notin released}
    /\ carDevice' = [c \in Cars |-> IF carDevice[c] \in released
                                    THEN NoDevice ELSE carDevice[c]]

(* ReleaseChannelIfEmptySubscriber, after the lists became m. *)
ReleaseChannelIfEmptySubscriber(m) ==
    LET released == EmptyChannels(m)
    IN  /\ members' = m
        /\ channels' = channels \ released
        /\ told' = [d \in Devices |-> IF d \in released THEN "close" ELSE told[d]]
        /\ DisconnectCars(released)

(* Faulty variant: the wrong DelSubscriber overload is called. *)
WithoutEverywhere(d, s) == [e \in Devices |-> members[e] \ {s}]

(* The subscriber lists without s, in one channel and in all of them. *)
WithoutIn(d, s) == [members EXCEPT ![d] = @ \ {s}]
Without(s) == [d \in Devices |-> members[d] \ {s}]

-----------------------------------------------------------------------------
(* Subscribers.                                                            *)

OnNewConnection(s) ==
    /\ s \notin subscribers
    /\ subscribers' = subscribers \cup {s}
    /\ canWrite' = canWrite \cup {s}
    /\ UNCHANGED <<broken, chanVars, carVars, told, wants>>

(* The peer's process ended or the network failed: nothing is noticed yet. *)
ConnectionBreaks(s) ==
    /\ s \in subscribers \ broken
    /\ broken' = broken \cup {s}
    /\ UNCHANGED <<subscribers, canWrite, chanVars, carVars, told, wants>>

(* Faulty variant: the platform is told at every subscription. *)
SubscribeNotifyingAlways(s, d) ==
    /\ s \in subscribers
    /\ channels' = channels \cup {d}
    /\ members' = [members EXCEPT ![d] = @ \cup {s}]
    /\ IF s \notin WebSessions THEN NotifyOpenCarTerminal(d) ELSE told' = told
    /\ wants' = wants \cup {<<s, d>>}
    /\ UNCHANGED <<subVars, carVars>>

(* A subscribe packet.  Packets already received are still handled after   *)
(* the connection broke.                                                   *)
Subscribe(s, d) ==
    /\ s \in subscribers
    /\ channels' = channels \cup {d}
    /\ members' = [members EXCEPT ![d] = @ \cup {s}]
    /\ IF d \notin channels /\ s \notin WebSessions
       THEN NotifyOpenCarTerminal(d)
       ELSE told' = told
    /\ wants' = wants \cup {<<s, d>>}
    /\ UNCHANGED <<subVars, carVars>>

(* An unsubscribe packet; the scan that follows covers every channel. *)
Unsubscribe(s, d) ==
    /\ s \in subscribers
    /\ ReleaseChannelIfEmptySubscriber(WithoutIn(d, s))
    /\ wants' = wants \ {<<s, d>>}
    /\ UNCHANGED subVars

(* End of file, a read error, an undecodable packet or a full buffer. *)
OnPacketError(s) ==
    /\ s \in subscribers
    /\ subscribers' = subscribers \ {s}
    /\ canWrite' = canWrite \ {s}
    /\ broken' = broken \ {s}
    /\ ReleaseChannelIfEmptySubscriber(Without(s))
    /\ wants' = {w \in wants : w[1] # s}

-----------------------------------------------------------------------------
(* Cars.                                                                   *)

CarConnects(c) ==
    /\ c \notin cars
    /\ cars' = cars \cup {c}
    /\ UNCHANGED <<subVars, chanVars, carDevice, told, wants>>

(* Channel::SendMsg: every listed subscriber is sent the packet; a send    *)
(* may fail for good on a broken connection, and a subscriber that cannot  *)
(* be written to leaves the list.  The channel stays, and so does the      *)
(* session in m_mapSubscriber.                                             *)
SendMsg(d, failing) ==
    /\ canWrite' = canWrite \ failing
    /\ members' = [members EXCEPT ![d] = @ \cap canWrite']

(* A complete packet of device d.  The first one names the connection for  *)
(* good; then the packet is published on the connection's channel.         *)
CarPacket(c, d) ==
    /\ c \in cars
    /\ LET device == IF carDevice[c] = NoDevice THEN d ELSE carDevice[c]
       IN  /\ carDevice' = [carDevice EXCEPT ![c] = device]
           /\ \E failing \in SUBSET (members[device] \cap canWrite \cap broken) :
                  SendMsg(device, failing)
    /\ UNCHANGED <<subscribers, broken, channels, cars, told, wants>>

(* DelCar: the car's connection ends; its subscribers are not told. *)
CarError(c) ==
    /\ c \in cars
    /\ cars' = cars \ {c}
    /\ carDevice' = [carDevice EXCEPT ![c] = NoDevice]
    /\ UNCHANGED <<subVars, chanVars, told, wants>>

-----------------------------------------------------------------------------
Next ==
    \/ \E s \in Sessions : \/ OnNewConnection(s)
                           \/ ConnectionBreaks(s)
                           \/ OnPacketError(s)
    \/ \E s \in Sessions, d \in Devices : Subscribe(s, d) \/ Unsubscribe(s, d)
    \/ \E c \in Cars : CarConnects(c) \/ CarError(c)
    \/ \E c \in Cars, d \in Devices : CarPacket(c, d)

Spec == Init /\ [][Next]_vars

(* The read event is level triggered and persistent, so a connection that  *)
(* ended is reported by the loop sooner or later.                          *)
ReadErrorReported(s) == s \in broken /\ OnPacketError(s)
Fairness == \A s \in Sessions : WF_vars(ReadErrorReported(s))
FairSpec == Spec /\ Fairness

-----------------------------------------------------------------------------
(* Properties.                                                             *)

(* A channel never lists a session the server has already dropped:         *)
(* publishing on it would write to a closed descriptor.                    *)
MembersRegistered == \A d \in Devices : members[d] \subseteq subscribers

(* A list exists only within a channel of the map. *)
MembersHaveChannel == \A d \in Devices \ channels : members[d] = {}

(* Only registered sessions have subscriptions. *)
WantsRegistered ==
    \A s \in Sessions, d \in Devices : <<s, d>> \in wants => s \in subscribers

(* A connection the server gave up writing to is one that really ended. *)
UnwritableIsBroken == subscribers \ canWrite \subseteq broken

(* Channel::SendMsg leaves empty channels behind without releasing them.   *)
(* That is harmless only because a session whose read error is still to    *)
(* come always remains, and its handler scans all channels.                *)
NoIdleChannel ==
    \A d \in channels :
        members[d] = {} => \E s \in subscribers : s \notin canWrite /\ s \in broken

(* The 808 platform is never left with an open command for a device whose  *)
(* channel is gone: its car would stream for nobody.                       *)
OpenHasChannel == \A d \in Devices : told[d] = "open" => d \in channels

(* Whatever other subscribers and cars do, a subscriber that can be        *)
(* written to is on the list of every device it asked for.                 *)
HealthyServed ==
    \A s \in canWrite, d \in Devices :
        <<s, d>> \in wants => d \in channels /\ s \in members[d]

(* No subscriber's leaving cuts a car another one still watches: a car     *)
(* connection ends by its own error or when nobody healthy wants it.       *)
NoCutWhileWatched ==
    [][\A c \in cars \ cars' :
          \/ CarError(c)
          \/ \A s \in canWrite' : <<s, carDevice[c]>> \notin wants']_vars

(* The server implements the promise it makes to the platform. *)
Demand == {w \in Sessions \X Devices : w[1] \in members[w[2]]}
Contract == INSTANCE StreamDemand WITH demand <- Demand, streaming <- channels
ImplementsDemand == Contract!Spec

(* A channel that Channel::SendMsg emptied is eventually released, and its *)
(* car stopped, unless somebody subscribes to it first.                    *)
IdleChannelReleased ==
    \A d \in Devices :
        (d \in channels /\ members[d] = {}) ~> (d \notin channels \/ members[d] # {})
=============================================================================
