---------------------------- MODULE Subscription ----------------------------
(***************************************************************************)
(* pc_server and the jt1078_server it subscribes at, with the connections  *)
(* between them.  PcServer and ForwardServer each know their own end only: *)
(* a request is sent by one handler and handled by another, some time      *)
(* later or never; the end of a connection is noticed by each side on its  *)
(* own, so that jt1078_server may still list the session of a connection   *)
(* that pc_server has replaced; and jt1078_server may stop and start,      *)
(* which leaves it without any subscription.                               *)
(*                                                                         *)
(* Connections are numbered as they are made, like the sessions they       *)
(* become in jt1078_server.  Connections that web_server makes are not     *)
(* part of this composition.                                               *)
(***************************************************************************)
EXTENDS PcServer, Naturals, Sequences, FiniteSets

CONSTANTS Cars,         \* car connections to jt1078_server
          MaxLinks,     \* bound: connections pc_server makes
          MaxStops,     \* bound: how often jt1078_server stops
          MaxPending    \* bound: requests under way on a connection

ASSUME DevicesFinite == IsFiniteSet(Devices)
ASSUME BoundsAssumption ==
    MaxLinks \in Nat \ {0} /\ MaxStops \in Nat /\ MaxPending \in Nat

Links == 1..MaxLinks
NoLink == 0

VARIABLES link,         \* the connection m_client has, if it is connected
          made,         \* connections made so far
          accepted,     \* how many of them jt1078_server has taken or missed
          down,         \* connections that have ended
          requests,     \* requests sent and not yet handled, per connection
          serving,      \* jt1078_server runs
          stops,        \* how often it has stopped
          fwdSubscribers, fwdCanWrite, fwdBroken, channels, members, cars,
          carDevice, told, fwdWants     \* ForwardServer's variables

Server == INSTANCE ForwardServer
    WITH Sessions <- Links, WebSessions <- {}, Realtime <- TRUE,
         subscribers <- fwdSubscribers, canWrite <- fwdCanWrite,
         broken <- fwdBroken, wants <- fwdWants

pcVars == vars
netVars == <<link, made, accepted, down, requests, serving, stops>>
fwdVars == <<fwdSubscribers, fwdCanWrite, fwdBroken, channels, members, cars,
             carDevice, told, fwdWants>>
allVars == <<pcVars, netVars, fwdVars>>

Request == [type : {"subscribe", "unsubscribe"}, device : Devices]

LinkTypeOK ==
    /\ TypeOK
    /\ Server!TypeOK
    /\ made \in 0..MaxLinks
    /\ link \in 0..made
    /\ accepted \in 0..made
    /\ down \subseteq 1..made
    /\ requests \in [Links -> Seq(Request)]
    /\ serving \in BOOLEAN
    /\ stops \in 0..MaxStops

-----------------------------------------------------------------------------
(* The requests of pc_server's handlers.                                   *)

Subscribing(d) == [type |-> "subscribe", device |-> d]
Withdrawing(d) == [type |-> "unsubscribe", device |-> d]

(* Faulty variant: nothing is sent after a reconnection. *)
NoResubscriptions == {<<>>}

(* The requests that follow a connection: one for each watched device, in  *)
(* the order of an unordered map, which may be any.                        *)
Resubscriptions ==
    {[i \in DOMAIN order |-> Subscribing(order[i])] :
        order \in {o \in [1..Cardinality(WatchedDevices) -> WatchedDevices] :
                      \A d \in WatchedDevices : \E i \in DOMAIN o :
                          \A j \in DOMAIN o : o[j] = d <=> j = i}}

(* Faulty variant: the other watchers are not considered. *)
LeaveRequestsAlways(v) ==
    IF device[v] # NoDevice THEN <<Withdrawing(device[v])>> ELSE <<>>

(* The withdrawal that v's leaving its device causes, if any. *)
LeaveRequests(v) ==
    IF Abandoned(v) # {} THEN <<Withdrawing(device[v])>> ELSE <<>>

(* TryUnsubscriberOldDeviceId, then the request for the first watcher. *)
MoveRequests(v, d) ==
    (IF device[v] # d THEN LeaveRequests(v) ELSE <<>>)
        \o (IF d \in Devices /\ watchers[d] \subseteq {v}
            THEN <<Subscribing(d)>> ELSE <<>>)

(* Jt1078Client::SendPacket: what is written to a connection that has      *)
(* ended goes nowhere.                                                     *)
Send(messages) ==
    IF link = NoLink \/ link \in down
    THEN requests' = requests
    ELSE /\ Len(requests[link]) + Len(messages) <= MaxPending
         /\ requests' = [requests EXCEPT ![link] = @ \o messages]

-----------------------------------------------------------------------------
(* pc_server's side.                                                       *)

(* What the outcome of an attempt means for the connection: a new one      *)
(* carries the requests for everything watched.                            *)
Attempted ==
    IF client' = "connected"
    THEN /\ serving
         /\ made < MaxLinks
         /\ made' = made + 1
         /\ link' = made + 1
         /\ \E messages \in Resubscriptions :
                requests' = [requests EXCEPT ![made + 1] = messages]
    ELSE /\ link' = NoLink
         /\ UNCHANGED <<made, requests>>

Attempt ==
    /\ ConnectCompletes \/ OnConnectTimer \/ Restart
    /\ Attempted
    /\ UNCHANGED <<accepted, down, serving, stops, fwdVars>>

(* pc_server notices that the connection has ended. *)
PcNoticesEnd ==
    /\ link \in down
    /\ OnClientError
    /\ link' = NoLink
    /\ UNCHANGED <<made, accepted, down, requests, serving, stops, fwdVars>>

(* The handlers that send nothing. *)
PcOther ==
    /\ \/ \E d \in Devices : OnClientMessage(d)
       \/ \E v \in Viewers : OnNewConnection(v) \/ ConnectionBreaks(v)
    /\ UNCHANGED <<netVars, fwdVars>>

ViewerSubscribes(v, d) ==
    /\ OnSubscribe(v, d)
    /\ Send(MoveRequests(v, d))
    /\ UNCHANGED <<link, made, accepted, down, serving, stops, fwdVars>>

ViewerUnsubscribes(v) ==
    /\ OnUnSubscribe(v)
    /\ Send(LeaveRequests(v))
    /\ UNCHANGED <<link, made, accepted, down, serving, stops, fwdVars>>

ViewerEnds(v) ==
    /\ OnPacketError(v)
    /\ Send(LeaveRequests(v))
    /\ UNCHANGED <<link, made, accepted, down, serving, stops, fwdVars>>

-----------------------------------------------------------------------------
(* The network and jt1078_server's side.                                   *)

(* A prefix of what was under way still arrives. *)
LinkBreaks ==
    /\ link # NoLink /\ link \notin down
    /\ made < MaxLinks
    /\ down' = down \cup {link}
    /\ \E n \in 0..Len(requests[link]) :
           requests' = [requests EXCEPT ![link] = SubSeq(@, 1, n)]
    /\ UNCHANGED <<pcVars, link, made, accepted, serving, stops, fwdVars>>

(* jt1078_server takes the next connection, which may have ended already. *)
ServerAccepts ==
    /\ serving
    /\ accepted < made
    /\ accepted' = accepted + 1
    /\ Server!OnNewConnection(accepted + 1)
    /\ UNCHANGED <<pcVars, link, made, down, requests, serving, stops>>

(* The next request of a session. *)
ServerHandles(l) ==
    /\ requests[l] # <<>>
    /\ LET request == Head(requests[l])
       IN  IF request.type = "subscribe"
           THEN Server!Subscribe(l, request.device)
           ELSE Server!Unsubscribe(l, request.device)
    /\ requests' = [requests EXCEPT ![l] = Tail(@)]
    /\ UNCHANGED <<pcVars, link, made, accepted, down, serving, stops>>

(* The end of a connection reaches jt1078_server. *)
EndReachesServer(l) ==
    /\ l \in down
    /\ Server!ConnectionBreaks(l)
    /\ UNCHANGED <<pcVars, netVars>>

(* It is read behind the last request. *)
ServerNoticesEnd(l) ==
    /\ requests[l] = <<>>
    /\ Server!ReadErrorReported(l)
    /\ UNCHANGED <<pcVars, netVars>>

ServerCars ==
    /\ serving
    /\ \E c \in Cars : \/ Server!CarConnects(c)
                       \/ Server!CarError(c)
                       \/ \E d \in Devices : Server!CarPacket(c, d)
    /\ UNCHANGED <<pcVars, netVars>>

(* The process ends: all its connections do, and nothing of what it held   *)
(* is left.  What it told the platform remains said.                       *)
ServerStops ==
    /\ serving
    /\ stops < MaxStops
    /\ link # NoLink => made < MaxLinks
    /\ serving' = FALSE
    /\ stops' = stops + 1
    /\ down' = 1..made
    /\ accepted' = made
    /\ requests' = [l \in Links |-> <<>>]
    /\ fwdSubscribers' = {} /\ fwdCanWrite' = {} /\ fwdBroken' = {}
    /\ channels' = {} /\ members' = [d \in Devices |-> {}]
    /\ cars' = {} /\ carDevice' = [c \in Cars |-> NoDevice]
    /\ fwdWants' = {}
    /\ UNCHANGED <<pcVars, link, made, told>>

ServerStarts ==
    /\ ~serving
    /\ serving' = TRUE
    /\ UNCHANGED <<pcVars, link, made, accepted, down, requests, stops,
                   fwdVars>>

-----------------------------------------------------------------------------
LinkInit ==
    /\ Init
    /\ Server!Init
    /\ made = IF client = "connected" THEN 1 ELSE 0
    /\ link = made
    /\ accepted = 0
    /\ down = {}
    /\ requests = [l \in Links |-> <<>>]
    /\ serving = TRUE
    /\ stops = 0

LinkNext ==
    \/ Attempt
    \/ PcNoticesEnd
    \/ PcOther
    \/ \E v \in Viewers : ViewerUnsubscribes(v) \/ ViewerEnds(v)
    \/ \E v \in Viewers, d \in Devices \cup {NoDevice} : ViewerSubscribes(v, d)
    \/ LinkBreaks
    \/ ServerAccepts
    \/ \E l \in Links : \/ ServerHandles(l)
                        \/ EndReachesServer(l)
                        \/ ServerNoticesEnd(l)
    \/ ServerCars
    \/ ServerStops
    \/ ServerStarts

LinkSpec == LinkInit /\ [][LinkNext]_allVars

(* Each loop runs what is due, and pc_server's heartbeats make it notice   *)
(* the end of its connection.  A stopped jt1078_server is started again,   *)
(* and while it runs the attempts to connect do not fail for ever.         *)
LinkFairness ==
    /\ WF_allVars(PcNoticesEnd)
    /\ SF_allVars(Attempt /\ client' = "connected")
    /\ WF_allVars(ServerAccepts)
    /\ WF_allVars(ServerStarts)
    /\ \A l \in Links : WF_allVars(ServerHandles(l)) /\ WF_allVars(ServerNoticesEnd(l))
    /\ \A v \in Viewers : WF_allVars(v \in broken /\ ViewerEnds(v))

LinkFairSpec == LinkSpec /\ LinkFairness

-----------------------------------------------------------------------------
(* Properties.                                                             *)

(* What messages make of a device: the last one about it decides, and      *)
(* without any it stays as it was.                                         *)
Outcome(messages, before, d) ==
    \/ \E i \in DOMAIN messages :
          /\ messages[i] = Subscribing(d)
          /\ \A j \in DOMAIN messages : messages[j].device = d => j <= i
    \/ before /\ \A i \in DOMAIN messages : messages[i].device # d

(* What jt1078_server will make of d for the session of l once it has      *)
(* handled the requests under way.                                         *)
Destined(l, d) == Outcome(requests[l], l \in members[d], d)

(* The two processes agree: as long as the connection holds, what          *)
(* pc_server takes as asked for is what jt1078_server lists the session    *)
(* under, or will when it has handled what is under way - whatever was     *)
(* asked for and withdrawn in between, on this connection or on one that   *)
(* jt1078_server still takes for a session.                                *)
ServerFollows ==
    link # NoLink /\ link \notin down =>
        \A d \in Devices : d \in asked <=> Destined(link, d)

(* A watched device is served in the end: the session of pc_server's       *)
(* connection is listed, through connections that break, requests that are *)
(* lost and a jt1078_server that forgets - unless its viewers leave, or    *)
(* an attempt to connect failed outright, after which nobody tries again.  *)
ServedInTheEnd ==
    \A d \in Devices :
        d \in WatchedDevices ~>
            \/ d \notin WatchedDevices
            \/ link # NoLink /\ link \in members[d]
            \/ client = "dead"

(* A device nobody watches any more is released in the end, unless it is   *)
(* listed for a session whose connection has ended without jt1078_server's *)
(* noticing: withdrawals under way, viewers that are dropped and           *)
(* connections that are lost before the withdrawal all lead there.         *)
ReleasedWhenUnwatched ==
    \A d \in Devices :
        d \notin WatchedDevices ~>
            \/ d \in WatchedDevices
            \/ d \notin channels
            \/ \E l \in down : l \in members[d]
=============================================================================
