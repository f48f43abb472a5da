--------------------------- MODULE ViewerRequests ---------------------------
(***************************************************************************)
(* PcServer, with a record of what each viewer last asked for, whether     *)
(* pc_server could do anything with the packet or not.                     *)
(***************************************************************************)
EXTENDS PcServer

VARIABLE wants          \* history: the device each viewer last asked for

RequestsInit == Init /\ wants = [v \in Viewers |-> NoDevice]

(* A packet of v's, which OnPacketCompleted handles or drops. *)
ViewerSends(v) ==
    \/ OnUnSubscribe(v) /\ wants' = [wants EXCEPT ![v] = NoDevice]
    \/ \E d \in Devices : OnSubscribe(v, d) /\ wants' = [wants EXCEPT ![v] = d]

(* The process and its viewers' connections may end, and the wish with     *)
(* them.                                                                   *)
ViewerEnds(v) ==
    /\ OnPacketError(v)
    /\ wants' = [w \in Viewers |-> IF w \in sessions' THEN wants[w] ELSE NoDevice]

OtherSteps ==
    /\ \/ ConnectCompletes \/ OnClientError \/ OnConnectTimer \/ Restart
       \/ \E d \in Devices : OnClientMessage(d)
       \/ \E v \in Viewers : OnNewConnection(v) \/ ConnectionBreaks(v)
    /\ UNCHANGED wants

RequestsNext == OtherSteps \/ \E v \in Viewers : ViewerSends(v) \/ ViewerEnds(v)

RequestsSpec == RequestsInit /\ [][RequestsNext]_<<vars, wants>>

-----------------------------------------------------------------------------
(* README.md:45 of the repository: what users subscribe to or withdraw     *)
(* while jt1078_server is away is kept, and asked for after the            *)
(* reconnection.  So whatever a viewer whose connection is whole asked for *)
(* last has been asked for on a working connection.                        *)
RequestsKept ==
    client = "connected" =>
        \A v \in canWrite, d \in Devices : wants[v] = d => d \in asked
=============================================================================
