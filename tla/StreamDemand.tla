---------------------------- MODULE StreamDemand ----------------------------
(***************************************************************************)
(* What jt1078_server promises to the two parties it stands between: the   *)
(* subscribers (pc_server, web_server) that ask for a car channel, and the *)
(* 808 platform that is told, through the Redis list, to make the car      *)
(* stream or stop.  The promise says nothing of sockets, sessions that     *)
(* cannot be written to, or of the moment an unused channel is noticed:    *)
(*   - a device streams from the first demand for it;                      *)
(*   - it stops only at a moment when nobody demands it;                   *)
(*   - the platform is told "open" only when a device starts to stream and *)
(*     is told "close" every time one stops.                               *)
(* ForwardServer is shown to implement this specification.                 *)
(***************************************************************************)
CONSTANTS Sessions,     \* connections of subscribers
          Devices       \* car channels

VARIABLES demand,       \* the pairs <<session, device>> being served
          streaming,    \* the devices that are meant to stream
          told          \* the last command the 808 platform got for a device

dvars == <<demand, streaming, told>>

Demanded(D) == {d \in Devices : \E s \in Sessions : <<s, d>> \in D}

Init == /\ demand = {}
        /\ streaming = {}
        /\ told = [d \in Devices |-> "none"]

(* A session asks for d; the platform may be told only if d was not streaming. *)
Ask(s, d) ==
    /\ demand' = demand \cup {<<s, d>>}
    /\ streaming' = streaming \cup {d}
    /\ \/ told' = told
       \/ /\ d \notin streaming
          /\ told' = [told EXCEPT ![d] = "open"]

(* Demand is withdrawn and every device without demand is closed. *)
Withdraw(W) ==
    /\ demand' = demand \ W
    /\ streaming' = streaming \cap Demanded(demand')
    /\ told' = [d \in Devices |->
                    IF d \in streaming \ streaming' THEN "close" ELSE told[d]]

(* Demand lapses unnoticed: its session can no longer be served. *)
Lapse(W) ==
    /\ demand' = demand \ W
    /\ UNCHANGED <<streaming, told>>

Next == \/ \E s \in Sessions, d \in Devices : Ask(s, d)
        \/ \E W \in SUBSET (Sessions \X Devices) : Withdraw(W) \/ Lapse(W)

Spec == Init /\ [][Next]_dvars
=============================================================================
