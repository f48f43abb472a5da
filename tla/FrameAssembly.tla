--------------------------- MODULE FrameAssembly ---------------------------
(***************************************************************************)
(* How web_server's RtmpThread puts the frames of one device together from *)
(* the packets a car splits them into: RtmpClient::ProcessJt1078Packet     *)
(* with its two buffers, and the RtmpClient's life in RtmpMgr.  Packets    *)
(* come in order (FramePath), but not all of them come: a client may be    *)
(* made in the middle of a frame, and packets are missing after            *)
(* Jt1078Client connected again.  A packet is its frame's number and its   *)
(* own number within the frame.                                            *)
(***************************************************************************)
EXTENDS Naturals, Sequences

CONSTANTS MaxParts,     \* bound: packets per frame
          MaxFrames     \* bound: frames the car sends of each medium

ASSUME AssemblyAssumption == MaxParts \in Nat \ {0} /\ MaxFrames \in Nat

Media == {"video", "audio"}

VARIABLES frame, part, parts,   \* of each medium, the car's: the frame it is sending, how
                                \* many packets of it are sent, and how many it has
          client,       \* the device has an RtmpClient
          buffer,       \* m_video_buffer and m_audio_buffer
          written,      \* history: what was last handed to the stream, of each medium
          gap           \* history: a packet was missed since the last hand-over or in it

carVars == <<frame, part, parts>>
vars == <<carVars, client, buffer, written, gap>>

Packets == (1..MaxFrames) \X (1..MaxParts)

TypeOK ==
    /\ frame \in [Media -> 0..MaxFrames]
    /\ part \in [Media -> 0..MaxParts]
    /\ parts \in [Media -> 0..MaxParts]
    /\ client \in BOOLEAN
    /\ buffer \in [Media -> Seq(Packets)]
    /\ written \in [Media -> Seq(Packets)]
    /\ gap \in [Media -> BOOLEAN]
    /\ ~client => \A m \in Media : buffer[m] = <<>>

Init ==
    /\ frame = [m \in Media |-> 0]
    /\ part = [m \in Media |-> 0]
    /\ parts = [m \in Media |-> 0]
    /\ client = FALSE
    /\ buffer = [m \in Media |-> <<>>]
    /\ written = [m \in Media |-> <<>>]
    /\ gap = [m \in Media |-> FALSE]

-----------------------------------------------------------------------------
(* The car: packet part'[m] of frame frame'[m].                            *)
CarSends(m) ==
    \/ /\ part[m] = parts[m]
       /\ frame[m] < MaxFrames
       /\ \E n \in 1..MaxParts : parts' = [parts EXCEPT ![m] = n]
       /\ frame' = [frame EXCEPT ![m] = @ + 1]
       /\ part' = [part EXCEPT ![m] = 1]
    \/ /\ part[m] < parts[m]
       /\ part' = [part EXCEPT ![m] = @ + 1]
       /\ UNCHANGED <<frame, parts>>

Packet(m) == <<frame'[m], part'[m]>>

(* SubpackageHandleMark4 is "atomic" or "last".                            *)
Completes(m) == part'[m] = parts'[m]

(* The buffers go with the client; what they hold, and the packets being   *)
(* processed of the media lost, are missed.                                *)
ReleaseRtmpClient(lost) ==
    /\ client' = FALSE
    /\ buffer' = [m \in Media |-> <<>>]
    /\ gap' = [m \in Media |-> gap[m] \/ m \in lost \/ buffer[m] # <<>>]

(* Faulty variant: the frame stays in the buffer. *)
CompleteKeeping(m) ==
    /\ written' = [written EXCEPT ![m] = Append(buffer[m], Packet(m))]
    /\ gap' = [gap EXCEPT ![m] = FALSE]
    /\ buffer' = [buffer EXCEPT ![m] = Append(@, Packet(m))]

(* The whole buffer is handed to the stream, then cleared.                 *)
Complete(m) ==
    /\ written' = [written EXCEPT ![m] = Append(buffer[m], Packet(m))]
    /\ gap' = [gap EXCEPT ![m] = FALSE]
    /\ buffer' = [buffer EXCEPT ![m] = <<>>]

Collect(m) ==
    /\ buffer' = [buffer EXCEPT ![m] = Append(@, Packet(m))]
    /\ UNCHANGED <<written, gap>>

(* ProcessJt1078Packet; that writing audio failed goes unnoticed, because  *)
(* its result is kept in a variable of the inner scope.                    *)
ProcessJt1078Packet(m) ==
    /\ CarSends(m)
    /\ client
    /\ IF Completes(m) THEN Complete(m) ELSE Collect(m)
    /\ UNCHANGED client

(* A packet whose processing fails releases the client: the RTMP stream    *)
(* cannot be opened, a video frame cannot be written, or an audio packet   *)
(* has a coding that is not supported.                                     *)
ProcessingFails(m) ==
    /\ CarSends(m)
    /\ client
    /\ ReleaseRtmpClient({m})
    /\ UNCHANGED written

(* A packet that does not reach the client, or finds none.                 *)
PacketMissed(m) ==
    /\ CarSends(m)
    /\ gap' = [gap EXCEPT ![m] = TRUE]
    /\ UNCHANGED <<client, buffer, written>>

(* The SUBSCRIBE task; an existing client stays.                           *)
CreateRtmpClient ==
    /\ client' = TRUE
    /\ UNCHANGED <<carVars, buffer, written, gap>>

(* The UNSUBSCRIBE task.                                                   *)
Unsubscribed ==
    /\ ReleaseRtmpClient({})
    /\ UNCHANGED <<carVars, written>>

Next ==
    \/ CreateRtmpClient
    \/ Unsubscribed
    \/ \E m \in Media : ProcessJt1078Packet(m) \/ ProcessingFails(m) \/ PacketMissed(m)

Spec == Init /\ [][Next]_vars

-----------------------------------------------------------------------------
(* Properties.                                                             *)

(* All packets of one frame, in order.                                     *)
Whole(s, n) == Len(s) = n /\ \A i \in 1..n : s[i] = <<s[1][1], i>>

(* A frame handed to the stream is whole, unless a packet was missed since *)
(* the one before: missing packets damage one frame, never a later one.    *)
OneDamagedFramePerGap ==
    [][\A m \in Media :
        written'[m] # written[m] /\ ~gap[m] => Whole(written'[m], parts'[m])]_vars
=============================================================================
