----------------------------- MODULE FramePath -----------------------------
(***************************************************************************)
(* The way of a car's frames to the viewers: jt1078_server's Subscriber    *)
(* writes them to the socket of pc_server, whose Jt1078Client cuts the     *)
(* byte stream into packets again; PcPublisher hands each to the           *)
(* PcSessions of its device, which write it to the viewer's socket.        *)
(*                                                                         *)
(* Both senders keep what the socket does not take in a list of pending    *)
(* buffers, both receivers feed what they read, cut anywhere, to an        *)
(* ipc::decoder_t.                                                         *)
(***************************************************************************)
EXTENDS IpcDecoder, FiniteSetsExt

CONSTANTS Devices,
          Viewers,
          Watches,          \* [Viewers -> Devices]: what each viewer asked for
          BodyLengths,      \* lengths of the packets' bodies
          SocketRoom,       \* what the kernel holds between two processes
          MaxRead,          \* MAX_SIZE_ONCE_READ
          MaxFrames         \* bound of the model: frames the cars send

Packets == [seq : 0..MaxFrames, device : Devices, length : BodyLengths]

ASSUME ParametersAssumption ==
    /\ Watches \in [Viewers -> Devices]
    /\ BodyLengths \subseteq Nat
    /\ {SocketRoom, MaxRead} \subseteq Nat \ {0}
    /\ MaxFrames \in Nat
    /\ NoHeader \notin Packets
    \* 500 kB, 5 kB at a time, and a 16-bit length of what follows the header
    /\ \A length \in BodyLengths \cup {HeaderLength} : length + MaxRead <= MaxBuffer

VARIABLES up,           \* Subscriber of jt1078_server -> Jt1078Client of pc_server
          down,         \* for each viewer: PcSession -> the viewer's program
          sent,         \* history: the packets of the cars, as numbered by Subscriber
          got           \* history: what each viewer's decoder delivered

vars == <<up, down, sent, got>>

(* One direction of a connection: the bytes in the sender's                *)
(* m_pending_buffer_list, its m_bFdCanWrite, the bytes in the kernel,      *)
(* whether the connection is lost, and the receiver's decoder.             *)
NewLink == [pending |-> <<>>, canWrite |-> TRUE, wire |-> <<>>, lost |-> FALSE,
            decoder |-> NewDecoder]

TypeOK ==
    LET Link == [pending : Seq(Packets \X Nat), canWrite : BOOLEAN,
                 wire : Seq(Packets \X Nat), lost : BOOLEAN, decoder : Decoders(Packets)]
    IN  /\ up \in Link
        /\ down \in [Viewers -> Link]
        /\ \A link \in {up} \cup {down[v] : v \in Viewers} : Len(link.wire) <= SocketRoom
        /\ sent \in Seq(Packets)
        /\ got \in [Viewers -> Seq(Packets)]

Init ==
    /\ up = NewLink
    /\ down = [v \in Viewers |-> NewLink]
    /\ sent = <<>>
    /\ got = [v \in Viewers |-> <<>>]

-----------------------------------------------------------------------------
(* The senders.                                                            *)

(* TcpSession::SendBuffer, for one buffer after the other: the kernel      *)
(* takes what it has room for, and the rest is pending; or the peer is     *)
(* gone.                                                                   *)
Written(link, bytes) ==
    LET n == Min({SocketRoom - Len(link.wire), Len(bytes)})
    IN  IF link.lost THEN [link EXCEPT !.canWrite = FALSE]
        ELSE [link EXCEPT !.wire = @ \o SubSeq(bytes, 1, n), !.pending = Skip(bytes, n)]

(* Faulty variant: a buffer that was not written whole is sent again from  *)
(* its start. *)
SendPendingBufferAgain(link) ==
    [Written(link, link.pending) EXCEPT
        !.pending = IF @ = <<>> THEN <<>>
                    ELSE SubSeq(Bytes(Head(@)[1]), 1, Head(@)[2] - 1) \o @]

SendPendingBuffer(link) == Written(link, link.pending)

(* Faulty variant: the new message is written although others are pending. *)
SendMsgAtOnce(link, packet) ==
    [Written(link, Bytes(packet)) EXCEPT !.pending = link.pending \o @]

(* Subscriber::SendMsg: what is pending goes first. *)
SendMsg(link, packet) ==
    LET flushed == SendPendingBuffer(link)
    IN  IF flushed.pending = <<>> THEN Written(flushed, Bytes(packet))
        ELSE IF flushed.canWrite THEN [flushed EXCEPT !.pending = @ \o Bytes(packet)]
        ELSE flushed

(* PcSession::SendPacket, alike. *)
SendPacket(link, packet) ==
    LET flushed == SendPendingBuffer(link)
    IN  IF flushed.pending = <<>> THEN Written(flushed, Bytes(packet))
        ELSE IF flushed.canWrite THEN [flushed EXCEPT !.pending = @ \o Bytes(packet)]
        ELSE flushed

-----------------------------------------------------------------------------
(* The receivers.                                                          *)

Readable(link) == link.wire # <<>> /\ ~link.lost

(* HandleReadEvent: some bytes are read, the rest later.                   *)
Arrived(link, n) == Decode(PushBuffer(link.decoder, SubSeq(link.wire, 1, n)))

(* An invalid header makes the receiver give the connection up.            *)
OnMessage(link, n) ==
    LET decoder == Arrived(link, n).decoder
    IN  [link EXCEPT !.wire = Skip(@, n), !.decoder = decoder,
                     !.lost = InvalidHeader(decoder)]

-----------------------------------------------------------------------------
(* A frame of d comes from a car, gets its number (GetIpcPktSeqId counts   *)
(* from 0) and goes to pc_server.                                          *)
CarFrame(d, length) ==
    LET packet == [seq |-> Len(sent), device |-> d, length |-> length]
    IN  /\ Len(sent) < MaxFrames
        /\ up.canWrite
        /\ up' = SendMsg(up, packet)
        /\ sent' = Append(sent, packet)
        /\ UNCHANGED <<down, got>>

(* PcServer::OnClientMessage, PcPublisher::Publish: each packet goes to    *)
(* the viewers of its device that can be written to.                       *)
Publish(v, link, packet) ==
    IF packet.device = Watches[v] /\ link.canWrite THEN SendPacket(link, packet) ELSE link
PublishAll(packets) ==
    [v \in Viewers |->
        LET link[n \in 0..Len(packets)] ==
                IF n = 0 THEN down[v] ELSE Publish(v, link[n - 1], packets[n])
        IN  link[Len(packets)]]

(* Jt1078Client::OnMessage. *)
ClientReads ==
    /\ Readable(up)
    /\ \E n \in 1..Len(up.wire) :
           /\ n <= MaxRead
           /\ up' = OnMessage(up, n)
           /\ down' = PublishAll(Arrived(up, n).packets)
    /\ UNCHANGED <<sent, got>>

(* The viewer's program decodes alike. *)
ViewerReads(v) ==
    /\ Readable(down[v])
    /\ \E n \in 1..Len(down[v].wire) :
           /\ n <= MaxRead
           /\ down' = [down EXCEPT ![v] = OnMessage(down[v], n)]
           /\ got' = [got EXCEPT ![v] = @ \o Arrived(down[v], n).packets]
    /\ UNCHANGED <<up, sent>>

(* A connection is lost; a later write to it fails. *)
ClientLost ==
    /\ ~up.lost
    /\ up' = [up EXCEPT !.lost = TRUE, !.wire = <<>>]
    /\ UNCHANGED <<down, sent, got>>
ViewerLost(v) ==
    /\ ~down[v].lost
    /\ down' = [down EXCEPT ![v].lost = TRUE, ![v].wire = <<>>]
    /\ UNCHANGED <<up, sent, got>>

Next ==
    \/ \E d \in Devices, length \in BodyLengths : CarFrame(d, length)
    \/ ClientReads
    \/ ClientLost
    \/ \E v \in Viewers : ViewerReads(v) \/ ViewerLost(v)

Spec == Init /\ [][Next]_vars

(* The read events are level-triggered: the loop reads on while there is   *)
(* something to read.  This is the weak fairness of the two reads, with    *)
(* the guard they have written in place of ENABLED.                        *)
FairSpec ==
    /\ Spec
    /\ []<>~Readable(up) \/ []<><<ClientReads>>_vars
    /\ \A v \in Viewers : []<>~Readable(down[v]) \/ []<><<ViewerReads(v)>>_vars

-----------------------------------------------------------------------------
(* Properties.                                                             *)

(* The packets of v's device.                                              *)
MeantFor(v, packets) ==
    FlattenSeq([i \in 1..Len(packets) |->
        IF packets[i].device = Watches[v] THEN <<packets[i]>> ELSE <<>>])

Channel == INSTANCE FrameChannel
           WITH Frames <- Packets, sent <- [v \in Viewers |-> MeantFor(v, sent)], received <- got

(* Through both hops, both lists of pending buffers and any cuts of the    *)
(* byte streams every viewer gets the frames of its device in order, whole *)
(* and once.                                                               *)
ImplementsChannel == Channel!Spec

(* What is under way on a link, from the oldest byte, is exactly packets.  *)
Carries(link, packets) == Held(link.decoder) \o link.wire \o link.pending = AllBytes(packets)

(* While the connections last no byte is lost, doubled or moved by partial *)
(* writes, on either hop or between them: k packets have come through      *)
(* pc_server and everything else is still under way to it; each viewer has *)
(* the first of those for it and the others are under way.                 *)
NothingLost ==
    ~up.lost =>
        \E k \in 0..Len(sent) :
            /\ Carries(up, Skip(sent, k))
            /\ \A v \in Viewers :
                   LET mine == MeantFor(v, SubSeq(sent, 1, k))
                   IN  /\ got[v] = SubSeq(mine, 1, Len(got[v]))
                       /\ ~down[v].lost => Carries(down[v], Skip(mine, Len(got[v])))

(* No receiver gives up a connection for an invalid header, and m_buffer   *)
(* never holds a whole packet between two reads, so that it cannot fill up *)
(* and drop bytes.                                                         *)
NeverMisframed ==
    \A link \in {up} \cup {down[v] : v \in Viewers} : Framed(link.decoder)

(* In the end each viewer has every frame of its device, unless a          *)
(* connection was lost or bytes wait for a next frame that never comes:    *)
(* only SendMsg and SendPacket write what is pending.                      *)
Settled(v) ==
    \/ got[v] = MeantFor(v, sent)
    \/ up.lost \/ down[v].lost
    \/ up.pending # <<>> \/ down[v].pending # <<>>
ArrivesInTheEnd == \A v \in Viewers : <>[]Settled(v)
=============================================================================
