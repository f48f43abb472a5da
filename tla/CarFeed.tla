------------------------------ MODULE CarFeed ------------------------------
(***************************************************************************)
(* The frames new_web_server gets from jt1078_server and publishes to the  *)
(* browsers: CarTcpClient reads blocks of a fixed size, feeds them to its  *)
(* ipc::decoder_t, and CarTopicManager's topics hand each packet to their  *)
(* members.  CarWebServer is about the connection and the requests; here   *)
(* the topics stay, and a connection is only what it carries.  Where       *)
(* connections end within a packet the unit is a word of sizeof(packet_t), *)
(* 16 bytes: HeaderLength is 1, so that no header is ever cut.             *)
(***************************************************************************)
EXTENDS IpcDecoder

CONSTANTS Channels,
          Audience,
          TopicOf,          \* [Audience -> Channels]: the topic each browser is in
          FrameLengths,     \* lengths of the packets' bodies
          Block,            \* the size of m_readBuffer
          FeedFrames,       \* bound of the model: frames on a connection
          MaxBreaks         \* bound of the model: connections that end

FeedPackets == [connection : 0..MaxBreaks, seq : 0..FeedFrames, device : Channels,
                length : FrameLengths]
Garbles == [connection : 0..MaxBreaks, seq : {Garbled}, device : Channels \cup {Garbled},
            length : FrameLengths]

ASSUME FeedAssumption ==
    /\ TopicOf \in [Audience -> Channels]
    /\ FrameLengths \subseteq Nat \ {0} /\ Block \in Nat \ {0}
    /\ FeedFrames \in Nat /\ MaxBreaks \in Nat
    /\ NoHeader \notin FeedPackets
    \* 500 kB, and a 16-bit length of what follows the header
    /\ \A length \in FrameLengths \cup {HeaderLength} : length + Block <= MaxBuffer

VARIABLES wire,     \* what async_read has, less than m_readBuffer, and what the kernel holds
          decoder,  \* m_ipc_decoder: its m_buffer and header
          feed,     \* history: the packets jt1078_server has sent on this connection
          shown,    \* history: those each browser has got of this connection
          clean,    \* history: every connection has ended between two packets
          breaks    \* connections that have ended

feedVars == <<wire, decoder, feed, shown, clean, breaks>>

FeedTypeOK ==
    /\ wire \in Seq(FeedPackets \X Nat)
    /\ decoder \in Decoders(FeedPackets)
    /\ Len(decoder.buffer) <= MaxBuffer
    /\ feed \in Seq(FeedPackets) /\ Len(feed) <= FeedFrames
    /\ shown \in [Audience -> Seq(FeedPackets \cup Garbles)]
    /\ clean \in BOOLEAN
    /\ breaks \in 0..MaxBreaks

FeedInit ==
    /\ wire = <<>>
    /\ decoder = NewDecoder
    /\ feed = <<>>
    /\ shown = [v \in Audience |-> <<>>]
    /\ clean = TRUE
    /\ breaks = 0

-----------------------------------------------------------------------------
(* jt1078_server sends a packet of d; on each connection it counts from 0. *)
Frame(d, length) ==
    LET packet == [connection |-> breaks, seq |-> Len(feed), device |-> d, length |-> length]
    IN  /\ Len(feed) < FeedFrames
        /\ wire' = wire \o Bytes(packet)
        /\ feed' = Append(feed, packet)
        /\ UNCHANGED <<decoder, shown, clean, breaks>>

(* ProcessIpcPacketCompleted, UpdateData and Publish: a browser gets the   *)
(* packets of its topic.                                                   *)
Published(v, packets) ==
    FlattenSeq([i \in 1..Len(packets) |->
        IF packets[i].device = TopicOf[v] THEN <<packets[i]>> ELSE <<>>])

(* async_read completes when m_readBuffer is full; HandlerReadBuffer       *)
(* decodes what can be decoded, and reading goes on whatever the error.    *)
HandlerReadBuffer ==
    LET decoded == Decode(PushBuffer(decoder, SubSeq(wire, 1, Block)))
    IN  /\ Len(wire) >= Block
        /\ wire' = Skip(wire, Block)
        /\ decoder' = decoded.decoder
        /\ shown' = [v \in Audience |-> shown[v] \o Published(v, decoded.packets)]
        /\ UNCHANGED <<feed, clean, breaks>>

(* Faulty variant: the next connection goes on with what was not read. *)
ReConnectKeeping ==
    /\ breaks < MaxBreaks
    /\ breaks' = breaks + 1
    /\ clean' = (clean /\ decoder = NewDecoder)
    /\ feed' = <<>>
    /\ shown' = [v \in Audience |-> <<>>]
    /\ UNCHANGED <<wire, decoder>>

(* The connection ends, HandlerReadError drops what the block holds so     *)
(* far, and the client connects again; the decoder stays as it is.         *)
ReConnect ==
    /\ breaks < MaxBreaks
    /\ breaks' = breaks + 1
    /\ clean' = (clean /\ decoder = NewDecoder)
    /\ wire' = <<>>
    /\ feed' = <<>>
    /\ shown' = [v \in Audience |-> <<>>]
    /\ UNCHANGED decoder

FeedNext ==
    \/ \E d \in Channels, length \in FrameLengths : Frame(d, length)
    \/ HandlerReadBuffer
    \/ ReConnect

FeedSpec == FeedInit /\ [][FeedNext]_feedVars

-----------------------------------------------------------------------------
(* Properties.                                                             *)

(* As long as connections end between two packets, k packets of the        *)
(* present one have come to the browsers, each in its order, whole and     *)
(* once, and of the blocks read only the beginning of the next is kept     *)
(* back: a frame is late by less than a block.                             *)
NothingWithheld ==
    clean =>
        /\ Framed(decoder)
        /\ \E k \in 0..Len(feed) :
               /\ Held(decoder) \o wire = AllBytes(Skip(feed, k))
               /\ \A v \in Audience : shown[v] = Published(v, SubSeq(feed, 1, k))
=============================================================================
