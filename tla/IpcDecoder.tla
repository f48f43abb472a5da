----------------------------- MODULE IpcDecoder -----------------------------
(***************************************************************************)
(* ipc::decoder_t cuts a byte stream into packets again.  A byte, or a     *)
(* word of several, is <<packet, position>>: what it is a piece of.  A     *)
(* decoder is a record of m_buffer and the header of the packet whose body *)
(* it waits for (m_read_status, m_howmuch).                                *)
(*                                                                         *)
(* A stream may begin in the middle of a packet, when the decoder outlives *)
(* its connection.  The first word of a header, m_uHeadLength, is taken to *)
(* be one that no other piece of a packet looks like.                      *)
(***************************************************************************)
EXTENDS Naturals, Sequences, SequencesExt

CONSTANTS HeaderLength,     \* sizeof(packet_t)
          MaxBuffer,        \* MAX_BUFFER_SIZE
          NoHeader,         \* no packet: m_read_status is kReadHeader
          Garbled           \* the number of a packet with words of others in its body,
                            \* and its device if the body's first word is one of them

ASSUME DecoderAssumption == {HeaderLength, MaxBuffer} \subseteq Nat \ {0}

Decoders(packets) == [buffer : Seq(packets \X Nat), header : packets \cup {NoHeader}]

NewDecoder == [buffer |-> <<>>, header |-> NoHeader]

Bytes(packet) == [i \in 1..(HeaderLength + packet.length) |-> <<packet, i>>]
Body(packet) == SubSeq(Bytes(packet), HeaderLength + 1, HeaderLength + packet.length)
AllBytes(packets) == FlattenSeq([i \in 1..Len(packets) |-> Bytes(packets[i])])

Skip(bytes, n) == SubSeq(bytes, n + 1, Len(bytes))

(* PushBuffer: kBufferFull leaves the buffer as it is. *)
PushBuffer(decoder, bytes) ==
    IF Len(decoder.buffer) + Len(bytes) > MaxBuffer THEN decoder
    ELSE [decoder EXCEPT !.buffer = @ \o bytes]

(* m_uHeadLength, the first word of the buffer, is not sizeof(packet_t).   *)
(* The words behind it are then not a header either.                       *)
InvalidHeader(decoder) ==
    /\ decoder.header = NoHeader /\ Len(decoder.buffer) >= HeaderLength
    /\ \E i \in 1..HeaderLength : decoder.buffer[i] # <<Head(decoder.buffer)[1], i>>

(* ParseHeader, unless the header is there already; an invalid one stays   *)
(* in the buffer.                                                          *)
ParseHeader(decoder) ==
    IF \/ decoder.header # NoHeader
       \/ Len(decoder.buffer) < HeaderLength \/ InvalidHeader(decoder) THEN decoder
    ELSE [buffer |-> Skip(decoder.buffer, HeaderLength), header |-> Head(decoder.buffer)[1]]

(* ParseBody, where whatever comes next is taken for the body. *)
BodyMissing(decoder) ==
    decoder.header = NoHeader \/ Len(decoder.buffer) < decoder.header.length
ParseBody(decoder) ==
    [buffer |-> Skip(decoder.buffer, decoder.header.length), header |-> NoHeader]
GetPacket(decoder) ==
    IF SubSeq(decoder.buffer, 1, decoder.header.length) = Body(decoder.header) THEN decoder.header
    ELSE [decoder.header EXCEPT
             !.seq = Garbled,
             !.device = IF decoder.buffer[1] = Body(decoder.header)[1] THEN @ ELSE Garbled]

(* A turn of the loop: Decode, and GetPacket if a packet is complete.      *)
Turn(decoded) ==
    LET parsed == ParseHeader(decoded.decoder)
    IN  IF BodyMissing(parsed) THEN [decoded EXCEPT !.decoder = parsed]
        ELSE [decoder |-> ParseBody(parsed), packets |-> Append(decoded.packets, GetPacket(parsed))]

(* What there is after each turn.  Every turn takes a header off the       *)
(* buffer, or the first one that was there before; the last changes        *)
(* nothing more.                                                           *)
Turns(decoder) ==
    LET turn[n \in 0..Len(decoder.buffer) + 1] ==
            IF n = 0 THEN [decoder |-> decoder, packets |-> <<>>] ELSE Turn(turn[n - 1])
    IN  turn

(* Faulty variant: the loop ends after one packet. *)
DecodeOnce(decoder) == Turns(decoder)[1]

(* Faulty variant: a header whose body is not there yet is forgotten. *)
DecodeForgetful(decoder) ==
    [Turns(decoder)[Len(decoder.buffer) + 1] EXCEPT !.decoder.header = NoHeader]

(* The loop over Decode, as its callers write it: the packets that are     *)
(* complete.                                                               *)
Decode(decoder) == Turns(decoder)[Len(decoder.buffer) + 1]

(* Between two reads m_buffer never holds a whole packet, so that it       *)
(* cannot fill up, and never begins with anything but a header.            *)
Framed(decoder) ==
    /\ ~InvalidHeader(decoder)
    /\ decoder.header = NoHeader => Len(decoder.buffer) < HeaderLength
    /\ decoder.header # NoHeader => Len(decoder.buffer) < decoder.header.length

(* The bytes a decoder has read and not given away as packets.             *)
Held(decoder) ==
    (IF decoder.header = NoHeader THEN <<>> ELSE SubSeq(Bytes(decoder.header), 1, HeaderLength))
        \o decoder.buffer
=============================================================================
