--------------------------- MODULE Jt1078Decoder ---------------------------
(***************************************************************************)
(* From the bytes of a car's connection to JT1078 packets: CarSession's    *)
(* ParseBuffer and the decoder with its three states.  The header comes in *)
(* two parts, and only the first tells how long the second is.  A byte is  *)
(* the number of its packet and its place in it; ForwardServer has the     *)
(* whole packets.                                                          *)
(***************************************************************************)
EXTENDS Naturals, Sequences, SequencesExt

CONSTANTS First,            \* READ_SIZE_FOR_HEADER_FIRST
          MinSecond,        \* READ_MIN_SIZE_FOR_HEADER_SECOND, all that "route" has
          AudioSecond, VideoSecond,     \* READ_..._SIZE_FOR_HEADER_SECOND
          MaxBody,          \* JT1078_MAX_LENGTH
          MaxBuffer,        \* MAX_BUFFER_SIZE
          MaxRead,          \* MAX_SIZE_ONCE_READ
          MaxPackets        \* bound of the model: packets the car sends

ASSUME DecoderAssumption ==
    /\ {First, MinSecond, MaxRead} \subseteq Nat \ {0}
    /\ {AudioSecond, VideoSecond, MaxBody, MaxBuffer, MaxPackets} \subseteq Nat
    /\ MinSecond <= AudioSecond /\ AudioSecond <= VideoSecond
    /\ First + VideoSecond + MaxBody + MaxRead <= MaxBuffer

Second == [video |-> VideoSecond, audio |-> AudioSecond, route |-> MinSecond]

(* What a car may send: "mark" has a first part the decoder refuses.  A    *)
(* body may be said to be longer than MaxBody.                             *)
Packets == [kind : DOMAIN Second, mark : BOOLEAN, body : 0..MaxBody + 1]
Valid(p) == p.mark /\ p.body <= MaxBody

VARIABLES car,      \* the packets the car sends
          read,     \* how many of their bytes have been read
          buffer,   \* m_buffer's readable bytes
          status,   \* m_read_status
          packet,   \* m_packet: the bytes read into it
          howmuch,  \* m_howmuch
          got,      \* the packets given to Jt1078Server, each as its bytes
          open      \* the CarSession exists

decoderVars == <<car, read, buffer, status, packet, howmuch, got, open>>

Length(p) == First + Second[p.kind] + p.body
Bytes(i) == [o \in 1..Length(car[i]) |-> <<i, o>>]
Stream == FlattenSeq([i \in DOMAIN car |-> Bytes(i)])

Byte == (1..MaxPackets) \X (1..First + VideoSecond + MaxBody + 1)
DecoderTypeOK ==
    /\ car \in Seq(Packets) /\ Len(car) <= MaxPackets
    /\ read \in 0..Len(Stream)
    /\ buffer \in Seq(Byte) /\ Len(buffer) <= MaxBuffer
    /\ status \in {"header1", "header2", "body"}
    /\ packet \in Seq(Byte) /\ Len(packet) <= First + VideoSecond + MaxBody
    /\ howmuch \in Nat
    /\ got \in Seq(Seq(Byte))
    /\ open \in BOOLEAN
    /\ status # "header1" => Len(packet) >= First

DecoderInit ==
    /\ car \in UNION {[1..n -> Packets] : n \in 0..MaxPackets}
    /\ read = 0
    /\ buffer = <<>>
    /\ status = "header1"
    /\ packet = <<>>
    /\ howmuch = First
    /\ got = <<>>
    /\ open = TRUE

-----------------------------------------------------------------------------
(* The decoder's state as a record, and its steps: each gives the state it *)
(* leaves, the error and, from ParseBody, that a packet is complete.       *)

Decoder == [buffer |-> buffer, status |-> status, packet |-> packet, howmuch |-> howmuch]
Result(d, error, done) == [d |-> d, error |-> error, done |-> done]
NeedMoreData(d) == Result(d, "kNeedMoreData", FALSE)
InvalidHeader(d) == Result(d, "kInvalidHeader", FALSE)

(* n bytes move from the buffer to the packet.                             *)
Take(d, n) == [d EXCEPT !.packet = @ \o SubSeq(d.buffer, 1, n),
                        !.buffer = SubSeq(@, n + 1, Len(@))]

(* The first byte read is the first of a packet whose mark is right.       *)
MarkIsRight(d) == d.buffer[1][2] = 1 /\ car[d.buffer[1][1]].mark

(* Faulty variant: the second part is waited for as if it were video. *)
ParseHeaderStep1ForVideo(d) ==
    LET cleared == [d EXCEPT !.packet = <<>>]
    IN  IF Len(d.buffer) < d.howmuch THEN NeedMoreData(cleared)
        ELSE IF ~MarkIsRight(d) THEN InvalidHeader(cleared)
        ELSE Result([Take(cleared, First) EXCEPT !.status = "header2", !.howmuch = VideoSecond],
                    "kNoError", FALSE)

ParseHeaderStep1(d) ==
    LET cleared == [d EXCEPT !.packet = <<>>]
    IN  IF Len(d.buffer) < d.howmuch THEN NeedMoreData(cleared)
        ELSE IF ~MarkIsRight(d) THEN InvalidHeader(cleared)
        ELSE Result([Take(cleared, First) EXCEPT !.status = "header2", !.howmuch = MinSecond],
                    "kNoError", FALSE)

(* Faulty variant: video needs no more than the minimum. *)
ParseHeaderStep2Early(d) ==
    LET p == car[d.packet[1][1]]
    IN  IF Len(d.buffer) < d.howmuch THEN NeedMoreData(d)
        ELSE IF p.body > MaxBody THEN InvalidHeader(d)
        ELSE Result([Take(d, d.howmuch) EXCEPT !.status = "body", !.howmuch = p.body],
                    "kNoError", FALSE)

(* The minimum first, then what this kind of packet has.                   *)
ParseHeaderStep2(d) ==
    LET p == car[d.packet[1][1]]
    IN  IF Len(d.buffer) < d.howmuch \/ Len(d.buffer) < Second[p.kind] THEN NeedMoreData(d)
        ELSE IF p.body > MaxBody THEN InvalidHeader(d)
        ELSE Result([Take(d, Second[p.kind]) EXCEPT !.status = "body", !.howmuch = p.body],
                    "kNoError", FALSE)

ParseBody(d) ==
    IF Len(d.buffer) < d.howmuch THEN NeedMoreData(d)
    ELSE Result([Take(d, d.howmuch) EXCEPT !.status = "header1", !.howmuch = First],
                "kNoError", TRUE)

Step(d) ==
    CASE d.status = "header1" -> ParseHeaderStep1(d)
      [] d.status = "header2" -> ParseHeaderStep2(d)
      [] d.status = "body"    -> ParseBody(d)

(* A turn of the loops of Decode and of ParseBuffer around it, unless the  *)
(* want of data or an error has ended them; packets are those completed.   *)
Turn(parsed) ==
    LET r == Step(parsed.d)
    IN  IF parsed.error # "kNoError" THEN parsed
        ELSE [d |-> r.d, error |-> r.error,
              packets |-> IF r.done THEN Append(parsed.packets, r.d.packet) ELSE parsed.packets]

(* What there is after each turn.  A turn takes bytes off the buffer, or   *)
(* completes a packet without a body, or is the last.                      *)
Turns(d) ==
    LET turn[n \in 0..2 * Len(d.buffer) + 2] ==
            IF n = 0 THEN [d |-> d, error |-> "kNoError", packets |-> <<>>]
            ELSE Turn(turn[n - 1])
    IN  turn

ParseBuffer(d) == Turns(d)[2 * Len(d.buffer) + 2]

(* CarSession::OnMessage with the next n bytes.  An error makes            *)
(* Jt1078Server drop the session.                                          *)
OnMessage(n) ==
    /\ open
    /\ n <= Len(Stream) - read
    /\ read' = read + n
    /\ LET bytes == SubSeq(Stream, read + 1, read + n)
           r     == ParseBuffer([Decoder EXCEPT !.buffer = @ \o bytes])
       IN  IF Len(buffer) + n > MaxBuffer      \* kBufferFull
           THEN open' = FALSE /\ UNCHANGED <<buffer, status, packet, howmuch, got>>
           ELSE /\ buffer' = r.d.buffer
                /\ status' = r.d.status
                /\ packet' = r.d.packet
                /\ howmuch' = r.d.howmuch
                /\ got' = got \o r.packets
                /\ open' = (r.error = "kNeedMoreData")
    /\ UNCHANGED car

DecoderNext == \E n \in 1..MaxRead : OnMessage(n)

DecoderSpec == DecoderInit /\ [][DecoderNext]_decoderVars

-----------------------------------------------------------------------------
(* Properties.                                                             *)

(* The packets before the first invalid one whose last byte has been read. *)
EndOf(i) == Len(FlattenSeq([j \in 1..i |-> Bytes(j)]))
Complete == {i \in DOMAIN car : (\A j \in 1..i : Valid(car[j])) /\ EndOf(i) <= read}

(* However the stream is cut, the server has got exactly the packets that  *)
(* have arrived whole: no one is lost, repeated, torn or kept waiting for  *)
(* the next read.                                                          *)
GotWhatArrived ==
    /\ Len(got) = Cardinality(Complete)
    /\ \A i \in DOMAIN got : i \in Complete /\ got[i] = Bytes(i)

(* A session is dropped only for a packet that is invalid, as soon as the  *)
(* part of its header that shows it has arrived; the buffer is never full. *)
DroppedForCause ==
    open <=> \A i \in DOMAIN car :
        (\A j \in 1..i - 1 : Valid(car[j])) /\ ~Valid(car[i]) =>
            read < EndOf(i - 1) + First + (IF car[i].mark THEN Second[car[i].kind] ELSE 0)
=============================================================================
