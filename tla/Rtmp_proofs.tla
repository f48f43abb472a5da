---------------------------- MODULE Rtmp_proofs ----------------------------
(***************************************************************************)
(* Proofs about the three parts of a device's stream.  FrameAssembly: what *)
(* is missing damages one frame only, for any number of frames and packets *)
(* per frame.  IdrFrame: frames of any length are marked as key frames     *)
(* exactly when they hold a key unit.  RtmpTimeline: what is pushed keeps  *)
(* its distance from the first frame, and silence keeps pace with video,   *)
(* for any clock and any number of frames.                                 *)
(***************************************************************************)
EXTENDS FrameAssembly, IdrFrame, RtmpTimeline, TLAPS

(* Unless a packet was missed, a medium's buffer holds what the car has    *)
(* sent of the frame it is sending, or nothing if that one is complete.    *)
BufferIsPrefix ==
    \A m \in Media :
        ~gap[m] => IF part[m] = parts[m] THEN buffer[m] = <<>>
                   ELSE /\ Len(buffer[m]) = part[m]
                        /\ \A i \in 1..part[m] : buffer[m][i] = <<frame[m], i>>

(* The car sends within a frame; frames and packets count from 1.          *)
PartInFrame ==
    \A m \in Media : /\ part[m] <= parts[m]
                     /\ frame[m] = 0 \/ part[m] = 0 => parts[m] = 0

(* The inductive invariant. *)
IInv ==
    /\ TypeOK
    /\ PartInFrame
    /\ BufferIsPrefix

-----------------------------------------------------------------------------
LEMMA InitInv == Init => IInv
<1> SUFFICES ASSUME Init PROVE IInv
  OBVIOUS
<1>1. TypeOK
  <2>1. <<>> \in Seq(Packets) /\ 0 \in 0..MaxFrames /\ 0 \in 0..MaxParts
    BY AssemblyAssumption
  <2>2. QED
    BY <2>1 DEF Init, TypeOK
<1>2. PartInFrame /\ BufferIsPrefix
  BY DEF Init, PartInFrame, BufferIsPrefix
<1>3. QED
  BY <1>1, <1>2 DEF IInv

(* What CarSends does to the car, and that the packet is one.              *)
LEMMA CarSendsFacts ==
    ASSUME IInv, NEW m \in Media, CarSends(m)
    PROVE  /\ frame' \in [Media -> 0..MaxFrames]
           /\ part' \in [Media -> 0..MaxParts]
           /\ parts' \in [Media -> 0..MaxParts]
           /\ PartInFrame'
           /\ Packet(m) \in Packets
           /\ \A n \in Media \ {m} : /\ frame'[n] = frame[n]
                                     /\ part'[n] = part[n]
                                     /\ parts'[n] = parts[n]
           /\ ~gap[m] => /\ Len(buffer[m]) = part'[m] - 1
                         /\ \A i \in 1..part'[m] - 1 : buffer[m][i] = <<frame'[m], i>>
<1>1. CASE /\ part[m] = parts[m] /\ frame[m] < MaxFrames
           /\ \E n \in 1..MaxParts : parts' = [parts EXCEPT ![m] = n]
           /\ frame' = [frame EXCEPT ![m] = @ + 1]
           /\ part' = [part EXCEPT ![m] = 1]
  <2>1. PICK k \in 1..MaxParts : parts' = [parts EXCEPT ![m] = k]
    BY <1>1
  <2>2. /\ parts' \in [Media -> 0..MaxParts] /\ parts'[m] = k
        /\ \A n \in Media \ {m} : parts'[n] = parts[n]
    BY <2>1, AssemblyAssumption DEF IInv, TypeOK
  <2>3. /\ part' \in [Media -> 0..MaxParts] /\ part'[m] = 1
        /\ \A n \in Media \ {m} : part'[n] = part[n]
    BY <1>1, AssemblyAssumption DEF IInv, TypeOK
  <2>4. frame[m] \in Nat /\ frame[m] + 1 \in 1..MaxFrames
    BY <1>1, AssemblyAssumption DEF IInv, TypeOK
  <2>5. /\ frame' \in [Media -> 0..MaxFrames] /\ frame'[m] = frame[m] + 1
        /\ \A n \in Media \ {m} : frame'[n] = frame[n]
    BY <1>1, <2>4 DEF IInv, TypeOK
  <2>6. ASSUME NEW n \in Media
        PROVE  part'[n] <= parts'[n] /\ (frame'[n] = 0 \/ part'[n] = 0 => parts'[n] = 0)
    <3>1. CASE n = m
      BY <2>1, <2>2, <2>3, <2>4, <2>5, <3>1
    <3>2. CASE n # m
      <4>1. frame'[n] = frame[n] /\ part'[n] = part[n] /\ parts'[n] = parts[n]
        BY <2>2, <2>3, <2>5, <3>2
      <4> QED
        BY <4>1 DEF IInv, PartInFrame
    <3> QED
      BY <3>1, <3>2
  <2>7. Packet(m) \in Packets
    BY <2>3, <2>4, <2>5, AssemblyAssumption DEF Packet, Packets
  <2>8. ~gap[m] => buffer[m] = <<>>
    BY <1>1 DEF IInv, BufferIsPrefix
  <2>9. PartInFrame'
    BY <2>6 DEF PartInFrame
  <2>10. QED
    BY <2>2, <2>3, <2>5, <2>7, <2>8, <2>9
<1>2. CASE /\ part[m] < parts[m]
           /\ part' = [part EXCEPT ![m] = @ + 1]
           /\ UNCHANGED <<frame, parts>>
  <2>1. frame[m] \in 1..MaxFrames /\ part[m] \in Nat /\ parts[m] \in 0..MaxParts
    BY <1>2, AssemblyAssumption DEF IInv, TypeOK, PartInFrame
  <2>2. /\ part' \in [Media -> 0..MaxParts] /\ part'[m] = part[m] + 1
        /\ \A n \in Media \ {m} : part'[n] = part[n]
    BY <1>2, <2>1, AssemblyAssumption DEF IInv, TypeOK
  <2>3. Packet(m) \in Packets
    BY <1>2, <2>1, <2>2 DEF Packet, Packets
  <2>4. PartInFrame'
    BY <1>2, <2>1, <2>2, AssemblyAssumption DEF IInv, TypeOK, PartInFrame
  <2>5. QED
    BY <1>2, <2>1, <2>2, <2>3, <2>4 DEF IInv, TypeOK, BufferIsPrefix
<1>3. QED
  BY <1>1, <1>2 DEF CarSends

LEMMA ProcessInv ==
    ASSUME IInv, NEW m \in Media, ProcessJt1078Packet(m)
    PROVE  IInv'
<1>1. CarSends(m) /\ client /\ client' = client
  BY DEF ProcessJt1078Packet
<1>0. /\ frame' \in [Media -> 0..MaxFrames]
      /\ part' \in [Media -> 0..MaxParts]
      /\ parts' \in [Media -> 0..MaxParts]
      /\ PartInFrame'
      /\ \A n \in Media \ {m} : /\ frame'[n] = frame[n]
                                /\ part'[n] = part[n]
                                /\ parts'[n] = parts[n]
  BY <1>1, CarSendsFacts
<1>2. /\ buffer \in [Media -> Seq(Packets)] /\ Packet(m) \in Packets
      /\ Append(buffer[m], Packet(m)) \in Seq(Packets)
      /\ <<>> \in Seq(Packets)
  BY <1>1, CarSendsFacts DEF IInv, TypeOK
<1>3. CASE Completes(m)
  <2>1. /\ buffer' = [buffer EXCEPT ![m] = <<>>]
        /\ gap' = [gap EXCEPT ![m] = FALSE]
        /\ written' \in [Media -> Seq(Packets)]
    BY <1>2, <1>3 DEF ProcessJt1078Packet, Complete, IInv, TypeOK
  <2>2. TypeOK'
    BY <1>0, <1>1, <1>2, <2>1 DEF IInv, TypeOK
  <2>3. BufferIsPrefix'
    <3> SUFFICES ASSUME NEW n \in Media, ~gap'[n]
                 PROVE  IF part'[n] = parts'[n] THEN buffer'[n] = <<>>
                        ELSE /\ Len(buffer'[n]) = part'[n]
                             /\ \A i \in 1..part'[n] : buffer'[n][i] = <<frame'[n], i>>
      BY DEF BufferIsPrefix
    <3>1. CASE n = m
      BY <1>3, <2>1, <3>1 DEF IInv, TypeOK, Completes
    <3>2. CASE n # m
      <4>1. buffer'[n] = buffer[n] /\ gap'[n] = gap[n]
        BY <2>1, <3>2 DEF IInv, TypeOK
      <4>2. frame'[n] = frame[n] /\ part'[n] = part[n] /\ parts'[n] = parts[n]
        BY <1>0, <3>2
      <4>3. QED
        BY <4>1, <4>2 DEF IInv, BufferIsPrefix
    <3>3. QED
      BY <3>1, <3>2
  <2>4. QED
    BY <1>0, <2>2, <2>3 DEF IInv
<1>4. CASE ~Completes(m)
  <2>1. /\ buffer' = [buffer EXCEPT ![m] = Append(@, Packet(m))]
        /\ gap' = gap /\ written' = written
    BY <1>4 DEF ProcessJt1078Packet, Collect
  <2>2. TypeOK'
    BY <1>0, <1>1, <1>2, <2>1 DEF IInv, TypeOK
  <2>3. ~gap[m] => /\ Len(buffer'[m]) = part'[m]
                   /\ \A i \in 1..part'[m] : buffer'[m][i] = <<frame'[m], i>>
    <3>1. part'[m] \in Nat
      BY <1>1, CarSendsFacts
    <3>2. buffer'[m] = Append(buffer[m], <<frame'[m], part'[m]>>)
      BY <2>1 DEF Packet, IInv, TypeOK
    <3>3. ~gap[m] => /\ Len(buffer[m]) = part'[m] - 1
                     /\ \A i \in 1..part'[m] - 1 : buffer[m][i] = <<frame'[m], i>>
      BY <1>1, CarSendsFacts
    <3>4. QED
      BY <1>2, <3>1, <3>2, <3>3
  <2>4. BufferIsPrefix'
    <3> SUFFICES ASSUME NEW n \in Media, ~gap'[n]
                 PROVE  IF part'[n] = parts'[n] THEN buffer'[n] = <<>>
                        ELSE /\ Len(buffer'[n]) = part'[n]
                             /\ \A i \in 1..part'[n] : buffer'[n][i] = <<frame'[n], i>>
      BY DEF BufferIsPrefix
    <3>1. CASE n = m
      BY <1>4, <2>1, <2>3, <3>1 DEF Completes
    <3>2. CASE n # m
      <4>1. buffer'[n] = buffer[n] /\ gap'[n] = gap[n]
        BY <2>1, <3>2 DEF IInv, TypeOK
      <4>2. frame'[n] = frame[n] /\ part'[n] = part[n] /\ parts'[n] = parts[n]
        BY <1>0, <3>2
      <4>3. QED
        BY <4>1, <4>2 DEF IInv, BufferIsPrefix
    <3>3. QED
      BY <3>1, <3>2
  <2>5. QED
    BY <1>0, <2>2, <2>4 DEF IInv
<1>5. QED
  BY <1>3, <1>4

LEMMA ProcessingFailsInv ==
    ASSUME IInv, NEW m \in Media, ProcessingFails(m)
    PROVE  IInv'
<1>1. CarSends(m) /\ client' = FALSE /\ written' = written
  BY DEF ProcessingFails, ReleaseRtmpClient
<1>0. /\ frame' \in [Media -> 0..MaxFrames]
      /\ part' \in [Media -> 0..MaxParts]
      /\ parts' \in [Media -> 0..MaxParts]
      /\ PartInFrame'
      /\ \A n \in Media \ {m} : /\ frame'[n] = frame[n]
                                /\ part'[n] = part[n]
                                /\ parts'[n] = parts[n]
  BY <1>1, CarSendsFacts
<1>2. /\ buffer' = [n \in Media |-> <<>>]
      /\ gap' = [n \in Media |-> gap[n] \/ n \in {m} \/ buffer[n] # <<>>]
  BY DEF ProcessingFails, ReleaseRtmpClient
<1>3. TypeOK'
  <2>1. buffer' \in [Media -> Seq(Packets)] /\ \A n \in Media : buffer'[n] = <<>>
    BY <1>2
  <2>2. gap' \in [Media -> BOOLEAN]
    BY <1>2 DEF IInv, TypeOK
  <2>3. QED
    BY <1>0, <1>1, <2>1, <2>2 DEF IInv, TypeOK
<1>4. BufferIsPrefix'
  <2> SUFFICES ASSUME NEW n \in Media, ~gap'[n] PROVE part'[n] = parts'[n] /\ buffer'[n] = <<>>
    BY DEF BufferIsPrefix
  <2>1. n # m /\ ~gap[n] /\ buffer[n] = <<>>
    BY <1>2
  <2>2. part[n] = parts[n]
    BY <2>1 DEF IInv, TypeOK, BufferIsPrefix, PartInFrame
  <2>3. QED
    BY <1>0, <1>2, <2>1, <2>2
<1>5. QED
  BY <1>0, <1>3, <1>4 DEF IInv

LEMMA PacketMissedInv ==
    ASSUME IInv, NEW m \in Media, PacketMissed(m)
    PROVE  IInv'
<1>1. CarSends(m) /\ gap' = [gap EXCEPT ![m] = TRUE] /\ UNCHANGED <<client, buffer, written>>
  BY DEF PacketMissed
<1>0. /\ frame' \in [Media -> 0..MaxFrames]
      /\ part' \in [Media -> 0..MaxParts]
      /\ parts' \in [Media -> 0..MaxParts]
      /\ PartInFrame'
      /\ \A n \in Media \ {m} : /\ frame'[n] = frame[n]
                                /\ part'[n] = part[n]
                                /\ parts'[n] = parts[n]
  BY <1>1, CarSendsFacts
<1>2. TypeOK'
  BY <1>0, <1>1 DEF IInv, TypeOK
<1>3. BufferIsPrefix'
  <2> SUFFICES ASSUME NEW n \in Media, ~gap'[n]
               PROVE  IF part'[n] = parts'[n] THEN buffer'[n] = <<>>
                      ELSE /\ Len(buffer'[n]) = part'[n]
                           /\ \A i \in 1..part'[n] : buffer'[n][i] = <<frame'[n], i>>
    BY DEF BufferIsPrefix
  <2>1. n # m /\ ~gap[n]
    BY <1>1 DEF IInv, TypeOK
  <2>2. /\ frame'[n] = frame[n] /\ part'[n] = part[n] /\ parts'[n] = parts[n]
        /\ buffer'[n] = buffer[n]
    BY <1>0, <1>1, <2>1
  <2>3. QED
    BY <2>1, <2>2 DEF IInv, BufferIsPrefix
<1>4. QED
  BY <1>0, <1>2, <1>3 DEF IInv

LEMMA UnsubscribedInv == IInv /\ Unsubscribed => IInv'
<1> SUFFICES ASSUME IInv, Unsubscribed PROVE IInv'
  OBVIOUS
<1>1. client' = FALSE /\ UNCHANGED <<frame, part, parts, written>>
  BY DEF Unsubscribed, ReleaseRtmpClient, carVars
<1>2. /\ buffer' = [n \in Media |-> <<>>]
      /\ gap' = [n \in Media |-> gap[n] \/ n \in {} \/ buffer[n] # <<>>]
  BY DEF Unsubscribed, ReleaseRtmpClient
<1>3. TypeOK'
  <2>1. buffer' \in [Media -> Seq(Packets)] /\ \A n \in Media : buffer'[n] = <<>>
    BY <1>2
  <2>2. gap' \in [Media -> BOOLEAN]
    BY <1>2 DEF IInv, TypeOK
  <2>3. QED
    BY <1>1, <2>1, <2>2 DEF IInv, TypeOK
<1>4. BufferIsPrefix'
  <2> SUFFICES ASSUME NEW n \in Media, ~gap'[n] PROVE part'[n] = parts'[n] /\ buffer'[n] = <<>>
    BY DEF BufferIsPrefix
  <2>1. ~gap[n] /\ buffer[n] = <<>>
    BY <1>2
  <2>2. part[n] = parts[n]
    BY <2>1 DEF IInv, TypeOK, BufferIsPrefix, PartInFrame
  <2>3. QED
    BY <1>1, <1>2, <2>2
<1>5. QED
  BY <1>1, <1>3, <1>4 DEF IInv, PartInFrame

LEMMA NextInv == IInv /\ [Next]_vars => IInv'
<1> SUFFICES ASSUME IInv, [Next]_vars PROVE IInv'
  OBVIOUS
<1>1. CASE CreateRtmpClient \/ UNCHANGED vars
  BY <1>1 DEF CreateRtmpClient, vars, carVars, IInv, TypeOK, PartInFrame, BufferIsPrefix
<1>2. CASE Unsubscribed
  BY <1>2, UnsubscribedInv
<1>3. CASE \E m \in Media : ProcessJt1078Packet(m)
  BY <1>3, ProcessInv
<1>4. CASE \E m \in Media : ProcessingFails(m)
  BY <1>4, ProcessingFailsInv
<1>5. CASE \E m \in Media : PacketMissed(m)
  BY <1>5, PacketMissedInv
<1>6. QED
  BY <1>1, <1>2, <1>3, <1>4, <1>5 DEF Next

(* Only completing a frame hands one over.                                 *)
LEMMA HandedOverWhole ==
    ASSUME IInv, [Next]_vars, NEW m \in Media, written'[m] # written[m], ~gap[m]
    PROVE  Whole(written'[m], parts'[m])
<1>1. PICK n \in Media : ProcessJt1078Packet(n)
  BY DEF Next, vars, CreateRtmpClient, Unsubscribed, ProcessingFails, PacketMissed
<1>2. Completes(n) /\ written' = [written EXCEPT ![n] = Append(buffer[n], Packet(n))]
  BY <1>1 DEF ProcessJt1078Packet, Complete, Collect
<1>3. m = n /\ written'[m] = Append(buffer[m], <<frame'[m], part'[m]>>)
  BY <1>2 DEF IInv, TypeOK, Packet
<1>4. /\ part'[m] \in 0..MaxParts
      /\ Packet(m) \in Packets
      /\ Len(buffer[m]) = part'[m] - 1
      /\ \A i \in 1..part'[m] - 1 : buffer[m][i] = <<frame'[m], i>>
  BY <1>1, <1>3, CarSendsFacts DEF ProcessJt1078Packet
<1>5. part'[m] \in Nat \ {0} /\ parts'[m] = part'[m] /\ buffer[m] \in Seq(Packets)
  BY <1>2, <1>3, <1>4 DEF Completes, Packet, Packets, IInv, TypeOK
<1>6. /\ Len(written'[m]) = part'[m]
      /\ \A i \in 1..part'[m] : written'[m][i] = <<frame'[m], i>>
  BY <1>3, <1>4, <1>5 DEF Packet
<1>7. QED
  BY <1>5, <1>6 DEF Whole

-----------------------------------------------------------------------------
(* The inductive invariant holds in every reachable state.                 *)
THEOREM Invariance == Spec => []IInv
BY InitInv, NextInv, PTL DEF Spec

(* Every variable keeps its type, and a device without a client has no     *)
(* packets collected.                                                      *)
THEOREM TypeCorrect == Spec => []TypeOK
<1>1. IInv => TypeOK
  BY DEF IInv
<1>2. QED
  BY <1>1, Invariance, PTL

(* RtmpClient hands over a whole frame whenever no packet was missed since *)
(* the frame before.                                                       *)
THEOREM GapsDamageOneFrame == Spec => OneDamagedFramePerGap
<1>1. IInv /\ [Next]_vars =>
          [\A m \in Media :
              written'[m] # written[m] /\ ~gap[m] => Whole(written'[m], parts'[m])]_vars
  BY HandedOverWhole
<1>2. QED
  BY <1>1, Invariance, PTL DEF Spec, OneDamagedFramePerGap

-----------------------------------------------------------------------------
(* IdrFrame.  The start codes that end before the place n ...              *)
Ends(n) == {j \in 2..n - 1 : j < Len(data) /\ StartCodeEnds(j)}

(* ... the last of which the present unit follows.                         *)
ScanTypeOK ==
    /\ data \in Seq(Nat)
    /\ at \in Nat /\ last \in Nat
    /\ 2 <= at /\ last <= at
    /\ at <= Len(data) + 1 \/ at = 2
    /\ key \in BOOLEAN

LastFollows ==
    /\ last = 0 => Ends(at) = {}
    /\ last # 0 => last - 1 \in Ends(at) /\ \A j \in Ends(at) : j <= last - 1

(* No unit before the present one is a key unit, nor is that one at the    *)
(* end of the frame.                                                       *)
NoneMissed ==
    ~key => \A j \in Ends(at) : j < last - 1 \/ at > Len(data) => ~isIdrFrame2(j + 1)

(* The loop is only left with true at a key unit.                          *)
FoundIsKey == key => \E j \in Ends(at) : isIdrFrame2(j + 1)

ScanInv ==
    /\ ScanTypeOK
    /\ ~key => LastFollows
    /\ NoneMissed
    /\ FoundIsKey

LEMMA ScanInitInv == ScanInit => ScanInv
<1> SUFFICES ASSUME ScanInit PROVE ScanInv
  OBVIOUS
<1>1. data \in Seq(Nat)
  <2>1. PICK n \in 0..MaxSize : data \in [1..n -> Bytes]
    BY DEF ScanInit, Frames
  <2>2. Bytes \subseteq Nat /\ n \in Nat
    BY BytesAssumption
  <2>3. data \in [1..n -> Nat]
    BY <2>1, <2>2
  <2>4. QED
    BY <2>2, <2>3
<1>2. Ends(at) = {}
  BY DEF ScanInit, Ends
<1>3. ScanTypeOK
  <2>1. at = 2 /\ last = 0
    BY DEF ScanInit
  <2>2. key \in BOOLEAN
    BY DEF ScanInit
  <2>3. QED
    BY <1>1, <2>1, <2>2 DEF ScanTypeOK
<1>4. LastFollows
  BY <1>2 DEF ScanInit, LastFollows
<1>5. NoneMissed /\ FoundIsKey
  BY <1>2 DEF ScanInit, NoneMissed, FoundIsKey
<1>6. QED
  BY <1>3, <1>4, <1>5 DEF ScanInv

(* A turn of the loop adds the place it looked at, if a start code ends    *)
(* there.                                                                  *)
LEMMA EndsGrow ==
    ASSUME ScanInv, NextByte
    PROVE  Ends(at)' = Ends(at) \cup {j \in {at} : at < Len(data) /\ StartCodeEnds(at)}
<1>1. at' = at + 1 /\ data' = data /\ at \in Nat /\ 2 <= at
  BY DEF NextByte, ScanInv, ScanTypeOK
<1>2. Ends(at)' = {j \in 2..at : j < Len(data) /\ StartCodeEnds(j)}
  BY <1>1 DEF Ends, StartCodeEnds
<1>3. QED
  BY <1>1, <1>2 DEF Ends

LEMMA ScanStep == ScanInv /\ [NextByte]_scanVars => ScanInv'
<1> SUFFICES ASSUME ScanInv, [NextByte]_scanVars PROVE ScanInv'
  OBVIOUS
<1>1. CASE UNCHANGED scanVars
  BY <1>1 DEF scanVars, ScanInv, ScanTypeOK, LastFollows, NoneMissed, FoundIsKey, Ends,
              StartCodeEnds, isIdrFrame2
<1>2. CASE NextByte
  <2>1. /\ ScanTypeOK /\ LastFollows /\ ~key /\ at <= Len(data)
        /\ at' = at + 1 /\ data' = data
        /\ \A j \in Ends(at) : j < last - 1 => ~isIdrFrame2(j + 1)
    BY <1>2 DEF NextByte, Scanning, ScanInv, NoneMissed
  <2>2. \A k : isIdrFrame2(k)' <=> isIdrFrame2(k)
    BY <2>1 DEF isIdrFrame2
  <2>3. Len(data) \in Nat /\ Ends(at) \subseteq Nat /\ \A j \in Ends(at) : j < at /\ j < Len(data)
    BY <2>1 DEF ScanTypeOK, Ends
  <2>4. UnitIsKey \in BOOLEAN
    BY DEF UnitIsKey, isIdrFrame2
  <2>5. UnitIsKey => \E j \in Ends(at) : isIdrFrame2(j + 1)
    <3> SUFFICES ASSUME UnitIsKey PROVE last - 1 \in Ends(at) /\ isIdrFrame2(last - 1 + 1)
      OBVIOUS
    <3>1. last # 0 /\ isIdrFrame2(last) /\ last \in Nat
      BY <2>1 DEF UnitIsKey, ScanTypeOK
    <3>2. last - 1 + 1 = last
      BY <3>1
    <3>3. QED
      BY <2>1, <3>1, <3>2 DEF LastFollows
  <2>6. ~UnitIsKey => \A j \in Ends(at) : ~isIdrFrame2(j + 1)
    <3> SUFFICES ASSUME ~UnitIsKey, NEW j \in Ends(at) PROVE ~isIdrFrame2(j + 1)
      OBVIOUS
    <3>1. last # 0 /\ j <= last - 1
      BY <2>1 DEF LastFollows
    <3>2. CASE j < last - 1
      BY <2>1, <3>2
    <3>3. CASE j = last - 1
      <4>1. j + 1 = last
        BY <2>1, <3>3 DEF ScanTypeOK
      <4>2. QED
        BY <3>1, <4>1 DEF UnitIsKey
    <3>4. QED
      BY <2>1, <2>3, <3>1, <3>2, <3>3 DEF ScanTypeOK
  <2>7. CASE at = Len(data) /\ key' = UnitIsKey /\ last' = last
    <3>1. Ends(at)' = Ends(at)
      <4>1. ~(at < Len(data))
        BY <2>3, <2>7
      <4>2. QED
        BY <1>2, <4>1, EndsGrow
    <3>2. ScanTypeOK'
      BY <2>1, <2>4, <2>7 DEF ScanTypeOK
    <3>3. LastFollows'
      BY <2>1, <2>7, <3>1 DEF LastFollows
    <3>4. NoneMissed' /\ FoundIsKey'
      BY <2>2, <2>5, <2>6, <2>7, <3>1 DEF NoneMissed, FoundIsKey
    <3>5. QED
      BY <3>2, <3>3, <3>4 DEF ScanInv
  <2>8. CASE at < Len(data) /\ StartCodeEnds(at) /\ key' = UnitIsKey /\ last' = at + 1
    <3>1. Ends(at)' = Ends(at) \cup {at}
      BY <1>2, <2>8, EndsGrow
    <3>2. ScanTypeOK'
      BY <2>1, <2>3, <2>4, <2>8 DEF ScanTypeOK
    <3>3. LastFollows'
      BY <2>1, <2>3, <2>8, <3>1 DEF LastFollows, ScanTypeOK
    <3>4. NoneMissed'
      <4> SUFFICES ASSUME ~key', NEW j \in Ends(at)', j < last' - 1 \/ at' > Len(data)'
                   PROVE  ~isIdrFrame2(j + 1)'
        BY DEF NoneMissed
      <4>1. j # at
        BY <2>1, <2>3, <2>8 DEF ScanTypeOK
      <4>2. QED
        BY <2>2, <2>6, <2>8, <3>1, <4>1
    <3>5. FoundIsKey'
      BY <2>2, <2>5, <2>8, <3>1 DEF FoundIsKey
    <3>6. QED
      BY <3>2, <3>3, <3>4, <3>5 DEF ScanInv
  <2>9. CASE at < Len(data) /\ ~StartCodeEnds(at) /\ UNCHANGED <<last, key>>
    <3>1. Ends(at)' = Ends(at)
      BY <1>2, <2>9, EndsGrow
    <3>2. ScanTypeOK'
      BY <2>1, <2>3, <2>9 DEF ScanTypeOK
    <3>3. LastFollows'
      BY <2>1, <2>9, <3>1 DEF LastFollows
    <3>4. NoneMissed' /\ FoundIsKey'
      BY <2>1, <2>2, <2>3, <2>9, <3>1 DEF NoneMissed, FoundIsKey, ScanTypeOK
    <3>5. QED
      BY <3>2, <3>3, <3>4 DEF ScanInv
  <2>10. QED
    BY <1>2, <2>7, <2>8, <2>9 DEF NextByte
<1>3. QED
  BY <1>1, <1>2

(* The units of the reference definition are those behind the start codes. *)
LEMMA KeyUnits ==
    ASSUME ScanTypeOK
    PROVE  HoldsKeyUnit <=> \E j \in 2..Len(data) - 1 : StartCodeEnds(j) /\ isIdrFrame2(j + 1)
<1> Len(data) \in Nat
  BY DEF ScanTypeOK
<1>1. ASSUME NEW k \in 1..Len(data) - 3,
             data[k] = 0 /\ data[k + 1] = 0 /\ data[k + 2] = 1, data[k + 3] % 32 \in KeyTypes
      PROVE  \E j \in 2..Len(data) - 1 : StartCodeEnds(j) /\ isIdrFrame2(j + 1)
  <2>1. /\ k + 1 \in 2..Len(data) - 1 /\ k + 1 - 1 = k /\ k + 1 + 1 = k + 2
        /\ k + 2 < Len(data) /\ k + 2 + 1 = k + 3
    OBVIOUS
  <2>2. StartCodeEnds(k + 1)
    BY <1>1, <2>1 DEF StartCodeEnds
  <2>3. isIdrFrame2(k + 1 + 1)
    BY <1>1, <2>1 DEF isIdrFrame2
  <2>4. QED
    BY <2>1, <2>2, <2>3
<1>2. ASSUME NEW j \in 2..Len(data) - 1, StartCodeEnds(j), isIdrFrame2(j + 1)
      PROVE  HoldsKeyUnit
  <2>1. j + 1 < Len(data) /\ data[j + 1 + 1] % 32 \in KeyTypes
    BY <1>2 DEF isIdrFrame2
  <2>2. /\ j - 1 \in 1..Len(data) - 3 /\ j - 1 + 1 = j
        /\ j - 1 + 2 = j + 1 /\ j - 1 + 3 = j + 1 + 1
    BY <2>1
  <2>3. data[j - 1] = 0 /\ data[j] = 0 /\ data[j + 1] = 1
    BY <1>2 DEF StartCodeEnds
  <2>4. QED
    BY <2>1, <2>2, <2>3 DEF HoldsKeyUnit
<1>3. QED
  BY <1>1, <1>2 DEF HoldsKeyUnit

(* write_video_frame marks frames of any length and content exactly when   *)
(* they hold a slice of an IDR picture or a parameter set.                 *)
THEOREM KeyFramesMarked == ScanSpec => []KeyMarked
<1>1. ScanInv => KeyMarked
  <2> SUFFICES ASSUME ScanInv, ~Scanning PROVE key <=> HoldsKeyUnit
    BY DEF KeyMarked
  <2>1. ScanTypeOK /\ Len(data) \in Nat /\ at \in Nat
    BY DEF ScanInv, ScanTypeOK
  <2>2. CASE key
    <3>1. PICK j \in Ends(at) : isIdrFrame2(j + 1)
      BY <2>2 DEF ScanInv, FoundIsKey
    <3>2. j \in 2..Len(data) - 1 /\ StartCodeEnds(j)
      BY <2>1 DEF Ends
    <3>3. QED
      BY <2>1, <2>2, <3>1, <3>2, KeyUnits
  <2>3. CASE ~key
    <3>1. at > Len(data)
      BY <2>1, <2>3 DEF Scanning
    <3>2. \A j \in 2..Len(data) - 1 : StartCodeEnds(j) => j \in Ends(at)
      BY <2>1, <3>1 DEF Ends
    <3>3. QED
      BY <2>1, <2>3, <3>1, <3>2, KeyUnits DEF ScanInv, NoneMissed
  <2>4. QED
    BY <2>2, <2>3
<1>2. QED
  BY <1>1, ScanInitInv, ScanStep, PTL DEF ScanSpec

-----------------------------------------------------------------------------
(* RtmpTimeline: the stream.                                               *)

StreamType ==
    [tsLast : [Tracks -> Times \cup {Unset}], offset : [Tracks -> 0..MaxTime],
     pcm : 0..RawBytes - 1, first : [Tracks -> Times \cup {Unset}],
     pushed : [Tracks -> [ts : Times \cup {Unset}, pts : 0..MaxTime]]]

(* A track's offset is the distance from its first frame, and what was     *)
(* pushed last was given it.                                               *)
Elapsed(s, m) ==
    /\ s.tsLast[m] # Unset =>
           s.first[m] \in 1..s.tsLast[m] /\ s.offset[m] = s.tsLast[m] - s.first[m]
    /\ s.tsLast[m] = Unset => s.pushed[m].ts = Unset
    /\ s.pushed[m].ts # Unset => s.pushed[m].pts = s.pushed[m].ts - s.first[m]

StreamOK(s) == s \in StreamType /\ \A m \in Tracks : Elapsed(s, m)

LEMMA TimesAreNumbers ==
    /\ MaxTime \in Nat \ {0} /\ RawBytes \in Nat \ {0} /\ MaxFake \in Nat \ {0}
    /\ SlotBytes \in Nat \ {0} /\ Slot \in Nat \ {0} /\ Width \in Nat \ {0}
    /\ SlotBytes <= MaxFake /\ MaxFake <= RawBytes
    /\ Times \subseteq Nat \ {0} /\ Unset = 0
BY TimelineAssumption DEF Times, Unset

(* What a record becomes by the changes GetAVPts and Push make.            *)
LEMMA FieldsChanged ==
    ASSUME NEW A, NEW B, NEW C, NEW D, NEW E,
           NEW x \in A, NEW y \in B, NEW z \in D, NEW w \in E,
           NEW s \in [tsLast : A, offset : B, pcm : C, first : D, pushed : E]
    PROVE  /\ LET t == [s EXCEPT !.tsLast = x, !.offset = y, !.first = z]
              IN  /\ t \in [tsLast : A, offset : B, pcm : C, first : D, pushed : E]
                  /\ t.tsLast = x /\ t.offset = y /\ t.first = z
                  /\ t.pcm = s.pcm /\ t.pushed = s.pushed
           /\ LET t == [s EXCEPT !.tsLast = x, !.offset = y]
              IN  /\ t \in [tsLast : A, offset : B, pcm : C, first : D, pushed : E]
                  /\ t.tsLast = x /\ t.offset = y
                  /\ t.pcm = s.pcm /\ t.first = s.first /\ t.pushed = s.pushed
           /\ LET t == [s EXCEPT !.pushed = w]
              IN  /\ t \in [tsLast : A, offset : B, pcm : C, first : D, pushed : E]
                  /\ t.tsLast = s.tsLast /\ t.offset = s.offset /\ t.first = s.first
                  /\ t.pcm = s.pcm /\ t.pushed = w
OBVIOUS

(* t is s with a frame of m at ts, which is the first of its track or      *)
(* comes after fst.                                                        *)
Moved(s, t, m, ts, fst) ==
    /\ t.tsLast = [s.tsLast EXCEPT ![m] = ts]
    /\ t.offset = [s.offset EXCEPT ![m] = ts - fst]
    /\ t.first = [s.first EXCEPT ![m] = fst]
    /\ t.pushed = [s.pushed EXCEPT ![m] = [ts |-> ts, pts |-> ts - fst]]

LEMMA MovedIsOK ==
    ASSUME NEW s, StreamOK(s), NEW m \in Tracks, NEW ts \in Times, NEW fst \in 1..ts,
           NEW t \in StreamType, Moved(s, t, m, ts, fst)
    PROVE  StreamOK(t)
<1> USE TimesAreNumbers DEF StreamOK, StreamType, Moved
<1>1. ts - fst \in 0..MaxTime /\ fst \in Times
  BY DEF Times
<1>2. ASSUME NEW k \in Tracks PROVE Elapsed(t, k)
  BY <1>1, <1>2 DEF Elapsed, Times
<1>3. QED
  BY <1>2

(* The three cases of GetAVPts, for a frame that is pushed or is not.      *)
LEMMA PushKeepsElapsed ==
    ASSUME NEW s, StreamOK(s), NEW m \in Tracks, NEW ts \in Times
    PROVE  /\ StreamOK(Push(s, m, ts))
           /\ Push(s, m, ts).tsLast =
                  IF s.tsLast[m] > ts THEN s.tsLast ELSE [s.tsLast EXCEPT ![m] = ts]
<1> DEFINE g == GetAVPts(s, m, ts)
           AtStart == IF s.tsLast[m] = Unset THEN ts ELSE s.first[m]
<1>0. /\ s \in StreamType
      /\ s.tsLast \in [Tracks -> Times \cup {Unset}] /\ s.offset \in [Tracks -> 0..MaxTime]
      /\ s.first \in [Tracks -> Times \cup {Unset}]
      /\ s.pushed \in [Tracks -> [ts : Times \cup {Unset}, pts : 0..MaxTime]]
      /\ s.tsLast[m] \in Nat /\ s.first[m] \in Nat /\ s.offset[m] \in Nat /\ ts \in Nat \ {0}
      /\ Elapsed(s, m)
  BY TimesAreNumbers DEF StreamOK, StreamType, Times
<1>1. CASE s.tsLast[m] > ts
  <2>1. s.tsLast[m] # Unset
    BY <1>0, <1>1, TimesAreNumbers
  <2>2. Push(s, m, ts) = s
    BY <1>1, <2>1, Zenon DEF Push, GetAVPts
  <2>3. QED
    BY <1>1, <2>2
<1>2. CASE ~(s.tsLast[m] > ts)
  <2>1. AtStart \in 1..ts /\ ts - AtStart \in 0..MaxTime /\ AtStart \in Times
    BY <1>0, <1>2, TimesAreNumbers DEF Elapsed, Times
  <2>2. /\ [s.tsLast EXCEPT ![m] = ts] \in [Tracks -> Times \cup {Unset}]
        /\ [s.offset EXCEPT ![m] = ts - AtStart] \in [Tracks -> 0..MaxTime]
        /\ [s.first EXCEPT ![m] = AtStart] \in [Tracks -> Times \cup {Unset}]
        /\ [s.pushed EXCEPT ![m] = [ts |-> ts, pts |-> ts - AtStart]]
             \in [Tracks -> [ts : Times \cup {Unset}, pts : 0..MaxTime]]
    BY <1>0, <2>1
  <2>3. /\ g \in StreamType
        /\ g.tsLast = [s.tsLast EXCEPT ![m] = ts]
        /\ g.offset = [s.offset EXCEPT ![m] = ts - AtStart]
        /\ g.first = [s.first EXCEPT ![m] = AtStart]
        /\ g.pushed = s.pushed
    <3>1. CASE s.tsLast[m] = Unset
      <4>1. ts - AtStart = 0 /\ AtStart = ts
        BY <1>0, <3>1
      <4>2. g = [s EXCEPT !.tsLast = [s.tsLast EXCEPT ![m] = ts],
                          !.offset = [s.offset EXCEPT ![m] = 0],
                          !.first = [s.first EXCEPT ![m] = ts]]
        BY <1>2, <3>1, Zenon DEF GetAVPts
      <4> HIDE DEF g
      <4>3. QED
        BY <1>0, <2>2, <4>1, <4>2, FieldsChanged DEF StreamType
    <3>2. CASE s.tsLast[m] # Unset
      <4>1. s.offset[m] + (ts - s.tsLast[m]) = ts - AtStart /\ AtStart = s.first[m]
        BY <1>0, <1>2, <3>2 DEF Elapsed
      <4>2. g = [s EXCEPT !.tsLast = [s.tsLast EXCEPT ![m] = ts],
                          !.offset = [s.offset EXCEPT
                                        ![m] = s.offset[m] + (ts - s.tsLast[m])]]
        BY <1>2, <3>2, Zenon DEF GetAVPts
      <4>3. [s.first EXCEPT ![m] = AtStart] = s.first
        BY <1>0, <4>1
      <4> HIDE DEF g
      <4>4. QED
        BY <1>0, <2>2, <4>1, <4>2, <4>3, FieldsChanged DEF StreamType
    <3>3. QED
      BY <3>1, <3>2
  <2> HIDE DEF AtStart
  <2> DEFINE w == [s.pushed EXCEPT ![m] = [ts |-> ts, pts |-> ts - AtStart]]
  <2>4. Push(s, m, ts) = [g EXCEPT !.pushed = w]
    <3>1. g.offset[m] = ts - AtStart /\ g.pushed = s.pushed
      BY <1>0, <2>3
    <3>2. QED
      BY <1>2, <3>1, Zenon DEF Push
  <2> HIDE DEF g
  <2>5. Push(s, m, ts) \in StreamType /\ Moved(s, Push(s, m, ts), m, ts, AtStart)
    <3>1. w \in [Tracks -> [ts : Times \cup {Unset}, pts : 0..MaxTime]]
      BY <2>2
    <3> HIDE DEF w
    <3>2. LET t == [g EXCEPT !.pushed = w]
          IN  /\ t \in StreamType
              /\ t.tsLast = g.tsLast /\ t.offset = g.offset /\ t.first = g.first
              /\ t.pushed = w
      BY <2>3, <3>1 DEF StreamType
    <3>3. QED
      BY <2>3, <2>4, <3>2 DEF Moved, w
  <2>6. StreamOK(Push(s, m, ts))
    BY <2>1, <2>5, MovedIsOK
  <2>7. QED
    BY <1>2, <2>5, <2>6 DEF Moved
<1>3. QED
  BY <1>1, <1>2

LEMMA CollectKeepsElapsed ==
    ASSUME NEW s, StreamOK(s), NEW n \in 0..RawBytes - 1
    PROVE  StreamOK([s EXCEPT !.pcm = n])
BY TimesAreNumbers DEF StreamOK, StreamType, Elapsed

LEMMA WriteAudioKeepsElapsed ==
    ASSUME NEW s, StreamOK(s), NEW bytes \in 1..RawBytes, NEW ts \in Times,
           NEW t \in WriteAudio(s, bytes, ts)
    PROVE  StreamOK(t) /\ t.tsLast["video"] = s.tsLast["video"]
<1> DEFINE left == IF s.pcm + bytes < RawBytes THEN s.pcm + bytes
                   ELSE s.pcm + bytes - RawBytes
<1>1. left \in 0..RawBytes - 1
  BY TimesAreNumbers DEF StreamOK, StreamType
<1> DEFINE c == [s EXCEPT !.pcm = left]
<1>2. StreamOK(c)
  BY <1>1, CollectKeepsElapsed
<1>3. c.tsLast = s.tsLast
  BY DEF StreamOK, StreamType
<1>4. StreamOK(Push(c, "audio", ts)) /\ Push(c, "audio", ts).tsLast["video"] = c.tsLast["video"]
  <2> HIDE DEF c
  <2>1. "audio" \in Tracks /\ "video" \in Tracks /\ "audio" # "video"
    BY DEF Tracks
  <2>2. c.tsLast \in [Tracks -> Times \cup {Unset}]
    BY <1>2 DEF StreamOK, StreamType
  <2>3. /\ StreamOK(Push(c, "audio", ts))
        /\ Push(c, "audio", ts).tsLast =
               IF c.tsLast["audio"] > ts THEN c.tsLast ELSE [c.tsLast EXCEPT !["audio"] = ts]
    BY <1>2, <2>1, PushKeepsElapsed
  <2>4. QED
    BY <2>1, <2>2, <2>3
<1>5. t \in {c, Push(c, "audio", ts)}
  BY TimesAreNumbers DEF WriteAudio, StreamOK, StreamType
<1>6. QED
  BY <1>2, <1>3, <1>4, <1>5

-----------------------------------------------------------------------------
(* RtmpTimeline: the invariant and its theorems.                           *)

TimelineInv == TimelineTypeOK /\ \A m \in Tracks : Elapsed(Stream, m)

LEMMA StreamIsOK ==
    ASSUME TimelineInv
    PROVE  StreamOK(Stream)
BY DEF TimelineInv, TimelineTypeOK, StreamOK, StreamType, Stream

LEMMA StreamAgain ==
    ASSUME NEW s, StreamOK(s), SetStream(s),
           bCarHaveAudio' \in BOOLEAN, steady' \in BOOLEAN, frames' \in 0..MaxTimes,
           {start', lastVideo'} \subseteq Times \cup {Unset},
           count' \in 0..Width - 1, fakeBytes' \in Nat
    PROVE  TimelineInv'
<1>1. Stream' = [tsLast |-> s.tsLast, offset |-> s.offset, pcm |-> s.pcm,
                 first |-> s.first, pushed |-> s.pushed]
  BY DEF SetStream, Stream
<1>2. TimelineTypeOK'
  BY DEF TimelineTypeOK, SetStream, StreamOK, StreamType
<1>3. \A m \in Tracks : Elapsed(Stream, m)'
  BY <1>1 DEF StreamOK, Elapsed, SetStream, Stream
<1>4. QED
  BY <1>2, <1>3 DEF TimelineInv

LEMMA SlotsAreNumbers ==
    ASSUME NEW ts \in Times, start \in Times \cup {Unset}
    PROVE  SlotsUntil(ts) \in 0..Width - 1
<1>1. ts - start \in Int
  BY TimesAreNumbers
<1> DEFINE d == (ts - start) % Width
           e == (d + Slot - 1) % Width
<1>2. d \in 0..Width - 1
  BY <1>1, TimesAreNumbers
<1>3. e \in 0..Width - 1
  BY <1>2, TimesAreNumbers
<1>4. SlotsUntil(ts) = e \div Slot
  BY DEF SlotsUntil
<1> HIDE DEF d, e
<1>5. e \div Slot \in 0..Width - 1
  BY <1>3, TimesAreNumbers
<1>6. QED
  BY <1>4, <1>5

(* The silence given with one frame is never more than MaxFake.            *)
LEMMA FakeLenIsSmall ==
    ASSUME TimelineTypeOK, NEW ts \in Times
    PROVE  FakeLen(ts) \in 0..MaxFake
<1> DEFINE missing == (SlotBytes * (SlotsUntil(ts) - count)) % Width
<1>1. SlotsUntil(ts) \in Nat /\ count \in Nat
  BY SlotsAreNumbers, TimesAreNumbers DEF TimelineTypeOK
<1>2. SlotBytes * (SlotsUntil(ts) - count) \in Int
  BY <1>1, TimesAreNumbers
<1>3. missing \in Nat
  BY <1>2, TimesAreNumbers
<1>4. \/ FakeLen(ts) = SlotBytes \/ FakeLen(ts) = 0 \/ FakeLen(ts) = MaxFake
      \/ (FakeLen(ts) = missing /\ ~(missing > MaxFake))
  <2>1. CASE ~Counted(ts)
    BY <2>1, Zenon DEF FakeLen
  <2>2. CASE Counted(ts) /\ SlotsUntil(ts) > count
    BY <2>2, Zenon DEF FakeLen
  <2>3. CASE Counted(ts) /\ ~(SlotsUntil(ts) > count)
    BY <2>3, Zenon DEF FakeLen
  <2>4. QED
    BY <2>1, <2>2, <2>3
<1> HIDE DEF missing
<1>5. QED
  BY <1>3, <1>4, TimesAreNumbers

LEMMA TimelineInvHolds == TimelineSpec => []TimelineInv
<1>1. TimelineInit => TimelineInv
  <2> SUFFICES ASSUME TimelineInit PROVE TimelineInv
    OBVIOUS
  <2>1. TimelineTypeOK
    <3>1. 0 \in 0..MaxTime /\ 0 \in 0..RawBytes - 1 /\ 0 \in 0..Width - 1 /\ 0 \in 0..MaxTimes
      BY TimesAreNumbers, TimelineAssumption
    <3>2. pushed \in [Tracks -> [ts : Times \cup {Unset}, pts : 0..MaxTime]]
      BY <3>1 DEF TimelineInit
    <3>3. QED
      BY <3>1, <3>2 DEF TimelineInit, TimelineTypeOK
  <2>2. ASSUME NEW m \in Tracks PROVE Elapsed(Stream, m)
    BY TimesAreNumbers DEF TimelineInit, Elapsed, Stream
  <2>3. QED
    BY <2>1, <2>2 DEF TimelineInv
<1>2. TimelineInv /\ [TimelineNext]_timelineVars => TimelineInv'
  <2> SUFFICES ASSUME TimelineInv, [TimelineNext]_timelineVars PROVE TimelineInv'
    OBVIOUS
  <2>0. TimelineTypeOK /\ StreamOK(Stream)
    BY StreamIsOK DEF TimelineInv
  <2>1. ASSUME NEW m \in Tracks, NEW ts \in Times, ClockShows(m, ts)
        PROVE  steady' \in BOOLEAN /\ frames' \in 0..MaxTimes
    BY <2>0, <2>1, TimelineAssumption DEF TimelineTypeOK, ClockShows
  <2>2. ASSUME NEW ts \in Times, VideoFrame(ts) PROVE TimelineInv'
    <3>1. StreamOK(Push(Stream, "video", ts))
      BY <2>0, PushKeepsElapsed DEF Tracks
    <3>2. steady' \in BOOLEAN /\ frames' \in 0..MaxTimes /\ bCarHaveAudio' \in BOOLEAN
      BY <2>0, <2>1, <2>2 DEF VideoFrame, Tracks, TimelineTypeOK
    <3>3. CASE bCarHaveAudio
      BY <2>0, <2>2, <3>1, <3>2, <3>3, StreamAgain DEF VideoFrame, audioVars, TimelineTypeOK
    <3>4. CASE ~bCarHaveAudio
      <4>1. AddFakeAudioPcm(ts) /\ FakeLen(ts) \in 0..MaxFake
        BY <2>0, <2>2, <3>4, FakeLenIsSmall DEF VideoFrame
      <4>2. /\ {start', lastVideo'} \subseteq Times \cup {Unset}
            /\ count' \in 0..Width - 1 /\ fakeBytes' \in Nat
        BY <2>0, <4>1, SlotsAreNumbers, TimesAreNumbers DEF AddFakeAudioPcm, TimelineTypeOK
      <4>3. CASE FakeLen(ts) = 0
        BY <2>2, <3>1, <3>2, <3>4, <4>2, <4>3, StreamAgain DEF VideoFrame
      <4>4. CASE FakeLen(ts) # 0
        <5>1. FakeLen(ts) \in 1..RawBytes
          BY <4>1, <4>4, TimesAreNumbers
        <5>2. PICK t \in WriteAudio(Push(Stream, "video", ts), FakeLen(ts), ts) : SetStream(t)
          BY <2>2, <3>4, <4>4 DEF VideoFrame
        <5>3. StreamOK(t)
          BY <3>1, <5>1, <5>2, WriteAudioKeepsElapsed
        <5>4. QED
          BY <3>2, <4>2, <5>2, <5>3, StreamAgain
      <4>5. QED
        BY <4>3, <4>4
    <3>5. QED
      BY <3>3, <3>4
  <2>3. ASSUME NEW ts \in Times, AudioFrame(ts) PROVE TimelineInv'
    <3>1. steady' \in BOOLEAN /\ frames' \in 0..MaxTimes /\ bCarHaveAudio' \in BOOLEAN
      BY <2>1, <2>3 DEF AudioFrame, Tracks
    <3>2. SlotBytes \in 1..RawBytes
      BY TimesAreNumbers
    <3>3. PICK t \in WriteAudio(Stream, SlotBytes, ts) : SetStream(t)
      BY <2>3 DEF AudioFrame
    <3>4. StreamOK(t)
      BY <2>0, <3>2, <3>3, WriteAudioKeepsElapsed
    <3>5. QED
      BY <2>0, <2>3, <3>1, <3>3, <3>4, StreamAgain DEF AudioFrame, audioVars, TimelineTypeOK
  <2>4. CASE UNCHANGED timelineVars
    BY <2>4 DEF TimelineInv, TimelineTypeOK, Elapsed, Stream, timelineVars, audioVars, streamVars
  <2>5. QED
    BY <2>2, <2>3, <2>4 DEF TimelineNext
<1>3. QED
  BY <1>1, <1>2, PTL DEF TimelineSpec

(* The stream's clocks, counters and collected PCM stay in their ranges    *)
(* whatever times the device gives its frames (CRtmpStream::get_av_pts,    *)
(* write_audio_frame, RtmpClient::AddFakeAudioPcm).                        *)
THEOREM TimelineTypeCorrect == TimelineSpec => []TimelineTypeOK
BY TimelineInvHolds, PTL DEF TimelineInv

(* Whatever the device's clock does, a frame that is pushed is presented   *)
(* as long after the first one of its track as the device says.            *)
THEOREM PresentedAtElapsed == TimelineSpec => []PushedAtElapsed
<1>1. TimelineInv => PushedAtElapsed
  BY DEF TimelineInv, Elapsed, Stream, PushedAtElapsed
<1>2. QED
  BY <1>1, TimelineInvHolds, PTL

-----------------------------------------------------------------------------
(* RtmpTimeline: the pace of the silence.                                  *)

(* The slots a stretch of time takes, rounded up.                          *)
Slots(d) == (d + Slot - 1) \div Slot

(* Two integers apart by more than one multiple of Slot are in that order. *)
LEMMA Multiples ==
    ASSUME NEW p \in Int, NEW q \in Int, Slot * p < Slot * q + Slot
    PROVE  p <= q
<1>1. SUFFICES ASSUME p >= q + 1 PROVE FALSE
  OBVIOUS
<1>2. Slot \in Nat \ {0}
  BY TimesAreNumbers
<1> DEFINE k == p - q - 1
<1>3. k \in Nat /\ p = q + 1 + k
  BY <1>1
<1>4. Slot * p = Slot * q + Slot + Slot * k
  BY <1>2, <1>3
<1>5. Slot * k >= 0 /\ Slot * q \in Int
  BY <1>2, <1>3
<1>6. QED
  BY <1>2, <1>4, <1>5

LEMMA SlotsBound ==
    ASSUME NEW d \in Nat
    PROVE  Slots(d) \in Nat /\ d <= Slot * Slots(d) /\ Slot * Slots(d) < d + Slot
<1>1. Slot \in Nat \ {0}
  BY TimesAreNumbers
<1> DEFINE n == d + Slot - 1
           r == n % Slot
           q == n \div Slot
<1>2. n \in Nat
  BY <1>1
<1>3. q \in Nat /\ r \in 0..Slot - 1 /\ n = Slot * q + r
  BY <1>1, <1>2
<1>4. Slots(d) = q /\ n = d + Slot - 1
  BY DEF Slots
<1> HIDE DEF n, r, q
<1>5. Slot * q \in Int
  BY <1>1, <1>3
<1>6. QED
  BY <1>1, <1>3, <1>4, <1>5

(* Slots grows with the time, by no more than the slots of what is added,  *)
(* and is no more than the time itself.                                    *)
LEMMA SlotsGrow ==
    ASSUME NEW a \in Nat, NEW b \in Nat
    PROVE  /\ Slots(a) <= Slots(a + b)
           /\ Slots(a + b) <= Slots(a) + Slots(b)
           /\ Slots(a) <= a
<1> DEFINE x == Slots(a)
           y == Slots(b)
           z == Slots(a + b)
<1>1. /\ Slot \in Nat \ {0} /\ a + b \in Nat
      /\ x \in Nat /\ a <= Slot * x /\ Slot * x < a + Slot
      /\ y \in Nat /\ b <= Slot * y /\ Slot * y < b + Slot
      /\ z \in Nat /\ a + b <= Slot * z /\ Slot * z < a + b + Slot
  BY SlotsBound, TimesAreNumbers
<1> HIDE DEF x, y, z
<1>2. /\ Slot * x \in Int /\ Slot * y \in Int /\ Slot * z \in Int /\ Slot * a \in Int
      /\ Slot * (x + y) = Slot * x + Slot * y
  BY <1>1
<1>3. Slot * x < Slot * z + Slot
  BY <1>1, <1>2
<1>4. Slot * z < Slot * (x + y) + Slot
  BY <1>1, <1>2
<1>5. a <= Slot * a
  BY <1>1
<1>6. Slot * x < Slot * a + Slot
  BY <1>1, <1>2, <1>5
<1>7. x <= z /\ z <= x + y /\ x <= a
  BY <1>1, <1>3, <1>4, <1>6, Multiples
<1>8. QED
  BY <1>7 DEF x, y, z

(* While the device sends no audio its last frame is also the last one the *)
(* silence was added for, and count is in step with it.                    *)
Paced ==
    /\ start = Unset => count = 0 /\ fakeBytes = 0
    /\ steady /\ start # Unset =>
           /\ start <= lastVideo
           /\ count = Slots(lastVideo - start)
           /\ fakeBytes = SlotBytes * (1 + count)
           /\ ~bCarHaveAudio => lastVideo = tsLast["video"]

(* The silence added with the first frame.                                 *)
LEMMA FirstSilence ==
    ASSUME TimelineTypeOK, Paced, NEW ts \in Times, start = Unset, AddFakeAudioPcm(ts)
    PROVE  /\ start' = ts /\ lastVideo' = ts /\ count' = Slots(0)
           /\ fakeBytes' = SlotBytes * (1 + count')
<1>1. ~Counted(ts) /\ FakeLen(ts) = SlotBytes
  <2>1. ~Counted(ts)
    BY DEF Counted
  <2>2. QED
    BY <2>1, Zenon DEF FakeLen
<1>2. Slots(0) = 0
  BY SlotsBound, SlotsGrow
<1>3. start' = ts /\ lastVideo' = ts /\ count' = 0 /\ fakeBytes' = 0 + SlotBytes
  BY <1>1 DEF AddFakeAudioPcm, Paced
<1>4. QED
  BY <1>2, <1>3, TimesAreNumbers

(* The silence added with a later frame: what is missing up to its slot.   *)
LEMMA NextSilence ==
    ASSUME TimelineTypeOK, Paced, steady, NEW ts \in Times, start # Unset,
           lastVideo # Unset, ts > lastVideo, SlotBytes * Slots(ts - lastVideo) <= MaxFake,
           AddFakeAudioPcm(ts)
    PROVE  /\ start' = start /\ lastVideo' = ts /\ count' = Slots(ts - start)
           /\ fakeBytes' = SlotBytes * (1 + count')
<1> DEFINE a == lastVideo - start
           b == ts - lastVideo
           n == Slots(ts - start)
<1>1. /\ a \in Nat /\ b \in Nat /\ a + b = ts - start /\ ts - start \in 0..MaxTime
      /\ count = Slots(a) /\ fakeBytes = SlotBytes * (1 + count)
  BY TimesAreNumbers DEF TimelineTypeOK, Paced, Times
<1>2. count \in Nat /\ n \in Nat /\ count <= n /\ n <= count + Slots(b) /\ n <= ts - start
  BY <1>1, SlotsBound, SlotsGrow
<1>3. SlotsUntil(ts) = n
  <2>1. (ts - start) % Width = ts - start
    BY <1>1, TimelineAssumption
  <2>2. (ts - start + Slot - 1) % Width = ts - start + Slot - 1
    <3>1. ts - start + Slot - 1 \in 0..Width - 1
      BY <1>1, TimelineAssumption
    <3> DEFINE x == ts - start + Slot - 1
    <3>2. x \in 0..Width - 1
      BY <3>1
    <3> HIDE DEF x
    <3>3. x % Width = x
      BY <3>2, TimesAreNumbers
    <3>4. QED
      BY <3>3 DEF x
  <2>3. QED
    BY <2>1, <2>2 DEF SlotsUntil, Slots
<1>4. SlotBytes * (n - count) \in Nat /\ SlotBytes * (n - count) <= MaxFake
  <2> DEFINE k == n - count
             w == Slots(b)
  <2>1. k \in Nat /\ w \in Nat /\ k <= w
    BY <1>1, <1>2, SlotsBound
  <2>2. SlotBytes * w <= MaxFake
    OBVIOUS
  <2> HIDE DEF k, w
  <2>3. SlotBytes * k \in Nat /\ SlotBytes * w \in Nat /\ SlotBytes * k <= SlotBytes * w
    <3>1. PICK j \in Nat : w = k + j
      <4>1. w - k \in Nat /\ w = k + (w - k)
        BY <2>1
      <4>2. QED
        BY <4>1
    <3>2. SlotBytes * w = SlotBytes * k + SlotBytes * j
      BY <2>1, <3>1, TimesAreNumbers
    <3>3. SlotBytes * k \in Nat /\ SlotBytes * j \in Nat
      BY <2>1, <3>1, TimesAreNumbers
    <3>4. QED
      BY <3>2, <3>3
  <2>4. SlotBytes * k \in Nat /\ SlotBytes * k <= MaxFake
    BY <2>2, <2>3, TimesAreNumbers
  <2>5. QED
    BY <2>4 DEF k
<1>5. SlotBytes * (n - count) < Width
  <2> DEFINE k == n - count
             j == (MaxTime + 1) - k
  <2>1. k \in Nat /\ j \in Nat /\ k + j = MaxTime + 1
    BY <1>1, <1>2, TimesAreNumbers
  <2> HIDE DEF k, j
  <2>2. SlotBytes * (MaxTime + 1) = SlotBytes * k + SlotBytes * j
    BY <2>1, TimesAreNumbers
  <2>3. SlotBytes * k \in Nat /\ SlotBytes * j \in Nat
    BY <2>1, TimesAreNumbers
  <2>4. SlotBytes * k < Width
    BY <2>2, <2>3, TimelineAssumption
  <2>5. QED
    BY <2>4 DEF k
<1>6. (SlotBytes * (n - count)) % Width = SlotBytes * (n - count)
  BY <1>4, <1>5, TimesAreNumbers
<1>7. Counted(ts)
  BY DEF Counted
<1>8. FakeLen(ts) = SlotBytes * (n - count)
  <2>1. CASE n > count
    <3>1. ~(SlotBytes * (n - count) > MaxFake)
      BY <1>4, TimesAreNumbers
    <3>2. QED
      BY <1>3, <1>6, <1>7, <2>1, <3>1, Zenon DEF FakeLen
  <2>2. CASE ~(n > count)
    <3>1. n - count = 0 /\ SlotBytes * 0 = 0
      BY <1>2, <2>2, TimesAreNumbers
    <3>2. FakeLen(ts) = 0
      BY <1>3, <1>7, <2>2, Zenon DEF FakeLen
    <3>3. QED
      BY <3>1, <3>2
  <2>3. QED
    BY <2>1, <2>2
<1> HIDE DEF a, b, n
<1>9. count' = n
  BY <1>2, <1>3, <1>7 DEF AddFakeAudioPcm
<1>10. fakeBytes' = SlotBytes * (1 + count) + SlotBytes * (n - count)
  BY <1>1, <1>8 DEF AddFakeAudioPcm
<1>11. SlotBytes * (1 + count) + SlotBytes * (n - count) = SlotBytes * (1 + n)
  BY <1>2, TimesAreNumbers
<1>12. start' = start /\ lastVideo' = ts
  BY DEF AddFakeAudioPcm
<1>13. QED
  BY <1>9, <1>10, <1>11, <1>12 DEF n

PacedInv == TimelineInv /\ Paced

LEMMA VideoKeepsPace ==
    ASSUME PacedInv, NEW ts \in Times, VideoFrame(ts)
    PROVE  Paced'
<1>0. TimelineTypeOK /\ StreamOK(Stream) /\ Paced
  BY StreamIsOK DEF PacedInv, TimelineInv
<1>1. CASE bCarHaveAudio
  <2>1. UNCHANGED <<start, lastVideo, count, fakeBytes, bCarHaveAudio>>
        /\ (steady' => steady)
    BY <1>1 DEF VideoFrame, ClockShows, audioVars
  <2>2. QED
    BY <1>0, <1>1, <2>1 DEF Paced, Slots
<1>2. CASE ~bCarHaveAudio
  <2>1. /\ AddFakeAudioPcm(ts) /\ bCarHaveAudio' = bCarHaveAudio
        /\ steady' = (steady /\ (tsLast["video"] # Unset =>
                /\ ts > tsLast["video"]
                /\ SlotBytes * Slots(ts - tsLast["video"]) <= MaxFake))
    BY <1>2 DEF VideoFrame, ClockShows, Slots
  <2>2. start' # Unset /\ lastVideo' = ts
    BY <2>1, TimesAreNumbers DEF AddFakeAudioPcm
  <2>3. SUFFICES ASSUME steady'
        PROVE  /\ start' <= lastVideo'
               /\ count' = Slots(lastVideo' - start')
               /\ fakeBytes' = SlotBytes * (1 + count')
               /\ lastVideo' = tsLast'["video"]
    BY <2>2 DEF Paced, Slots
  <2>4. /\ steady
        /\ tsLast["video"] # Unset => /\ ts > tsLast["video"]
                                      /\ SlotBytes * Slots(ts - tsLast["video"]) <= MaxFake
    BY <2>1, <2>3
  <2>5. tsLast'["video"] = ts
    <3>1. "video" \in Tracks /\ Stream.tsLast = tsLast /\ tsLast \in [Tracks -> Times \cup {Unset}]
      BY <1>0 DEF Tracks, Stream, TimelineTypeOK
    <3>2. ~(Stream.tsLast["video"] > ts)
      BY <2>4, <3>1, TimesAreNumbers
    <3> DEFINE p == Push(Stream, "video", ts)
    <3>3. StreamOK(p) /\ p.tsLast = [tsLast EXCEPT !["video"] = ts]
      BY <1>0, <3>1, <3>2, PushKeepsElapsed
    <3>4. p.tsLast["video"] = ts
      BY <3>1, <3>3
    <3>5. CASE FakeLen(ts) = 0
      BY <1>2, <3>4, <3>5 DEF VideoFrame, SetStream
    <3>6. CASE FakeLen(ts) # 0
      <4>1. FakeLen(ts) \in 1..RawBytes
        BY <1>0, <3>6, FakeLenIsSmall, TimesAreNumbers
      <4>2. PICK t \in WriteAudio(p, FakeLen(ts), ts) : SetStream(t)
        BY <1>2, <3>6 DEF VideoFrame
      <4> HIDE DEF p
      <4>3. t.tsLast["video"] = p.tsLast["video"]
        BY <3>3, <4>1, <4>2, WriteAudioKeepsElapsed
      <4>4. QED
        BY <3>4, <4>2, <4>3 DEF SetStream
    <3>7. QED
      BY <3>5, <3>6
  <2>6. CASE start = Unset
    <3>1. /\ start' = ts /\ lastVideo' = ts /\ count' = Slots(0)
          /\ fakeBytes' = SlotBytes * (1 + count')
      BY <1>0, <2>1, <2>6, FirstSilence
    <3>2. ts \in Nat /\ ts - ts = 0 /\ ts <= ts
      BY TimesAreNumbers
    <3>3. QED
      BY <2>5, <3>1, <3>2
  <2>7. CASE start # Unset
    <3>1. /\ start \in Times /\ lastVideo = tsLast["video"] /\ start <= lastVideo
          /\ lastVideo \in Nat
      <4>1. lastVideo = tsLast["video"] /\ start <= lastVideo
        BY <1>0, <1>2, <2>4, <2>7, Zenon DEF Paced
      <4>2. start \in Times /\ lastVideo \in Nat
        <5>1. start \in Times \cup {Unset} /\ lastVideo \in Times \cup {Unset}
          BY <1>0, Zenon DEF TimelineTypeOK
        <5>2. QED
          BY <2>7, <5>1, TimesAreNumbers
      <4>3. QED
        BY <4>1, <4>2
    <3>2. lastVideo # Unset
      BY <3>1, TimesAreNumbers
    <3>3. /\ start' = start /\ lastVideo' = ts /\ count' = Slots(ts - start)
          /\ fakeBytes' = SlotBytes * (1 + count')
      BY <1>0, <2>1, <2>4, <2>7, <3>1, <3>2, NextSilence
    <3>4. start <= ts
      BY <2>4, <3>1, <3>2, TimesAreNumbers
    <3>5. QED
      BY <2>5, <3>3, <3>4
  <2>8. QED
    BY <2>6, <2>7
<1>3. QED
  BY <1>1, <1>2

LEMMA PacedInvHolds == TimelineSpec => []PacedInv
<1>1. TimelineInit => Paced
  BY DEF TimelineInit, Paced
<1>2. PacedInv /\ [TimelineNext]_timelineVars => Paced'
  <2> SUFFICES ASSUME PacedInv, [TimelineNext]_timelineVars PROVE Paced'
    OBVIOUS
  <2>1. ASSUME NEW ts \in Times, AudioFrame(ts) PROVE Paced'
    <3>1. /\ UNCHANGED <<start, lastVideo, count, fakeBytes>>
          /\ bCarHaveAudio' /\ (steady' => steady)
      BY <2>1 DEF AudioFrame, ClockShows, audioVars
    <3>2. QED
      BY <3>1 DEF PacedInv, Paced, Slots
  <2>2. CASE UNCHANGED timelineVars
    BY <2>2 DEF PacedInv, Paced, Slots, timelineVars, audioVars, streamVars
  <2>3. QED
    BY <2>1, <2>2, VideoKeepsPace DEF TimelineNext
<1>3. QED
  BY <1>1, <1>2, TimelineInvHolds, PTL DEF TimelineSpec, PacedInv

(* On a clock that goes forward in steps MaxFake can fill, what            *)
(* RtmpClient::AddFakeAudioPcm has added always covers the video so far    *)
(* and one slot, and no more: the silence neither falls behind nor gets    *)
(* ahead of the picture.                                                   *)
THEOREM SilenceKeepsPace == TimelineSpec => []FakePaced
<1>1. PacedInv => FakePaced
  BY DEF PacedInv, Paced, FakePaced, Slots
<1>2. QED
  BY <1>1, PacedInvHolds, PTL
=============================================================================
