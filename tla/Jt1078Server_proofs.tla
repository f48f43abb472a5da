------------------------ MODULE Jt1078Server_proofs ------------------------
(***************************************************************************)
(* Proofs about jt1078_server and what it calls: ForwardServer, for any    *)
(* number of sessions, devices and cars and for both the real-time and the *)
(* history server; Jt1078Decoder, for any packets, sizes of their parts    *)
(* and ways to cut the stream into reads; and DeviceIds, for SIM numbers   *)
(* of any length.                                                          *)
(***************************************************************************)
EXTENDS ForwardServer, Jt1078Decoder, DeviceIds, SequenceInduction,
        FiniteSetTheorems, TLAPS

(* The inductive invariant.  HealthyServed and NoIdleChannel need          *)
(* MembersHaveChannel (a channel created anew starts empty), and           *)
(* NoIdleChannel needs UnwritableIsBroken.                                 *)
IInv ==
    /\ TypeOK
    /\ MembersRegistered
    /\ MembersHaveChannel
    /\ WantsRegistered
    /\ UnwritableIsBroken
    /\ NoIdleChannel
    /\ OpenHasChannel
    /\ HealthyServed

-----------------------------------------------------------------------------
(* Before the first connection the invariant holds: nothing is registered. *)
LEMMA InitInv == Init => IInv
BY    DEF Init, IInv, TypeOK, MembersRegistered, MembersHaveChannel, WantsRegistered,
       UnwritableIsBroken, NoIdleChannel, OpenHasChannel, HealthyServed

(* The scan that ends Unsubscribe and OnPacketError: whatever lists m it   *)
(* is given, it keeps types, leaves no channel empty, gives no list to a   *)
(* device without channel and closes what it releases.                     *)
LEMMA ReleaseLemma ==
    ASSUME TypeOK, OpenHasChannel,
           NEW m \in [Devices -> SUBSET Sessions],
           \A d \in Devices : m[d] \subseteq members[d],
           MembersHaveChannel,
           ReleaseChannelIfEmptySubscriber(m)
    PROVE  /\ channels' \subseteq Devices
           /\ members' = m
           /\ cars' \subseteq cars
           /\ carDevice' \in [Cars -> Devices \cup {NoDevice}]
           /\ told' \in [Devices -> {"none", "open", "close"}]
           /\ \A d \in Devices : d \in channels' <=> (d \in channels /\ m[d] # {})
           /\ \A d \in Devices \ channels' : m[d] = {}
           /\ OpenHasChannel'
           /\ \A c \in cars \ cars' : carDevice[c] \in channels /\ m[carDevice[c]] = {}
<1> USE DEF ReleaseChannelIfEmptySubscriber, EmptyChannels, DisconnectCars
<1>1. /\ channels' = channels \ {d \in channels : m[d] = {}}
      /\ members' = m
      /\ channels' \subseteq Devices
      /\ cars' \subseteq cars
  BY DEF TypeOK
<1>2. told' \in [Devices -> {"none", "open", "close"}]
  BY DEF TypeOK
<1>3. carDevice' \in [Cars -> Devices \cup {NoDevice}]
  BY DEF TypeOK
<1>4. \A d \in Devices : d \in channels' <=> (d \in channels /\ m[d] # {})
  BY <1>1 DEF TypeOK
<1>5. \A d \in Devices \ channels' : m[d] = {}
  BY <1>4 DEF MembersHaveChannel, TypeOK
<1>6. OpenHasChannel'
  BY <1>4 DEF OpenHasChannel, TypeOK
<1>7. \A c \in cars \ cars' : carDevice[c] \in channels /\ m[carDevice[c]] = {}
  OBVIOUS
<1>8. QED
  BY <1>1, <1>2, <1>3, <1>4, <1>5, <1>6, <1>7

-----------------------------------------------------------------------------
(* Every step preserves the invariant: one step per action. *)
LEMMA NextInv == IInv /\ [Next]_vars => IInv'
<1> SUFFICES ASSUME IInv, [Next]_vars
             PROVE  IInv'
  OBVIOUS
<1> USE DEF IInv
<1>1. ASSUME NEW s \in Sessions, OnNewConnection(s)
      PROVE  IInv'
  BY <1>1 DEF OnNewConnection, chanVars, carVars, TypeOK, MembersRegistered,
       MembersHaveChannel, WantsRegistered, UnwritableIsBroken, NoIdleChannel, OpenHasChannel,
       HealthyServed
<1>2. ASSUME NEW s \in Sessions, ConnectionBreaks(s)
      PROVE  IInv'
  BY <1>2 DEF ConnectionBreaks, chanVars, carVars, TypeOK, MembersRegistered,
       MembersHaveChannel, WantsRegistered, UnwritableIsBroken, NoIdleChannel, OpenHasChannel,
       HealthyServed
<1>3. ASSUME NEW s \in Sessions, NEW d \in Devices, Subscribe(s, d)
      PROVE  IInv'
  <2> USE <1>3 DEF Subscribe, subVars, carVars
  <2>1. TypeOK'
    BY DEF TypeOK, NotifyOpenCarTerminal
  <2>2. MembersRegistered' /\ MembersHaveChannel' /\ WantsRegistered'
    BY DEF TypeOK, MembersRegistered, MembersHaveChannel, WantsRegistered
  <2>3. UnwritableIsBroken'
    BY DEF UnwritableIsBroken
  <2>4. NoIdleChannel'
    BY DEF NoIdleChannel, TypeOK
  <2>5. OpenHasChannel'
    BY DEF OpenHasChannel, NotifyOpenCarTerminal, TypeOK
  <2>6. HealthyServed'
    BY DEF HealthyServed, TypeOK
  <2>7. QED
    BY <2>1, <2>2, <2>3, <2>4, <2>5, <2>6
<1>4. ASSUME NEW s \in Sessions, NEW d \in Devices, Unsubscribe(s, d)
      PROVE  IInv'
  <2> DEFINE m == WithoutIn(d, s)
  <2>1. /\ m \in [Devices -> SUBSET Sessions]
        /\ \A e \in Devices : m[e] \subseteq members[e]
        /\ \A e \in Devices, t \in Sessions :
              t \in members[e] => t \in m[e] \/ (e = d /\ t = s)
    BY DEF WithoutIn, TypeOK
  <2>2. ReleaseChannelIfEmptySubscriber(m) /\ UNCHANGED subVars
        /\ wants' = wants \ {<<s, d>>}
    BY <1>4 DEF Unsubscribe
  <2> HIDE DEF m
  <2>3. /\ channels' \subseteq Devices
        /\ members' = m
        /\ cars' \subseteq cars
        /\ carDevice' \in [Cars -> Devices \cup {NoDevice}]
        /\ told' \in [Devices -> {"none", "open", "close"}]
        /\ \A e \in Devices : e \in channels' <=> (e \in channels /\ m[e] # {})
        /\ \A e \in Devices \ channels' : m[e] = {}
        /\ OpenHasChannel'
    BY <2>1, <2>2, ReleaseLemma
  <2>4. TypeOK'
    BY <2>1, <2>2, <2>3 DEF TypeOK, subVars
  <2>5. MembersRegistered' /\ MembersHaveChannel' /\ WantsRegistered'
    BY <2>1, <2>2, <2>3 DEF MembersRegistered, MembersHaveChannel,
         WantsRegistered, subVars
  <2>6. UnwritableIsBroken' /\ NoIdleChannel'
    BY <2>2, <2>3 DEF UnwritableIsBroken, NoIdleChannel, subVars
  <2>7. HealthyServed'
    BY <2>1, <2>2, <2>3 DEF HealthyServed, subVars, TypeOK
  <2>8. QED
    BY <2>3, <2>4, <2>5, <2>6, <2>7
<1>5. ASSUME NEW s \in Sessions, OnPacketError(s)
      PROVE  IInv'
  <2> DEFINE m == Without(s)
  <2>1. /\ m \in [Devices -> SUBSET Sessions]
        /\ \A e \in Devices : m[e] \subseteq members[e]
        /\ \A e \in Devices : m[e] = members[e] \ {s}
    BY DEF Without, TypeOK
  <2>2. /\ ReleaseChannelIfEmptySubscriber(m)
        /\ subscribers' = subscribers \ {s}
        /\ canWrite' = canWrite \ {s}
        /\ broken' = broken \ {s}
        /\ wants' = {w \in wants : w[1] # s}
    BY <1>5 DEF OnPacketError
  <2> HIDE DEF m
  <2>3. /\ channels' \subseteq Devices
        /\ members' = m
        /\ cars' \subseteq cars
        /\ carDevice' \in [Cars -> Devices \cup {NoDevice}]
        /\ told' \in [Devices -> {"none", "open", "close"}]
        /\ \A e \in Devices : e \in channels' <=> (e \in channels /\ m[e] # {})
        /\ \A e \in Devices \ channels' : m[e] = {}
        /\ OpenHasChannel'
    BY <2>1, <2>2, ReleaseLemma
  <2>4. TypeOK'
    BY <2>1, <2>2, <2>3 DEF TypeOK
  <2>5. MembersRegistered' /\ MembersHaveChannel' /\ WantsRegistered'
    BY <2>1, <2>2, <2>3 DEF MembersRegistered, MembersHaveChannel, WantsRegistered
  <2>6. UnwritableIsBroken' /\ NoIdleChannel'
    BY <2>2, <2>3 DEF UnwritableIsBroken, NoIdleChannel
  <2>7. HealthyServed'
    BY <2>1, <2>2, <2>3 DEF HealthyServed, TypeOK
  <2>8. QED
    BY <2>3, <2>4, <2>5, <2>6, <2>7
<1>6. ASSUME NEW c \in Cars, CarConnects(c)
      PROVE  IInv'
  BY <1>6 DEF CarConnects, subVars, chanVars, TypeOK, MembersRegistered,
       MembersHaveChannel, WantsRegistered, UnwritableIsBroken, NoIdleChannel, OpenHasChannel,
       HealthyServed
<1>7. ASSUME NEW c \in Cars, NEW d \in Devices, CarPacket(c, d)
      PROVE  IInv'
  <2> DEFINE device == IF carDevice[c] = NoDevice THEN d ELSE carDevice[c]
  <2>1. /\ carDevice' = [carDevice EXCEPT ![c] = device]
        /\ UNCHANGED <<subscribers, broken, channels, cars, told, wants>>
    BY <1>7 DEF CarPacket
  <2>2. PICK failing \in SUBSET (members[device] \cap canWrite \cap broken) :
               SendMsg(device, failing)
    BY <1>7 DEF CarPacket
  <2>3. device \in Devices
    BY DEF TypeOK
  <2> HIDE DEF device
  <2>4. /\ canWrite' = canWrite \ failing
        /\ failing \subseteq broken
        /\ members' = [members EXCEPT ![device] = @ \cap canWrite']
    BY <2>2 DEF SendMsg
  <2>5. TypeOK'
    BY <2>1, <2>3, <2>4 DEF TypeOK
  <2>6. MembersRegistered' /\ MembersHaveChannel' /\ WantsRegistered'
    BY <2>1, <2>3, <2>4 DEF MembersRegistered, MembersHaveChannel,
         WantsRegistered, TypeOK
  <2>7. UnwritableIsBroken'
    BY <2>1, <2>4 DEF UnwritableIsBroken
  <2>8. NoIdleChannel'
    BY <2>1, <2>3, <2>4, <2>7 DEF NoIdleChannel, TypeOK, MembersRegistered,
         UnwritableIsBroken
  <2>9. OpenHasChannel' /\ HealthyServed'
    BY <2>1, <2>3, <2>4 DEF OpenHasChannel, HealthyServed, TypeOK
  <2>10. QED
    BY <2>5, <2>6, <2>7, <2>8, <2>9
<1>8. ASSUME NEW c \in Cars, CarError(c)
      PROVE  IInv'
  BY <1>8 DEF CarError, subVars, chanVars, TypeOK, MembersRegistered,
       MembersHaveChannel, WantsRegistered, UnwritableIsBroken, NoIdleChannel, OpenHasChannel,
       HealthyServed
<1>9. CASE UNCHANGED vars
  BY <1>9 DEF vars, TypeOK, MembersRegistered, MembersHaveChannel, WantsRegistered,
       UnwritableIsBroken, NoIdleChannel, OpenHasChannel, HealthyServed
<1>10. QED
  BY <1>1, <1>2, <1>3, <1>4, <1>5, <1>6, <1>7, <1>8, <1>9 DEF Next

(* In every reachable state the inductive invariant holds. *)
THEOREM Invariance == Spec => []IInv
<1>1. QED
  BY InitInv, NextInv, PTL DEF Spec

(* Every variable keeps its type. *)
THEOREM TypeCorrect == Spec => []TypeOK
<1>1. IInv => TypeOK
  BY DEF IInv
<1>2. QED
  BY <1>1, Invariance, PTL

(* No channel lists a session that was dropped, whatever order errors,     *)
(* subscriptions and failing sends come in.                                *)
THEOREM NoDanglingMember == Spec => []MembersRegistered
<1>1. IInv => MembersRegistered
  BY DEF IInv
<1>2. QED
  BY <1>1, Invariance, PTL

(* A channel without subscribers exists only while the read error of a     *)
(* broken session is outstanding, and that error's handler releases it.    *)
THEOREM IdleChannelHasReaper == Spec => []NoIdleChannel
<1>1. IInv => NoIdleChannel
  BY DEF IInv
<1>2. QED
  BY <1>1, Invariance, PTL

(* The 808 platform's open commands are all closed with their channel. *)
THEOREM OpenIsClosed == Spec => []OpenHasChannel
<1>1. IInv => OpenHasChannel
  BY DEF IInv
<1>2. QED
  BY <1>1, Invariance, PTL

(* A subscriber that can be written to is served all it asked for. *)
THEOREM SubscriptionKept == Spec => []HealthyServed
<1>1. IInv => HealthyServed
  BY DEF IInv
<1>2. QED
  BY <1>1, Invariance, PTL

-----------------------------------------------------------------------------
(* One subscriber's leaving never cuts the car that another, healthy one   *)
(* still watches.  The handlers that cut cars release only the channels    *)
(* whose list is empty, and by HealthyServed those interest nobody.        *)
THEOREM WatchedCarKept == Spec => NoCutWhileWatched
<1> DEFINE Kept == \A c \in cars \ cars' :
                      \/ CarError(c)
                      \/ \A s \in canWrite' : <<s, carDevice[c]>> \notin wants'
<1>1. ASSUME IInv, IInv', [Next]_vars
      PROVE  [Kept]_vars
  <2> SUFFICES Kept
    OBVIOUS
  <2>1. ASSUME NEW m \in [Devices -> SUBSET Sessions],
               \A d \in Devices : m[d] \subseteq members[d],
               ReleaseChannelIfEmptySubscriber(m)
        PROVE  Kept
    <3>1. /\ members' = m
          /\ \A c \in cars \ cars' : carDevice[c] \in channels /\ m[carDevice[c]] = {}
      BY <1>1, <2>1, ReleaseLemma DEF IInv
    <3>2. \A s \in canWrite', d \in Devices : m[d] = {} => <<s, d>> \notin wants'
      BY <1>1, <3>1 DEF IInv, HealthyServed
    <3>3. channels \subseteq Devices
      BY <1>1 DEF IInv, TypeOK
    <3>4. QED
      BY <3>1, <3>2, <3>3
  <2>2. ASSUME NEW s \in Sessions, NEW d \in Devices, Unsubscribe(s, d)
        PROVE  Kept
    <3>1. /\ WithoutIn(d, s) \in [Devices -> SUBSET Sessions]
          /\ \A e \in Devices : WithoutIn(d, s)[e] \subseteq members[e]
      BY <1>1 DEF WithoutIn, IInv, TypeOK
    <3>2. QED
      BY <2>1, <2>2, <3>1 DEF Unsubscribe
  <2>3. ASSUME NEW s \in Sessions, OnPacketError(s)
        PROVE  Kept
    <3>1. /\ Without(s) \in [Devices -> SUBSET Sessions]
          /\ \A e \in Devices : Without(s)[e] \subseteq members[e]
      BY <1>1 DEF Without, IInv, TypeOK
    <3>2. QED
      BY <2>1, <2>3, <3>1 DEF OnPacketError
  <2>4. ASSUME NEW c \in Cars, CarError(c)
        PROVE  Kept
    BY <2>4 DEF CarError
  <2>5. ASSUME cars \subseteq cars'
        PROVE  Kept
    BY <2>5
  <2>6. ASSUME NEW s \in Sessions, OnNewConnection(s) \/ ConnectionBreaks(s)
        PROVE  Kept
    BY <2>5, <2>6 DEF OnNewConnection, ConnectionBreaks, carVars
  <2>7. ASSUME NEW s \in Sessions, NEW d \in Devices, Subscribe(s, d)
        PROVE  Kept
    BY <2>5, <2>7 DEF Subscribe, carVars
  <2>8. ASSUME NEW c \in Cars, CarConnects(c)
        PROVE  Kept
    BY <2>5, <2>8 DEF CarConnects
  <2>9. ASSUME NEW c \in Cars, NEW d \in Devices, CarPacket(c, d)
        PROVE  Kept
    BY <2>5, <2>9 DEF CarPacket
  <2>10. CASE UNCHANGED vars
    BY <2>5, <2>10 DEF vars
  <2>11. QED
    BY <1>1, <2>2, <2>3, <2>4, <2>6, <2>7, <2>8, <2>9, <2>10 DEF Next
<1>2. QED
  BY <1>1, Invariance, PTL DEF Spec, NoCutWhileWatched

-----------------------------------------------------------------------------
(* ForwardServer implements StreamDemand: a subscription is Ask, the       *)
(* handlers that end with the scan are Withdraw, a packet whose sends fail *)
(* is Lapse, and every other step leaves the promise's state alone.        *)

(* The scan leaves exactly the channels that are still demanded. *)
LEMMA ReleaseIsWithdraw ==
    ASSUME TypeOK, OpenHasChannel, MembersHaveChannel,
           NEW m \in [Devices -> SUBSET Sessions],
           \A d \in Devices : m[d] \subseteq members[d],
           ReleaseChannelIfEmptySubscriber(m)
    PROVE  \E W \in SUBSET (Sessions \X Devices) : Contract!Withdraw(W)
<1> DEFINE W == {w \in Sessions \X Devices : w[1] \in members[w[2]] \ m[w[2]]}
<1>1. /\ members' = m
      /\ channels' \subseteq Devices
      /\ \A d \in Devices : d \in channels' <=> (d \in channels /\ m[d] # {})
  BY ReleaseLemma
<1>2. Demand' = Demand \ W
  BY <1>1 DEF Demand
<1>3. \A d \in Devices : d \in Contract!Demanded(Demand') <=> m[d] # {}
  BY <1>1 DEF Demand, Contract!Demanded
<1>4. channels \subseteq Devices
  BY DEF TypeOK
<1>5. channels' = channels \cap Contract!Demanded(Demand')
  BY <1>1, <1>3, <1>4
<1>6. channels \ channels' = EmptyChannels(m)
  BY <1>1, <1>4 DEF EmptyChannels
<1>7. told' = [d \in Devices |-> IF d \in channels \ channels' THEN "close" ELSE told[d]]
  BY <1>6 DEF ReleaseChannelIfEmptySubscriber
<1>8. Contract!Withdraw(W)
  BY <1>2, <1>5, <1>7 DEF Contract!Withdraw
<1>9. QED
  BY <1>8

(* The jt1078_server keeps its promise to the platform and the subscribers. *)
THEOREM ForwardServerImplementsDemand == Spec => ImplementsDemand
<1>1. Init => Contract!Init
  BY DEF Init, Contract!Init, Demand
<1>2. ASSUME IInv, [Next]_vars
      PROVE  [Contract!Next]_(Contract!dvars)
  <2> USE <1>2 DEF IInv
  <2>1. ASSUME UNCHANGED <<members, channels, told>>
        PROVE  UNCHANGED Contract!dvars
    BY <2>1 DEF Contract!dvars, Demand
  <2>2. ASSUME NEW s \in Sessions, NEW d \in Devices, Subscribe(s, d)
        PROVE  Contract!Next
    <3>1. Demand' = Demand \cup {<<s, d>>}
      BY <2>2 DEF Subscribe, Demand, TypeOK
    <3>2. /\ channels' = channels \cup {d}
          /\ \/ told' = told
             \/ d \notin channels /\ told' = [told EXCEPT ![d] = "open"]
      BY <2>2 DEF Subscribe, NotifyOpenCarTerminal
    <3>3. Contract!Ask(s, d)
      BY <3>1, <3>2 DEF Contract!Ask
    <3>4. QED
      BY <3>3 DEF Contract!Next
  <2>3. ASSUME NEW s \in Sessions, NEW d \in Devices, Unsubscribe(s, d)
        PROVE  Contract!Next
    <3>1. /\ WithoutIn(d, s) \in [Devices -> SUBSET Sessions]
          /\ \A e \in Devices : WithoutIn(d, s)[e] \subseteq members[e]
      BY DEF WithoutIn, TypeOK
    <3>2. QED
      BY <2>3, <3>1, ReleaseIsWithdraw DEF Unsubscribe, Contract!Next
  <2>4. ASSUME NEW s \in Sessions, OnPacketError(s)
        PROVE  Contract!Next
    <3>1. /\ Without(s) \in [Devices -> SUBSET Sessions]
          /\ \A e \in Devices : Without(s)[e] \subseteq members[e]
      BY DEF Without, TypeOK
    <3>2. QED
      BY <2>4, <3>1, ReleaseIsWithdraw DEF OnPacketError, Contract!Next
  <2>5. ASSUME NEW c \in Cars, NEW d \in Devices, CarPacket(c, d)
        PROVE  Contract!Next
    <3> DEFINE W == {w \in Sessions \X Devices : w[1] \in members[w[2]] \ members'[w[2]]}
    <3>1. /\ UNCHANGED <<channels, told>>
          /\ \A e \in Devices : members'[e] \subseteq members[e]
      BY <2>5 DEF CarPacket, SendMsg, TypeOK
    <3>2. Demand' = Demand \ W
      BY <3>1 DEF Demand
    <3>3. Contract!Lapse(W)
      BY <3>1, <3>2 DEF Contract!Lapse
    <3>4. QED
      BY <3>3 DEF Contract!Next
  <2>6. ASSUME NEW s \in Sessions, OnNewConnection(s) \/ ConnectionBreaks(s)
        PROVE  UNCHANGED Contract!dvars
    BY <2>1, <2>6 DEF OnNewConnection, ConnectionBreaks, chanVars
  <2>7. ASSUME NEW c \in Cars, CarConnects(c) \/ CarError(c)
        PROVE  UNCHANGED Contract!dvars
    BY <2>1, <2>7 DEF CarConnects, CarError, chanVars
  <2>8. CASE UNCHANGED vars
    BY <2>1, <2>8 DEF vars
  <2>9. QED
    BY <2>2, <2>3, <2>4, <2>5, <2>6, <2>7, <2>8 DEF Next
<1>3. QED
  BY <1>1, <1>2, Invariance, PTL DEF Spec, ImplementsDemand, Contract!Spec

-----------------------------------------------------------------------------
(* Jt1078Decoder.  The invariant says where in the stream the decoder is:  *)
(* how many packets it has given, all of them valid, that what it holds is *)
(* the stream's bytes from the end of the last to what has been read, and  *)
(* that it waits for more or has refused the next packet.  GotWhatArrived  *)
(* and DroppedForCause follow from it.                                     *)

(* The car's packets do not change.                                        *)
CarPackets == car \in Seq(Packets) /\ Len(car) <= MaxPackets

(* The stream up to the end of a packet, and between two places.           *)
Until(i) == FlattenSeq([j \in 1..i |-> Bytes(j)])
From(a, b) == SubSeq(Stream, a + 1, b)

LEMMA Sizes ==
    /\ First \in Nat /\ First >= 1 /\ MinSecond \in Nat /\ MinSecond >= 1
    /\ MaxRead \in Nat /\ MaxRead >= 1
    /\ AudioSecond \in Nat /\ VideoSecond \in Nat /\ MaxBody \in Nat /\ MaxBuffer \in Nat
    /\ MaxPackets \in Nat
    /\ MinSecond <= AudioSecond /\ AudioSecond <= VideoSecond
    /\ First + VideoSecond + MaxBody + MaxRead <= MaxBuffer
BY DecoderAssumption

LEMMA PacketFacts ==
    ASSUME CarPackets, NEW i \in 1..Len(car)
    PROVE  /\ car[i].mark \in BOOLEAN /\ car[i].body \in Nat
           /\ Second[car[i].kind] \in Nat /\ MinSecond <= Second[car[i].kind]
           /\ Second[car[i].kind] <= VideoSecond
           /\ Length(car[i]) = First + Second[car[i].kind] + car[i].body
           /\ Length(car[i]) \in Nat
           /\ Bytes(i) \in Seq(Byte) /\ Len(Bytes(i)) = Length(car[i])
           /\ \A o \in 1..Length(car[i]) : Bytes(i)[o] = <<i, o>>
<1>1. /\ car[i] \in Packets
      /\ i \in 1..MaxPackets /\ MaxPackets \in Nat
  BY Sizes DEF CarPackets
<1>2. car[i].kind \in {"video", "audio", "route"} /\ car[i].mark \in BOOLEAN
      /\ car[i].body \in 0..MaxBody + 1
  BY <1>1 DEF Packets, Second
<1>3. /\ Second[car[i].kind] \in Nat /\ MinSecond <= Second[car[i].kind]
      /\ Second[car[i].kind] <= VideoSecond
  BY <1>2, Sizes DEF Second
<1> DEFINE l == Length(car[i])
           bound == First + VideoSecond + MaxBody + 1
<1>4. l = First + Second[car[i].kind] + car[i].body /\ l \in Nat /\ l <= bound /\ bound \in Nat
  <2> DEFINE second == Second[car[i].kind]
             body == car[i].body
  <2>1. l = First + second + body
    BY DEF Length
  <2>2. second \in Nat /\ second <= VideoSecond /\ body \in Nat /\ body <= MaxBody + 1
    BY <1>2, <1>3, Sizes
  <2> HIDE DEF second, body, l
  <2>3. l \in Nat /\ l <= bound /\ bound \in Nat
    BY <2>1, <2>2, Sizes
  <2> QED
    BY <2>1, <2>3 DEF second, body
<1>5. \A o \in 1..l : <<i, o>> \in Byte
  <2> HIDE DEF l
  <2> QED
    BY <1>1, <1>4 DEF Byte
<1>6. Bytes(i) = [o \in 1..l |-> <<i, o>>]
  BY DEF Bytes
<1>7. Bytes(i) \in Seq(Byte) /\ Len(Bytes(i)) = l /\ \A o \in 1..l : Bytes(i)[o] = <<i, o>>
  <2> HIDE DEF l
  <2>1. Bytes(i) \in [1..l -> Byte]
    BY <1>5, <1>6
  <2>2. Bytes(i) \in Seq(Byte) /\ Len(Bytes(i)) = l
    BY ONLY <1>4, <2>1, FunctionsAreSequences
  <2> QED
    BY <1>6, <2>2
<1> QED
  BY <1>2, <1>3, <1>4, <1>7

LEMMA UntilSteps ==
    ASSUME CarPackets
    PROVE  /\ Len(car) \in Nat
           /\ Until(0) = <<>> /\ Stream = Until(Len(car))
           /\ \A i \in 0..Len(car) : Until(i) \in Seq(Byte)
           /\ \A i \in 1..Len(car) : Until(i) = Until(i - 1) \o Bytes(i)
<1> DEFINE n == Len(car)
           ss(i) == [j \in 1..i |-> Bytes(j)]
<1>1. n \in Nat /\ \A j \in 1..n : Bytes(j) \in Seq(Byte)
  BY PacketFacts DEF CarPackets
<1> HIDE DEF n
<1>2. ASSUME NEW i \in 0..n
      PROVE  ss(i) \in Seq(Seq(Byte)) /\ Len(ss(i)) = i /\ \A j \in 1..i : ss(i)[j] = Bytes(j)
  BY <1>1
<1>3. ss(n) \in Seq(Seq(Byte)) /\ Len(ss(n)) = n /\ \A j \in 1..n : ss(n)[j] = Bytes(j)
  BY <1>1, <1>2
<1> DEFINE all == ss(n)
<1>4. PICK f \in [0..n -> Seq(Byte)] : f[0] = <<>> /\ \A j \in 1..n : f[j] = f[j - 1] \o Bytes(j)
  <2>1. all \in Seq(Seq(Byte)) /\ Len(all) = n /\ \A j \in 1..n : all[j] = Bytes(j)
    BY <1>3
  <2> HIDE DEF all
  <2>2. PICK f \in [0..Len(all) -> Seq(Byte)] :
            f[0] = <<>> /\ \A j \in 1..Len(all) : f[j] = f[j - 1] \o all[j]
    BY <2>1, FlattenSteps
  <2> QED
    BY <2>1, <2>2
<1> HIDE DEF ss
<1>5. ASSUME NEW i \in 0..n PROVE Until(i) = f[i]
  <2>1. ss(i) \in Seq(Seq(Byte)) /\ Len(ss(i)) = i /\ \A j \in 1..i : ss(i)[j] = Bytes(j)
    BY <1>2
  <2>2. ASSUME NEW j \in 1..Len(ss(i)) PROVE f[j] = f[j - 1] \o ss(i)[j]
    <3>1. j \in 1..n /\ j \in 1..i
      BY <1>1, <2>1
    <3> QED
      BY <1>4, <2>1, <3>1
  <2>3. FlattenSeq(ss(i)) = f[Len(ss(i))]
    BY <1>4, <2>1, <2>2, FlattenUnique
  <2> QED
    BY <2>1, <2>3 DEF Until, ss
<1>6. Stream = Until(n)
  BY <1>1 DEF Stream, Until, CarPackets, n
<1>7. ASSUME NEW i \in 1..n PROVE Until(i) = Until(i - 1) \o Bytes(i)
  <2>1. i \in 0..n /\ i - 1 \in 0..n
    BY <1>1
  <2>2. Until(i) = f[i] /\ Until(i - 1) = f[i - 1]
    BY <1>5, <2>1
  <2> QED
    BY <1>4, <2>2
<1>8. ASSUME NEW i \in 0..n PROVE Until(i) \in Seq(Byte)
  BY <1>4, <1>5
<1>9. Until(0) = <<>>
  <2>1. 0 \in 0..n
    BY <1>1
  <2> QED
    BY <1>4, <1>5, <2>1
<1> QED
  BY <1>1, <1>6, <1>7, <1>8, <1>9 DEF n

LEMMA EndOfFacts ==
    ASSUME CarPackets
    PROVE  /\ Stream \in Seq(Byte) /\ Len(Stream) \in Nat
           /\ EndOf(0) = 0 /\ EndOf(Len(car)) = Len(Stream)
           /\ \A i \in 0..Len(car) : EndOf(i) \in Nat
           /\ \A i \in 1..Len(car) : EndOf(i) = EndOf(i - 1) + Length(car[i])
<1>1. \A i \in 0..Len(car) : EndOf(i) = Len(Until(i)) /\ Until(i) \in Seq(Byte)
  BY UntilSteps DEF EndOf, Until
<1>2. Len(car) \in Nat /\ Until(0) = <<>> /\ Stream = Until(Len(car))
  BY UntilSteps
<1>3. 0 \in 0..Len(car) /\ Len(car) \in 0..Len(car)
  BY <1>2
<1>4. ASSUME NEW i \in 1..Len(car) PROVE EndOf(i) = EndOf(i - 1) + Length(car[i])
  <2>1. i \in 0..Len(car) /\ i - 1 \in 0..Len(car)
    BY <1>2
  <2>2. Until(i) = Until(i - 1) \o Bytes(i)
    BY UntilSteps
  <2>3. Bytes(i) \in Seq(Byte) /\ Len(Bytes(i)) = Length(car[i])
    BY PacketFacts
  <2>4. Until(i - 1) \in Seq(Byte)
    BY <1>1, <2>1
  <2>5. Len(Until(i)) = Len(Until(i - 1)) + Len(Bytes(i))
    BY <2>2, <2>3, <2>4, ConcatProperties
  <2> QED
    BY <1>1, <2>1, <2>3, <2>5
<1>5. Stream \in Seq(Byte) /\ Len(Stream) \in Nat /\ EndOf(Len(car)) = Len(Stream)
  BY <1>1, <1>2, <1>3
<1>6. EndOf(0) = 0
  BY <1>1, <1>2, <1>3
<1> QED
  BY <1>1, <1>4, <1>5, <1>6

LEMMA EndOfGrows ==
    ASSUME CarPackets, NEW i \in 0..Len(car), NEW j \in 0..Len(car), i <= j
    PROVE  EndOf(i) <= EndOf(j)
<1> DEFINE S == {m \in Nat : i <= m /\ m <= Len(car) => EndOf(i) <= EndOf(m)}
<1>1. Len(car) \in Nat /\ i \in Nat /\ j \in Nat
  BY DEF CarPackets
<1>2. \A m \in 0..Len(car) : EndOf(m) \in Nat
  BY EndOfFacts
<1>3. 0 \in S
  BY <1>1, <1>2
<1>4. ASSUME NEW m \in Nat, m \in S PROVE m + 1 \in S
  <2>1. SUFFICES ASSUME i <= m + 1, m + 1 <= Len(car) PROVE EndOf(i) <= EndOf(m + 1)
    OBVIOUS
  <2>2. CASE i = m + 1
    BY <1>2, <2>2
  <2>3. CASE i # m + 1
    <3>1. m + 1 \in 1..Len(car) /\ (m + 1) - 1 = m /\ m \in 0..Len(car) /\ i <= m
      BY <1>1, <2>1, <2>3
    <3>2. EndOf(m + 1) = EndOf(m) + Length(car[m + 1])
      BY <3>1, EndOfFacts
    <3>3. Length(car[m + 1]) \in Nat
      BY <3>1, PacketFacts
    <3>4. EndOf(i) <= EndOf(m)
      BY <1>1, <1>4, <3>1
    <3> QED
      BY <1>2, <3>1, <3>2, <3>3, <3>4
  <2> QED
    BY <2>2, <2>3
<1>5. Nat \subseteq S
  <2> HIDE DEF S
  <2> QED
    BY <1>3, <1>4, Induction
<1> QED
  BY <1>1, <1>5

LEMMA StreamAt ==
    ASSUME CarPackets, NEW i \in 1..Len(car), NEW o \in 1..Length(car[i])
    PROVE  /\ EndOf(i - 1) + o \in 1..Len(Stream)
           /\ Stream[EndOf(i - 1) + o] = <<i, o>>
<1> DEFINE a == EndOf(i - 1) + o
           S == {m \in Nat : i <= m /\ m <= Len(car) =>
                                 a <= Len(Until(m)) /\ Until(m)[a] = <<i, o>>}
<1>1. /\ Len(car) \in Nat /\ i \in Nat /\ i - 1 \in 0..Len(car) /\ i >= 1
      /\ EndOf(i - 1) \in Nat /\ Length(car[i]) \in Nat
  BY EndOfFacts, PacketFacts DEF CarPackets
<1>2. o \in Nat /\ o >= 1 /\ o <= Length(car[i]) /\ a \in Nat /\ a >= 1 /\ a > EndOf(i - 1)
  BY <1>1
<1>3. \A m \in 0..Len(car) : Until(m) \in Seq(Byte) /\ Len(Until(m)) = EndOf(m)
  BY UntilSteps DEF EndOf, Until
<1>4. 0 \in S
  BY <1>1
<1>5. ASSUME NEW m \in Nat, m \in S PROVE m + 1 \in S
  <2>1. SUFFICES ASSUME i <= m + 1, m + 1 <= Len(car)
                 PROVE  a <= Len(Until(m + 1)) /\ Until(m + 1)[a] = <<i, o>>
    OBVIOUS
  <2>2. m + 1 \in 1..Len(car) /\ (m + 1) - 1 = m /\ m \in 0..Len(car)
    BY <1>1, <2>1
  <2>3. Until(m + 1) = Until(m) \o Bytes(m + 1)
    BY <2>2, UntilSteps
  <2>4. /\ Until(m) \in Seq(Byte) /\ Bytes(m + 1) \in Seq(Byte)
        /\ Len(Bytes(m + 1)) = Length(car[m + 1])
        /\ \A p \in 1..Length(car[m + 1]) : Bytes(m + 1)[p] = <<m + 1, p>>
    BY <1>3, <2>2, PacketFacts
  <2>5. /\ Len(Until(m + 1)) = Len(Until(m)) + Len(Bytes(m + 1))
        /\ Len(Until(m)) \in Nat /\ Len(Bytes(m + 1)) \in Nat
        /\ \A p \in 1..Len(Until(m)) + Len(Bytes(m + 1)) :
               Until(m + 1)[p] = IF p <= Len(Until(m)) THEN Until(m)[p]
                                 ELSE Bytes(m + 1)[p - Len(Until(m))]
    BY <2>3, <2>4, ConcatProperties
  <2>6. CASE i = m + 1
    <3>1. Len(Until(m)) = EndOf(i - 1) /\ a - Len(Until(m)) = o
      BY <1>1, <1>2, <1>3, <2>2, <2>6
    <3>2. a \in 1..Len(Until(m)) + Len(Bytes(m + 1)) /\ ~(a <= Len(Until(m)))
      <4> DEFINE l == Len(Until(m))
                 n == Len(Bytes(m + 1))
      <4>1. l \in Nat /\ n \in Nat /\ a - l = o
        BY <2>5, <3>1
      <4>2. n = Length(car[i])
        BY <2>4, <2>6
      <4>3. o <= n
        BY <1>2, <4>2
      <4> HIDE DEF a, l, n
      <4>4. a \in 1..l + n /\ ~(a <= l)
        BY <1>2, <4>1, <4>3
      <4> QED
        BY <4>4 DEF l, n
    <3>3. o \in 1..Length(car[m + 1])
      BY <2>6
    <3> HIDE DEF a
    <3>4. Bytes(m + 1)[o] = <<i, o>>
      BY <2>4, <2>6, <3>3
    <3>5. Until(m + 1)[a] = Bytes(m + 1)[a - Len(Until(m))]
      BY <2>5, <3>2
    <3>6. a <= Len(Until(m + 1))
      BY <2>5, <3>2
    <3> QED
      BY <3>1, <3>4, <3>5, <3>6
  <2>7. CASE i # m + 1
    <3>1. i <= m /\ m <= Len(car)
      BY <1>1, <2>1, <2>2, <2>7
    <3>2. a <= Len(Until(m)) /\ Until(m)[a] = <<i, o>>
      BY <1>5, <3>1
    <3> HIDE DEF a
    <3> DEFINE l == Len(Until(m))
               n == Len(Bytes(m + 1))
    <3>3. a <= l /\ l \in Nat /\ n \in Nat
      BY <2>5, <3>2
    <3> HIDE DEF l, n
    <3>4. a \in 1..l + n /\ a <= l + n
      BY <1>2, <3>3
    <3>5. Len(Until(m + 1)) = l + n
      BY <2>5 DEF l, n
    <3>6. Until(m + 1)[a] = Until(m)[a]
      BY <2>5, <3>2, <3>4 DEF l, n
    <3> QED
      BY <3>2, <3>4, <3>5, <3>6
  <2> QED
    BY <2>6, <2>7
<1>6. Nat \subseteq S
  <2> HIDE DEF S
  <2> QED
    BY <1>4, <1>5, Induction
<1>7. a <= Len(Until(Len(car))) /\ Until(Len(car))[a] = <<i, o>>
  BY <1>1, <1>6
<1>8. Stream = Until(Len(car)) /\ Len(Stream) \in Nat
  BY UntilSteps, EndOfFacts
<1> QED
  BY <1>2, <1>7, <1>8

LEMMA FromFacts ==
    ASSUME CarPackets, NEW a \in Nat, NEW b \in Nat, a <= b, b <= Len(Stream)
    PROVE  /\ From(a, b) \in Seq(Byte) /\ Len(From(a, b)) = b - a
           /\ \A i \in 1..b - a : From(a, b)[i] = Stream[a + i]
<1>1. Stream \in Seq(Byte) /\ Len(Stream) \in Nat
  BY EndOfFacts
<1>2. \A i \in a + 1..b : Stream[i] \in Byte
  BY <1>1
<1>3. a + 1 \in Int /\ b \in Int
  OBVIOUS
<1>4. /\ SubSeq(Stream, a + 1, b) \in Seq(Byte)
      /\ Len(SubSeq(Stream, a + 1, b)) = IF a + 1 <= b THEN b - (a + 1) + 1 ELSE 0
      /\ \A i \in 1..b - (a + 1) + 1 : SubSeq(Stream, a + 1, b)[i] = Stream[(a + 1) + i - 1]
  BY <1>2, <1>3, SubSeqProperties
<1> QED
  BY <1>4 DEF From

(* Two pieces of the stream next to each other, one cut off the other, and *)
(* a whole packet.                                                         *)
LEMMA FromJoins ==
    ASSUME CarPackets, NEW a \in Nat, NEW b \in Nat, NEW c \in Nat,
           a <= b, b <= c, c <= Len(Stream)
    PROVE  From(a, b) \o From(b, c) = From(a, c)
<1> DEFINE s == From(a, b)
           t == From(b, c)
           u == From(a, c)
<1>1. /\ s \in Seq(Byte) /\ Len(s) = b - a /\ \A i \in 1..b - a : s[i] = Stream[a + i]
      /\ t \in Seq(Byte) /\ Len(t) = c - b /\ \A i \in 1..c - b : t[i] = Stream[b + i]
      /\ u \in Seq(Byte) /\ Len(u) = c - a /\ \A i \in 1..c - a : u[i] = Stream[a + i]
  <2>1. Len(Stream) \in Nat /\ b <= Len(Stream) /\ a <= c
    BY EndOfFacts
  <2>2. s \in Seq(Byte) /\ Len(s) = b - a /\ \A i \in 1..b - a : s[i] = Stream[a + i]
    BY <2>1, FromFacts
  <2>3. t \in Seq(Byte) /\ Len(t) = c - b /\ \A i \in 1..c - b : t[i] = Stream[b + i]
    BY <2>1, FromFacts
  <2>4. u \in Seq(Byte) /\ Len(u) = c - a /\ \A i \in 1..c - a : u[i] = Stream[a + i]
    BY <2>1, FromFacts
  <2> QED
    BY <2>2, <2>3, <2>4
<1> HIDE DEF s, t, u
<1>2. /\ s \o t \in Seq(Byte) /\ Len(s \o t) = Len(s) + Len(t)
      /\ \A i \in 1..Len(s) + Len(t) : (s \o t)[i] = IF i <= Len(s) THEN s[i] ELSE t[i - Len(s)]
  BY <1>1, ConcatProperties
<1>3. ASSUME NEW i \in 1..Len(s \o t) PROVE (s \o t)[i] = u[i]
  <2>1. i \in 1..Len(s) + Len(t) /\ i \in 1..c - a /\ Len(s) + Len(t) = c - a
    BY <1>1, <1>2
  <2>2. CASE i <= Len(s)
    <3>1. i \in 1..b - a
      BY <1>1, <2>1, <2>2
    <3> QED
      BY <1>1, <1>2, <2>1, <2>2, <3>1
  <2>3. CASE ~(i <= Len(s))
    <3>1. i - Len(s) \in 1..c - b /\ b + (i - Len(s)) = a + i
      BY <1>1, <2>1, <2>3
    <3> QED
      BY <1>1, <1>2, <2>1, <2>3, <3>1
  <2> QED
    BY <2>2, <2>3
<1>4. Len(s \o t) = Len(u)
  BY <1>1, <1>2
<1>5. s \o t = u
  BY <1>1, <1>2, <1>3, <1>4, SeqEqual
<1> QED
  BY <1>5 DEF s, t, u

LEMMA FromCut ==
    ASSUME CarPackets, NEW a \in Nat, NEW c \in Nat, a <= c, c <= Len(Stream),
           NEW n \in 0..c - a
    PROVE  /\ SubSeq(From(a, c), 1, n) = From(a, a + n)
           /\ SubSeq(From(a, c), n + 1, Len(From(a, c))) = From(a + n, c)
<1> DEFINE s == From(a, a + n)
           t == From(a + n, c)
           u == From(a, c)
           x == SubSeq(u, 1, n)
           y == SubSeq(u, n + 1, Len(u))
<1>0. n \in Nat /\ a + n \in Nat /\ a + n <= c /\ a <= a + n /\ a + n <= Len(Stream)
      /\ Len(Stream) \in Nat
  BY EndOfFacts
<1>1. /\ s \in Seq(Byte) /\ Len(s) = n /\ \A i \in 1..n : s[i] = Stream[a + i]
      /\ t \in Seq(Byte) /\ Len(t) = c - (a + n) /\ \A i \in 1..c - (a + n) : t[i] = Stream[(a + n) + i]
      /\ u \in Seq(Byte) /\ Len(u) = c - a /\ \A i \in 1..c - a : u[i] = Stream[a + i]
  <2>1. s \in Seq(Byte) /\ Len(s) = (a + n) - a /\ \A i \in 1..(a + n) - a : s[i] = Stream[a + i]
    BY <1>0, FromFacts
  <2>2. (a + n) - a = n
    BY <1>0
  <2> QED
    BY <1>0, <2>1, <2>2, FromFacts
<1> HIDE DEF s, t, u
<1>2. /\ x \in Seq(Byte) /\ Len(x) = n /\ \A i \in 1..n : x[i] = u[i]
  <2>1. /\ 1 \in Int /\ n \in Int /\ \A i \in 1..n : u[i] \in Byte
        /\ (IF 1 <= n THEN n - 1 + 1 ELSE 0) = n /\ n - 1 + 1 = n
    BY <1>0, <1>1
  <2>2. /\ x \in Seq(Byte) /\ Len(x) = IF 1 <= n THEN n - 1 + 1 ELSE 0
        /\ \A i \in 1..n - 1 + 1 : x[i] = u[1 + i - 1]
    BY <2>1, SubSeqProperties
  <2> QED
    BY <1>0, <2>1, <2>2
<1>3. /\ y \in Seq(Byte) /\ Len(y) = (c - a) - n /\ \A i \in 1..(c - a) - n : y[i] = u[n + i]
  <2> DEFINE l == c - a
  <2>0. l \in Nat /\ n <= l /\ Len(u) = l
    BY <1>0, <1>1
  <2> HIDE DEF l
  <2>1. n + 1 \in Int /\ l \in Int /\ \A i \in n + 1..l : u[i] \in Byte
    BY <1>0, <1>1, <2>0
  <2>2. /\ SubSeq(u, n + 1, l) \in Seq(Byte)
        /\ Len(SubSeq(u, n + 1, l)) = IF n + 1 <= l THEN l - (n + 1) + 1 ELSE 0
        /\ \A i \in 1..l - (n + 1) + 1 : SubSeq(u, n + 1, l)[i] = u[(n + 1) + i - 1]
    BY <2>1, SubSeqProperties
  <2>3. y = SubSeq(u, n + 1, l)
    BY <2>0
  <2>4. \A i \in 1..l - n : (n + 1) + i - 1 = n + i
    BY <1>0, <2>0
  <2>5. l - (n + 1) + 1 = l - n /\ (IF n + 1 <= l THEN l - (n + 1) + 1 ELSE 0) = l - n
    BY <1>0, <2>0
  <2> HIDE DEF y
  <2> QED
    BY <2>2, <2>3, <2>4, <2>5 DEF l
<1> HIDE DEF x, y
<1>4. x = s
  <2>1. ASSUME NEW i \in 1..Len(x) PROVE x[i] = s[i]
    <3>1. i \in 1..n /\ i \in 1..c - a
      BY <1>0, <1>2
    <3> QED
      BY <1>1, <1>2, <3>1
  <2> QED
    BY <1>1, <1>2, <2>1, SeqEqual
<1>5. y = t
  <2>1. ASSUME NEW i \in 1..Len(y) PROVE y[i] = t[i]
    <3>1. /\ i \in 1..(c - a) - n /\ n + i \in 1..c - a /\ i \in 1..c - (a + n)
          /\ (a + n) + i = a + (n + i)
      BY <1>0, <1>3
    <3> QED
      BY <1>1, <1>3, <3>1
  <2>2. Len(y) = Len(t)
    BY <1>0, <1>1, <1>3
  <2> QED
    BY <1>1, <1>3, <2>1, <2>2, SeqEqual
<1> QED
  BY <1>4, <1>5 DEF s, t, u, x, y

LEMMA FromPacket ==
    ASSUME CarPackets, NEW i \in 1..Len(car)
    PROVE  From(EndOf(i - 1), EndOf(i)) = Bytes(i)
<1> DEFINE s == From(EndOf(i - 1), EndOf(i))
           l == Length(car[i])
<1>1. /\ i - 1 \in 0..Len(car) /\ i \in 0..Len(car) /\ Len(car) \in 0..Len(car)
      /\ EndOf(i - 1) \in Nat /\ EndOf(i) \in Nat /\ EndOf(i) = EndOf(i - 1) + l /\ l \in Nat
  BY UntilSteps, EndOfFacts, PacketFacts
<1>2. EndOf(i) <= Len(Stream)
  BY <1>1, EndOfGrows, EndOfFacts
<1>3. EndOf(i - 1) <= EndOf(i) /\ EndOf(i) - EndOf(i - 1) = l
  BY <1>1
<1>4. s \in Seq(Byte) /\ Len(s) = l /\ \A o \in 1..l : s[o] = Stream[EndOf(i - 1) + o]
  BY <1>1, <1>2, <1>3, FromFacts
<1>5. Bytes(i) \in Seq(Byte) /\ Len(Bytes(i)) = l /\ \A o \in 1..l : Bytes(i)[o] = <<i, o>>
  BY PacketFacts
<1>6. \A o \in 1..l : Stream[EndOf(i - 1) + o] = <<i, o>>
  BY StreamAt
<1> HIDE DEF s, l
<1>7. s = Bytes(i)
  BY <1>4, <1>5, <1>6, SeqEqual
<1> QED
  BY <1>7 DEF s

-----------------------------------------------------------------------------
(* A decoder in the stream: it has given k packets, all valid, and read up *)
(* to a place, of which the buffer has what comes after Place.             *)
DecoderStates == [buffer : Seq(Byte), status : {"header1", "header2", "body"},
                  packet : Seq(Byte), howmuch : Nat]

SecondOf(k) == Second[car[k + 1].kind]
Place(d, k) == EndOf(k) + (IF d.status = "header1" THEN 0
                           ELSE IF d.status = "header2" THEN First ELSE First + SecondOf(k))

Placed(d, k, upto) ==
    /\ d \in DecoderStates /\ k \in 0..Len(car)
    /\ \A j \in 1..k : Valid(car[j])
    /\ upto \in Nat /\ upto <= Len(Stream) /\ Place(d, k) <= upto
    /\ d.buffer = From(Place(d, k), upto)
    /\ d.status # "header1" => /\ k < Len(car) /\ car[k + 1].mark
                               /\ d.packet = From(EndOf(k), Place(d, k))
    /\ d.status = "header1" => d.howmuch = First
    /\ d.status = "header2" => d.howmuch = MinSecond
    /\ d.status = "body" => Valid(car[k + 1]) /\ d.howmuch = car[k + 1].body

(* It waits for the rest of a part, or has refused packet k + 1, of which  *)
(* enough has come.                                                        *)
Waits(d, k) ==
    /\ d.status = "header1" => Len(d.buffer) < First /\ d.packet = <<>>
    /\ d.status = "header2" => Len(d.buffer) < SecondOf(k)
    /\ d.status = "body" => Len(d.buffer) < d.howmuch

Refused(d, k, upto) ==
    /\ k < Len(car) /\ ~Valid(car[k + 1])
    /\ upto >= EndOf(k) + First + (IF car[k + 1].mark THEN SecondOf(k) ELSE 0)
    /\ d.status # "body"
    /\ d.status = "header1" => d.packet = <<>>

(* What a turn makes less.                                                 *)
Work(d) == 2 * Len(d.buffer) + (IF d.status = "body" THEN 1 ELSE 0)

(* What a step may do.                                                     *)
Follows(d, r, k, upto) ==
    \/ /\ r.error = "kNeedMoreData" /\ ~r.done /\ r.d.buffer = d.buffer
       /\ Placed(r.d, k, upto) /\ Waits(r.d, k)
    \/ /\ r.error = "kInvalidHeader" /\ ~r.done /\ r.d.buffer = d.buffer
       /\ Placed(r.d, k, upto) /\ Refused(r.d, k, upto)
    \/ r.error = "kNoError" /\ ~r.done /\ Placed(r.d, k, upto) /\ Work(r.d) < Work(d)
    \/ /\ r.error = "kNoError" /\ r.done /\ Work(r.d) < Work(d)
       /\ k < Len(car) /\ Placed(r.d, k + 1, upto) /\ r.d.packet = Bytes(k + 1)

(* e has these fields.                                                     *)
Has(e, bytes, state, part, more) ==
    /\ e \in DecoderStates
    /\ e.buffer = bytes /\ e.status = state /\ e.packet = part /\ e.howmuch = more

LEMMA TakeFacts ==
    ASSUME CarPackets, NEW d \in DecoderStates, NEW a \in Nat, NEW upto \in Nat,
           a <= upto, upto <= Len(Stream), d.buffer = From(a, upto), NEW n \in 0..upto - a
    PROVE  /\ Has(Take(d, n), From(a + n, upto), d.status, d.packet \o From(a, a + n), d.howmuch)
           /\ From(a, a + n) \in Seq(Byte) /\ Len(From(a + n, upto)) = Len(d.buffer) - n
<1>1. n \in Nat /\ a + n \in Nat /\ a <= a + n /\ a + n <= upto /\ Len(Stream) \in Nat
      /\ a + n <= Len(Stream)
  BY EndOfFacts
<1>2. /\ SubSeq(d.buffer, 1, n) = From(a, a + n)
      /\ SubSeq(d.buffer, n + 1, Len(d.buffer)) = From(a + n, upto)
  <2>1. /\ SubSeq(From(a, upto), 1, n) = From(a, a + n)
        /\ SubSeq(From(a, upto), n + 1, Len(From(a, upto))) = From(a + n, upto)
    BY FromCut
  <2> QED
    BY <2>1
<1>3. From(a, a + n) \in Seq(Byte)
  BY <1>1, FromFacts
<1>4. From(a + n, upto) \in Seq(Byte) /\ Len(From(a + n, upto)) = upto - (a + n)
  BY <1>1, FromFacts
<1>5. Len(d.buffer) = upto - a
  BY FromFacts
<1>6. d.packet \in Seq(Byte)
  BY DEF DecoderStates
<1>7. d.packet \o From(a, a + n) \in Seq(Byte)
  BY <1>3, <1>6, ConcatProperties
<1>8. Has(Take(d, n), From(a + n, upto), d.status, d.packet \o From(a, a + n), d.howmuch)
  <2> DEFINE y == From(a + n, upto)
             z == d.packet \o From(a, a + n)
  <2>1. Take(d, n) = [d EXCEPT !.packet = z, !.buffer = y]
    BY <1>2 DEF Take, DecoderStates
  <2> HIDE DEF y, z
  <2>2. y \in Seq(Byte) /\ z \in Seq(Byte)
    BY <1>4, <1>7 DEF y, z
  <2>3. Has(Take(d, n), y, d.status, z, d.howmuch)
    BY <2>1, <2>2 DEF Has, DecoderStates
  <2> QED
    BY <2>3 DEF y, z
<1>9. Len(From(a + n, upto)) = Len(d.buffer) - n
  BY <1>1, <1>4, <1>5
<1> QED
  BY <1>3, <1>8, <1>9

LEMMA Changed ==
    ASSUME NEW d, NEW bytes, NEW state, NEW part, NEW more, Has(d, bytes, state, part, more),
           NEW state1 \in {"header1", "header2", "body"}, NEW more1 \in Nat
    PROVE  Has([d EXCEPT !.status = state1, !.howmuch = more1], bytes, state1, part, more1)
BY DEF Has, DecoderStates

(* There is a next packet if there is a byte after the last.               *)
LEMMA NextPacket ==
    ASSUME CarPackets, NEW k \in 0..Len(car), NEW upto \in Nat, upto <= Len(Stream),
           EndOf(k) < upto
    PROVE  /\ k < Len(car) /\ k + 1 \in 1..Len(car) /\ k + 1 \in 0..Len(car)
           /\ (k + 1) - 1 = k
           /\ Stream[EndOf(k) + 1] = <<k + 1, 1>>
           /\ From(EndOf(k), upto)[1] = <<k + 1, 1>>
<1>1. Len(car) \in Nat /\ EndOf(Len(car)) = Len(Stream) /\ EndOf(k) \in Nat /\ Len(Stream) \in Nat
  BY EndOfFacts, UntilSteps
<1>2. k # Len(car)
  BY <1>1
<1>3. k < Len(car) /\ k + 1 \in 1..Len(car) /\ k + 1 \in 0..Len(car) /\ (k + 1) - 1 = k
  BY <1>1, <1>2
<1>4. Length(car[k + 1]) \in Nat /\ Length(car[k + 1]) >= 1
  <2>1. /\ Length(car[k + 1]) = First + SecondOf(k) + car[k + 1].body
        /\ SecondOf(k) \in Nat /\ car[k + 1].body \in Nat
    BY <1>3, PacketFacts DEF SecondOf
  <2> QED
    BY <2>1, Sizes
<1>5. 1 \in 1..Length(car[k + 1])
  BY <1>4
<1>6. Stream[EndOf((k + 1) - 1) + 1] = <<k + 1, 1>>
  BY <1>3, <1>5, StreamAt
<1>7. From(EndOf(k), upto)[1] = Stream[EndOf(k) + 1]
  <2>1. 1 \in 1..upto - EndOf(k)
    BY <1>1
  <2> QED
    <3> DEFINE e == EndOf(k)
    <3>1. e \in Nat /\ e <= upto /\ 1 \in 1..upto - e
      BY <1>1, <2>1
    <3> HIDE DEF e
    <3>2. From(e, upto)[1] = Stream[e + 1]
      BY <3>1, FromFacts
    <3> QED
      BY <3>2 DEF e
<1> QED
  BY <1>3, <1>6, <1>7

(* Before the first part of a header. *)
LEMMA HeaderStep1 ==
    ASSUME CarPackets, NEW d, NEW k, NEW upto, Placed(d, k, upto), d.status = "header1"
    PROVE  Follows(d, ParseHeaderStep1(d), k, upto)
<1> DEFINE a == EndOf(k)
           c == [d EXCEPT !.packet = <<>>]
           r == ParseHeaderStep1(d)
<1>1. /\ d \in DecoderStates /\ k \in 0..Len(car) /\ a \in Nat
      /\ upto \in Nat /\ upto <= Len(Stream) /\ Len(Stream) \in Nat
      /\ Place(d, k) = a /\ a <= upto /\ d.buffer = From(a, upto) /\ d.howmuch = First
      /\ Len(d.buffer) = upto - a
  <2>1. d \in DecoderStates /\ k \in 0..Len(car) /\ a \in Nat /\ Place(d, k) = a
    BY EndOfFacts DEF Placed, Place
  <2>2. /\ upto \in Nat /\ upto <= Len(Stream) /\ a <= upto /\ d.buffer = From(a, upto)
        /\ d.howmuch = First
    BY <2>1 DEF Placed
  <2>3. Len(From(a, upto)) = upto - a
    BY <2>1, <2>2, FromFacts
  <2> QED
    BY <2>1, <2>2, <2>3, EndOfFacts
<1>2. Has(c, From(a, upto), "header1", <<>>, First)
  <2>1. <<>> \in Seq(Byte)
    OBVIOUS
  <2> QED
    BY <1>1, <2>1 DEF Has, DecoderStates
<1> HIDE DEF c
<1>3. c.buffer = From(a, upto) /\ c.status = "header1" /\ c.packet = <<>> /\ c.howmuch = First
      /\ c \in DecoderStates
  BY <1>2 DEF Has
<1>4. Placed(c, k, upto)
  <2>1. Place(c, k) = a
    BY <1>1, <1>3 DEF Place
  <2>2. \A j \in 1..k : Valid(car[j])
    BY DEF Placed
  <2> QED
    BY <1>1, <1>3, <2>1, <2>2 DEF Placed
<1>5. CASE Len(d.buffer) < d.howmuch
  <2>1. r = NeedMoreData(c)
    BY <1>5 DEF ParseHeaderStep1, c
  <2>2. r.error = "kNeedMoreData" /\ ~r.done /\ r.d = c
    BY <2>1 DEF NeedMoreData, Result
  <2>3. Waits(c, k)
    BY <1>1, <1>3, <1>5 DEF Waits
  <2> HIDE DEF r
  <2> QED
    BY <1>1, <1>3, <1>4, <2>2, <2>3 DEF Follows, r
<1>6. CASE ~(Len(d.buffer) < d.howmuch)
  <2>1. a + First <= upto /\ a < upto /\ a + First \in Nat /\ First \in 0..upto - a
    BY <1>1, <1>6, Sizes
  <2>2. k < Len(car) /\ k + 1 \in 1..Len(car) /\ d.buffer[1] = <<k + 1, 1>>
    BY <1>1, <2>1, NextPacket
  <2>3. MarkIsRight(d) <=> car[k + 1].mark
    BY <2>2 DEF MarkIsRight
  <2>4. CASE ~car[k + 1].mark
    <3>1. r = InvalidHeader(c)
      BY <1>6, <2>3, <2>4 DEF ParseHeaderStep1, c
    <3>2. r.error = "kInvalidHeader" /\ ~r.done /\ r.d = c
      BY <3>1 DEF InvalidHeader, Result
    <3>3. ~Valid(car[k + 1])
      BY <2>4 DEF Valid
    <3>4. Refused(c, k, upto)
      <4>1. upto >= EndOf(k) + First + (IF car[k + 1].mark THEN SecondOf(k) ELSE 0)
        BY <1>1, <2>1, <2>4, Sizes
      <4> QED
        BY <1>3, <2>2, <3>3, <4>1 DEF Refused
    <3> HIDE DEF r
    <3> QED
      BY <1>1, <1>3, <1>4, <3>2, <3>4 DEF Follows, r
  <2>5. CASE car[k + 1].mark
    <3> DEFINE e == [Take(c, First) EXCEPT !.status = "header2", !.howmuch = MinSecond]
               x == From(a, a + First)
    <3>1. /\ Has(Take(c, First), From(a + First, upto), c.status, c.packet \o x, c.howmuch)
          /\ x \in Seq(Byte) /\ Len(From(a + First, upto)) = Len(c.buffer) - First
      BY <1>1, <1>3, <2>1, TakeFacts
    <3>2. <<>> \o x = x
      BY <3>1, ConcatEmptySeq
    <3>3. Has(Take(c, First), From(a + First, upto), "header1", x, First)
      BY <1>3, <3>1, <3>2
    <3>4. Has(e, From(a + First, upto), "header2", x, MinSecond)
      BY <3>3, Changed, Sizes
    <3>5. r = Result(e, "kNoError", FALSE)
      BY <1>6, <2>3, <2>5 DEF ParseHeaderStep1, c
    <3> HIDE DEF e, r
    <3>6. r.error = "kNoError" /\ ~r.done /\ r.d = e
      BY <3>5 DEF Result
    <3>7. /\ e \in DecoderStates /\ e.status = "header2" /\ e.howmuch = MinSecond
          /\ e.buffer = From(a + First, upto) /\ e.packet = From(a, a + First)
      BY <3>4 DEF Has
    <3>8. Place(e, k) = a + First
      BY <3>7 DEF Place
    <3>9. Placed(e, k, upto)
      <4>1. \A j \in 1..k : Valid(car[j])
        BY DEF Placed
      <4> QED
        BY <1>1, <2>1, <2>2, <2>5, <3>7, <3>8, <4>1 DEF Placed
    <3>10. Work(e) < Work(d)
      <4>1. Len(e.buffer) = Len(d.buffer) - First /\ Len(d.buffer) \in Nat
        BY <1>1, <1>3, <3>1, <3>7
      <4> QED
        BY <3>7, <4>1, Sizes DEF Work
    <3> QED
      BY <3>6, <3>9, <3>10 DEF Follows, r
  <2> QED
    BY <2>4, <2>5
<1> QED
  BY <1>5, <1>6

(* Packet k + 1 in the stream. *)
LEMMA EndOfNext ==
    ASSUME CarPackets, NEW k \in 0..Len(car), k < Len(car)
    PROVE  /\ k + 1 \in 1..Len(car) /\ k + 1 \in 0..Len(car) /\ (k + 1) - 1 = k
           /\ EndOf(k) \in Nat
           /\ SecondOf(k) \in Nat /\ MinSecond <= SecondOf(k) /\ SecondOf(k) <= VideoSecond
           /\ car[k + 1].body \in Nat
           /\ EndOf(k + 1) = EndOf(k) + First + SecondOf(k) + car[k + 1].body
<1> DEFINE e == EndOf(k)
           second == SecondOf(k)
           body == car[k + 1].body
           l == Length(car[k + 1])
<1>1. Len(car) \in Nat /\ e \in Nat
  BY EndOfFacts, UntilSteps
<1>2. k + 1 \in 1..Len(car) /\ k + 1 \in 0..Len(car) /\ (k + 1) - 1 = k
  BY <1>1
<1>3. /\ second \in Nat /\ MinSecond <= second /\ second <= VideoSecond /\ body \in Nat
      /\ l = First + second + body
  BY <1>2, PacketFacts DEF SecondOf
<1>4. EndOf(k + 1) = e + l
  <2>1. EndOf(k + 1) = EndOf((k + 1) - 1) + l
    BY <1>2, EndOfFacts
  <2> QED
    BY <1>2, <2>1
<1>5. First \in Nat
  BY Sizes
<1> HIDE DEF e, second, body, l
<1>6. EndOf(k + 1) = e + First + second + body
  BY <1>1, <1>3, <1>4, <1>5
<1> QED
  BY <1>1, <1>2, <1>3, <1>6 DEF e, second, body

(* A decoder inside packet k + 1: where it is.                             *)
LEMMA Inside ==
    ASSUME CarPackets, NEW d, NEW k, NEW upto, Placed(d, k, upto), d.status # "header1"
    PROVE  /\ d \in DecoderStates /\ k \in 0..Len(car) /\ EndOf(k) \in Nat
           /\ upto \in Nat /\ upto <= Len(Stream) /\ Len(Stream) \in Nat
           /\ Place(d, k) \in Nat /\ Place(d, k) <= upto /\ EndOf(k) < Place(d, k)
           /\ d.buffer = From(Place(d, k), upto) /\ Len(d.buffer) = upto - Place(d, k)
           /\ d.packet = From(EndOf(k), Place(d, k))
           /\ k < Len(car) /\ k + 1 \in 1..Len(car) /\ k + 1 \in 0..Len(car) /\ (k + 1) - 1 = k
           /\ SecondOf(k) \in Nat /\ MinSecond <= SecondOf(k) /\ car[k + 1].body \in Nat
           /\ EndOf(k + 1) = EndOf(k) + First + SecondOf(k) + car[k + 1].body
           /\ d.packet[1] = <<k + 1, 1>>
<1>1. /\ d \in DecoderStates /\ k \in 0..Len(car) /\ upto \in Nat /\ upto <= Len(Stream)
      /\ Place(d, k) <= upto /\ d.buffer = From(Place(d, k), upto) /\ k < Len(car)
      /\ d.packet = From(EndOf(k), Place(d, k))
  BY DEF Placed
<1>2. EndOf(k) \in Nat /\ Len(Stream) \in Nat /\ Len(car) \in Nat
  BY <1>1, EndOfFacts, UntilSteps
<1>3. /\ k + 1 \in 1..Len(car) /\ k + 1 \in 0..Len(car) /\ (k + 1) - 1 = k
      /\ SecondOf(k) \in Nat /\ MinSecond <= SecondOf(k) /\ car[k + 1].body \in Nat
      /\ EndOf(k + 1) = EndOf(k) + First + SecondOf(k) + car[k + 1].body
  BY <1>1, EndOfNext
<1>6. Place(d, k) \in Nat /\ EndOf(k) < Place(d, k)
  <2> DEFINE e == EndOf(k)
             second == SecondOf(k)
  <2>1. e \in Nat /\ second \in Nat /\ First \in Nat /\ First >= 1
    BY <1>2, <1>3, Sizes
  <2>2. Place(d, k) = e + First \/ Place(d, k) = e + (First + second)
    BY DEF Place
  <2> HIDE DEF e, second
  <2>3. Place(d, k) \in Nat /\ e < Place(d, k)
    BY ONLY <2>1, <2>2
  <2> QED
    BY <2>3 DEF e
<1> DEFINE a == Place(d, k)
<1>7. a \in Nat /\ a <= upto /\ EndOf(k) < a /\ a <= Len(Stream)
  BY <1>1, <1>2, <1>6
<1> HIDE DEF a
<1>8. Len(From(a, upto)) = upto - a
  BY <1>1, <1>7, FromFacts
<1>9. From(EndOf(k), a)[1] = <<k + 1, 1>>
  BY <1>1, <1>7, NextPacket
<1> QED
  BY <1>1, <1>2, <1>3, <1>6, <1>8, <1>9 DEF a

(* Before the second part. *)
LEMMA HeaderStep2 ==
    ASSUME CarPackets, NEW d, NEW k, NEW upto, Placed(d, k, upto), d.status = "header2"
    PROVE  Follows(d, ParseHeaderStep2(d), k, upto)
<1> DEFINE r == ParseHeaderStep2(d)
           a == EndOf(k) + First
           n == SecondOf(k)
<1>1. /\ d \in DecoderStates /\ k \in 0..Len(car) /\ EndOf(k) \in Nat
      /\ upto \in Nat /\ upto <= Len(Stream) /\ Len(Stream) \in Nat
      /\ Place(d, k) = a /\ a \in Nat /\ a <= upto /\ EndOf(k) < a
      /\ d.buffer = From(a, upto) /\ Len(d.buffer) = upto - a
      /\ d.packet = From(EndOf(k), a) /\ d.packet[1] = <<k + 1, 1>>
      /\ k < Len(car) /\ n \in Nat /\ MinSecond <= n
      /\ d.howmuch = MinSecond
  <2>1. Place(d, k) = a
    BY DEF Place
  <2>2. d.howmuch = MinSecond
    BY DEF Placed
  <2> QED
    BY <2>1, <2>2, Inside
<1>2. Second[car[d.packet[1][1]].kind] = n /\ car[d.packet[1][1]].body = car[k + 1].body
  BY <1>1 DEF SecondOf
<1>3. car[k + 1].body \in Nat /\ car[k + 1].mark /\ \A j \in 1..k : Valid(car[j])
  <2>1. car[k + 1].body \in Nat
    BY Inside
  <2> QED
    BY <2>1 DEF Placed
<1>4. CASE Len(d.buffer) < n
  <2>1. r = NeedMoreData(d)
    BY <1>2, <1>4 DEF ParseHeaderStep2
  <2>2. r.error = "kNeedMoreData" /\ ~r.done /\ r.d = d
    BY <2>1 DEF NeedMoreData, Result
  <2>3. Waits(d, k)
    BY <1>4 DEF Waits
  <2> HIDE DEF r
  <2> QED
    BY <2>2, <2>3 DEF Follows, r
<1>5. CASE ~(Len(d.buffer) < n)
  <2>1. ~(Len(d.buffer) < d.howmuch)
    BY <1>1, <1>5, Sizes
  <2>2. CASE car[k + 1].body > MaxBody
    <3>1. r = InvalidHeader(d)
      BY <1>2, <1>5, <2>1, <2>2 DEF ParseHeaderStep2
    <3>2. r.error = "kInvalidHeader" /\ ~r.done /\ r.d = d
      BY <3>1 DEF InvalidHeader, Result
    <3>3. ~Valid(car[k + 1])
      BY <1>3, <2>2, Sizes DEF Valid
    <3>4. upto >= EndOf(k) + First + n
      <4>1. upto - a >= n
        BY <1>1, <1>5
      <4> HIDE DEF n
      <4> QED
        BY <1>1, <4>1, Sizes
    <3>5. Refused(d, k, upto)
      BY <1>1, <1>3, <3>3, <3>4 DEF Refused
    <3> HIDE DEF r
    <3> QED
      BY <3>2, <3>5 DEF Follows, r
  <2>3. CASE ~(car[k + 1].body > MaxBody)
    <3> DEFINE e == [Take(d, n) EXCEPT !.status = "body", !.howmuch = car[k + 1].body]
               x == From(a, a + n)
               y == From(EndOf(k), a + n)
               z == From(a + n, upto)
    <3>1. n \in 0..upto - a /\ a + n \in Nat /\ a + n <= upto /\ a <= a + n /\ a + n <= Len(Stream)
      BY <1>1, <1>5
    <3>2. Has(Take(d, n), z, d.status, d.packet \o x, d.howmuch) /\ Len(z) = Len(d.buffer) - n
      BY <1>1, <3>1, TakeFacts
    <3>3. d.packet \o x = y
      <4> DEFINE b == a + n
      <4>1. b \in Nat /\ a <= b /\ b <= Len(Stream) /\ EndOf(k) <= a
        BY <1>1, <3>1
      <4> HIDE DEF b
      <4>2. From(EndOf(k), a) \o From(a, b) = From(EndOf(k), b)
        BY <1>1, <4>1, FromJoins
      <4> QED
        BY <1>1, <4>2 DEF b
    <3>4. Has(e, z, "body", y, car[k + 1].body)
      <4> DEFINE c == Take(d, n)
                 body == car[k + 1].body
      <4>1. Has(c, z, d.status, y, d.howmuch)
        BY <3>2, <3>3
      <4>2. body \in Nat
        BY <1>3
      <4> HIDE DEF body, c, y, z
      <4>3. Has([c EXCEPT !.status = "body", !.howmuch = body], z, "body", y, body)
        BY <4>1, <4>2, Changed
      <4> QED
        BY <4>3 DEF c, body
    <3>5. r = Result(e, "kNoError", FALSE)
      BY <1>2, <1>5, <2>1, <2>3 DEF ParseHeaderStep2
    <3> HIDE DEF e, r
    <3>6. r.error = "kNoError" /\ ~r.done /\ r.d = e
      BY <3>5 DEF Result
    <3>7. /\ e \in DecoderStates /\ e.status = "body" /\ e.howmuch = car[k + 1].body
          /\ e.buffer = z /\ e.packet = y
      BY <3>4 DEF Has
    <3>8. Place(e, k) = a + n
      BY <1>1, <3>7, Sizes DEF Place
    <3>9. Valid(car[k + 1])
      BY <1>3, <2>3, Sizes DEF Valid
    <3>10. Placed(e, k, upto)
      BY <1>1, <1>3, <3>1, <3>7, <3>8, <3>9 DEF Placed
    <3>11. Work(e) < Work(d)
      <4>1. Len(e.buffer) = Len(d.buffer) - n /\ Len(d.buffer) \in Nat
        BY <1>1, <3>2, <3>7
      <4>2. n \in Nat /\ n >= 1
        BY <1>1, Sizes
      <4>3. Work(e) = 2 * Len(e.buffer) + 1 /\ Work(d) = 2 * Len(d.buffer)
        BY <3>7, <4>1 DEF Work
      <4> HIDE DEF n
      <4> QED
        BY <4>1, <4>2, <4>3
    <3> QED
      BY <3>6, <3>10, <3>11 DEF Follows, r
  <2> QED
    BY <2>2, <2>3
<1> QED
  BY <1>4, <1>5

(* Before the body. *)
LEMMA BodyStep ==
    ASSUME CarPackets, NEW d, NEW k, NEW upto, Placed(d, k, upto), d.status = "body"
    PROVE  Follows(d, ParseBody(d), k, upto)
<1> DEFINE r == ParseBody(d)
           a == Place(d, k)
           n == d.howmuch
<1>1. /\ d \in DecoderStates /\ k \in 0..Len(car) /\ EndOf(k) \in Nat
      /\ upto \in Nat /\ upto <= Len(Stream) /\ Len(Stream) \in Nat
      /\ a \in Nat /\ a <= upto /\ EndOf(k) < a
      /\ d.buffer = From(a, upto) /\ Len(d.buffer) = upto - a
      /\ d.packet = From(EndOf(k), a)
      /\ k < Len(car) /\ k + 1 \in 1..Len(car) /\ k + 1 \in 0..Len(car) /\ (k + 1) - 1 = k
      /\ n \in Nat /\ EndOf(k + 1) = a + n
      /\ Valid(car[k + 1]) /\ \A j \in 1..k : Valid(car[j])
  <2>1. /\ EndOf(k) \in Nat /\ SecondOf(k) \in Nat /\ car[k + 1].body \in Nat
        /\ EndOf(k + 1) = EndOf(k) + First + SecondOf(k) + car[k + 1].body
    BY Inside
  <2>2. a = EndOf(k) + (First + SecondOf(k))
    BY DEF Place
  <2>3. n = car[k + 1].body /\ Valid(car[k + 1]) /\ \A j \in 1..k : Valid(car[j])
    BY DEF Placed
  <2>4. EndOf(k + 1) = a + n
    BY <2>1, <2>2, <2>3, Sizes
  <2> HIDE DEF a, n
  <2> QED
    BY <2>1, <2>3, <2>4, Inside DEF a
<1>2. CASE Len(d.buffer) < n
  <2>1. r = NeedMoreData(d)
    BY <1>2 DEF ParseBody
  <2>2. r.error = "kNeedMoreData" /\ ~r.done /\ r.d = d
    BY <2>1 DEF NeedMoreData, Result
  <2>3. Waits(d, k)
    BY <1>2 DEF Waits
  <2> HIDE DEF r
  <2> QED
    BY <2>2, <2>3 DEF Follows, r
<1>3. CASE ~(Len(d.buffer) < n)
  <2> DEFINE e == [Take(d, n) EXCEPT !.status = "header1", !.howmuch = First]
             x == From(a, a + n)
             z == From(a + n, upto)
  <2> HIDE DEF a, n
  <2>1. n \in 0..upto - a /\ a + n \in Nat /\ a + n <= upto /\ a <= a + n /\ a + n <= Len(Stream)
    BY <1>1, <1>3
  <2>2. Has(Take(d, n), z, d.status, d.packet \o x, d.howmuch) /\ Len(z) = Len(d.buffer) - n
    BY <1>1, <2>1, TakeFacts
  <2>3. d.packet \o x = Bytes(k + 1)
    <3> DEFINE b == EndOf(k + 1)
    <3>1. b \in Nat /\ a <= b /\ b <= Len(Stream) /\ EndOf(k) <= a /\ b = a + n
      BY <1>1, <2>1
    <3> HIDE DEF b
    <3>2. From(EndOf(k), a) \o From(a, b) = From(EndOf(k), b)
      BY <1>1, <3>1, FromJoins
    <3>3. From(EndOf((k + 1) - 1), EndOf(k + 1)) = Bytes(k + 1)
      BY <1>1, FromPacket
    <3>4. From(EndOf(k), b) = Bytes(k + 1)
      BY <1>1, <3>3 DEF b
    <3>5. d.packet = From(EndOf(k), a) /\ x = From(a, b)
      BY <1>1, <3>1
    <3> HIDE DEF x
    <3> QED
      BY ONLY <3>2, <3>4, <3>5
  <2>4. Has(e, z, "header1", Bytes(k + 1), First)
    <3> DEFINE c == Take(d, n)
               w == Bytes(k + 1)
    <3>1. Has(c, z, d.status, w, d.howmuch) /\ First \in Nat
      BY <2>2, <2>3, Sizes
    <3> HIDE DEF c, w, z
    <3>2. Has([c EXCEPT !.status = "header1", !.howmuch = First], z, "header1", w, First)
      BY <3>1, Changed
    <3> QED
      BY <3>2 DEF c, w
  <2>5. r = Result(e, "kNoError", TRUE)
    BY <1>3 DEF ParseBody, n
  <2> HIDE DEF e, r
  <2>6. r.error = "kNoError" /\ r.done /\ r.d = e
    BY <2>5 DEF Result
  <2>7. /\ e \in DecoderStates /\ e.status = "header1" /\ e.howmuch = First
        /\ e.buffer = z /\ e.packet = Bytes(k + 1)
    BY <2>4 DEF Has
  <2>8. Place(e, k + 1) = a + n
    BY <1>1, <2>7 DEF Place
  <2>9. Placed(e, k + 1, upto)
    <3>1. \A j \in 1..k + 1 : Valid(car[j])
      BY <1>1
    <3> QED
      BY <1>1, <2>1, <2>7, <2>8, <3>1 DEF Placed
  <2>10. Work(e) < Work(d)
    <3>1. Len(e.buffer) = Len(d.buffer) - n /\ Len(d.buffer) \in Nat
      BY <1>1, <2>2, <2>7
    <3>2. Work(e) = 2 * Len(e.buffer) + 0
      BY <2>7 DEF Work
    <3>3. Work(d) = 2 * Len(d.buffer) + 1
      BY DEF Work
    <3> QED
      BY <1>1, <3>1, <3>2, <3>3
  <2> QED
    BY <1>1, <2>6, <2>7, <2>9, <2>10 DEF Follows, r
<1> QED
  BY <1>2, <1>3

LEMMA StepFollows ==
    ASSUME CarPackets, NEW d, NEW k, NEW upto, Placed(d, k, upto)
    PROVE  Follows(d, Step(d), k, upto)
<1>1. d.status \in {"header1", "header2", "body"}
  BY DEF Placed, DecoderStates
<1>2. CASE d.status = "header1"
  BY <1>2, HeaderStep1 DEF Step
<1>3. CASE d.status = "header2"
  BY <1>3, HeaderStep2 DEF Step
<1>4. CASE d.status = "body"
  BY <1>4, BodyStep DEF Step
<1> QED
  BY <1>1, <1>2, <1>3, <1>4
-----------------------------------------------------------------------------
(* The loops: each turn is a step, and the last is not cut short.          *)
Errors == {"kNoError", "kNeedMoreData", "kInvalidHeader"}
Parsed == [d : DecoderStates, error : Errors, packets : Seq(Seq(Byte))]

(* The whole packets after the first k, up to packet m.                    *)
Whole(k, m) == [i \in 1..m - k |-> Bytes(k + i)]

(* What the turns have come to, m packets into the stream.                 *)
CameTo(s, k, m, upto) ==
    /\ s \in Parsed /\ m \in k..Len(car)
    /\ Placed(s.d, m, upto) /\ s.packets = Whole(k, m)
    /\ s.error = "kNeedMoreData" => Waits(s.d, m)
    /\ s.error = "kInvalidHeader" => Refused(s.d, m, upto)

Fine(k, upto) == {s \in Parsed : \E m \in k..Len(car) : CameTo(s, k, m, upto)}

LEMMA WholeFacts ==
    ASSUME CarPackets, NEW k \in 0..Len(car), NEW m \in k..Len(car)
    PROVE  /\ Whole(k, m) \in Seq(Seq(Byte)) /\ Len(Whole(k, m)) = m - k
           /\ \A i \in 1..m - k : Whole(k, m)[i] = Bytes(k + i)
           /\ m < Len(car) => Append(Whole(k, m), Bytes(m + 1)) = Whole(k, m + 1)
           /\ Whole(0, k) \o Whole(k, m) = Whole(0, m)
<1>1. Len(car) \in Nat /\ k \in Nat /\ m \in Nat /\ k <= m /\ m <= Len(car) /\ m - k \in Nat
  BY UntilSteps
<1>2. ASSUME NEW a \in 0..Len(car), NEW b \in a..Len(car)
      PROVE  /\ Whole(a, b) \in Seq(Seq(Byte)) /\ Len(Whole(a, b)) = b - a
             /\ \A i \in 1..b - a : Whole(a, b)[i] = Bytes(a + i)
  <2> DEFINE T == Seq(Byte)
             l == b - a
             w == Whole(a, b)
  <2>1. l \in Nat /\ \A i \in 1..l : a + i \in 1..Len(car)
    BY <1>1
  <2>2. \A i \in 1..l : Bytes(a + i) \in T
    BY <2>1, PacketFacts
  <2>3. w = [i \in 1..l |-> Bytes(a + i)]
    BY DEF Whole
  <2> HIDE DEF T, l, w
  <2>4. w \in Seq(T) /\ Len(w) = l /\ \A i \in 1..l : w[i] = Bytes(a + i)
    BY <2>1, <2>2, <2>3
  <2> QED
    BY <2>4 DEF T, l, w
<1> DEFINE T == Seq(Byte)
           x == Whole(k, m)
<1>3. x \in Seq(T) /\ Len(x) = m - k /\ \A i \in 1..m - k : x[i] = Bytes(k + i)
  BY <1>2
<1>4. ASSUME m < Len(car) PROVE Append(x, Bytes(m + 1)) = Whole(k, m + 1)
  <2> DEFINE y == Whole(k, m + 1)
             b == Bytes(m + 1)
  <2>1. m + 1 \in k..Len(car) /\ m + 1 \in 1..Len(car)
    BY <1>1, <1>4
  <2>2. /\ y \in Seq(T) /\ Len(y) = (m + 1) - k /\ \A i \in 1..(m + 1) - k : y[i] = Bytes(k + i)
    BY <1>2, <2>1
  <2>3. b \in T
    BY <2>1, PacketFacts
  <2> HIDE DEF x, y, b, T
  <2>4. /\ Append(x, b) \in Seq(T) /\ Len(Append(x, b)) = Len(x) + 1
        /\ \A i \in 1..Len(x) : Append(x, b)[i] = x[i]
        /\ Append(x, b)[Len(x) + 1] = b
    BY <1>3, <2>3, AppendProperties
  <2>5. ASSUME NEW i \in 1..Len(Append(x, b)) PROVE Append(x, b)[i] = y[i]
    <3>1. i \in 1..(m + 1) - k
      BY <1>1, <1>3, <2>4
    <3>2. CASE i <= Len(x)
      <4>1. i \in 1..Len(x) /\ i \in 1..m - k
        BY <1>1, <1>3, <3>1, <3>2
      <4> QED
        BY <1>3, <2>2, <2>4, <3>1, <4>1
    <3>3. CASE ~(i <= Len(x))
      <4>1. i = Len(x) + 1 /\ k + i = m + 1
        BY <1>1, <1>3, <3>1, <3>3
      <4> QED
        BY <2>2, <2>4, <3>1, <4>1 DEF b
    <3> QED
      BY <3>2, <3>3
  <2>6. Len(Append(x, b)) = Len(y)
    BY <1>1, <1>3, <2>2, <2>4
  <2>7. Append(x, b) = y
    BY <2>2, <2>4, <2>5, <2>6, SeqEqual
  <2> QED
    BY <2>7 DEF b, y
<1>5. Whole(0, k) \o x = Whole(0, m)
  <2> DEFINE w == Whole(0, k)
             y == Whole(0, m)
  <2>0. 0 \in 0..Len(car) /\ k \in 0..Len(car) /\ m \in 0..Len(car)
    BY <1>1
  <2>1. w \in Seq(T) /\ Len(w) = k - 0 /\ \A i \in 1..k - 0 : w[i] = Bytes(0 + i)
    BY <1>2, <2>0
  <2>2. y \in Seq(T) /\ Len(y) = m - 0 /\ \A i \in 1..m - 0 : y[i] = Bytes(0 + i)
    BY <1>2, <2>0
  <2> HIDE DEF x, y, w, T
  <2>3. /\ w \o x \in Seq(T) /\ Len(w \o x) = Len(w) + Len(x)
        /\ \A i \in 1..Len(w) + Len(x) : (w \o x)[i] = IF i <= Len(w) THEN w[i] ELSE x[i - Len(w)]
    BY <1>3, <2>1, ConcatProperties
  <2>4. ASSUME NEW i \in 1..Len(w \o x) PROVE (w \o x)[i] = y[i]
    <3>1. i \in 1..m - 0 /\ i \in 1..Len(w) + Len(x) /\ 0 + i = i /\ Len(w) = k
      BY <1>1, <1>3, <2>1, <2>3
    <3>2. CASE i <= Len(w)
      <4>1. i \in 1..k - 0
        BY <1>1, <3>1, <3>2
      <4> QED
        BY <2>1, <2>2, <2>3, <3>1, <3>2, <4>1
    <3>3. CASE ~(i <= Len(w))
      <4>1. i - k \in 1..m - k /\ k + (i - k) = 0 + i
        BY <1>1, <3>1, <3>3
      <4> QED
        BY <1>3, <2>2, <2>3, <3>1, <3>3, <4>1
    <3> QED
      BY <3>2, <3>3
  <2>5. Len(w \o x) = Len(y)
    BY <1>1, <1>3, <2>1, <2>2, <2>3
  <2>6. w \o x = y
    BY <2>2, <2>3, <2>4, <2>5, SeqEqual
  <2> QED
    BY <2>6 DEF w, y
<1> QED
  BY <1>3, <1>4, <1>5

LEMMA WorkFacts ==
    ASSUME NEW d \in DecoderStates
    PROVE  /\ Len(d.buffer) \in Nat /\ Work(d) \in Nat
           /\ 2 * Len(d.buffer) <= Work(d) /\ Work(d) <= 2 * Len(d.buffer) + 1
<1>1. Len(d.buffer) \in Nat
  BY DEF DecoderStates
<1>2. CASE d.status = "body"
  <2>1. Work(d) = 2 * Len(d.buffer) + 1
    BY <1>2 DEF Work
  <2> QED
    BY <1>1, <2>1
<1>3. CASE d.status # "body"
  <2>1. Work(d) = 2 * Len(d.buffer) + 0
    BY <1>3 DEF Work
  <2> QED
    BY <1>1, <2>1
<1> QED
  BY <1>2, <1>3

LEMMA TurnFine ==
    ASSUME CarPackets, NEW k \in 0..Len(car), NEW upto, NEW s, s \in Fine(k, upto)
    PROVE  /\ Turn(s) \in Fine(k, upto)
           /\ s.d \in DecoderStates /\ Turn(s).d \in DecoderStates
           /\ Len(Turn(s).d.buffer) <= Len(s.d.buffer)
           /\ Turn(s).error = "kNoError" =>
                  s.error = "kNoError" /\ Work(Turn(s).d) < Work(s.d)
<1> DEFINE t == Turn(s)
           r == Step(s.d)
<1>1. PICK m \in k..Len(car) : CameTo(s, k, m, upto)
  BY DEF Fine
<1>2. /\ s \in Parsed /\ s.d \in DecoderStates /\ Placed(s.d, m, upto) /\ s.packets = Whole(k, m)
      /\ Len(s.d.buffer) \in Nat /\ m \in Nat /\ m \in 0..Len(car) /\ Len(car) \in Nat
  <2>1. s \in Parsed /\ Placed(s.d, m, upto) /\ s.packets = Whole(k, m)
    BY <1>1 DEF CameTo
  <2>2. s.d \in DecoderStates
    BY <2>1 DEF Placed
  <2> QED
    BY <2>1, <2>2, UntilSteps DEF DecoderStates
<1>3. CASE s.error # "kNoError"
  <2>1. t = s
    BY <1>3 DEF Turn
  <2> HIDE DEF t
  <2> QED
    BY <1>2, <1>3, <2>1 DEF t
<1>4. CASE s.error = "kNoError"
  <2> DEFINE packets == IF r.done THEN Append(s.packets, r.d.packet) ELSE s.packets
  <2>1. t = [d |-> r.d, error |-> r.error, packets |-> packets]
    BY <1>4 DEF Turn
  <2>2. Follows(s.d, r, m, upto)
    BY <1>2, StepFollows
  <2>3. ~r.done => packets = Whole(k, m)
    BY <1>2
  <2>4. r.done /\ m < Len(car) /\ r.d.packet = Bytes(m + 1) => packets = Whole(k, m + 1)
    BY <1>2, WholeFacts
  <2> HIDE DEF t, r, packets
  <2>5. t.d = r.d /\ t.error = r.error /\ t.packets = packets
    BY <2>1
  <2>6. r.error # "kNoError" => ~r.done
    BY <2>2 DEF Follows
  <2>7. ASSUME NEW n \in k..Len(car), Placed(r.d, n, upto), r.error \in Errors,
               packets = Whole(k, n),
               r.error = "kNeedMoreData" => Waits(r.d, n),
               r.error = "kInvalidHeader" => Refused(r.d, n, upto)
        PROVE  t \in Fine(k, upto) /\ t.d \in DecoderStates
    <3>1. r.d \in DecoderStates
      BY <2>7 DEF Placed
    <3>2. packets \in Seq(Seq(Byte))
      BY <2>7, WholeFacts
    <3>3. t \in Parsed
      BY <2>1, <2>7, <3>1, <3>2 DEF Parsed
    <3>4. CameTo(t, k, n, upto)
      BY <2>5, <2>7, <3>3 DEF CameTo
    <3> QED
      BY <2>5, <3>1, <3>3, <3>4 DEF Fine
  <2>8. CASE r.error = "kNeedMoreData"
    <3>1. Placed(r.d, m, upto) /\ Waits(r.d, m) /\ r.d.buffer = s.d.buffer
      BY <2>2, <2>8 DEF Follows
    <3>2. t \in Fine(k, upto) /\ t.d \in DecoderStates
      BY <2>3, <2>6, <2>7, <2>8, <3>1 DEF Errors
    <3> QED
      BY <1>2, <2>5, <2>8, <3>1, <3>2 DEF t
  <2>9. CASE r.error = "kInvalidHeader"
    <3>1. Placed(r.d, m, upto) /\ Refused(r.d, m, upto) /\ r.d.buffer = s.d.buffer
      BY <2>2, <2>9 DEF Follows
    <3>2. t \in Fine(k, upto) /\ t.d \in DecoderStates
      BY <2>3, <2>6, <2>7, <2>9, <3>1 DEF Errors
    <3> QED
      BY <1>2, <2>5, <2>9, <3>1, <3>2 DEF t
  <2>10. ASSUME r.d \in DecoderStates, Work(r.d) < Work(s.d)
         PROVE  Len(r.d.buffer) <= Len(s.d.buffer)
    <3>1. Len(r.d.buffer) \in Nat
      BY <2>10 DEF DecoderStates
    <3> QED
      <4>1. 2 * Len(r.d.buffer) <= Work(r.d) /\ Work(r.d) \in Nat
        BY <2>10, WorkFacts
      <4>2. Work(s.d) <= 2 * Len(s.d.buffer) + 1 /\ Work(s.d) \in Nat
        BY <1>2, WorkFacts
      <4> QED
        BY <1>2, <2>10, <3>1, <4>1, <4>2
  <2>11. CASE r.error = "kNoError" /\ ~r.done
    <3>1. Placed(r.d, m, upto) /\ Work(r.d) < Work(s.d)
      BY <2>2, <2>11 DEF Follows
    <3>2. t \in Fine(k, upto) /\ t.d \in DecoderStates
      BY <2>3, <2>7, <2>11, <3>1 DEF Errors
    <3> QED
      BY <1>2, <1>4, <2>5, <2>10, <3>1, <3>2 DEF t
  <2>12. CASE r.error = "kNoError" /\ r.done
    <3>1. /\ m < Len(car) /\ Placed(r.d, m + 1, upto) /\ Work(r.d) < Work(s.d)
          /\ r.d.packet = Bytes(m + 1)
      BY <2>2, <2>12 DEF Follows
    <3>2. m + 1 \in k..Len(car)
      BY <1>2, <3>1
    <3>3. t \in Fine(k, upto) /\ t.d \in DecoderStates
      BY <2>4, <2>7, <2>12, <3>1, <3>2 DEF Errors
    <3> QED
      BY <1>2, <1>4, <2>5, <2>10, <3>1, <3>3 DEF t
  <2> QED
    BY <2>2, <2>8, <2>9, <2>11, <2>12 DEF Follows
<1> QED
  BY <1>3, <1>4
LastTurn(d) == 2 * Len(d.buffer) + 2

LEMMA TurnsExist ==
    ASSUME CarPackets, NEW k \in 0..Len(car), NEW upto, NEW d, Placed(d, k, upto)
    PROVE  /\ LastTurn(d) \in Nat
           /\ Turns(d)[0] \in Fine(k, upto) /\ Turns(d)[0].d = d
           /\ \A n \in 1..LastTurn(d) : Turns(d)[n] = Turn(Turns(d)[n - 1])
<1> DEFINE N == LastTurn(d)
           init == [d |-> d, error |-> "kNoError", packets |-> <<>>]
           D == Fine(k, upto)
           step == [p \in (1..N) \X D |-> Turn(p[2])]
           IsTurns(f) == f = [n \in 0..N |-> IF n = 0 THEN init ELSE Turn(f[n - 1])]
<1>1. d \in DecoderStates /\ N \in Nat
  BY DEF Placed, DecoderStates, LastTurn
<1>2. init \in D /\ init.d = d
  <2>1. k \in k..Len(car) /\ Len(car) \in Nat
    BY UntilSteps
  <2>2. Whole(k, k) \in Seq(Seq(Byte)) /\ Len(Whole(k, k)) = k - k
    BY <2>1, WholeFacts
  <2>3. Whole(k, k) = <<>>
    <3> DEFINE w == Whole(k, k)
    <3>1. w \in Seq(Seq(Byte)) /\ Len(w) = 0
      BY <2>1, <2>2
    <3> HIDE DEF w
    <3>2. w = <<>>
      BY <3>1, EmptySeq
    <3> QED
      BY <3>2 DEF w
  <2>4. init \in Parsed /\ init.d = d /\ init.error = "kNoError" /\ init.packets = <<>>
    BY <1>1 DEF Parsed, Errors
  <2> HIDE DEF init
  <2>5. CameTo(init, k, k, upto)
    BY <2>1, <2>3, <2>4 DEF CameTo
  <2> QED
    BY <2>1, <2>4, <2>5 DEF Fine
<1>3. step \in Steps(N, D)
  BY TurnFine DEF Steps
<1>4. PICK f : Iterates(f, N, D, init, step)
  <2> HIDE DEF D, init, step, N
  <2> QED
    BY <1>1, <1>2, <1>3, Recursion
<1>5. f \in [0..N -> D] /\ f[0] = init /\ \A n \in 1..N : f[n] = step[<<n, f[n - 1]>>]
  BY <1>4 DEF Iterates
<1>6. ASSUME NEW n \in 1..N PROVE f[n] = Turn(f[n - 1])
  <2>1. n - 1 \in 0..N
    BY <1>1
  <2>2. f[n - 1] \in D
    <3> HIDE DEF D, N
    <3> QED
      BY <1>5, <2>1
  <2> HIDE DEF D
  <2> QED
    BY <1>5, <2>2
<1>7. IsTurns(f)
  <2> HIDE DEF D, init, step, N
  <2> QED
    BY <1>1, <1>5, <1>6
<1>8. Turns(d) = CHOOSE g : IsTurns(g)
  BY DEF Turns, LastTurn
<1>9. IsTurns(Turns(d))
  <2> HIDE DEF IsTurns
  <2> QED
    BY <1>7, <1>8
<1>10. /\ Turns(d)[0] = init
       /\ \A n \in 1..N : Turns(d)[n] = Turn(Turns(d)[n - 1])
  <2> DEFINE g == Turns(d)
  <2>1. g = [n \in 0..N |-> IF n = 0 THEN init ELSE Turn(g[n - 1])]
    BY <1>9
  <2> HIDE DEF g, init, N
  <2> QED
    BY <1>1, <2>1 DEF g
<1> HIDE DEF D, init
<1> QED
  BY <1>1, <1>2, <1>10 DEF D

(* What ParseBuffer leaves: it stops for want of data or at a packet that  *)
(* it has refused, and has given all the packets before.                   *)
LEMMA ParseBufferFine ==
    ASSUME CarPackets, NEW k \in 0..Len(car), NEW upto, NEW d, Placed(d, k, upto)
    PROVE  /\ ParseBuffer(d) \in Fine(k, upto) /\ ParseBuffer(d).error # "kNoError"
           /\ Len(ParseBuffer(d).d.buffer) <= Len(d.buffer)
<1> DEFINE N == LastTurn(d)
           x(n) == Turns(d)[n]
           Holds(n) == /\ x(n) \in Fine(k, upto) /\ Len(x(n).d.buffer) <= Len(d.buffer)
                       /\ x(n).error = "kNoError" => Work(x(n).d) + n <= Work(d)
           S == {n \in Nat : n <= N => Holds(n)}
<1>1. d \in DecoderStates
  BY DEF Placed
<1>2. /\ N \in Nat /\ x(0) \in Fine(k, upto) /\ x(0).d = d
      /\ \A n \in 1..N : x(n) = Turn(x(n - 1))
  BY TurnsExist
<1>3. Len(d.buffer) \in Nat /\ Work(d) \in Nat /\ Work(d) <= 2 * Len(d.buffer) + 1
  BY <1>1, WorkFacts
<1>4. N = 2 * Len(d.buffer) + 2
  BY DEF LastTurn
<1> HIDE DEF N, x
<1>5. 0 \in S
  BY <1>2, <1>3
<1>6. ASSUME NEW n \in Nat, n \in S PROVE n + 1 \in S
  <2>1. SUFFICES ASSUME n + 1 <= N PROVE Holds(n + 1)
    OBVIOUS
  <2>2. n + 1 \in 1..N /\ (n + 1) - 1 = n /\ n <= N
    BY <1>2, <2>1
  <2>3. Holds(n)
    BY <1>6, <2>2
  <2>4. x(n + 1) = Turn(x(n))
    <3>1. x(n + 1) = Turn(x((n + 1) - 1))
      BY <1>2, <2>2
    <3> QED
      BY <2>2, <3>1
  <2> DEFINE s == x(n)
             t == x(n + 1)
  <2>5. /\ s \in Fine(k, upto) /\ Len(s.d.buffer) <= Len(d.buffer)
        /\ s.error = "kNoError" => Work(s.d) + n <= Work(d)
        /\ t = Turn(s)
    BY <2>3, <2>4
  <2> HIDE DEF s, t
  <2>6. /\ t \in Fine(k, upto) /\ s.d \in DecoderStates /\ t.d \in DecoderStates
        /\ Len(t.d.buffer) <= Len(s.d.buffer)
        /\ t.error = "kNoError" => s.error = "kNoError" /\ Work(t.d) < Work(s.d)
    BY <2>5, TurnFine
  <2>7. /\ Len(t.d.buffer) \in Nat /\ Len(s.d.buffer) \in Nat
        /\ Work(t.d) \in Nat /\ Work(s.d) \in Nat
    BY <2>6, WorkFacts
  <2>8. Len(t.d.buffer) <= Len(d.buffer)
    <3>1. Len(s.d.buffer) <= Len(d.buffer)
      BY <2>5
    <3>2. Len(t.d.buffer) <= Len(s.d.buffer)
      BY <2>6
    <3> DEFINE l == Len(d.buffer)
               ls == Len(s.d.buffer)
               lt == Len(t.d.buffer)
    <3>3. l \in Nat /\ ls \in Nat /\ lt \in Nat /\ ls <= l /\ lt <= ls
      BY <1>3, <2>7, <3>1, <3>2
    <3> HIDE DEF l, ls, lt
    <3>4. lt <= l
      BY ONLY <3>3
    <3> QED
      BY <3>4 DEF l, lt
  <2>9. t.error = "kNoError" => Work(t.d) + (n + 1) <= Work(d)
    <3>1. SUFFICES ASSUME t.error = "kNoError" PROVE Work(t.d) + (n + 1) <= Work(d)
      OBVIOUS
    <3>2. Work(t.d) < Work(s.d) /\ Work(s.d) + n <= Work(d)
      BY <2>5, <2>6, <3>1
    <3> QED
      BY <1>3, <2>7, <3>2
  <2> QED
    BY <2>6, <2>8, <2>9 DEF s, t
<1>7. N \in S
  <2> HIDE DEF S
  <2> QED
    BY <1>2, <1>5, <1>6, Induction
<1>8. Holds(N)
  BY <1>2, <1>7
<1>9. ParseBuffer(d) = x(N)
  BY DEF ParseBuffer, LastTurn, N, x
<1>10. x(N).error # "kNoError"
  <2>1. SUFFICES ASSUME x(N).error = "kNoError" PROVE FALSE
    OBVIOUS
  <2> DEFINE w == Work(x(N).d)
  <2>2. x(N).d \in DecoderStates
    BY <1>8, TurnFine
  <2>3. w \in Nat /\ w + N <= Work(d)
    BY <1>8, <2>1, <2>2, WorkFacts
  <2> HIDE DEF w
  <2> QED
    BY <1>3, <1>4, <2>3
<1> QED
  BY <1>8, <1>9, <1>10
-----------------------------------------------------------------------------
(* The server has got the first k packets, all valid, and the decoder is   *)
(* in the next: it waits for more of it or has refused it.                 *)
DecoderAt(k) ==
    /\ got = Whole(0, k) /\ Placed(Decoder, k, read)
    /\ IF open THEN Waits(Decoder, k) ELSE Refused(Decoder, k, read)

DecoderInv ==
    /\ CarPackets /\ open \in BOOLEAN /\ Len(buffer) <= MaxBuffer
    /\ \E k \in 0..Len(car) : DecoderAt(k)

LEMMA DecoderStarts == DecoderInit => DecoderInv
<1>1. SUFFICES ASSUME DecoderInit PROVE DecoderInv
  OBVIOUS
<1>2. CarPackets
  <2>1. PICK n \in 0..MaxPackets : car \in [1..n -> Packets]
    BY <1>1 DEF DecoderInit
  <2> QED
    BY <2>1, Sizes DEF CarPackets
<1>3. /\ EndOf(0) = 0 /\ Len(Stream) \in Nat /\ Len(car) \in Nat /\ 0 \in 0..Len(car)
      /\ From(0, 0) = <<>> /\ Whole(0, 0) = <<>>
  <2>1. EndOf(0) = 0 /\ Len(Stream) \in Nat /\ Len(car) \in Nat
    BY <1>2, EndOfFacts, UntilSteps
  <2>2. From(0, 0) \in Seq(Byte) /\ Len(From(0, 0)) = 0 - 0
    BY <1>2, <2>1, FromFacts
  <2>3. Whole(0, 0) \in Seq(Seq(Byte)) /\ Len(Whole(0, 0)) = 0 - 0
    BY <1>2, <2>1, WholeFacts
  <2> DEFINE x == From(0, 0)
             y == Whole(0, 0)
             T == Seq(Byte)
  <2>4. x \in T /\ Len(x) = 0 /\ y \in Seq(T) /\ Len(y) = 0
    BY <2>2, <2>3
  <2> HIDE DEF x, y
  <2>5. x = <<>> /\ y = <<>>
    BY <2>4, EmptySeq
  <2> QED
    BY <2>1, <2>5 DEF x, y
<1> DEFINE e == Decoder
<1>4. /\ e \in DecoderStates /\ e.buffer = <<>> /\ e.status = "header1" /\ e.packet = <<>>
      /\ e.howmuch = First /\ read = 0 /\ got = <<>> /\ open = TRUE /\ buffer = <<>>
  <2>1. <<>> \in Seq(Byte)
    OBVIOUS
  <2> QED
    BY <1>1, <2>1, Sizes DEF DecoderInit, Decoder, DecoderStates
<1> HIDE DEF e
<1>5. Place(e, 0) = 0
  BY <1>3, <1>4 DEF Place
<1>6. Placed(e, 0, read)
  BY <1>3, <1>4, <1>5 DEF Placed
<1>7. Waits(e, 0)
  BY <1>4, Sizes DEF Waits
<1>8. DecoderAt(0)
  BY <1>3, <1>4, <1>6, <1>7 DEF DecoderAt, e
<1> QED
  BY <1>2, <1>3, <1>4, <1>8, Sizes DEF DecoderInv

(* What depends only on the car's packets does not change.                 *)
LEMMA SameCar ==
    ASSUME car' = car
    PROVE  /\ CarPackets' <=> CarPackets
           /\ Stream' = Stream
           /\ \A i : Bytes(i)' = Bytes(i) /\ EndOf(i)' = EndOf(i)
           /\ \A a, b : From(a, b)' = From(a, b)
           /\ \A a, b : Whole(a, b)' = Whole(a, b)
           /\ \A i : SecondOf(i)' = SecondOf(i)
<1>1. \A i : Length(car[i])' = Length(car[i])
  BY DEF Length
<1>2. \A i : Bytes(i)' = Bytes(i)
  BY <1>1 DEF Bytes
<1>3. Stream' = Stream
  BY <1>2 DEF Stream
<1>4. \A i : EndOf(i)' = EndOf(i)
  BY <1>2 DEF EndOf
<1>5. \A a, b : From(a, b)' = From(a, b)
  BY <1>3 DEF From
<1>6. \A a, b : Whole(a, b)' = Whole(a, b)
  BY <1>2 DEF Whole
<1>7. \A i : SecondOf(i)' = SecondOf(i)
  BY DEF SecondOf
<1>8. CarPackets' <=> CarPackets
  BY DEF CarPackets
<1> QED
  BY <1>2, <1>3, <1>4, <1>5, <1>6, <1>7, <1>8

LEMMA SamePlace ==
    ASSUME car' = car, NEW d, NEW k, NEW upto
    PROVE  /\ Placed(d, k, upto)' <=> Placed(d, k, upto)
           /\ Waits(d, k)' <=> Waits(d, k)
           /\ Refused(d, k, upto)' <=> Refused(d, k, upto)
<1>1. Place(d, k)' = Place(d, k)
  BY SameCar DEF Place
<1> QED
  BY <1>1, SameCar DEF Placed, Waits, Refused

(* The decoder with what has just been read. *)
LEMMA Pushed ==
    ASSUME CarPackets, NEW d, NEW k, NEW upto, Placed(d, k, upto),
           NEW n \in Nat, upto + n <= Len(Stream)
    PROVE  LET e == [d EXCEPT !.buffer = @ \o From(upto, upto + n)]
           IN  Placed(e, k, upto + n) /\ Len(e.buffer) = Len(d.buffer) + n
<1> DEFINE a == Place(d, k)
           b == upto + n
           x == From(a, b)
           e == [d EXCEPT !.buffer = @ \o From(upto, upto + n)]
<1>1. /\ d \in DecoderStates /\ k \in 0..Len(car) /\ upto \in Nat /\ a <= upto
      /\ upto <= Len(Stream) /\ Len(Stream) \in Nat /\ a \in Nat /\ b \in Nat /\ upto <= b
      /\ b <= Len(Stream) /\ d.buffer = From(a, upto)
  <2>1. /\ d \in DecoderStates /\ k \in 0..Len(car) /\ upto \in Nat /\ a <= upto
        /\ upto <= Len(Stream) /\ d.buffer = From(a, upto)
    BY DEF Placed
  <2>2. Len(Stream) \in Nat /\ EndOf(k) \in Nat
    BY <2>1, EndOfFacts
  <2>3. a \in Nat
    <3>1. CASE d.status = "header1"
      BY <2>2, <3>1 DEF Place
    <3>2. CASE d.status # "header1"
      BY <3>2, Inside
    <3> QED
      BY <3>1, <3>2
  <2> HIDE DEF a
  <2> QED
    BY <2>1, <2>2, <2>3
<1> HIDE DEF a
<1>2. Len(d.buffer) = upto - a
  BY <1>1, FromFacts
<1>3. x \in Seq(Byte) /\ Len(x) = b - a
  <2>1. a <= b
    BY <1>1
  <2> HIDE DEF b
  <2> QED
    BY <1>1, <2>1, FromFacts
<1>4. d.buffer \o From(upto, b) = x
  <2> HIDE DEF b
  <2>1. From(a, upto) \o From(upto, b) = From(a, b)
    BY <1>1, FromJoins
  <2> QED
    BY <1>1, <2>1 DEF x
<1> HIDE DEF x
<1>5. e = [d EXCEPT !.buffer = x]
  BY <1>1, <1>4 DEF DecoderStates
<1> HIDE DEF e
<1>6. /\ e \in DecoderStates /\ e.buffer = x /\ e.status = d.status /\ e.packet = d.packet
      /\ e.howmuch = d.howmuch
  BY <1>1, <1>3, <1>5 DEF DecoderStates
<1>7. Place(e, k) = a
  BY <1>6 DEF Place, a
<1>8. Placed(e, k, b)
  <2>1. a <= b
    BY <1>1
  <2> HIDE DEF b
  <2>2. /\ \A j \in 1..k : Valid(car[j])
        /\ d.status # "header1" => k < Len(car) /\ car[k + 1].mark /\ d.packet = From(EndOf(k), a)
        /\ d.status = "header1" => d.howmuch = First
        /\ d.status = "header2" => d.howmuch = MinSecond
        /\ d.status = "body" => Valid(car[k + 1]) /\ d.howmuch = car[k + 1].body
    BY DEF Placed, a
  <2> QED
    BY <1>1, <1>6, <1>7, <2>1, <2>2 DEF Placed, x
<1>9. Len(e.buffer) = Len(d.buffer) + n
  BY <1>1, <1>2, <1>3, <1>6
<1> QED
  BY <1>8, <1>9 DEF e

(* Who waits has little in its buffer. *)
LEMMA WaitsForLittle ==
    ASSUME CarPackets, NEW d, NEW k, NEW upto, Placed(d, k, upto), Waits(d, k)
    PROVE  Len(d.buffer) \in Nat /\ Len(d.buffer) <= First + VideoSecond + MaxBody
<1>1. d \in DecoderStates /\ Len(d.buffer) \in Nat
  BY DEF Placed, DecoderStates
<1>2. CASE d.status = "header1"
  BY <1>1, <1>2, Sizes DEF Waits
<1>3. CASE d.status # "header1"
  <2>1. k + 1 \in 1..Len(car) /\ SecondOf(k) \in Nat
    BY <1>3, Inside
  <2>2. SecondOf(k) <= VideoSecond
    BY <2>1, PacketFacts DEF SecondOf
  <2>3. CASE d.status = "header2"
    BY <1>1, <2>1, <2>2, <2>3, Sizes DEF Waits
  <2>4. CASE d.status = "body"
    <3>1. d.howmuch \in Nat /\ d.howmuch <= MaxBody
      BY <1>1, <2>4 DEF Placed, Valid, DecoderStates
    <3> QED
      BY <1>1, <2>4, <3>1, Sizes DEF Waits
  <2> QED
    BY <1>1, <1>3, <2>3, <2>4 DEF DecoderStates
<1> QED
  BY <1>2, <1>3

LEMMA DecoderKeeps ==
    ASSUME DecoderInv, NEW n \in 1..MaxRead, OnMessage(n)
    PROVE  DecoderInv'
<1> DEFINE upto == read + n
           bytes == SubSeq(Stream, read + 1, read + n)
           d == [Decoder EXCEPT !.buffer = @ \o bytes]
           r == ParseBuffer(d)
<1>1. /\ CarPackets /\ open = TRUE /\ car' = car /\ read' = upto /\ n <= Len(Stream) - read
      /\ Len(buffer) <= MaxBuffer
  BY DEF DecoderInv, OnMessage
<1>2. PICK k \in 0..Len(car) : DecoderAt(k)
  BY DEF DecoderInv
<1>3. /\ got = Whole(0, k) /\ Placed(Decoder, k, read) /\ Waits(Decoder, k)
      /\ Decoder.buffer = buffer
  BY <1>1, <1>2 DEF DecoderAt, Decoder
<1>4. read \in Nat /\ n \in Nat /\ n <= MaxRead /\ upto <= Len(Stream) /\ Len(Stream) \in Nat
  <2>1. read \in Nat
    BY <1>3 DEF Placed
  <2> QED
    BY <1>1, <2>1, EndOfFacts, Sizes
<1>5. bytes = From(read, read + n)
  BY DEF From
<1>6. Len(buffer) \in Nat /\ Len(buffer) <= First + VideoSecond + MaxBody
  <2> DEFINE x == Decoder
  <2>1. Placed(x, k, read) /\ Waits(x, k) /\ x.buffer = buffer
    BY <1>3
  <2> HIDE DEF x
  <2> QED
    BY <1>1, <2>1, WaitsForLittle
<1>7. Placed(d, k, upto) /\ Len(d.buffer) = Len(buffer) + n
  <2> DEFINE x == Decoder
  <2>1. Placed(x, k, read) /\ x.buffer = buffer
    BY <1>3
  <2>2. d = [x EXCEPT !.buffer = @ \o From(read, read + n)]
    BY <1>5
  <2> HIDE DEF x, d
  <2> QED
    BY <1>1, <1>4, <2>1, <2>2, Pushed
<1>8. ~(Len(buffer) + n > MaxBuffer)
  BY <1>4, <1>6, Sizes
<1>9. /\ buffer' = r.d.buffer /\ status' = r.d.status /\ packet' = r.d.packet
      /\ howmuch' = r.d.howmuch /\ got' = got \o r.packets
      /\ open' = (r.error = "kNeedMoreData")
  <2> HIDE DEF r
  <2> QED
    BY <1>8 DEF OnMessage, r
<1>10. r \in Fine(k, upto) /\ r.error # "kNoError" /\ Len(r.d.buffer) <= Len(d.buffer)
  <2> HIDE DEF d, upto
  <2> QED
    BY <1>1, <1>2, <1>7, ParseBufferFine
<1> HIDE DEF d, r
<1>11. PICK m \in k..Len(car) : CameTo(r, k, m, upto)
  BY <1>10 DEF Fine
<1>12. PICK e : e = r.d
  OBVIOUS
<1>13. PICK u : u = upto
  OBVIOUS
<1>14. /\ Placed(e, m, u) /\ e \in DecoderStates /\ r.packets = Whole(k, m)
       /\ r.error \in Errors
       /\ r.error = "kNeedMoreData" => Waits(e, m)
       /\ r.error = "kInvalidHeader" => Refused(e, m, u)
  <2>1. Placed(e, m, u) /\ r \in Parsed
    BY <1>11, <1>12, <1>13 DEF CameTo
  <2> HIDE DEF upto
  <2> QED
    BY <1>11, <1>12, <1>13, <2>1 DEF CameTo, Placed, Parsed
<1>15. Decoder' = e
  <2>1. Decoder' = [buffer |-> e.buffer, status |-> e.status, packet |-> e.packet, howmuch |-> e.howmuch]
    BY <1>9, <1>12 DEF Decoder
  <2> QED
    BY <1>14, <2>1 DEF DecoderStates
<1>16. got' = Whole(0, m)
  BY <1>1, <1>2, <1>3, <1>9, <1>11, <1>14, WholeFacts
<1>17. m \in 0..Len(car) /\ Len(car) \in Nat
  BY <1>1, UntilSteps
<1>18. open' \in BOOLEAN /\ (open' => Waits(e, m)) /\ (~open' => Refused(e, m, u))
  BY <1>9, <1>10, <1>14 DEF Errors
<1>19. DecoderAt(m)'
  <2>1. Placed(e, m, u)' /\ (open' => Waits(e, m)') /\ (~open' => Refused(e, m, u)')
    BY <1>1, <1>14, <1>18, SamePlace
  <2>2. got' = Whole(0, m)'
    BY <1>1, <1>16, SameCar
  <2>3. read' = u
    BY <1>1, <1>13
  <2> QED
    BY <1>15, <2>1, <2>2, <2>3 DEF DecoderAt
<1>20. Len(buffer') <= MaxBuffer
  <2>1. buffer' = e.buffer /\ Len(e.buffer) \in Nat /\ Len(e.buffer) <= Len(buffer) + n
    BY <1>7, <1>9, <1>10, <1>12, <1>14 DEF DecoderStates
  <2> QED
    BY <1>4, <1>6, <1>8, <2>1, Sizes
<1>21. CarPackets' /\ Len(car)' = Len(car)
  BY <1>1, SameCar
<1> QED
  BY <1>17, <1>18, <1>19, <1>20, <1>21 DEF DecoderInv

(* Who waits in the stream has not read to the end of the next packet.     *)
LEMMA WaitsShort ==
    ASSUME CarPackets, NEW d, NEW k, NEW upto, Placed(d, k, upto), Waits(d, k), k < Len(car)
    PROVE  /\ upto < EndOf(k + 1)
           /\ ~Valid(car[k + 1]) =>
                  upto < EndOf(k) + First + (IF car[k + 1].mark THEN SecondOf(k) ELSE 0)
<1>1. /\ k \in 0..Len(car) /\ upto \in Nat /\ Len(car) \in Nat /\ d \in DecoderStates
      /\ upto <= Len(Stream)
  BY UntilSteps DEF Placed
<1>3. /\ EndOf(k) \in Nat /\ SecondOf(k) \in Nat /\ car[k + 1].body \in Nat
      /\ EndOf(k + 1) = EndOf(k) + First + SecondOf(k) + car[k + 1].body
  BY <1>1, EndOfNext
<1> DEFINE more == IF car[k + 1].mark THEN SecondOf(k) ELSE 0
<1>30. more \in Nat
  <2>1. more = SecondOf(k) \/ more = 0
    OBVIOUS
  <2> HIDE DEF more
  <2> QED
    BY <1>3, <2>1
<1>4. CASE d.status = "header1"
  <2>1. Place(d, k) = EndOf(k)
    BY <1>3, <1>4 DEF Place
  <2>2. Len(d.buffer) = upto - EndOf(k)
    <3> DEFINE a == EndOf(k)
    <3>1. a \in Nat /\ a <= upto /\ d.buffer = From(a, upto)
      BY <1>3, <2>1 DEF Placed
    <3> HIDE DEF a
    <3>2. Len(From(a, upto)) = upto - a
      BY <1>1, <3>1, FromFacts
    <3> QED
      BY <3>1, <3>2 DEF a
  <2>3. upto < EndOf(k) + First
    BY <1>1, <1>3, <1>4, <2>2, Sizes DEF Waits
  <2> HIDE DEF more
  <2>4. upto < EndOf(k + 1)
    BY <1>1, <1>3, <2>3, Sizes
  <2>5. upto < EndOf(k) + First + more
    BY <1>1, <1>3, <1>30, <2>3, Sizes
  <2> QED
    BY <2>4, <2>5 DEF more
<1>5. CASE d.status = "header2"
  <2>1. Place(d, k) = EndOf(k) + First
    BY <1>5 DEF Place
  <2>2. Len(d.buffer) = upto - (EndOf(k) + First) /\ car[k + 1].mark
    <3>1. Len(d.buffer) = upto - Place(d, k)
      BY <1>5, Inside
    <3>2. car[k + 1].mark
      BY <1>5 DEF Placed
    <3> QED
      BY <2>1, <3>1, <3>2
  <2> DEFINE e == EndOf(k)
             second == SecondOf(k)
             body == car[k + 1].body
  <2>20. /\ upto - (e + First) < second /\ upto \in Nat /\ e \in Nat /\ second \in Nat
        /\ body \in Nat /\ First \in Nat /\ EndOf(k + 1) = e + First + second + body
    BY <1>1, <1>3, <1>5, <2>2, Sizes DEF Waits
  <2> HIDE DEF e, second, body
  <2>21. upto < e + First + second
    BY ONLY <2>20
  <2>3. upto < EndOf(k) + First + SecondOf(k)
    BY <2>21 DEF e, second
  <2>4. upto < EndOf(k + 1)
    BY ONLY <2>20, <2>21
  <2>5. more = SecondOf(k)
    BY <2>2
  <2> HIDE DEF more
  <2>6. upto < EndOf(k) + First + more
    BY <2>3, <2>5
  <2> QED
    BY <2>4, <2>6 DEF more
<1>6. CASE d.status = "body"
  <2>1. Place(d, k) = EndOf(k) + (First + SecondOf(k))
    BY <1>6 DEF Place
  <2>2. Len(d.buffer) = upto - (EndOf(k) + (First + SecondOf(k)))
    BY <1>6, <2>1, Inside
  <2>3. Valid(car[k + 1]) /\ d.howmuch = car[k + 1].body
    BY <1>6 DEF Placed
  <2>4. Len(d.buffer) < car[k + 1].body
    BY <1>6, <2>3 DEF Waits
  <2>5. upto < EndOf(k + 1)
    BY <1>1, <1>3, <2>2, <2>4, Sizes
  <2> QED
    BY <2>3, <2>5
<1> QED
  BY <1>1, <1>4, <1>5, <1>6 DEF DecoderStates

LEMMA PlacedAfter ==
    ASSUME CarPackets, NEW d, NEW k, NEW upto, Placed(d, k, upto)
    PROVE  EndOf(k) <= upto
<1>1. k \in 0..Len(car) /\ upto \in Nat /\ Place(d, k) <= upto
  BY DEF Placed
<1>2. EndOf(k) \in Nat
  BY <1>1, EndOfFacts
<1>3. CASE d.status = "header1"
  BY <1>1, <1>2, <1>3 DEF Place
<1>4. CASE d.status # "header1"
  <2> DEFINE a == Place(d, k)
  <2>1. EndOf(k) < a /\ a \in Nat /\ a <= upto
    BY <1>4, Inside
  <2> HIDE DEF a
  <2> QED
    BY <1>1, <1>2, <2>1
<1> QED
  BY <1>3, <1>4

LEMMA InvGotWhatArrived == DecoderInv => GotWhatArrived
<1>1. SUFFICES ASSUME DecoderInv PROVE GotWhatArrived
  OBVIOUS
<1>2. PICK k \in 0..Len(car) : DecoderAt(k)
  BY <1>1 DEF DecoderInv
<1>3. PICK d : d = Decoder
  OBVIOUS
<1>4. /\ CarPackets /\ got = Whole(0, k) /\ Placed(d, k, read)
      /\ (open => Waits(d, k)) /\ (~open => Refused(d, k, read))
  BY <1>1, <1>2, <1>3 DEF DecoderInv, DecoderAt
<1>5. /\ k \in Nat /\ Len(car) \in Nat /\ k <= Len(car) /\ DOMAIN car = 1..Len(car)
      /\ read \in Nat /\ EndOf(k) \in Nat /\ EndOf(k) <= read
      /\ \A j \in 1..k : Valid(car[j])
  <2>1. Len(car) \in Nat /\ DOMAIN car = 1..Len(car)
    BY <1>4 DEF CarPackets
  <2>2. read \in Nat /\ \A j \in 1..k : Valid(car[j])
    BY <1>4 DEF Placed
  <2>3. EndOf(k) \in Nat /\ EndOf(k) <= read
    BY <1>4, EndOfFacts, PlacedAfter
  <2> QED
    BY <2>1, <2>2, <2>3
<1>6. ASSUME NEW i \in 1..k PROVE i \in Complete
  <2>1. i \in 0..Len(car) /\ i <= k /\ i \in 1..Len(car)
    BY <1>5
  <2>2. EndOf(i) <= EndOf(k) /\ EndOf(i) \in Nat
    BY <1>4, <2>1, EndOfGrows, EndOfFacts
  <2>3. \A j \in 1..i : Valid(car[j])
    BY <1>5
  <2> QED
    BY <1>5, <2>1, <2>2, <2>3 DEF Complete
<1>7. ASSUME NEW i \in Complete PROVE i \in 1..k
  <2>1. i \in 1..Len(car) /\ (\A j \in 1..i : Valid(car[j])) /\ EndOf(i) <= read
    BY <1>5 DEF Complete
  <2>2. SUFFICES ASSUME i > k PROVE FALSE
    BY <1>5, <2>1
  <2>3. k < Len(car) /\ k + 1 \in 1..i /\ k + 1 \in 0..Len(car) /\ i \in 0..Len(car) /\ k + 1 <= i
    BY <1>5, <2>1, <2>2
  <2>4. Valid(car[k + 1])
    BY <2>1, <2>3
  <2>5. read < EndOf(k + 1)
    BY <1>4, <2>3, <2>4, WaitsShort DEF Refused
  <2>6. EndOf(k + 1) <= EndOf(i) /\ EndOf(k + 1) \in Nat /\ EndOf(i) \in Nat
    BY <1>4, <2>3, EndOfGrows, EndOfFacts
  <2> QED
    BY <1>5, <2>1, <2>5, <2>6
<1>8. Complete = 1..k
  BY <1>6, <1>7
<1>9. Cardinality(1..k) = k
  <2>1. Cardinality(1..k) = IF 1 > k THEN 0 ELSE k - 1 + 1
    BY <1>5, FS_Interval
  <2> QED
    BY <1>5, <2>1
<1>10. /\ got \in Seq(Seq(Byte)) /\ Len(got) = k - 0
       /\ \A i \in 1..k - 0 : got[i] = Bytes(0 + i)
  <2>1. 0 \in 0..Len(car)
    BY <1>5
  <2> QED
    BY <1>2, <1>4, <2>1, WholeFacts
<1>11. ASSUME NEW i \in DOMAIN got PROVE i \in Complete /\ got[i] = Bytes(i)
  <2>1. i \in 1..k - 0 /\ i \in 1..k /\ 0 + i = i
    BY <1>5, <1>10
  <2> QED
    BY <1>6, <1>10, <2>1
<1>12. Len(got) = Cardinality(Complete)
  BY <1>5, <1>8, <1>9, <1>10
<1> QED
  BY <1>11, <1>12 DEF GotWhatArrived

LEMMA InvDroppedForCause == DecoderInv => DroppedForCause
<1>1. SUFFICES ASSUME DecoderInv PROVE DroppedForCause
  OBVIOUS
<1>2. PICK k \in 0..Len(car) : DecoderAt(k)
  BY <1>1 DEF DecoderInv
<1>3. PICK d : d = Decoder
  OBVIOUS
<1>4. /\ CarPackets /\ open \in BOOLEAN /\ Placed(d, k, read)
      /\ (open => Waits(d, k)) /\ (~open => Refused(d, k, read))
  BY <1>1, <1>2, <1>3 DEF DecoderInv, DecoderAt
<1>5. /\ k \in Nat /\ Len(car) \in Nat /\ k <= Len(car) /\ DOMAIN car = 1..Len(car)
      /\ read \in Nat /\ \A j \in 1..k : Valid(car[j])
  <2>1. Len(car) \in Nat /\ DOMAIN car = 1..Len(car)
    BY <1>4 DEF CarPackets
  <2>2. read \in Nat /\ \A j \in 1..k : Valid(car[j])
    BY <1>4 DEF Placed
  <2> QED
    BY <2>1, <2>2
<1> DEFINE Shown(i) == EndOf(i - 1) + First + (IF car[i].mark THEN Second[car[i].kind] ELSE 0)
<1>6. ASSUME open, NEW i \in DOMAIN car, \A j \in 1..i - 1 : Valid(car[j]), ~Valid(car[i])
      PROVE  read < Shown(i)
  <2>1. i \in 1..Len(car) /\ ~(i <= k)
    BY <1>5, <1>6
  <2>2. k < Len(car) /\ k + 1 <= i /\ k + 1 \in 0..Len(car) /\ i - 1 \in 0..Len(car)
    BY <1>5, <2>1
  <2>3. /\ read < EndOf(k + 1)
        /\ ~Valid(car[k + 1]) =>
               read < EndOf(k) + First + (IF car[k + 1].mark THEN SecondOf(k) ELSE 0)
    BY <1>4, <1>6, <2>2, WaitsShort
  <2>4. CASE i = k + 1
    <3>1. i - 1 = k /\ SecondOf(k) = Second[car[i].kind]
      BY <1>5, <2>4 DEF SecondOf
    <3> QED
      BY <1>6, <2>3, <2>4, <3>1
  <2>5. CASE i # k + 1
    <3>1. k + 1 <= i - 1
      BY <1>5, <2>1, <2>2, <2>5
    <3>2. EndOf(k + 1) <= EndOf(i - 1) /\ EndOf(k + 1) \in Nat /\ EndOf(i - 1) \in Nat
      BY <1>4, <2>2, <3>1, EndOfGrows, EndOfFacts
    <3>3. Second[car[i].kind] \in Nat
      BY <1>4, <2>1, PacketFacts
    <3> DEFINE more == IF car[i].mark THEN Second[car[i].kind] ELSE 0
    <3>4. more \in Nat
      BY <3>3
    <3> HIDE DEF more
    <3>5. read < EndOf(i - 1) + First + more
      BY <1>5, <2>3, <3>2, <3>4, Sizes
    <3> QED
      BY <3>5 DEF more
  <2> QED
    BY <2>4, <2>5
<1>7. ASSUME ~open
      PROVE  /\ k + 1 \in DOMAIN car /\ (\A j \in 1..(k + 1) - 1 : Valid(car[j]))
             /\ ~Valid(car[k + 1]) /\ ~(read < Shown(k + 1))
  <2>1. /\ k < Len(car) /\ ~Valid(car[k + 1])
        /\ read >= EndOf(k) + First + (IF car[k + 1].mark THEN SecondOf(k) ELSE 0)
    BY <1>4, <1>7 DEF Refused
  <2>2. k + 1 \in 1..Len(car) /\ (k + 1) - 1 = k
    BY <1>5, <2>1
  <2>3. EndOf(k) \in Nat /\ SecondOf(k) \in Nat
    BY <1>4, <2>2, EndOfFacts, PacketFacts DEF SecondOf
  <2> DEFINE shown == EndOf(k) + First + (IF car[k + 1].mark THEN SecondOf(k) ELSE 0)
  <2>4. shown \in Nat
    <3>1. CASE car[k + 1].mark
      BY <2>3, <3>1, Sizes
    <3>2. CASE ~car[k + 1].mark
      BY <2>3, <3>2, Sizes
    <3> QED
      BY <3>1, <3>2
  <2>5. Shown(k + 1) = shown
    BY <2>2 DEF SecondOf
  <2> HIDE DEF shown, Shown
  <2>6. ~(read < shown)
    BY <1>5, <2>1, <2>4 DEF shown
  <2> QED
    BY <1>5, <2>1, <2>2, <2>5, <2>6
<1>8. CASE open
  BY <1>6, <1>8 DEF DroppedForCause
<1>9. CASE ~open
  <2>1. \E i \in DOMAIN car :
            (\A j \in 1..i - 1 : Valid(car[j])) /\ ~Valid(car[i]) /\ ~(read < Shown(i))
    <3> HIDE DEF Shown
    <3> QED
      BY <1>7, <1>9
  <2> QED
    BY <1>9, <2>1 DEF DroppedForCause
<1> QED
  BY <1>8, <1>9

LEMMA InvDecoderTypeOK == DecoderInv => DecoderTypeOK
<1>1. SUFFICES ASSUME DecoderInv PROVE DecoderTypeOK
  OBVIOUS
<1>2. PICK k \in 0..Len(car) : DecoderAt(k)
  BY <1>1 DEF DecoderInv
<1>3. PICK d : d = Decoder
  OBVIOUS
<1>4. /\ CarPackets /\ open \in BOOLEAN /\ Len(buffer) <= MaxBuffer
      /\ got = Whole(0, k) /\ Placed(d, k, read)
      /\ (open => Waits(d, k)) /\ (~open => Refused(d, k, read))
  BY <1>1, <1>2, <1>3 DEF DecoderInv, DecoderAt
<1>5. /\ d \in DecoderStates /\ buffer = d.buffer /\ status = d.status /\ packet = d.packet
      /\ howmuch = d.howmuch
  BY <1>3, <1>4 DEF Placed, Decoder
<1>6. read \in 0..Len(Stream)
  <2>1. read \in Nat /\ read <= Len(Stream) /\ Len(Stream) \in Nat
    BY <1>4, EndOfFacts DEF Placed
  <2> QED
    BY <2>1
<1>7. got \in Seq(Seq(Byte))
  <2>1. 0 \in 0..Len(car) /\ k \in 0..Len(car)
    BY <1>2, <1>4, UntilSteps
  <2> QED
    BY <1>4, <2>1, WholeFacts
<1>8. CASE d.status = "header1"
  <2>1. d.packet = <<>>
    BY <1>4, <1>8 DEF Waits, Refused
  <2>2. Len(packet) = 0
    BY <1>5, <2>1
  <2>3. Len(packet) <= First + VideoSecond + MaxBody
    BY <2>2, Sizes
  <2> QED
    BY <1>4, <1>5, <1>6, <1>7, <1>8, <2>3 DEF DecoderTypeOK, DecoderStates, CarPackets
<1>9. CASE d.status # "header1"
  <2> DEFINE e == EndOf(k)
             a == Place(d, k)
  <2>1. /\ e \in Nat /\ a \in Nat /\ e < a /\ a <= read /\ d.packet = From(e, a)
        /\ read <= Len(Stream) /\ Len(Stream) \in Nat /\ read \in Nat
        /\ k + 1 \in 1..Len(car) /\ SecondOf(k) \in Nat
    BY <1>4, <1>9, Inside
  <2>2. SecondOf(k) <= VideoSecond
    BY <1>4, <2>1, PacketFacts DEF SecondOf
  <2>3. a >= e + First /\ a <= e + First + VideoSecond
    <3>1. CASE d.status = "header2"
      <4>1. a = e + First
        BY <3>1 DEF Place
      <4> QED
        BY <2>1, <4>1, Sizes
    <3>2. CASE d.status # "header2"
      <4>1. a = e + (First + SecondOf(k))
        BY <1>9, <3>2 DEF Place
      <4> HIDE DEF a, e
      <4> QED
        BY <2>1, <2>2, <4>1, Sizes
    <3> QED
      BY <3>1, <3>2
  <2> HIDE DEF a, e
  <2>4. e <= a /\ a <= Len(Stream)
    BY <2>1
  <2>5. Len(From(e, a)) = a - e
    BY <1>4, <2>1, <2>4, FromFacts
  <2>6. Len(packet) = a - e
    BY <1>5, <2>1, <2>5
  <2>7. Len(packet) <= First + VideoSecond + MaxBody /\ Len(packet) >= First
    BY <2>1, <2>3, <2>6, Sizes
  <2> QED
    BY <1>4, <1>5, <1>6, <1>7, <2>7 DEF DecoderTypeOK, DecoderStates, CarPackets
<1> QED
  BY <1>8, <1>9

LEMMA DecoderInvariance == DecoderSpec => []DecoderInv
<1>1. DecoderInit => DecoderInv
  BY DecoderStarts
<1>2. DecoderInv /\ [DecoderNext]_decoderVars => DecoderInv'
  <2>1. SUFFICES ASSUME DecoderInv, [DecoderNext]_decoderVars PROVE DecoderInv'
    OBVIOUS
  <2>2. CASE DecoderNext
    <3>1. PICK n \in 1..MaxRead : OnMessage(n)
      BY <2>2 DEF DecoderNext
    <3> QED
      BY <2>1, <3>1, DecoderKeeps
  <2>3. CASE UNCHANGED decoderVars
    <3>1. /\ car' = car /\ read' = read /\ buffer' = buffer /\ status' = status
          /\ packet' = packet /\ howmuch' = howmuch /\ got' = got /\ open' = open
      BY <2>3 DEF decoderVars
    <3>2. PICK k \in 0..Len(car) : DecoderAt(k)
      BY <2>1 DEF DecoderInv
    <3>3. PICK d : d = Decoder
      OBVIOUS
    <3>4. PICK u : u = read
      OBVIOUS
    <3>5. /\ got = Whole(0, k) /\ Placed(d, k, u)
          /\ (open => Waits(d, k)) /\ (~open => Refused(d, k, u))
      BY <3>2, <3>3, <3>4 DEF DecoderAt
    <3>6. Decoder' = d /\ read' = u /\ got' = Whole(0, k)'
      BY <3>1, <3>3, <3>4, <3>5, SameCar DEF Decoder
    <3>7. /\ Placed(d, k, u)' /\ (open => Waits(d, k)') /\ (~open => Refused(d, k, u)')
      BY <3>1, <3>5, SamePlace
    <3>8. DecoderAt(k)'
      BY <3>1, <3>6, <3>7 DEF DecoderAt
    <3> QED
      BY <2>1, <3>1, <3>8, SameCar DEF DecoderInv
  <2> QED
    BY <2>1, <2>2, <2>3
<1> QED
  BY <1>1, <1>2, PTL DEF DecoderSpec

(* Types: what is read is part of the stream, the buffer does not exceed   *)
(* MAX_BUFFER_SIZE, and the packet being put together neither overruns     *)
(* Jt1078Packet's longest nor is read before its first header part is in.  *)
THEOREM DecoderTypeCorrect == DecoderSpec => []DecoderTypeOK
<1>1. DecoderInv => DecoderTypeOK
  BY InvDecoderTypeOK
<1> QED
  BY <1>1, DecoderInvariance, PTL

(* However CarSession's reads cut the stream, Decoder::Decode gives        *)
(* Jt1078Server exactly the packets that have arrived whole, as they were. *)
THEOREM WhatArrivedIsGot == DecoderSpec => []GotWhatArrived
<1>1. DecoderInv => GotWhatArrived
  BY InvGotWhatArrived
<1> QED
  BY <1>1, DecoderInvariance, PTL

(* A car's session is dropped for an invalid header and for nothing else,  *)
(* at the read that shows it.                                              *)
THEOREM SessionsAreDroppedForCause == DecoderSpec => []DroppedForCause
<1>1. DecoderInv => DroppedForCause
  BY InvDroppedForCause
<1> QED
  BY <1>1, DecoderInvariance, PTL

-----------------------------------------------------------------------------
(* DeviceIds.  Reading and printing numbers in base 16 undo each other as  *)
(* long as the number takes no more digits than an id has; from this the   *)
(* invariant that a request keeps its number, whichever form it had.       *)

(* The number that the digits of a string make up, from the front.         *)
Values(base, s, v) ==
    v[0] = 0 /\ \A i \in 1..Len(s) : v[i] = base * v[i - 1] + s[i]

LEMMA NumberFacts ==
    ASSUME NEW base \in {10, 16}, NEW s \in Seq(Nat)
    PROVE  \E v \in [0..Len(s) -> Nat] : Values(base, s, v) /\ Number(base, s) = v[Len(s)]
<1> DEFINE N == Len(s)
           step == [p \in (1..N) \X Nat |-> base * p[2] + s[p[1]]]
           IsValue(f) == f = [i \in 0..N |-> IF i = 0 THEN 0 ELSE base * f[i - 1] + s[i]]
<1>1. N \in Nat /\ \A i \in 1..N : s[i] \in Nat
  OBVIOUS
<1>2. step \in Steps(N, Nat)
  <2>1. ASSUME NEW p \in (1..N) \X Nat PROVE base * p[2] + s[p[1]] \in Nat
    <3>1. p[2] \in Nat /\ s[p[1]] \in Nat
      BY <1>1
    <3>2. CASE base = 10
      BY <3>1, <3>2
    <3>3. CASE base = 16
      BY <3>1, <3>3
    <3> QED
      BY <3>2, <3>3
  <2> QED
    BY <2>1 DEF Steps
<1>3. PICK f : Iterates(f, N, Nat, 0, step)
  <2> HIDE DEF step, N
  <2> QED
    BY <1>1, <1>2, Recursion
<1>4. f \in [0..N -> Nat] /\ f[0] = 0 /\ \A i \in 1..N : f[i] = step[<<i, f[i - 1]>>]
  BY <1>3 DEF Iterates
<1>5. ASSUME NEW i \in 1..N PROVE f[i] = base * f[i - 1] + s[i]
  <2>1. i - 1 \in 0..N
    BY <1>1
  <2>2. f[i - 1] \in Nat
    <3> HIDE DEF N
    <3> QED
      BY <1>4, <2>1
  <2> QED
    BY <1>4, <2>2
<1>6. IsValue(f)
  <2> HIDE DEF step, N
  <2> QED
    BY <1>1, <1>4, <1>5
<1> DEFINE g == CHOOSE g : IsValue(g)
<1>7. IsValue(g)
  <2> HIDE DEF IsValue
  <2> QED
    BY <1>6
<1>8. Number(base, s) = g[N]
  BY DEF Number
<1> HIDE DEF g
<1>9. g \in [0..N -> Nat] /\ \A i \in 0..N : g[i] = f[i]
  <2> DEFINE S == {n \in Nat : n <= N => g[n] = f[n]}
  <2>1. 0 \in S
    BY <1>1, <1>4, <1>7
  <2>2. ASSUME NEW n \in Nat, n \in S PROVE n + 1 \in S
    <3>1. SUFFICES ASSUME n + 1 <= N PROVE g[n + 1] = f[n + 1]
      OBVIOUS
    <3>2. n + 1 \in 1..N /\ n + 1 \in 0..N /\ n + 1 # 0 /\ (n + 1) - 1 = n /\ n <= N
      BY <1>1, <3>1
    <3>3. g[n] = f[n]
      BY <2>2, <3>2
    <3>4. f[n + 1] = base * f[n] + s[n + 1]
      BY <1>5, <3>2
    <3>5. g[n + 1] = base * g[n] + s[n + 1]
      <4> HIDE DEF N
      <4> QED
        BY <1>7, <3>2
    <3> QED
      BY <3>3, <3>4, <3>5
  <2>3. Nat \subseteq S
    <3> HIDE DEF S
    <3> QED
      BY <2>1, <2>2, Induction
  <2>4. \A i \in 0..N : g[i] = f[i]
    BY <1>1, <2>3
  <2>5. g = [i \in 0..N |-> g[i]]
    <3> HIDE DEF N
    <3> QED
      BY <1>7
  <2> HIDE DEF N
  <2> QED
    BY <1>4, <2>4, <2>5
<1>10. Values(base, s, g)
  <2>1. g[0] = 0
    BY <1>1, <1>4, <1>9
  <2>2. ASSUME NEW i \in 1..N PROVE g[i] = base * g[i - 1] + s[i]
    <3>1. i \in 0..N /\ i - 1 \in 0..N
      BY <1>1
    <3> QED
      BY <1>5, <1>9, <3>1
  <2> QED
    BY <2>1, <2>2 DEF Values
<1> QED
  BY <1>8, <1>9, <1>10

LEMMA NumberUnique ==
    ASSUME NEW base \in {10, 16}, NEW s \in Seq(Nat), NEW g, Values(base, s, g)
    PROVE  Number(base, s) = g[Len(s)]
<1> DEFINE N == Len(s)
<1>1. N \in Nat
  OBVIOUS
<1>2. PICK v \in [0..N -> Nat] : Values(base, s, v) /\ Number(base, s) = v[N]
  BY NumberFacts
<1> DEFINE S == {n \in Nat : n <= N => g[n] = v[n]}
<1>3. 0 \in S
  BY <1>2 DEF Values
<1>4. ASSUME NEW n \in Nat, n \in S PROVE n + 1 \in S
  <2>1. SUFFICES ASSUME n + 1 <= N PROVE g[n + 1] = v[n + 1]
    OBVIOUS
  <2>2. n + 1 \in 1..N /\ (n + 1) - 1 = n /\ n <= N
    BY <1>1, <2>1
  <2>3. g[n] = v[n]
    BY <1>4, <2>2
  <2>4. g[n + 1] = base * g[n] + s[n + 1] /\ v[n + 1] = base * v[n] + s[n + 1]
    BY <1>2, <2>2 DEF Values
  <2> QED
    BY <2>3, <2>4
<1>5. Nat \subseteq S
  <2> HIDE DEF S
  <2> QED
    BY <1>3, <1>4, Induction
<1> QED
  BY <1>1, <1>2, <1>5

LEMMA LeftFacts ==
    ASSUME NEW id \in Nat
    PROVE  /\ IdDigits \in Nat /\ IdDigits >= 3 /\ IdDigits = SimDigits + 2 /\ SimDigits \in Nat
           /\ Left(id)[0] = id
           /\ \A i \in 0..IdDigits : Left(id)[i] \in Nat
           /\ \A i \in 1..IdDigits : Left(id)[i] = Left(id)[i - 1] \div 16
<1> DEFINE N == IdDigits
           step == [p \in (1..N) \X Nat |-> p[2] \div 16]
           IsLeft(f) == f = [i \in 0..N |-> IF i = 0 THEN id ELSE f[i - 1] \div 16]
<1>1. N \in Nat /\ N >= 3 /\ N = SimDigits + 2 /\ SimDigits \in Nat
  BY DigitsAssumption DEF IdDigits
<1>2. step \in Steps(N, Nat)
  <2>1. \A n \in Nat : n \div 16 \in Nat
    OBVIOUS
  <2> QED
    BY <2>1 DEF Steps
<1>3. PICK f : Iterates(f, N, Nat, id, step)
  <2> HIDE DEF step, N
  <2> QED
    BY <1>1, <1>2, Recursion
<1>4. f \in [0..N -> Nat] /\ f[0] = id /\ \A i \in 1..N : f[i] = step[<<i, f[i - 1]>>]
  BY <1>3 DEF Iterates
<1>5. ASSUME NEW i \in 1..N PROVE f[i] = f[i - 1] \div 16
  <2>1. i - 1 \in 0..N
    BY <1>1
  <2>2. f[i - 1] \in Nat
    <3> HIDE DEF N
    <3> QED
      BY <1>4, <2>1
  <2> QED
    BY <1>4, <2>2
<1>6. IsLeft(f)
  <2> HIDE DEF step, N
  <2> QED
    BY <1>1, <1>4, <1>5
<1> DEFINE g == Left(id)
<1>7. IsLeft(g)
  <2> DEFINE h == CHOOSE h : IsLeft(h)
  <2>1. g = h
    BY DEF Left
  <2> HIDE DEF IsLeft
  <2>2. IsLeft(h)
    BY <1>6
  <2> HIDE DEF g, h
  <2> QED
    BY <2>1, <2>2
<1> HIDE DEF g, N
<1>8. g[0] = id /\ \A i \in 1..N : g[i] = g[i - 1] \div 16
  <2>1. g[0] = id
    BY <1>1, <1>7
  <2>2. ASSUME NEW i \in 1..N PROVE g[i] = g[i - 1] \div 16
    <3>1. i \in 0..N /\ i # 0
      BY <1>1
    <3> QED
      BY <1>7, <3>1
  <2> QED
    BY <2>1, <2>2
<1>9. \A i \in 0..N : g[i] \in Nat
  <2> DEFINE S == {n \in Nat : n <= N => g[n] \in Nat}
  <2>1. 0 \in S
    BY <1>8
  <2>2. ASSUME NEW n \in Nat, n \in S PROVE n + 1 \in S
    <3>1. SUFFICES ASSUME n + 1 <= N PROVE g[n + 1] \in Nat
      OBVIOUS
    <3>2. n + 1 \in 1..N /\ (n + 1) - 1 = n /\ n <= N
      BY <1>1, <3>1
    <3>3. g[n] \in Nat /\ g[n + 1] = g[n] \div 16
      BY <1>8, <2>2, <3>2
    <3> QED
      BY <3>3
  <2>3. Nat \subseteq S
    <3> HIDE DEF S
    <3> QED
      BY <2>1, <2>2, Induction
  <2> QED
    BY <1>1, <2>3
<1> QED
  BY <1>1, <1>8, <1>9 DEF g, N

LEMMA Printed ==
    ASSUME NEW id \in Nat
    PROVE  LET string == GenerateDeviceIdStrByDeviceId(id)
           IN  /\ string \in Seq(0..15) /\ string \in Seq(Nat) /\ Len(string) = IdDigits
               /\ \A i \in 1..IdDigits : string[i] \in 0..15 /\ string[i] = Left(id)[IdDigits - i] % 16
<1> DEFINE string == GenerateDeviceIdStrByDeviceId(id)
           N == IdDigits
<1>1. N \in Nat /\ \A i \in 0..N : Left(id)[i] \in Nat
  BY LeftFacts
<1>2. ASSUME NEW i \in 1..N PROVE Left(id)[N - i] % 16 \in 0..15
  <2>1. N - i \in 0..N
    BY <1>1
  <2>2. Left(id)[N - i] \in Nat
    BY <1>1, <2>1
  <2> QED
    BY <2>2
<1>3. string = [i \in 1..N |-> Left(id)[N - i] % 16]
  BY DEF GenerateDeviceIdStrByDeviceId
<1> HIDE DEF string, N
<1>5. ASSUME NEW i \in 1..N PROVE string[i] \in 0..15 /\ string[i] = Left(id)[N - i] % 16
  <2>1. string[i] = Left(id)[N - i] % 16
    BY <1>3
  <2> QED
    BY <1>2, <2>1
<1>4. string \in Seq(0..15) /\ Len(string) = N
  <2>1. string \in [1..N -> 0..15]
    BY <1>2, <1>3
  <2> QED
    BY ONLY <1>1, <2>1, FunctionsAreSequences
<1>6. string \in Seq(Nat)
  <2>1. \A j \in 1..N : Left(id)[N - j] % 16 \in Nat
    BY <1>2
  <2>2. string \in [1..N -> Nat]
    BY ONLY <1>3, <2>1
  <2> QED
    BY ONLY <1>1, <2>2, FunctionsAreSequences
<1> QED
  BY <1>4, <1>5, <1>6 DEF string, N

(* A number that takes no more digits than an id has is printed and read   *)
(* back as it was; and so is every number typed with no more.              *)
LEMMA ReadBack ==
    ASSUME NEW id \in Nat, Left(id)[IdDigits] = 0
    PROVE  /\ Values(16, GenerateDeviceIdStrByDeviceId(id), [i \in 0..IdDigits |-> Left(id)[IdDigits - i]])
           /\ GenerateDeviceId(GenerateDeviceIdStrByDeviceId(id)) = id
<1> DEFINE string == GenerateDeviceIdStrByDeviceId(id)
           N == IdDigits
           g == [i \in 0..N |-> Left(id)[N - i]]
<1>1. /\ N \in Nat /\ Left(id)[0] = id /\ Left(id)[N] = 0
      /\ \A i \in 0..N : Left(id)[i] \in Nat
      /\ \A i \in 1..N : Left(id)[i] = Left(id)[i - 1] \div 16
  BY LeftFacts
<1>2. string \in Seq(Nat) /\ Len(string) = N /\ \A i \in 1..N : string[i] = Left(id)[N - i] % 16
  BY Printed
<1> HIDE DEF string, N
<1>3. ASSUME NEW i \in 1..N PROVE g[i] = 16 * g[i - 1] + string[i]
  <2>1. i \in 0..N /\ i - 1 \in 0..N /\ N - i \in 0..N /\ N - (i - 1) \in 1..N
        /\ (N - (i - 1)) - 1 = N - i
    BY <1>1
  <2> DEFINE x == Left(id)[N - i]
             y == Left(id)[N - (i - 1)]
  <2>2. y = x \div 16 /\ x \in Nat /\ g[i] = x /\ g[i - 1] = y /\ string[i] = x % 16
    BY <1>1, <1>2, <2>1
  <2> HIDE DEF x, y, g
  <2> DEFINE z == string[i]
  <2>3. x \in Nat /\ y = x \div 16 /\ z = x % 16
    BY <2>2
  <2> HIDE DEF z
  <2>4. x = 16 * y + z
    <3>1. z = x - 16 * y /\ y \in Nat /\ z \in 0..15
      BY ONLY <2>3
    <3> QED
      BY ONLY <2>3, <3>1
  <2> QED
    BY <2>2, <2>4 DEF z
<1>4. g[0] = 0 /\ g[N] = id
  <2>1. 0 \in 0..N /\ N \in 0..N /\ N - 0 = N /\ N - N = 0
    BY <1>1
  <2> QED
    BY <1>1, <2>1
<1> HIDE DEF g
<1>5. Values(16, string, g)
  BY <1>2, <1>3, <1>4 DEF Values
<1>6. Number(16, string) = id
  BY <1>2, <1>4, <1>5, NumberUnique
<1> QED
  BY <1>5, <1>6 DEF GenerateDeviceId, string, N, g

LEMMA TypedFits ==
    ASSUME NEW s \in Seq(0..15), Len(s) <= IdDigits
    PROVE  GenerateDeviceId(s) \in Nat /\ Left(GenerateDeviceId(s))[IdDigits] = 0
<1> DEFINE n == Len(s)
           N == IdDigits
           id == GenerateDeviceId(s)
<1>1. s \in Seq(Nat) /\ n \in Nat /\ \A i \in 1..n : s[i] \in 0..15
  OBVIOUS
<1>2. PICK v \in [0..n -> Nat] : Values(16, s, v) /\ Number(16, s) = v[n]
  BY <1>1, NumberFacts
<1>3. id = v[n] /\ id \in Nat
  BY <1>1, <1>2 DEF GenerateDeviceId
<1> HIDE DEF id, N
<1>4. /\ N \in Nat /\ n <= N /\ Left(id)[0] = id
      /\ \A i \in 1..N : Left(id)[i] = Left(id)[i - 1] \div 16
  BY <1>3, LeftFacts DEF N
<1> DEFINE S == {k \in Nat : /\ k <= n => Left(id)[k] = v[n - k]
                             /\ k >= n /\ k <= N => Left(id)[k] = 0}
<1> HIDE DEF n
<1>5. v[0] = 0 /\ \A i \in 1..n : v[i] = 16 * v[i - 1] + s[i]
  BY <1>2 DEF Values, n
<1>6. 0 \in S
  BY <1>1, <1>3, <1>4, <1>5
<1>7. ASSUME NEW k \in Nat, k \in S PROVE k + 1 \in S
  <2>1. ASSUME k + 1 <= n PROVE Left(id)[k + 1] = v[n - (k + 1)]
    <3>1. k <= n /\ k + 1 \in 1..N /\ (k + 1) - 1 = k /\ n - k \in 1..n
          /\ (n - k) - 1 = n - (k + 1) /\ n - (k + 1) \in 0..n
      BY <1>1, <1>4, <2>1
    <3> DEFINE x == v[n - (k + 1)]
               d == s[n - k]
    <3>2. Left(id)[k + 1] = v[n - k] \div 16
      BY <1>4, <1>7, <3>1
    <3>3. x \in Nat /\ d \in 0..15 /\ v[n - k] = 16 * x + d
      BY <1>1, <1>2, <1>5, <3>1
    <3> HIDE DEF x, d
    <3>4. (16 * x + d) \div 16 = x
      BY ONLY <3>3
    <3> QED
      BY <3>2, <3>3, <3>4 DEF x
  <2>2. ASSUME k + 1 >= n, k + 1 <= N PROVE Left(id)[k + 1] = 0
    <3>1. CASE k + 1 = n
      <4>1. n - (k + 1) = 0 /\ k + 1 <= n
        BY <1>1, <3>1
      <4> QED
        BY <1>5, <2>1, <4>1
    <3>2. CASE k + 1 # n
      <4>1. k >= n /\ k <= N /\ k + 1 \in 1..N /\ (k + 1) - 1 = k
        BY <1>1, <1>4, <2>2, <3>2
      <4>2. Left(id)[k + 1] = 0 \div 16
        BY <1>4, <1>7, <4>1
      <4> QED
        BY <4>2
    <3> QED
      BY <3>1, <3>2
  <2> QED
    BY <2>1, <2>2
<1>8. N \in S
  <2> HIDE DEF S
  <2> QED
    BY <1>4, <1>6, <1>7, Induction
<1> QED
  BY <1>1, <1>3, <1>4, <1>8 DEF id, N

(* The numbers that one and two digits make up. *)
LEMMA ShortNumbers ==
    ASSUME NEW base \in {10, 16}
    PROVE  /\ \A b \in Nat : Number(base, <<b>>) = b
           /\ \A a, b \in Nat : Number(base, <<a, b>>) = base * a + b
<1>1. ASSUME NEW b \in Nat PROVE Number(base, <<b>>) = b
  <2> DEFINE s == <<b>>
             g == [i \in 0..1 |-> IF i = 0 THEN 0 ELSE b]
  <2>1. s \in Seq(Nat) /\ Len(s) = 1 /\ s[1] = b
    OBVIOUS
  <2>2. g[0] = 0 /\ g[1] = b /\ base * 0 + b = b
    OBVIOUS
  <2> HIDE DEF s, g
  <2>3. Values(base, s, g)
    BY <2>1, <2>2 DEF Values
  <2>4. Number(base, s) = g[1]
    BY <2>1, <2>3, NumberUnique
  <2> QED
    BY <2>2, <2>4 DEF s
<1>2. ASSUME NEW a \in Nat, NEW b \in Nat PROVE Number(base, <<a, b>>) = base * a + b
  <2> DEFINE s == <<a, b>>
             n == base * a + b
             g == [i \in 0..2 |-> IF i = 0 THEN 0 ELSE IF i = 1 THEN a ELSE n]
  <2>1. s \in Seq(Nat) /\ Len(s) = 2 /\ s[1] = a /\ s[2] = b
    OBVIOUS
  <2>2. base * 0 + a = a
    OBVIOUS
  <2> HIDE DEF n
  <2>3. g[0] = 0 /\ g[1] = a /\ g[2] = n
    OBVIOUS
  <2> HIDE DEF s, g
  <2>4. \A i \in 1..2 : g[i] = base * g[i - 1] + s[i]
    <3>1. g[1] = base * g[0] + s[1]
      BY <2>1, <2>2, <2>3
    <3>2. g[2] = base * g[1] + s[2]
      BY <2>1, <2>3 DEF n
    <3> QED
      BY <3>1, <3>2
  <2>5. Values(base, s, g)
    BY <2>1, <2>3, <2>4 DEF Values
  <2>6. Number(base, s) = g[2]
    BY <2>1, <2>5, NumberUnique
  <2> QED
    BY <2>3, <2>6 DEF s, n
<1> QED
  BY <1>1, <1>2

(* The number of a string of which the last two digits are others.         *)
LEMMA LastTwo ==
    ASSUME NEW n \in Nat, NEW s \in Seq(Nat), Len(s) = n + 2, NEW v, Values(16, s, v),
           v[n] \in Nat, NEW c \in Nat, NEW d \in Nat
    PROVE  Number(16, SubSeq(s, 1, n) \o <<c, d>>) = 16 * (16 * v[n] + c) + d
<1> DEFINE x == SubSeq(s, 1, n)
           y == <<c, d>>
           t == x \o y
           last1 == 16 * v[n] + c
           last2 == 16 * last1 + d
           g == [i \in 0..n + 2 |-> IF i = n + 2 THEN last2 ELSE IF i = n + 1 THEN last1 ELSE v[i]]
<1>1. x \in Seq(Nat) /\ Len(x) = n /\ \A i \in 1..n : x[i] = s[i]
  <2>1. n \in 0..Len(s)
    OBVIOUS
  <2>2. x \in Seq(Nat) /\ Len(x) = n
    BY <2>1, CutAt
  <2>3. \A i \in 1..n : x[i] = s[i]
    OBVIOUS
  <2> QED
    BY <2>2, <2>3
<1>2. y \in Seq(Nat) /\ Len(y) = 2 /\ y[1] = c /\ y[2] = d
  OBVIOUS
<1> HIDE DEF x, y
<1>3. /\ t \in Seq(Nat) /\ Len(t) = n + 2
      /\ \A i \in 1..n + 2 : t[i] = IF i <= n THEN x[i] ELSE y[i - n]
  <2>1. /\ x \o y \in Seq(Nat) /\ Len(x \o y) = Len(x) + Len(y)
        /\ \A i \in 1..Len(x) + Len(y) : (x \o y)[i] = IF i <= Len(x) THEN x[i] ELSE y[i - Len(x)]
    BY <1>1, <1>2, ConcatProperties
  <2> QED
    BY <1>1, <1>2, <2>1
<1> HIDE DEF t
<1>4. v[0] = 0 /\ \A i \in 1..n : v[i] = 16 * v[i - 1] + s[i]
  <2>1. n \in Nat /\ \A i \in 1..n : i \in 1..Len(s)
    OBVIOUS
  <2> QED
    BY <2>1 DEF Values
<1>5. ASSUME NEW i \in 1..n + 2 PROVE g[i] = 16 * g[i - 1] + t[i]
  <2>1. i - 1 \in 0..n + 2 /\ i \in 0..n + 2 /\ (i <= n \/ i = n + 1 \/ i = n + 2)
    OBVIOUS
  <2>2. CASE i <= n
    <3>1. i \in 1..n /\ i # n + 1 /\ i # n + 2 /\ i - 1 # n + 1 /\ i - 1 # n + 2
      BY <2>2
    <3>2. g[i] = v[i] /\ g[i - 1] = v[i - 1] /\ t[i] = s[i]
      BY <1>1, <1>3, <2>1, <2>2, <3>1
    <3> HIDE DEF g
    <3> QED
      BY <1>4, <3>1, <3>2
  <2>3. CASE i = n + 1
    <3>1. i # n + 2 /\ i - 1 = n /\ n # n + 1 /\ n # n + 2 /\ ~(i <= n) /\ i - n = 1
      BY <2>3
    <3> HIDE DEF last2
    <3>2. t[i] = c
      BY <1>2, <1>3, <3>1
    <3>3. g[i] = last1 /\ g[i - 1] = v[n]
      BY <2>1, <2>3, <3>1
    <3> HIDE DEF g
    <3> QED
      BY <3>2, <3>3
  <2>4. CASE i = n + 2
    <3>1. i - 1 = n + 1 /\ n + 1 # n + 2 /\ ~(i <= n) /\ i - n = 2
      BY <2>4
    <3> HIDE DEF last1
    <3>2. t[i] = d
      BY <1>2, <1>3, <3>1
    <3>3. g[i] = last2 /\ g[i - 1] = last1
      BY <2>1, <2>4, <3>1
    <3> HIDE DEF g
    <3> QED
      BY <3>2, <3>3
  <2> QED
    BY <2>1, <2>2, <2>3, <2>4
<1>6. g[0] = 0 /\ g[n + 2] = last2
  <2> HIDE DEF last1, last2
  <2>1. 0 \in 0..n + 2 /\ n + 2 \in 0..n + 2 /\ 0 # n + 1 /\ 0 # n + 2
    OBVIOUS
  <2> QED
    BY <1>4, <2>1
<1> HIDE DEF g, last2
<1>7. Values(16, t, g)
  BY <1>3, <1>5, <1>6 DEF Values
<1>8. Number(16, t) = last2
  BY <1>3, <1>6, <1>7, NumberUnique
<1> QED
  BY <1>8 DEF t, x, y, last2

(* What SendCommandTo808 pushes for an id, and the id of the packets of    *)
(* the car that the platform opens for a command.                          *)
CommandFor(id) ==
    LET string == GenerateDeviceIdStrByDeviceId(id)
    IN  [sim |-> SubSeq(string, 1, SimDigits),
         channel |-> SubSeq(string, IF string[IdDigits - 1] = 0 THEN IdDigits ELSE IdDigits - 1,
                            IdDigits)]
CarsId(com) == GenerateDeviceId(GenerateDeviceIdStr(com.sim, Number(10, com.channel)))

LEMMA ChannelDigits ==
    ASSUME NEW id \in Nat, NEW com, com = CommandFor(id)
    PROVE  LET string == GenerateDeviceIdStrByDeviceId(id)
               a == string[IdDigits - 1]
               b == string[IdDigits]
           IN  /\ com.sim = SubSeq(string, 1, SimDigits) /\ com.channel # <<>>
               /\ a = 0 => com.channel = <<b>>
               /\ a # 0 => com.channel = <<a, b>>
<1> DEFINE string == GenerateDeviceIdStrByDeviceId(id)
           N == IdDigits
           a == string[N - 1]
           b == string[N]
<1>1. N \in Nat /\ N >= 3
  BY LeftFacts
<1>2. string \in Seq(Nat) /\ Len(string) = N
  BY Printed
<1> DEFINE front == SubSeq(string, 1, SimDigits)
           back == SubSeq(string, IF a = 0 THEN N ELSE N - 1, N)
<1>3. com.sim = front /\ com.channel = back
  <2>1. com = [sim |-> front, channel |-> back]
    BY DEF CommandFor
  <2> HIDE DEF front, back
  <2> QED
    BY <2>1
<1> HIDE DEF string, N
<1>4. SubSeq(string, N, N) = <<b>>
  <2> DEFINE x == SubSeq(string, N, N)
             y == <<b>>
  <2>0. N \in Int /\ (\A i \in N..N : string[i] \in Nat)
        /\ (IF N <= N THEN N - N + 1 ELSE 0) = 1 /\ N - N + 1 = 1 /\ N + 1 - 1 = N
    BY <1>1, <1>2
  <2>1. x \in Seq(Nat) /\ Len(x) = 1 /\ \A i \in 1..1 : x[i] = string[N + i - 1]
    <3>1. /\ x \in Seq(Nat) /\ Len(x) = IF N <= N THEN N - N + 1 ELSE 0
          /\ \A i \in 1..N - N + 1 : x[i] = string[N + i - 1]
      BY <2>0, SubSeqProperties
    <3> HIDE DEF x
    <3> QED
      BY <2>0, <3>1
  <2>2. y \in Seq(Nat) /\ Len(y) = 1 /\ y[1] = b
    BY <1>1, <1>2
  <2> HIDE DEF x, y
  <2>3. \A i \in 1..Len(x) : x[i] = y[i]
    BY <2>0, <2>1, <2>2
  <2>4. x = y
    BY <2>1, <2>2, <2>3, SeqEqual
  <2> QED
    BY <2>4 DEF x, y
<1>5. SubSeq(string, N - 1, N) = <<a, b>>
  <2> DEFINE x == SubSeq(string, N - 1, N)
             y == <<a, b>>
  <2>0. N - 1 \in Int /\ N \in Int /\ (\A i \in N - 1..N : string[i] \in Nat)
        /\ (IF N - 1 <= N THEN N - (N - 1) + 1 ELSE 0) = 2 /\ N - (N - 1) + 1 = 2
    BY <1>1, <1>2
  <2>1. x \in Seq(Nat) /\ Len(x) = 2 /\ \A i \in 1..2 : x[i] = string[(N - 1) + i - 1]
    <3>1. /\ x \in Seq(Nat) /\ Len(x) = IF N - 1 <= N THEN N - (N - 1) + 1 ELSE 0
          /\ \A i \in 1..N - (N - 1) + 1 : x[i] = string[(N - 1) + i - 1]
      BY <2>0, SubSeqProperties
    <3> HIDE DEF x
    <3> QED
      BY <2>0, <3>1
  <2>2. y \in Seq(Nat) /\ Len(y) = 2 /\ y[1] = a /\ y[2] = b
    BY <1>1, <1>2
  <2>3. (N - 1) + 1 - 1 = N - 1 /\ (N - 1) + 2 - 1 = N
    BY <1>1
  <2> HIDE DEF x, y
  <2>4. x[1] = a /\ x[2] = b
    BY <2>1, <2>3
  <2>5. \A i \in 1..Len(x) : x[i] = y[i]
    BY <2>1, <2>2, <2>4
  <2>6. x = y
    BY <2>1, <2>2, <2>5, SeqEqual
  <2> QED
    BY <2>6 DEF x, y
<1> HIDE DEF a, b
<1>6. com.sim = SubSeq(string, 1, SimDigits)
  BY <1>3
<1>7. a = 0 => com.channel = <<b>>
  BY <1>3, <1>4
<1>8. a # 0 => com.channel = <<a, b>>
  BY <1>3, <1>5
<1>9. com.channel # <<>>
  BY <1>7, <1>8
<1> QED
  BY <1>6, <1>7, <1>8, <1>9 DEF string, N, a, b

LEMMA Below256 ==
    ASSUME NEW v \in Nat, NEW a \in 0..9, NEW b \in 0..9, NEW id, id = 16 * (16 * v + a) + b,
           NEW own, own = 256 * v + (10 * a + b)
    PROVE  own = id <=> id % 256 < 10
<1>1. id % 256 = 16 * a + b
  <2> DEFINE r == 16 * a + b
  <2>1. r \in 0..255 /\ id = 256 * v + r
    OBVIOUS
  <2> HIDE DEF r
  <2>2. id % 256 = r
    BY ONLY <2>1, v \in Nat
  <2> QED
    BY <2>2 DEF r
<1>2. own = id <=> a = 0
  OBVIOUS
<1>3. 16 * a + b < 10 <=> a = 0
  OBVIOUS
<1> QED
  BY <1>1, <1>2, <1>3

LEMMA OwnId ==
    ASSUME NEW id \in Nat, Left(id)[IdDigits] = 0, NEW com, com = CommandFor(id),
           \A i \in DOMAIN com.channel : com.channel[i] < 10
    PROVE  CarsId(com) = id <=> id % 256 < 10
<1> DEFINE string == GenerateDeviceIdStrByDeviceId(id)
           N == IdDigits
           a == string[N - 1]
           b == string[N]
           n == SimDigits
           v == [i \in 0..N |-> Left(id)[N - i]]
           x == Left(id)[2]
           channel == Number(10, com.channel)
<1>1. /\ N \in Nat /\ N >= 3 /\ N = n + 2 /\ n \in Nat
      /\ \A i \in 0..N : Left(id)[i] \in Nat
      /\ Left(id)[0] = id /\ \A i \in 1..N : Left(id)[i] = Left(id)[i - 1] \div 16
  BY LeftFacts
<1>2. /\ string \in Seq(Nat) /\ Len(string) = N
      /\ \A i \in 1..N : string[i] \in 0..15 /\ string[i] = Left(id)[N - i] % 16
  BY Printed
<1>3. Values(16, string, v)
  BY ReadBack
<1>4. /\ com.sim = SubSeq(string, 1, n)
      /\ a = 0 => com.channel = <<b>>
      /\ a # 0 => com.channel = <<a, b>>
  BY ChannelDigits
<1>5. v[n] = x /\ x \in Nat
  <2>1. n \in 0..N /\ N - n = 2 /\ 2 \in 0..N
    BY <1>1
  <2> HIDE DEF N, n
  <2> QED
    BY <1>1, <2>1
<1> HIDE DEF string, N, n, v
<1>6. a \in 0..15 /\ b \in 0..15 /\ a = Left(id)[1] % 16 /\ b = Left(id)[0] % 16
  <2>1. N - 1 \in 1..N /\ N \in 1..N /\ N - (N - 1) = 1 /\ N - N = 0
    BY <1>1
  <2> QED
    BY <1>2, <2>1
<1>7. id = 16 * (16 * x + a) + b
  <2> DEFINE y == Left(id)[1]
  <2>1. 1 \in 1..N /\ 2 \in 1..N /\ 1 - 1 = 0 /\ 2 - 1 = 1 /\ 1 \in 0..N
    BY <1>1
  <2>2. y \in Nat /\ y = id \div 16 /\ x = y \div 16 /\ b = id % 16 /\ a = y % 16
    BY <1>1, <1>6, <2>1
  <2> HIDE DEF x, y, a, b
  <2>3. id = 16 * y + b
    <3>1. b = id - 16 * y /\ b \in 0..15
      BY ONLY <2>2, id \in Nat
    <3> QED
      BY ONLY <2>2, <3>1, id \in Nat
  <2>4. y = 16 * x + a /\ x \in Nat /\ a \in 0..15
    <3>1. a = y - 16 * x /\ a \in 0..15 /\ x \in Nat
      BY ONLY <2>2
    <3> QED
      BY ONLY <2>2, <3>1
  <2> QED
    BY ONLY <2>3, <2>4
<1> HIDE DEF x, a, b
<1>8. a \in 0..9 /\ b \in 0..9 /\ channel = 10 * a + b
  <2>1. CASE a = 0
    <3>1. com.channel = <<b>> /\ b < 10
      <4>1. com.channel = <<b>>
        BY <1>4, <2>1
      <4>2. 1 \in DOMAIN com.channel /\ com.channel[1] = b
        BY <4>1
      <4> QED
        BY <4>1, <4>2
    <3>2. channel = b
      BY <1>6, <3>1, ShortNumbers
    <3> HIDE DEF channel
    <3> QED
      BY <1>6, <2>1, <3>1, <3>2
  <2>2. CASE a # 0
    <3>1. com.channel = <<a, b>> /\ a < 10 /\ b < 10
      <4>1. com.channel = <<a, b>>
        BY <1>4, <2>2
      <4>2. /\ 1 \in DOMAIN com.channel /\ com.channel[1] = a
            /\ 2 \in DOMAIN com.channel /\ com.channel[2] = b
        BY <4>1
      <4> QED
        BY <4>1, <4>2
    <3>2. channel = 10 * a + b
      BY <1>6, <3>1, ShortNumbers
    <3> HIDE DEF channel
    <3> QED
      BY <1>6, <3>1, <3>2
  <2> QED
    BY <2>1, <2>2
<1> HIDE DEF channel
<1> DEFINE c == channel \div 16
           d == channel % 16
<1>9. channel \in Nat /\ c \in Nat /\ d \in Nat /\ channel = 16 * c + d
  <2>1. channel \in Nat
    BY <1>8
  <2>2. c = channel \div 16 /\ d = channel % 16
    OBVIOUS
  <2> HIDE DEF c, d
  <2>3. d = channel - 16 * c /\ c \in Nat /\ d \in 0..15
    BY ONLY <2>1, <2>2
  <2> QED
    BY <2>1, <2>3
<1>10. CarsId(com) = 16 * (16 * x + c) + d
  <2>1. CarsId(com) = Number(16, SubSeq(string, 1, n) \o <<c, d>>)
    BY <1>4 DEF CarsId, GenerateDeviceId, GenerateDeviceIdStr, channel
  <2> HIDE DEF c, d
  <2>2. Number(16, SubSeq(string, 1, n) \o <<c, d>>) = 16 * (16 * v[n] + c) + d
    <3>1. Len(string) = n + 2 /\ v[n] \in Nat
      BY <1>1, <1>2, <1>5
    <3> QED
      BY <1>1, <1>2, <1>3, <1>9, <3>1, LastTwo
  <2> QED
    BY <1>5, <2>1, <2>2
<1> HIDE DEF c, d
<1>11. CarsId(com) = 256 * x + (10 * a + b)
  <2> DEFINE own == CarsId(com)
  <2>1. own = 16 * (16 * x + c) + d
    BY <1>10
  <2> HIDE DEF own
  <2>2. own = 256 * x + channel
    BY ONLY <1>5, <1>9, <2>1
  <2>3. own = 256 * x + (10 * a + b)
    BY ONLY <1>8, <2>2
  <2> QED
    BY <2>3 DEF own
<1> QED
  BY <1>5, <1>7, <1>8, <1>11, Below256

(* After the request has come, it is listed under the number it was typed  *)
(* as, whichever form the id had on the way, and the command is the one    *)
(* for that number.                                                        *)
IdInv ==
    /\ typed \in Seq(0..15) /\ Len(typed) <= IdDigits
    /\ stage \in {"typed", "subscribed", "commanded", "publishing"}
    /\ stage # "typed" => listed = GenerateDeviceId(typed)
    /\ stage = "commanded" => command = CommandFor(listed)
    /\ stage = "publishing" => (published = listed <=> listed % 256 < 10)

LEMMA IdInvariance == IdSpec => []IdInv
<1>1. IdInit => IdInv
  <2>1. SUFFICES ASSUME IdInit PROVE IdInv
    OBVIOUS
  <2>2. PICK n \in 1..IdDigits : typed \in [1..n -> Digits]
    BY <2>1 DEF IdInit
  <2>3. IdDigits \in Nat
    BY DigitsAssumption DEF IdDigits
  <2>4. typed \in Seq(0..15) /\ Len(typed) = n
    <3>1. n \in Nat
      BY <2>3
    <3>2. typed \in [1..n -> 0..15]
      BY <2>2, DigitsAssumption
    <3> HIDE DEF IdDigits
    <3> QED
      BY <3>1, <3>2
  <2> QED
    BY <2>1, <2>3, <2>4 DEF IdInit, IdInv
<1>2. IdInv /\ [IdNext]_idVars => IdInv'
  <2>1. SUFFICES ASSUME IdInv, [IdNext]_idVars PROVE IdInv'
    OBVIOUS
  <2> DEFINE id == GenerateDeviceId(typed)
  <2>2. id \in Nat /\ Left(id)[IdDigits] = 0
    BY <2>1, TypedFits DEF IdInv
  <2>3. typed' = typed /\ id' = id
    <3>1. typed' = typed
      BY <2>1 DEF IdNext, Subscribed, SubscribedAgain, SendCommandTo808, CarPublishes, idVars
    <3> QED
      BY <3>1
  <2>4. CASE Subscribed
    BY <2>1, <2>3, <2>4 DEF IdInv, Subscribed
  <2>5. CASE SubscribedAgain
    <3>1. stage' = stage /\ command' = command /\ published' = published /\ stage # "typed"
          /\ listed' = GenerateDeviceId(GenerateDeviceIdStrByDeviceId(id))
      BY <2>5 DEF SubscribedAgain
    <3>2. listed' = id
      BY <2>2, <3>1, ReadBack
    <3>3. listed = id
      BY <2>1, <3>1 DEF IdInv
    <3>4. CommandFor(listed)' = CommandFor(listed)
      BY <3>2, <3>3
    <3> QED
      BY <2>1, <2>3, <3>1, <3>2, <3>3, <3>4 DEF IdInv
  <2>6. CASE SendCommandTo808
    <3>1. listed = id /\ stage' = "commanded" /\ listed' = listed /\ published' = published
      BY <2>1, <2>6 DEF IdInv, SendCommandTo808
    <3>2. Len(GenerateDeviceIdStrByDeviceId(listed)) = IdDigits
      BY <2>2, <3>1, Printed
    <3>3. command' = CommandFor(listed)
      BY <2>6, <3>2 DEF SendCommandTo808, CommandFor
    <3>4. CommandFor(listed)' = CommandFor(listed)
      BY <3>1
    <3> QED
      BY <2>1, <2>3, <3>1, <3>3, <3>4 DEF IdInv
  <2>7. CASE CarPublishes
    <3>1. listed = id /\ stage' = "publishing" /\ listed' = listed /\ command = CommandFor(id)
      BY <2>1, <2>7 DEF IdInv, CarPublishes
    <3>2. /\ published' = CarsId(command)
          /\ \A i \in DOMAIN command.channel : command.channel[i] < 10
      BY <2>7 DEF CarPublishes, CarsId
    <3>3. PICK com : com = command
      OBVIOUS
    <3>4. PICK n : n = id
      OBVIOUS
    <3>5. CarsId(com) = n <=> n % 256 < 10
      <4>1. n \in Nat /\ Left(n)[IdDigits] = 0 /\ com = CommandFor(n)
            /\ \A i \in DOMAIN com.channel : com.channel[i] < 10
        BY <2>2, <3>1, <3>2, <3>3, <3>4
      <4> QED
        BY <4>1, OwnId
    <3>6. published' = listed' <=> listed' % 256 < 10
      BY <3>1, <3>2, <3>3, <3>4, <3>5
    <3> QED
      BY <2>1, <2>3, <3>1, <3>6 DEF IdInv
  <2>8. CASE UNCHANGED idVars
    <3>1. CommandFor(listed)' = CommandFor(listed)
      BY <2>8 DEF idVars
    <3> QED
      BY <2>1, <2>3, <2>8, <3>1 DEF IdInv, idVars
  <2> QED
    BY <2>1, <2>4, <2>5, <2>6, <2>7, <2>8 DEF IdNext
<1> QED
  BY <1>1, <1>2, PTL DEF IdSpec

(* Whatever SIM number and channel a viewer asks for: SendCommandTo808     *)
(* pushes a command, and the car it opens publishes under the id it is     *)
(* asked for if and only if the channel is below ten.                      *)
THEOREM OnlyBelowTenIsServed == IdSpec => []ServedBelowTen
<1>1. IdInv => ServedBelowTen
  <2>1. SUFFICES ASSUME IdInv PROVE ServedBelowTen
    OBVIOUS
  <2> DEFINE id == GenerateDeviceId(typed)
  <2>2. id \in Nat
    BY <2>1, TypedFits DEF IdInv
  <2>3. stage = "commanded" => command # NoCommand
    <3>1. SUFFICES ASSUME stage = "commanded" PROVE command # NoCommand
      OBVIOUS
    <3>2. command = CommandFor(id)
      BY <2>1, <3>1 DEF IdInv
    <3>3. command.channel # <<>>
      BY <2>2, <3>2, ChannelDigits
    <3> QED
      BY <3>3 DEF NoCommand
  <2> QED
    BY <2>1, <2>3 DEF IdInv, ServedBelowTen
<1> QED
  BY <1>1, IdInvariance, PTL
=============================================================================
