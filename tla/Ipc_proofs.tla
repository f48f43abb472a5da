----------------------------- MODULE Ipc_proofs -----------------------------
(***************************************************************************)
(* That ipc::decoder_t cuts a stream into the packets it was made of, for  *)
(* any packets and any cuts, and what follows for the two ways of the      *)
(* frames that use it: FramePath to the viewers of pc_server, CarFeed to   *)
(* the browsers of new_web_server.                                         *)
(***************************************************************************)
EXTENDS FramePath, CarFeed, SequenceInduction

(* What is used of a set of packets.                                       *)
HaveLengths(P) == NoHeader \notin P /\ \A p \in P : p.length \in Nat

-----------------------------------------------------------------------------
(* Packets as bytes.                                                       *)

LEMMA BytesFacts ==
    ASSUME NEW P, HaveLengths(P), NEW p \in P
    PROVE  /\ HeaderLength \in Nat /\ HeaderLength > 0 /\ p.length \in Nat
           /\ Bytes(p) \in Seq(P \X Nat) /\ Len(Bytes(p)) = HeaderLength + p.length
           /\ \A i \in 1..HeaderLength + p.length : Bytes(p)[i] = <<p, i>>
<1>1. HeaderLength \in Nat /\ HeaderLength > 0 /\ p.length \in Nat
  BY DecoderAssumption DEF HaveLengths
<1> DEFINE n == HeaderLength + p.length
<1>2. n \in Nat /\ \A i \in 1..n : <<p, i>> \in P \X Nat
  BY <1>1
<1>3. [i \in 1..n |-> <<p, i>>] \in Seq(P \X Nat) /\ Len([i \in 1..n |-> <<p, i>>]) = n
  <2> HIDE DEF n
  <2> QED
    BY <1>2
<1> QED
  BY <1>1, <1>3 DEF Bytes

LEMMA AllBytesFacts ==
    ASSUME NEW P, HaveLengths(P)
    PROVE  /\ \A s \in Seq(P) : AllBytes(s) \in Seq(P \X Nat)
           /\ \A s, t \in Seq(P) : AllBytes(s \o t) = AllBytes(s) \o AllBytes(t)
           /\ \A p \in P : AllBytes(<<p>>) = Bytes(p)
           /\ AllBytes(<<>>) = <<>>
<1> DEFINE f == [q \in P |-> Bytes(q)]
           D == P \X Nat
<1>1. \A q \in P : f[q] \in Seq(D)
  BY BytesFacts
<1>2. ASSUME NEW r \in Seq(P) PROVE AllBytes(r) = OverAll(f, r)
  <2>1. \A i \in 1..Len(r) : f[r[i]] = Bytes(r[i])
    OBVIOUS
  <2> HIDE DEF f
  <2> QED
    BY <2>1 DEF AllBytes, OverAll
<1>3. /\ \A s, t \in Seq(P) : s \o t \in Seq(P)
      /\ \A p \in P : <<p>> \in Seq(P) /\ f[p] = Bytes(p)
      /\ <<>> \in Seq(P)
  BY ConcatProperties
<1> HIDE DEF f, D
<1>4. /\ \A s \in Seq(P) : OverAll(f, s) \in Seq(D)
      /\ \A s, t \in Seq(P) : OverAll(f, s \o t) = OverAll(f, s) \o OverAll(f, t)
      /\ \A p \in P : OverAll(f, <<p>>) = f[p]
      /\ OverAll(f, <<>>) = <<>>
  BY <1>1, OverAllFacts
<1>5. \A s \in Seq(P) : AllBytes(s) \in Seq(P \X Nat)
  BY <1>2, <1>4 DEF D
<1>6. ASSUME NEW s \in Seq(P), NEW t \in Seq(P)
      PROVE  AllBytes(s \o t) = AllBytes(s) \o AllBytes(t)
  <2>1. s \o t \in Seq(P)
    BY <1>3
  <2>2. AllBytes(s) = OverAll(f, s) /\ AllBytes(t) = OverAll(f, t)
    BY <1>2
  <2>3. AllBytes(s \o t) = OverAll(f, s \o t)
    BY <1>2, <2>1
  <2>4. OverAll(f, s \o t) = OverAll(f, s) \o OverAll(f, t)
    BY <1>4
  <2> QED
    BY ONLY <2>2, <2>3, <2>4
<1>7. \A p \in P : AllBytes(<<p>>) = Bytes(p)
  BY <1>2, <1>3, <1>4
<1>8. AllBytes(<<>>) = <<>>
  BY <1>2, <1>3, <1>4
<1> QED
  BY <1>5, <1>6, <1>7, <1>8

LEMMA AllBytesHead ==
    ASSUME NEW P, HaveLengths(P), NEW s \in Seq(P), s # <<>>
    PROVE  /\ Head(s) \in P /\ Tail(s) \in Seq(P)
           /\ AllBytes(s) = Bytes(Head(s)) \o AllBytes(Tail(s))
           /\ s = <<Head(s)>> \o Tail(s)
<1>1. Head(s) \in P /\ Tail(s) \in Seq(P) /\ <<Head(s)>> \in Seq(P)
  OBVIOUS
<1>2. s = <<Head(s)>> \o Tail(s)
  OBVIOUS
<1>3. AllBytes(<<Head(s)>> \o Tail(s)) = AllBytes(<<Head(s)>>) \o AllBytes(Tail(s))
  BY <1>1, AllBytesFacts
<1>4. AllBytes(<<Head(s)>>) = Bytes(Head(s))
  BY <1>1, AllBytesFacts
<1> QED
  BY <1>1, <1>2, <1>3, <1>4

LEMMA AllBytesAppend ==
    ASSUME NEW P, HaveLengths(P), NEW s \in Seq(P), NEW p \in P
    PROVE  AllBytes(Append(s, p)) = AllBytes(s) \o Bytes(p)
<1>1. <<p>> \in Seq(P) /\ Append(s, p) = s \o <<p>>
  OBVIOUS
<1> QED
  BY <1>1, AllBytesFacts

-----------------------------------------------------------------------------
(* A turn of the decoding loop, for any bytes.                             *)

LEMMA SkipFacts ==
    ASSUME NEW D, NEW s \in Seq(D), NEW n \in 0..Len(s)
    PROVE  /\ Skip(s, n) \in Seq(D) /\ Len(Skip(s, n)) = Len(s) - n
           /\ SubSeq(s, 1, n) \in Seq(D) /\ Len(SubSeq(s, 1, n)) = n
           /\ SubSeq(s, 1, n) \o Skip(s, n) = s
BY CutAt DEF Skip

LEMMA SkipConcat ==
    ASSUME NEW D, NEW s \in Seq(D), NEW t \in Seq(D), NEW n \in 0..Len(t)
    PROVE  /\ Skip(s \o t, Len(s) + n) = Skip(t, n)
           /\ SubSeq(s \o t, 1, Len(s) + n) = s \o SubSeq(t, 1, n)
<1> DEFINE m == Len(s)
           l == Len(t)
           a == SubSeq(t, 1, n)
           b == Skip(t, n)
<1>1. m \in Nat /\ l \in Nat /\ n \in Nat /\ n <= l
  OBVIOUS
<1>2. a \in Seq(D) /\ Len(a) = n /\ b \in Seq(D) /\ Len(b) = l - n /\ a \o b = t
  BY SkipFacts
<1> DEFINE c == s \o a
<1> HIDE DEF a, b
<1>3. s \o t = c \o b /\ c \in Seq(D) /\ Len(c) = m + n
  <2>1. Cat(Cat(s, a), b) = Cat(s, Cat(a, b))
    BY <1>2, CatAlgebra
  <2>2. c \in Seq(D) /\ Len(c) = Len(s) + Len(a)
    BY <1>2, ConcatProperties
  <2> QED
    BY <1>2, <2>1, <2>2 DEF Cat
<1> HIDE DEF c
<1>4. c \o b \in Seq(D) /\ Len(c) <= Len(c \o b)
  BY <1>2, <1>3, ConcatProperties
<1>5. s \o t \in Seq(D)
  BY ConcatProperties
<1> DEFINE w == s \o t
<1>6. w \in Seq(D) /\ m + n \in 0..Len(w) /\ w = c \o b
  BY <1>1, <1>2, <1>3, <1>5, ConcatProperties
<1> HIDE DEF w
<1>7. SubSeq(w, 1, m + n) = c /\ Skip(w, m + n) = b
  <2> DEFINE x == SubSeq(w, 1, m + n)
             y == Skip(w, m + n)
  <2>1. x \in Seq(D) /\ Len(x) = m + n /\ y \in Seq(D) /\ x \o y = w
    BY <1>6, SkipFacts
  <2> HIDE DEF x, y
  <2>2. x \o y = c \o b /\ Len(c) <= Len(x)
    BY <1>1, <1>3, <1>6, <2>1
  <2>3. SubSeq(x, 1, Len(c)) = c /\ SubSeq(x, Len(c) + 1, Len(x)) \o y = b
    BY <1>2, <1>3, <2>1, <2>2, SameBeginning
  <2>4. SubSeq(x, 1, Len(c)) = x /\ SubSeq(x, Len(c) + 1, Len(x)) = <<>>
    BY <1>1, <1>3, <2>1
  <2> QED
    BY <2>1, <2>3, <2>4, ConcatEmptySeq DEF x, y
<1> QED
  BY <1>7 DEF w, c, a, b

(* What GetPacket may give for packets that are cut anywhere.              *)
Cuts(P) == {GetPacket(d) : d \in {e \in Decoders(P) : ~BodyMissing(e)}}

LEMMA ParseHeaderType ==
    ASSUME NEW P, HaveLengths(P), NEW d \in Decoders(P)
    PROVE  /\ ParseHeader(d) \in Decoders(P)
           /\ \/ ParseHeader(d) = d
              \/ /\ d.header = NoHeader /\ ParseHeader(d).header \in P
                 /\ Len(ParseHeader(d).buffer) = Len(d.buffer) - HeaderLength
<1>1. d.buffer \in Seq(P \X Nat) /\ d.header \in P \cup {NoHeader}
  BY DEF Decoders
<1>2. CASE ParseHeader(d) = d
  BY <1>2
<1>3. CASE ParseHeader(d) # d
  <2>1. /\ d.header = NoHeader /\ Len(d.buffer) >= HeaderLength
        /\ ParseHeader(d) = [buffer |-> Skip(d.buffer, HeaderLength), header |-> Head(d.buffer)[1]]
    <3>1. Len(d.buffer) \in Nat /\ HeaderLength \in Nat
      BY <1>1, DecoderAssumption
    <3> QED
      BY <1>3, <3>1 DEF ParseHeader
  <2>2. HeaderLength \in 0..Len(d.buffer) /\ HeaderLength > 0
    BY <1>1, <2>1, DecoderAssumption
  <2>3. Skip(d.buffer, HeaderLength) \in Seq(P \X Nat)
        /\ Len(Skip(d.buffer, HeaderLength)) = Len(d.buffer) - HeaderLength
    BY <1>1, <2>2, SkipFacts
  <2>4. Head(d.buffer)[1] \in P
    <3>1. d.buffer # <<>>
      BY <1>1, <2>2
    <3>2. Head(d.buffer) \in P \X Nat
      BY <1>1, <3>1
    <3> QED
      BY <3>2
  <2> DEFINE b == Skip(d.buffer, HeaderLength)
             h == Head(d.buffer)[1]
  <2> HIDE DEF b, h
  <2>5. /\ ParseHeader(d) = [buffer |-> b, header |-> h]
        /\ b \in Seq(P \X Nat) /\ Len(b) = Len(d.buffer) - HeaderLength /\ h \in P
    BY <2>1, <2>3, <2>4 DEF b, h
  <2>6. [buffer |-> b, header |-> h] \in Decoders(P)
    BY <2>5 DEF Decoders
  <2> QED
    BY <2>1, <2>5, <2>6
<1> QED
  BY <1>2, <1>3

LEMMA ParseBodyType ==
    ASSUME NEW P, HaveLengths(P), NEW d \in Decoders(P), ~BodyMissing(d)
    PROVE  /\ d.header \in P /\ d.header.length \in 0..Len(d.buffer)
           /\ ParseBody(d) \in Decoders(P) /\ ParseBody(d).header = NoHeader
           /\ Len(ParseBody(d).buffer) = Len(d.buffer) - d.header.length
<1>1. d.buffer \in Seq(P \X Nat) /\ d.header \in P
  BY DEF Decoders, BodyMissing
<1>2. d.header.length \in 0..Len(d.buffer)
  <2>1. d.header.length \in Nat /\ Len(d.buffer) \in Nat /\ ~(Len(d.buffer) < d.header.length)
    BY <1>1 DEF BodyMissing, HaveLengths
  <2> QED
    BY <2>1
<1>3. Skip(d.buffer, d.header.length) \in Seq(P \X Nat)
      /\ Len(Skip(d.buffer, d.header.length)) = Len(d.buffer) - d.header.length
  BY <1>1, <1>2, SkipFacts
<1> QED
  BY <1>1, <1>2, <1>3 DEF ParseBody, Decoders

(* What there is between two turns.                                        *)
Decoded(P) == [decoder : Decoders(P), packets : Seq(Cuts(P))]
Waiting(d) == IF d.header = NoHeader THEN 0 ELSE 1

LEMMA TurnType ==
    ASSUME NEW P, HaveLengths(P), NEW x \in Decoded(P)
    PROVE  /\ Turn(x) \in Decoded(P)
           /\ Len(Turn(x).decoder.buffer) <= Len(x.decoder.buffer)
<1> DEFINE parsed == ParseHeader(x.decoder)
<1>1. x.decoder \in Decoders(P) /\ x.packets \in Seq(Cuts(P))
  BY DEF Decoded
<1>2. parsed \in Decoders(P) /\ Len(parsed.buffer) <= Len(x.decoder.buffer)
  <2>1. Len(x.decoder.buffer) \in Nat /\ HeaderLength \in Nat
    BY <1>1, DecoderAssumption DEF Decoders
  <2> QED
    BY <1>1, <2>1, ParseHeaderType
<1> HIDE DEF parsed
<1>3. CASE BodyMissing(parsed)
  <2>1. Turn(x) = [x EXCEPT !.decoder = parsed]
    BY <1>3 DEF Turn, parsed
  <2>2. Turn(x).decoder = parsed /\ Turn(x) \in Decoded(P)
    BY <1>2, <2>1 DEF Decoded
  <2> QED
    BY <1>2, <2>2
<1>4. CASE ~BodyMissing(parsed)
  <2>1. Turn(x) = [decoder |-> ParseBody(parsed), packets |-> Append(x.packets, GetPacket(parsed))]
    BY <1>4 DEF Turn, parsed
  <2>2. GetPacket(parsed) \in Cuts(P)
    BY <1>2, <1>4 DEF Cuts
  <2>3. Append(x.packets, GetPacket(parsed)) \in Seq(Cuts(P))
    BY <1>1, <2>2
  <2>4. /\ ParseBody(parsed) \in Decoders(P)
        /\ Len(ParseBody(parsed).buffer) = Len(parsed.buffer) - parsed.header.length
        /\ parsed.header.length \in 0..Len(parsed.buffer)
    BY <1>2, <1>4, ParseBodyType
  <2>5. Len(ParseBody(parsed).buffer) <= Len(x.decoder.buffer)
    <3>1. Len(parsed.buffer) \in Nat /\ Len(x.decoder.buffer) \in Nat
      BY <1>1, <1>2 DEF Decoders
    <3> QED
      BY <1>2, <2>4, <3>1
  <2> QED
    BY <2>1, <2>3, <2>4, <2>5 DEF Decoded
<1> QED
  BY <1>3, <1>4

(* The turns of the loop are what they are said to be.                     *)
LEMMA TurnsExist ==
    ASSUME NEW P, HaveLengths(P), NEW d \in Decoders(P)
    PROVE  LET N == Len(d.buffer) + 1
           IN  /\ N \in Nat /\ N > 0
               /\ Turns(d) \in [0..N -> Decoded(P)]
               /\ Turns(d)[0] = [decoder |-> d, packets |-> <<>>]
               /\ \A n \in 1..N : Turns(d)[n] = Turn(Turns(d)[n - 1])
<1> DEFINE N == Len(d.buffer) + 1
           init == [decoder |-> d, packets |-> <<>>]
           D == Decoded(P)
           step == [p \in (1..N) \X D |-> Turn(p[2])]
           IsTurns(f) == f = [n \in 0..N |-> IF n = 0 THEN init ELSE Turn(f[n - 1])]
<1>1. N \in Nat /\ N > 0
  BY DEF Decoders
<1>2. init \in D
  BY DEF Decoded
<1>3. step \in Steps(N, D)
  BY TurnType DEF Steps
<1>4. PICK f : Iterates(f, N, D, init, step)
  <2> HIDE DEF D, init, step, N
  <2> QED
    BY <1>1, <1>2, <1>3, Recursion
<1>5. f \in [0..N -> D] /\ f[0] = init /\ \A n \in 1..N : f[n] = step[<<n, f[n - 1]>>]
  BY <1>4 DEF Iterates
<1>6. ASSUME NEW n \in 1..N PROVE f[n] = Turn(f[n - 1])
  <2>1. n - 1 \in 0..N
    BY <1>1
  <2>2. f[n - 1] \in D
    <3> HIDE DEF D, N
    <3> QED
      BY <1>5, <2>1
  <2> HIDE DEF D
  <2> QED
    BY <1>5, <2>2
<1>7. IsTurns(f)
  <2> HIDE DEF D, init, step
  <2> QED
    BY <1>1, <1>5, <1>6
<1>8. Turns(d) = CHOOSE g : IsTurns(g)
  BY DEF Turns
<1>9. IsTurns(Turns(d))
  <2> HIDE DEF IsTurns
  <2> QED
    BY <1>7, <1>8
<1>10. /\ Turns(d)[0] = init
       /\ \A n \in 1..N : Turns(d)[n] = Turn(Turns(d)[n - 1])
       /\ Turns(d) = [n \in 0..N |-> Turns(d)[n]]
  <2> DEFINE g == Turns(d)
  <2>1. g = [n \in 0..N |-> IF n = 0 THEN init ELSE Turn(g[n - 1])]
    BY <1>9
  <2> HIDE DEF g, init
  <2> QED
    BY <1>1, <2>1 DEF g
<1>11. ASSUME NEW n \in 0..N PROVE Turns(d)[n] \in D
  <2> DEFINE S == {m \in Nat : m <= N => Turns(d)[m] \in D}
  <2>1. 0 \in S
    BY <1>2, <1>10
  <2>2. ASSUME NEW m \in Nat, m \in S PROVE m + 1 \in S
    <3>1. SUFFICES ASSUME m + 1 <= N PROVE Turns(d)[m + 1] \in D
      OBVIOUS
    <3>2. m + 1 \in 1..N /\ (m + 1) - 1 = m /\ m <= N
      BY <1>1, <3>1
    <3>3. Turns(d)[m] \in D
      BY <2>2, <3>2
    <3>4. Turns(d)[m + 1] = Turn(Turns(d)[m])
      BY <1>10, <3>2
    <3> QED
      BY <3>3, <3>4, TurnType
  <2>3. Nat \subseteq S
    <3> HIDE DEF S
    <3> QED
      BY <2>1, <2>2, Induction
  <2> QED
    BY <1>1, <2>3
<1> HIDE DEF D, init
<1>12. Turns(d) \in [0..N -> D]
  BY <1>10, <1>11
<1> QED
  BY <1>1, <1>10, <1>12 DEF D, init

LEMMA DecodeType ==
    ASSUME NEW P, HaveLengths(P), NEW d \in Decoders(P)
    PROVE  Decode(d) \in Decoded(P) /\ Len(Decode(d).decoder.buffer) <= Len(d.buffer)
<1> DEFINE N == Len(d.buffer) + 1
           S == {n \in Nat : n <= N => Len(Turns(d)[n].decoder.buffer) <= Len(d.buffer)}
<1>1. /\ N \in Nat /\ N > 0
      /\ Turns(d) \in [0..N -> Decoded(P)]
      /\ Turns(d)[0] = [decoder |-> d, packets |-> <<>>]
      /\ \A n \in 1..N : Turns(d)[n] = Turn(Turns(d)[n - 1])
  BY TurnsExist
<1>2. Len(d.buffer) \in Nat
  BY DEF Decoders
<1> HIDE DEF N
<1>3. 0 \in S
  BY <1>1, <1>2
<1>4. ASSUME NEW n \in Nat, n \in S PROVE n + 1 \in S
  <2>1. SUFFICES ASSUME n + 1 <= N PROVE Len(Turns(d)[n + 1].decoder.buffer) <= Len(d.buffer)
    OBVIOUS
  <2>2. n + 1 \in 1..N /\ (n + 1) - 1 = n /\ n <= N /\ n \in 0..N
    BY <1>1, <2>1
  <2> DEFINE x == Turns(d)[n]
  <2>3. x \in Decoded(P) /\ Turns(d)[n + 1] = Turn(x) /\ Len(x.decoder.buffer) <= Len(d.buffer)
    BY <1>1, <1>4, <2>2
  <2> HIDE DEF x
  <2>4. Turn(x) \in Decoded(P) /\ Len(Turn(x).decoder.buffer) <= Len(x.decoder.buffer)
    BY <2>3, TurnType
  <2>5. Len(Turn(x).decoder.buffer) \in Nat /\ Len(x.decoder.buffer) \in Nat
    BY <2>3, <2>4 DEF Decoded, Decoders
  <2> QED
    BY <1>2, <2>3, <2>4, <2>5
<1>5. Nat \subseteq S
  <2> HIDE DEF S
  <2> QED
    BY <1>3, <1>4, Induction
<1>6. N \in S /\ Turns(d)[N] \in Decoded(P)
  BY <1>1, <1>5
<1> QED
  BY <1>1, <1>6 DEF Decode, N

LEMMA PushBufferType ==
    ASSUME NEW P, HaveLengths(P), NEW d \in Decoders(P), NEW s \in Seq(P \X Nat)
    PROVE  /\ PushBuffer(d, s) \in Decoders(P)
           /\ Len(d.buffer) <= MaxBuffer => Len(PushBuffer(d, s).buffer) <= MaxBuffer
<1>1. d.buffer \in Seq(P \X Nat) /\ Len(d.buffer) \in Nat /\ Len(s) \in Nat /\ MaxBuffer \in Nat
  BY DecoderAssumption DEF Decoders
<1>2. CASE Len(d.buffer) + Len(s) > MaxBuffer
  BY <1>2 DEF PushBuffer
<1>3. CASE ~(Len(d.buffer) + Len(s) > MaxBuffer)
  <2> DEFINE b == d.buffer \o s
  <2>1. b \in Seq(P \X Nat) /\ Len(b) = Len(d.buffer) + Len(s)
    BY <1>1, ConcatProperties
  <2> HIDE DEF b
  <2>2. PushBuffer(d, s) = [d EXCEPT !.buffer = b]
    BY <1>3 DEF PushBuffer, b
  <2>3. PushBuffer(d, s) \in Decoders(P) /\ PushBuffer(d, s).buffer = b
    BY <2>1, <2>2 DEF Decoders
  <2> QED
    BY <1>1, <1>3, <2>1, <2>3
<1> QED
  BY <1>2, <1>3

-----------------------------------------------------------------------------
(* A turn of the decoding loop, when what the decoder holds and what comes *)
(* after it are whole packets.                                             *)

LEMMA HeldFacts ==
    ASSUME NEW P, HaveLengths(P), NEW d \in Decoders(P)
    PROVE  /\ Held(d) \in Seq(P \X Nat)
           /\ d.header = NoHeader => Held(d) = d.buffer
           /\ d.header # NoHeader =>
                 /\ d.header \in P
                 /\ Held(d) = SubSeq(Bytes(d.header), 1, HeaderLength) \o d.buffer
                 /\ Len(Held(d)) = HeaderLength + Len(d.buffer)
                 /\ SubSeq(Bytes(d.header), 1, HeaderLength) \in Seq(P \X Nat)
                 /\ Len(SubSeq(Bytes(d.header), 1, HeaderLength)) = HeaderLength
<1>1. d.buffer \in Seq(P \X Nat) /\ d.header \in P \cup {NoHeader}
  BY DEF Decoders
<1>2. CASE d.header = NoHeader
  <2>1. Held(d) = <<>> \o d.buffer
    BY <1>2 DEF Held
  <2>2. Held(d) = d.buffer
    BY <1>1, <2>1, ConcatEmptySeq
  <2> QED
    BY <1>1, <1>2, <2>2
<1>3. CASE d.header # NoHeader
  <2> DEFINE h == d.header
             a == SubSeq(Bytes(h), 1, HeaderLength)
  <2>1. /\ h \in P /\ Bytes(h) \in Seq(P \X Nat) /\ Len(Bytes(h)) = HeaderLength + h.length
        /\ HeaderLength \in Nat /\ h.length \in Nat
    BY <1>1, <1>3, BytesFacts
  <2>2. a \in Seq(P \X Nat) /\ Len(a) = HeaderLength
    <3>1. HeaderLength \in 0..Len(Bytes(h))
      BY <2>1
    <3> DEFINE w == Bytes(h)
    <3>2. w \in Seq(P \X Nat) /\ HeaderLength \in 0..Len(w)
      BY <2>1, <3>1
    <3> HIDE DEF w
    <3>3. SubSeq(w, 1, HeaderLength) \in Seq(P \X Nat) /\ Len(SubSeq(w, 1, HeaderLength)) = HeaderLength
      BY <3>2, SkipFacts
    <3> QED
      BY <3>3 DEF w
  <2>3. Held(d) = a \o d.buffer
    BY <1>3 DEF Held
  <2>4. Held(d) \in Seq(P \X Nat) /\ Len(Held(d)) = HeaderLength + Len(d.buffer)
    <3> DEFINE b == d.buffer
    <3>1. a \in Seq(P \X Nat) /\ b \in Seq(P \X Nat) /\ Len(a) = HeaderLength /\ Held(d) = a \o b
      BY <1>1, <2>2, <2>3
    <3> HIDE DEF a, b
    <3>2. a \o b \in Seq(P \X Nat) /\ Len(a \o b) = Len(a) + Len(b)
      BY <3>1, ConcatProperties
    <3> QED
      BY <3>1, <3>2 DEF b
  <2> QED
    BY <1>3, <2>1, <2>2, <2>3, <2>4
<1> QED
  BY <1>2, <1>3

(* The first packet under way is the one the decoder is at.                *)
BeginsWith(P, s, left) ==
    /\ left # <<>> /\ Head(left) \in P
    /\ \A i \in 1..Len(s) :
           i <= HeaderLength + Head(left).length => s[i] = <<Head(left), i>>

LEMMA FirstPacket ==
    ASSUME NEW P, HaveLengths(P), NEW left \in Seq(P),
           NEW s \in Seq(P \X Nat), NEW rest \in Seq(P \X Nat),
           s \o rest = AllBytes(left), s # <<>>
    PROVE  BeginsWith(P, s, left)
<1>1. left # <<>>
  <2>1. SUFFICES ASSUME left = <<>> PROVE FALSE
    OBVIOUS
  <2>2. s \o rest = <<>>
    BY <2>1, AllBytesFacts
  <2>3. Len(s \o rest) = Len(s) + Len(rest) /\ Len(s) > 0
    BY ConcatProperties
  <2> QED
    BY <2>2, <2>3
<1> DEFINE h == Head(left)
           after == AllBytes(Tail(left))
<1>2. h \in P /\ Tail(left) \in Seq(P) /\ AllBytes(left) = Bytes(h) \o after
  BY <1>1, AllBytesHead
<1>3. after \in Seq(P \X Nat)
  BY <1>2, AllBytesFacts
<1>4. /\ Bytes(h) \in Seq(P \X Nat) /\ Len(Bytes(h)) = HeaderLength + h.length
      /\ \A i \in 1..HeaderLength + h.length : Bytes(h)[i] = <<h, i>>
      /\ HeaderLength \in Nat /\ h.length \in Nat
  BY <1>2, BytesFacts
<1> HIDE DEF h, after
<1>5. ASSUME NEW i \in 1..Len(s), i <= HeaderLength + h.length PROVE s[i] = <<h, i>>
  <2>1. /\ i \in 1..Len(s) + Len(rest) /\ i <= Len(s) /\ i \in 1..HeaderLength + h.length
        /\ i \in 1..Len(Bytes(h)) + Len(after) /\ i <= Len(Bytes(h))
    <3> DEFINE n == Len(s)
               m == Len(after)
               k == h.length
    <3>1. n \in Nat /\ m \in Nat /\ Len(rest) \in Nat
      BY <1>3
    <3>2. i \in 1..n /\ i <= HeaderLength + k /\ k \in Nat /\ Len(Bytes(h)) = HeaderLength + k
      BY <1>4, <1>5
    <3> HIDE DEF n, m, k
    <3>3. i \in Nat /\ 1 <= i /\ i <= n
      BY <3>1, <3>2
    <3>4. i \in 1..n + Len(rest) /\ i \in 1..(HeaderLength + k) /\ i \in 1..(HeaderLength + k) + m
      BY <1>4, <3>1, <3>2, <3>3
    <3> QED
      BY <3>2, <3>3, <3>4 DEF n, m, k
  <2>2. (s \o rest)[i] = s[i]
    BY <2>1, ConcatProperties
  <2>3. (Bytes(h) \o after)[i] = Bytes(h)[i]
    BY <1>3, <1>4, <2>1, ConcatProperties
  <2> QED
    BY <1>2, <1>4, <2>1, <2>2, <2>3
<1> QED
  BY <1>1, <1>2, <1>5 DEF h, BeginsWith

(* What a decoder that is in step with its stream is given: what it holds  *)
(* and what comes after it are the packets left.                           *)
InStep(P, d, rest, left) ==
    /\ d \in Decoders(P) /\ rest \in Seq(P \X Nat) /\ left \in Seq(P)
    /\ Held(d) \o rest = AllBytes(left)

LEMMA ParseHeaderInStep ==
    ASSUME NEW P, HaveLengths(P), NEW d, NEW rest, NEW left, InStep(P, d, rest, left)
    PROVE  /\ ~InvalidHeader(d)
           /\ InStep(P, ParseHeader(d), rest, left)
           /\ ParseHeader(d).header = NoHeader => Len(d.buffer) < HeaderLength
<1> USE DEF InStep
<1>1. /\ d \in Decoders(P) /\ d.buffer \in Seq(P \X Nat) /\ Len(d.buffer) \in Nat
      /\ HeaderLength \in Nat /\ HeaderLength > 0
  BY DecoderAssumption DEF Decoders
<1>2. CASE d.header # NoHeader
  BY <1>2 DEF InvalidHeader, ParseHeader
<1>3. CASE d.header = NoHeader /\ Len(d.buffer) < HeaderLength
  <2>1. ~(Len(d.buffer) >= HeaderLength)
    BY <1>1, <1>3
  <2> QED
    BY <1>3, <2>1 DEF InvalidHeader, ParseHeader
<1>4. CASE d.header = NoHeader /\ ~(Len(d.buffer) < HeaderLength)
  <2> DEFINE b == d.buffer
             h == Head(left)
             w == Bytes(h)
             parsed == [buffer |-> Skip(b, HeaderLength), header |-> h]
  <2>1. b \in Seq(P \X Nat) /\ Held(d) = b /\ b # <<>> /\ HeaderLength \in 0..Len(b)
    <3>1. Held(d) = b
      BY <1>1, <1>4, HeldFacts
    <3>2. Len(b) \in Nat /\ ~(Len(b) < HeaderLength)
      BY <1>1, <1>4
    <3> HIDE DEF b
    <3> QED
      BY <1>1, <3>1, <3>2 DEF b
  <2>2. b \o rest = AllBytes(left)
    BY <2>1
  <2>3. left # <<>> /\ h \in P /\ \A i \in 1..Len(b) : i <= HeaderLength + h.length => b[i] = <<h, i>>
    <3>1. rest \in Seq(P \X Nat) /\ left \in Seq(P)
      OBVIOUS
    <3>2. HaveLengths(P)
      OBVIOUS
    <3> HIDE DEF b
    <3>3. BeginsWith(P, b, left)
      BY ONLY <2>1, <2>2, <3>1, <3>2, FirstPacket
    <3> QED
      BY <3>3 DEF BeginsWith
  <2>4. ASSUME NEW i \in 1..HeaderLength PROVE b[i] = <<h, i>>
    <3>1. h.length \in Nat
      BY <2>3 DEF HaveLengths
    <3>2. i \in 1..Len(b) /\ i <= HeaderLength + h.length
      BY <1>1, <2>1, <3>1
    <3> HIDE DEF b, h
    <3> QED
      BY <2>3, <3>2
  <2>5. Head(b) = <<h, 1>>
    <3>1. Head(b) = b[1] /\ 1 \in 1..HeaderLength
      BY <1>1, <2>1
    <3> HIDE DEF b, h
    <3> QED
      BY <2>4, <3>1
  <2>6. ~InvalidHeader(d)
    <3>1. Head(d.buffer)[1] = h
      BY <2>5
    <3>2. \A i \in 1..HeaderLength : d.buffer[i] = <<h, i>>
      BY <2>4
    <3> HIDE DEF h
    <3> QED
      BY <3>1, <3>2 DEF InvalidHeader
  <2>7. ParseHeader(d) = parsed
    BY <1>4, <2>5, <2>6 DEF ParseHeader
  <2>8. Skip(b, HeaderLength) \in Seq(P \X Nat) /\ SubSeq(b, 1, HeaderLength) \in Seq(P \X Nat)
        /\ Len(SubSeq(b, 1, HeaderLength)) = HeaderLength
        /\ SubSeq(b, 1, HeaderLength) \o Skip(b, HeaderLength) = b
    <3> HIDE DEF b
    <3> QED
      BY <2>1, SkipFacts
  <2>9. SubSeq(w, 1, HeaderLength) = SubSeq(b, 1, HeaderLength)
    <3>1. w \in Seq(P \X Nat) /\ HeaderLength <= Len(w)
          /\ \A i \in 1..HeaderLength : w[i] = <<h, i>>
      <4>1. h.length \in Nat /\ w \in Seq(P \X Nat) /\ Len(w) = HeaderLength + h.length
            /\ \A i \in 1..HeaderLength + h.length : w[i] = <<h, i>>
        BY <2>3, BytesFacts
      <4> DEFINE k == h.length
      <4>2. 1..HeaderLength \subseteq 1..HeaderLength + k /\ HeaderLength <= HeaderLength + k
        <5>1. k \in Nat
          BY <4>1
        <5> HIDE DEF k
        <5> QED
          BY <1>1, <5>1
      <4> HIDE DEF w, h
      <4> QED
        BY <4>1, <4>2
    <3> HIDE DEF w, b, h
    <3>2. ASSUME NEW i \in 1..HeaderLength
          PROVE  SubSeq(w, 1, HeaderLength)[i] = SubSeq(b, 1, HeaderLength)[i]
      <4>1. SubSeq(w, 1, HeaderLength)[i] = w[i] /\ SubSeq(b, 1, HeaderLength)[i] = b[i]
        BY <1>1, <2>1, <3>1
      <4> QED
        BY <2>4, <3>1, <4>1
    <3>3. HeaderLength \in 0..Len(w)
      BY <1>1, <3>1
    <3>4. /\ SubSeq(w, 1, HeaderLength) \in Seq(P \X Nat)
          /\ Len(SubSeq(w, 1, HeaderLength)) = HeaderLength
      BY <3>1, <3>3, SkipFacts
    <3> DEFINE x == SubSeq(w, 1, HeaderLength)
               y == SubSeq(b, 1, HeaderLength)
    <3>5. x \in Seq(P \X Nat) /\ y \in Seq(P \X Nat) /\ Len(x) = HeaderLength /\ Len(y) = HeaderLength
          /\ \A i \in 1..HeaderLength : x[i] = y[i]
      BY <2>8, <3>2, <3>4
    <3> HIDE DEF x, y
    <3>6. x = y
      BY <3>5, SeqEqual
    <3> QED
      BY <3>6 DEF x, y
  <2>10. parsed \in Decoders(P) /\ parsed.header = h /\ h # NoHeader /\ parsed.buffer = Skip(b, HeaderLength)
    <3>1. h # NoHeader
      BY <2>3 DEF HaveLengths
    <3> HIDE DEF b, h
    <3> QED
      BY <2>3, <2>8, <3>1 DEF Decoders
  <2>11. Held(parsed) = SubSeq(w, 1, HeaderLength) \o Skip(b, HeaderLength)
    BY <2>10 DEF Held
  <2>12. Held(parsed) = Held(d)
    BY <2>1, <2>8, <2>9, <2>11
  <2> HIDE DEF parsed, b
  <2> QED
    BY <2>6, <2>7, <2>10, <2>12
<1> QED
  BY <1>2, <1>3, <1>4

LEMMA ParseBodyInStep ==
    ASSUME NEW P, HaveLengths(P), NEW d, NEW rest, NEW left, InStep(P, d, rest, left),
           ~BodyMissing(d)
    PROVE  /\ left # <<>>
           /\ GetPacket(d) = Head(left)
           /\ InStep(P, ParseBody(d), rest, Tail(left))
<1> USE DEF InStep
<1> DEFINE h == d.header
           b == d.buffer
           w == Bytes(h)
           l == h.length
           a == SubSeq(w, 1, HeaderLength)
<1>1. /\ h \in P /\ h # NoHeader /\ l \in 0..Len(b) /\ b \in Seq(P \X Nat)
      /\ ParseBody(d) \in Decoders(P) /\ ParseBody(d).header = NoHeader
      /\ ParseBody(d).buffer = Skip(b, l)
  <2>1. b \in Seq(P \X Nat) /\ h # NoHeader
    BY DEF Decoders, BodyMissing
  <2> QED
    BY <2>1, ParseBodyType DEF ParseBody
<1>2. /\ a \in Seq(P \X Nat) /\ Len(a) = HeaderLength /\ Held(d) = a \o b
      /\ Held(d) \in Seq(P \X Nat) /\ Len(Held(d)) = HeaderLength + Len(b)
  BY <1>1, HeldFacts
<1>3. /\ w \in Seq(P \X Nat) /\ Len(w) = HeaderLength + l /\ HeaderLength \in Nat /\ HeaderLength > 0
      /\ l \in Nat /\ \A i \in 1..HeaderLength + l : w[i] = <<h, i>>
  BY <1>1, BytesFacts
<1>4. Body(h) = Skip(w, HeaderLength) /\ a \o Body(h) = w /\ Body(h) \in Seq(P \X Nat)
  <2>1. Body(h) = Skip(w, HeaderLength)
    BY <1>3 DEF Body, Skip
  <2>2. HeaderLength \in 0..Len(w)
    BY <1>3
  <2> HIDE DEF w
  <2> QED
    BY <1>3, <2>1, <2>2, SkipFacts
<1> DEFINE s == Held(d)
           u == Head(left)
<1>5. left # <<>> /\ u \in P /\ u = h
  <2>1. s # <<>> /\ 1 \in 1..Len(s)
    <3>1. Len(b) \in Nat /\ Len(s) = HeaderLength + Len(b) /\ s \in Seq(P \X Nat)
      BY <1>1, <1>2
    <3> HIDE DEF s, b
    <3> QED
      BY <1>3, <3>1
  <2>2. s[1] = a[1]
    <3> HIDE DEF a, b, s
    <3>1. 1 \in 1..Len(a) + Len(b) /\ 1 <= Len(a)
      BY <1>1, <1>2, <1>3
    <3> QED
      BY <1>1, <1>2, <3>1, ConcatProperties DEF s
  <2>3. a[1] = <<h, 1>>
    <3>1. 1 \in 1..HeaderLength + l /\ 1 \in 1..HeaderLength
      BY <1>3
    <3>2. a[1] = w[1]
      <4> HIDE DEF w, l, h
      <4> QED
        BY <1>3, <3>1
    <3> QED
      BY <1>3, <3>1, <3>2
  <2>4. left # <<>> /\ u \in P /\ (1 <= HeaderLength + u.length => s[1] = <<u, 1>>)
    <3>1. s \in Seq(P \X Nat) /\ s \o rest = AllBytes(left) /\ rest \in Seq(P \X Nat) /\ left \in Seq(P)
      BY <1>2
    <3>2. HaveLengths(P)
      OBVIOUS
    <3> HIDE DEF s, u
    <3>3. BeginsWith(P, s, left)
      BY ONLY <2>1, <3>1, <3>2, FirstPacket
    <3> QED
      BY <2>1, <3>3 DEF u, BeginsWith
  <2>5. u.length \in Nat
    BY <2>4 DEF HaveLengths
  <2>6. <<h, 1>> = <<u, 1>>
    BY <1>3, <2>2, <2>3, <2>4, <2>5
  <2> QED
    BY <2>4, <2>6
<1> DEFINE v == AllBytes(Tail(left))
<1>6. Tail(left) \in Seq(P) /\ AllBytes(left) = w \o v /\ v \in Seq(P \X Nat)
  <2>1. Tail(left) \in Seq(P) /\ AllBytes(left) = Bytes(Head(left)) \o v
    BY <1>5, AllBytesHead
  <2>2. v \in Seq(P \X Nat)
    BY <2>1, AllBytesFacts
  <2> QED
    BY <1>5, <2>1, <2>2
<1>7. SubSeq(s, 1, Len(w)) = w /\ Skip(s, Len(w)) \o rest = v
  <2>1. s \in Seq(P \X Nat) /\ rest \in Seq(P \X Nat) /\ s \o rest = w \o v /\ Len(w) <= Len(s)
    <3>1. Len(w) <= Len(s)
      <4>1. Len(s) = HeaderLength + Len(b)
        BY <1>2
      <4>2. Len(w) = HeaderLength + l
        BY <1>3
      <4>3. Len(b) \in Nat /\ l <= Len(b)
        BY <1>1
      <4> HIDE DEF s, w, l, b
      <4> QED
        BY <1>3, <4>1, <4>2, <4>3
    <3> QED
      BY <1>2, <1>6, <3>1
  <2> HIDE DEF s, w, v
  <2> QED
    BY <1>3, <1>6, <2>1, SameBeginning DEF Skip
<1>8. SubSeq(s, 1, Len(w)) = a \o SubSeq(b, 1, l) /\ Skip(s, Len(w)) = Skip(b, l)
  <2>1. s = a \o b /\ Len(w) = Len(a) + l
    BY <1>2, <1>3
  <2>2. a \in Seq(P \X Nat) /\ b \in Seq(P \X Nat) /\ l \in 0..Len(b)
    BY <1>1, <1>2
  <2> HIDE DEF s, w, a, b, l
  <2>3. Skip(a \o b, Len(a) + l) = Skip(b, l) /\ SubSeq(a \o b, 1, Len(a) + l) = a \o SubSeq(b, 1, l)
    BY ONLY <2>2, SkipConcat
  <2> QED
    BY <2>1, <2>3
<1>9. SubSeq(b, 1, l) = Body(h)
  <2> DEFINE x == SubSeq(b, 1, l)
             y == Body(h)
  <2>1. a \o x = a \o y
    BY <1>4, <1>7, <1>8
  <2>2. x \in Seq(P \X Nat) /\ y \in Seq(P \X Nat)
    <3> HIDE DEF b, l
    <3> QED
      BY <1>1, <1>4, SkipFacts
  <2> HIDE DEF x, y, a
  <2>3. x = y
    BY <1>2, <2>1, <2>2, ConcatSimplifications
  <2> QED
    BY <2>3 DEF x, y
<1>10. GetPacket(d) = Head(left)
  BY <1>5, <1>9 DEF GetPacket
<1>11. Held(ParseBody(d)) = Skip(b, l)
  BY <1>1, HeldFacts
<1>12. Held(ParseBody(d)) \o rest = AllBytes(Tail(left))
  BY <1>7, <1>8, <1>11
<1> QED
  BY <1>1, <1>5, <1>6, <1>10, <1>12

(* A turn gives away the next packet, or finds that no packet is whole.    *)
LEMMA TurnInStep ==
    ASSUME NEW P, HaveLengths(P), NEW x \in Decoded(P), NEW rest, NEW left,
           InStep(P, x.decoder, rest, left)
    PROVE  \/ /\ Turn(x).packets = x.packets /\ Framed(Turn(x).decoder)
              /\ InStep(P, Turn(x).decoder, rest, left)
           \/ /\ left # <<>> /\ Turn(x).packets = Append(x.packets, Head(left))
              /\ InStep(P, Turn(x).decoder, rest, Tail(left))
              /\ ~Framed(x.decoder)
              /\ Len(Turn(x).decoder.buffer) + Waiting(Turn(x).decoder)
                     < Len(x.decoder.buffer) + Waiting(x.decoder)
<1> DEFINE d == x.decoder
           parsed == ParseHeader(d)
<1>1. /\ ~InvalidHeader(d) /\ InStep(P, parsed, rest, left)
      /\ parsed.header = NoHeader => Len(d.buffer) < HeaderLength
  BY ParseHeaderInStep
<1>2. d \in Decoders(P) /\ parsed \in Decoders(P) /\ Len(d.buffer) \in Nat /\ Len(parsed.buffer) \in Nat
  BY <1>1 DEF InStep, Decoders, Decoded
<1>3. \/ parsed = d
      \/ /\ d.header = NoHeader /\ parsed.header \in P
         /\ Len(parsed.buffer) = Len(d.buffer) - HeaderLength
  BY <1>2, ParseHeaderType
<1>4. HeaderLength \in Nat /\ HeaderLength > 0
  BY DecoderAssumption
<1>5. CASE BodyMissing(parsed)
  <2>1. Turn(x) = [x EXCEPT !.decoder = parsed]
    BY <1>5 DEF Turn
  <2>2. Turn(x).decoder = parsed /\ Turn(x).packets = x.packets
    <3> HIDE DEF parsed
    <3> QED
      BY <2>1 DEF Decoded
  <2>3. ~InvalidHeader(parsed)
    BY <1>1, ParseHeaderInStep
  <2>4. parsed.header = NoHeader => Len(parsed.buffer) < HeaderLength
    <3> SUFFICES ASSUME parsed.header = NoHeader PROVE Len(parsed.buffer) < HeaderLength
      OBVIOUS
    <3>1. parsed = d
      BY <1>3 DEF HaveLengths
    <3>2. Len(d.buffer) < HeaderLength
      BY <1>1
    <3> HIDE DEF d, parsed
    <3> QED
      BY <3>1, <3>2
  <2>5. parsed.header # NoHeader => Len(parsed.buffer) < parsed.header.length
    BY <1>5 DEF BodyMissing
  <2>6. Framed(parsed)
    <3> HIDE DEF parsed
    <3> QED
      BY <2>3, <2>4, <2>5 DEF Framed
  <2> QED
    BY <1>1, <2>2, <2>6
<1>6. CASE ~BodyMissing(parsed)
  <2> DEFINE e == ParseBody(parsed)
  <2>1. Turn(x) = [decoder |-> e, packets |-> Append(x.packets, GetPacket(parsed))]
    BY <1>6 DEF Turn
  <2>2. left # <<>> /\ GetPacket(parsed) = Head(left) /\ InStep(P, e, rest, Tail(left))
    <3> HIDE DEF parsed
    <3> QED
      BY <1>1, <1>6, ParseBodyInStep
  <2>3. /\ parsed.header \in P /\ parsed.header.length \in 0..Len(parsed.buffer)
        /\ e.header = NoHeader /\ Len(e.buffer) = Len(parsed.buffer) - parsed.header.length
    <3> HIDE DEF parsed
    <3> QED
      BY <1>2, <1>6, ParseBodyType
  <2>4. ~Framed(d)
    <3>1. CASE parsed = d
      <4>1. ~(Len(d.buffer) < d.header.length) /\ d.header # NoHeader
        <5> HIDE DEF parsed, d
        <5> QED
          BY <1>6, <3>1 DEF BodyMissing
      <4> QED
        BY <4>1 DEF Framed
    <3>2. CASE d.header = NoHeader /\ Len(parsed.buffer) = Len(d.buffer) - HeaderLength
      <4>1. ~(Len(d.buffer) < HeaderLength)
        <5> HIDE DEF parsed, d
        <5> QED
          BY <1>2, <1>4, <3>2
      <4> QED
        BY <3>2, <4>1 DEF Framed
    <3> QED
      BY <1>3, <3>1, <3>2
  <2>5. Len(e.buffer) + Waiting(e) < Len(d.buffer) + Waiting(d)
    <3>1. Waiting(e) = 0
      BY <2>3 DEF Waiting
    <3>2. Len(e.buffer) <= Len(parsed.buffer)
      <4> HIDE DEF parsed, e
      <4> QED
        BY <1>2, <2>3
    <3>3. CASE parsed = d
      <4>1. Waiting(d) = 1
        BY <1>6, <3>3 DEF BodyMissing, Waiting
      <4>2. Len(e.buffer) <= Len(d.buffer) /\ Len(e.buffer) \in Nat
        <5> HIDE DEF parsed, d, e
        <5> QED
          BY <1>2, <2>3, <3>2, <3>3
      <4> HIDE DEF parsed, d, e
      <4> QED
        BY <1>2, <3>1, <4>1, <4>2
    <3>4. CASE d.header = NoHeader /\ Len(parsed.buffer) = Len(d.buffer) - HeaderLength
      <4>1. Waiting(d) = 0
        BY <3>4 DEF Waiting
      <4>2. Len(e.buffer) \in Int
        <5> HIDE DEF parsed, d, e
        <5> QED
          BY <1>2, <2>3
      <4> HIDE DEF parsed, d, e
      <4> QED
        BY <1>2, <1>4, <3>1, <3>2, <3>4, <4>1, <4>2
    <3> QED
      BY <1>3, <3>3, <3>4
  <2>6. Turn(x).decoder = e /\ Turn(x).packets = Append(x.packets, Head(left))
    BY <2>1, <2>2
  <2> QED
    BY <2>2, <2>4, <2>5, <2>6
<1> QED
  BY <1>5, <1>6

(* What is true after n turns, of N.                                       *)
AfterTurns(P, rest, left, x, n, N) ==
    /\ x \in Decoded(P) /\ x.packets \in Seq(P)
    /\ \E later \in Seq(P) : left = x.packets \o later /\ InStep(P, x.decoder, rest, later)
    /\ Framed(x.decoder) \/ Len(x.decoder.buffer) + Waiting(x.decoder) + n <= N

LEMMA OneMoreTurn ==
    ASSUME NEW P, HaveLengths(P), NEW x, NEW rest, NEW left, NEW n \in Nat, NEW N \in Nat,
           AfterTurns(P, rest, left, x, n, N)
    PROVE  AfterTurns(P, rest, left, Turn(x), n + 1, N)
<1>1. PICK later \in Seq(P) : left = x.packets \o later /\ InStep(P, x.decoder, rest, later)
  BY DEF AfterTurns
<1> DEFINE y == Turn(x)
           before == x.packets
<1>2. /\ x \in Decoded(P) /\ y \in Decoded(P) /\ before \in Seq(P) /\ later \in Seq(P)
      /\ Framed(x.decoder) \/ Len(x.decoder.buffer) + Waiting(x.decoder) + n <= N
  BY TurnType DEF AfterTurns
<1>3. \/ /\ y.packets = before /\ Framed(y.decoder) /\ InStep(P, y.decoder, rest, later)
      \/ /\ later # <<>> /\ y.packets = Append(before, Head(later))
         /\ InStep(P, y.decoder, rest, Tail(later)) /\ ~Framed(x.decoder)
         /\ Len(y.decoder.buffer) + Waiting(y.decoder) < Len(x.decoder.buffer) + Waiting(x.decoder)
  BY <1>1, <1>2, TurnInStep
<1> HIDE DEF y, before
<1>4. CASE /\ y.packets = before /\ Framed(y.decoder) /\ InStep(P, y.decoder, rest, later)
  BY <1>1, <1>2, <1>4 DEF AfterTurns, y, before
<1>5. CASE /\ later # <<>> /\ y.packets = Append(before, Head(later))
           /\ InStep(P, y.decoder, rest, Tail(later)) /\ ~Framed(x.decoder)
           /\ Len(y.decoder.buffer) + Waiting(y.decoder) < Len(x.decoder.buffer) + Waiting(x.decoder)
  <2>1. Head(later) \in P /\ Tail(later) \in Seq(P)
    BY <1>5
  <2>2. y.packets \in Seq(P)
    BY <1>2, <1>5, <2>1
  <2>3. left = y.packets \o Tail(later)
    <3> DEFINE h == Head(later)
               t == Tail(later)
    <3>1. <<h>> \in Seq(P) /\ later = <<h>> \o t /\ y.packets = before \o <<h>> /\ t \in Seq(P)
      <4>1. <<h>> \in Seq(P) /\ t \in Seq(P)
        BY <2>1
      <4>2. later = <<h>> \o t
        BY <1>2, <1>5
      <4>3. y.packets = before \o <<h>>
        <5>1. y.packets = Append(before, h) /\ before \in Seq(P) /\ h \in P
          BY <1>2, <1>5, <2>1
        <5> HIDE DEF h
        <5> QED
          BY <5>1, AppendIsConcat
      <4> QED
        BY <4>1, <4>2, <4>3
    <3>2. \A r, s, u \in Seq(P) : Cat(Cat(r, s), u) = Cat(r, Cat(s, u))
      BY CatAlgebra
    <3> DEFINE a == <<h>>
    <3>3. Cat(Cat(before, a), t) = Cat(before, Cat(a, t))
      <4>1. before \in Seq(P) /\ a \in Seq(P) /\ t \in Seq(P)
        BY <1>2, <3>1
      <4> HIDE DEF a, t
      <4> QED
        BY ONLY <3>2, <4>1
    <3>4. left = before \o later
      BY <1>1 DEF before
    <3> HIDE DEF a, t
    <3> QED
      BY <3>1, <3>3, <3>4 DEF Cat, a, t
  <2>4. Len(y.decoder.buffer) + Waiting(y.decoder) + (n + 1) <= N
    <3> DEFINE i == Len(y.decoder.buffer)
               j == Len(x.decoder.buffer)
    <3>1. i \in Nat /\ j \in Nat
      BY <1>2 DEF Decoded, Decoders
    <3>2. Waiting(x.decoder) \in Nat /\ Waiting(y.decoder) \in Nat
      BY DEF Waiting
    <3>3. i + Waiting(y.decoder) < j + Waiting(x.decoder) /\ j + Waiting(x.decoder) + n <= N
      BY <1>2, <1>5
    <3> HIDE DEF i, j
    <3>4. i + Waiting(y.decoder) + (n + 1) <= N
      BY <3>1, <3>2, <3>3
    <3> QED
      BY <3>4 DEF i
  <2> QED
    BY <1>2, <1>5, <2>1, <2>2, <2>3, <2>4 DEF AfterTurns, y
<1> QED
  BY <1>3, <1>4, <1>5

(* Whatever is cut where, the decoder gives the packets that have come     *)
(* whole, in order, keeps what is left, and waits for a header or a body.  *)
Decodes(P, y, rest, left) ==
    /\ y.decoder \in Decoders(P) /\ y.packets \in Seq(P) /\ Framed(y.decoder)
    /\ \E later \in Seq(P) : left = y.packets \o later /\ InStep(P, y.decoder, rest, later)

THEOREM DecodeInStep ==
    ASSUME NEW P, HaveLengths(P), NEW d, NEW rest, NEW left, InStep(P, d, rest, left)
    PROVE  Decodes(P, Decode(d), rest, left)
<1> DEFINE N == Len(d.buffer) + 1
           S == {n \in Nat : n <= N => AfterTurns(P, rest, left, Turns(d)[n], n, N)}
<1>1. d \in Decoders(P) /\ rest \in Seq(P \X Nat) /\ left \in Seq(P)
  BY DEF InStep
<1>2. /\ N \in Nat /\ N > 0
      /\ Turns(d) \in [0..N -> Decoded(P)]
      /\ Turns(d)[0] = [decoder |-> d, packets |-> <<>>]
      /\ \A n \in 1..N : Turns(d)[n] = Turn(Turns(d)[n - 1])
  BY <1>1, TurnsExist
<1>3. 0 \in S
  <2> DEFINE x == Turns(d)[0]
  <2>1. x \in Decoded(P) /\ x.decoder = d /\ x.packets = <<>>
    BY <1>2
  <2>2. Len(d.buffer) + Waiting(d) + 0 <= N
    <3>1. Len(d.buffer) \in Nat /\ Waiting(d) \in 0..1
      BY <1>1 DEF Decoders, Waiting
    <3> QED
      BY <3>1
  <2>3. left = <<>> \o left
    BY <1>1, ConcatEmptySeq
  <2> HIDE DEF x, N
  <2>4. AfterTurns(P, rest, left, x, 0, N)
    BY <1>1, <2>1, <2>2, <2>3 DEF AfterTurns
  <2> QED
    BY <2>4 DEF x
<1>4. ASSUME NEW n \in Nat, n \in S PROVE n + 1 \in S
  <2>1. SUFFICES ASSUME n + 1 <= N PROVE AfterTurns(P, rest, left, Turns(d)[n + 1], n + 1, N)
    OBVIOUS
  <2>2. n + 1 \in 1..N /\ (n + 1) - 1 = n /\ n <= N
    BY <1>2, <2>1
  <2>3. AfterTurns(P, rest, left, Turns(d)[n], n, N) /\ Turns(d)[n + 1] = Turn(Turns(d)[n])
    <3> HIDE DEF N
    <3> QED
      BY <1>2, <1>4, <2>2
  <2> HIDE DEF N
  <2> QED
    BY <1>2, <2>3, OneMoreTurn
<1>5. N \in S
  <2>1. Nat \subseteq S
    <3> HIDE DEF S
    <3> QED
      BY <1>3, <1>4, Induction
  <2> QED
    BY <1>2, <2>1
<1> DEFINE y == Decode(d)
<1>6. AfterTurns(P, rest, left, y, N, N)
  <2>1. y = Turns(d)[N]
    BY DEF Decode
  <2> HIDE DEF N, y
  <2> QED
    BY <1>2, <1>5, <2>1
<1>7. PICK later \in Seq(P) : left = y.packets \o later /\ InStep(P, y.decoder, rest, later)
  <2> HIDE DEF N, y
  <2> QED
    BY <1>6 DEF AfterTurns
<1>8. /\ y.packets \in Seq(P) /\ y.decoder \in Decoders(P)
      /\ Framed(y.decoder) \/ Len(y.decoder.buffer) + Waiting(y.decoder) + N <= N
  <2> HIDE DEF N, y
  <2> QED
    BY <1>6 DEF AfterTurns, Decoded
<1>9. Framed(y.decoder)
  <2> DEFINE e == y.decoder
  <2>1. SUFFICES ASSUME Len(e.buffer) + Waiting(e) + N <= N PROVE Framed(e)
    BY <1>8
  <2>2. Len(e.buffer) \in Nat /\ Waiting(e) \in {0, 1}
    BY <1>8 DEF Decoders, Waiting
  <2>3. Len(e.buffer) = 0 /\ Waiting(e) = 0
    <3> HIDE DEF e, N
    <3> QED
      BY <1>2, <2>1, <2>2
  <2>4. e.header = NoHeader
    BY <2>3 DEF Waiting
  <2> HIDE DEF e, y
  <2> QED
    BY <2>3, <2>4, DecoderAssumption DEF Framed, InvalidHeader
<1> HIDE DEF y
<1>10. Decodes(P, y, rest, left)
  BY <1>7, <1>8, <1>9 DEF Decodes
<1> QED
  BY <1>10 DEF y

(* Bytes that arrive go behind what the decoder holds.                     *)
LEMMA PushInStep ==
    ASSUME NEW P, HaveLengths(P), NEW d, NEW left,
           NEW part \in Seq(P \X Nat), NEW rest \in Seq(P \X Nat),
           InStep(P, d, part \o rest, left), Len(d.buffer) + Len(part) <= MaxBuffer
    PROVE  InStep(P, PushBuffer(d, part), rest, left)
<1> DEFINE D == P \X Nat
           b == d.buffer
           c == b \o part
           e == PushBuffer(d, part)
           a == SubSeq(Bytes(d.header), 1, HeaderLength)
<1>1. /\ d \in Decoders(P) /\ b \in Seq(D) /\ left \in Seq(P) /\ part \in Seq(D) /\ rest \in Seq(D)
      /\ Held(d) \o (part \o rest) = AllBytes(left)
  BY DEF InStep, Decoders
<1>2. c \in Seq(D)
  BY <1>1, ConcatProperties
<1>3. e \in Decoders(P) /\ e.buffer = c /\ e.header = d.header
  <2>1. e = [d EXCEPT !.buffer = c]
    <3>1. Len(d.buffer) + Len(part) \in Nat /\ MaxBuffer \in Nat
      BY <1>1, DecoderAssumption
    <3> QED
      BY <3>1 DEF PushBuffer
  <2> HIDE DEF c, e
  <2> QED
    BY <1>1, <1>2, <2>1 DEF Decoders
<1>4. Held(d) \in Seq(D)
  BY <1>1, HeldFacts
<1>5. Held(e) = Held(d) \o part
  <2>1. CASE d.header = NoHeader
    <3> HIDE DEF e, c
    <3> QED
      BY <1>1, <1>3, <2>1, HeldFacts DEF c
  <2>2. CASE d.header # NoHeader
    <3>1. Held(d) = a \o b /\ a \in Seq(D)
      BY <1>1, <2>2, HeldFacts
    <3>2. Held(e) = a \o c
      <4> HIDE DEF e, c
      <4> QED
        BY <1>3, <2>2, HeldFacts
    <3> HIDE DEF a, b, D, e
    <3>3. Cat(Cat(a, b), part) = Cat(a, Cat(b, part))
      BY <1>1, <3>1, CatAlgebra
    <3> QED
      BY <3>1, <3>2, <3>3 DEF Cat
  <2> QED
    BY <2>1, <2>2
<1>6. Held(e) \o rest = AllBytes(left)
  <2> DEFINE h == Held(d)
  <2>1. h \in Seq(D) /\ h \o (part \o rest) = AllBytes(left)
    BY <1>1, <1>4
  <2> HIDE DEF h, D, e
  <2>2. Cat(Cat(h, part), rest) = Cat(h, Cat(part, rest))
    BY <1>1, <2>1, CatAlgebra
  <2> QED
    BY <1>5, <2>1, <2>2 DEF Cat, h
<1> HIDE DEF e
<1>7. InStep(P, e, rest, left)
  BY <1>1, <1>3, <1>6 DEF InStep
<1> QED
  BY <1>7 DEF e

(* One read: there is room for it, and the packets it completes are given. *)
LEMMA ReadInStep ==
    ASSUME NEW P, HaveLengths(P), NEW d, NEW left,
           NEW part \in Seq(P \X Nat), NEW rest \in Seq(P \X Nat),
           InStep(P, d, part \o rest, left), Framed(d), NEW room \in Nat, Len(part) <= room,
           HeaderLength + room <= MaxBuffer, \A p \in P : p.length + room <= MaxBuffer
    PROVE  Decodes(P, Decode(PushBuffer(d, part)), rest, left)
<1>1. /\ d \in Decoders(P) /\ d.header \in P \cup {NoHeader} /\ Len(d.buffer) \in Nat
      /\ Len(part) \in Nat /\ HeaderLength \in Nat /\ MaxBuffer \in Nat
  BY DecoderAssumption DEF InStep, Decoders
<1>2. Len(d.buffer) + Len(part) <= MaxBuffer
  <2>1. CASE d.header = NoHeader
    <3>1. Len(d.buffer) < HeaderLength
      BY <2>1 DEF Framed
    <3> QED
      BY <1>1, <3>1
  <2>2. CASE d.header # NoHeader
    <3>1. Len(d.buffer) < d.header.length /\ d.header \in P
      BY <1>1, <2>2 DEF Framed
    <3>2. d.header.length \in Nat /\ d.header.length + room <= MaxBuffer
      BY <3>1 DEF HaveLengths
    <3> QED
      BY <1>1, <3>1, <3>2
  <2> QED
    BY <2>1, <2>2
<1>3. InStep(P, PushBuffer(d, part), rest, left)
  BY <1>2, PushInStep
<1> QED
  BY <1>3, DecodeInStep

(* A packet that is sent goes behind everything under way.                 *)
LEMMA AppendInStep ==
    ASSUME NEW P, HaveLengths(P), NEW d, NEW rest, NEW left, InStep(P, d, rest, left),
           NEW p \in P
    PROVE  InStep(P, d, rest \o Bytes(p), Append(left, p))
<1> DEFINE D == P \X Nat
           bytes == Bytes(p)
           held == Held(d)
<1>1. /\ left \in Seq(P) /\ Append(left, p) \in Seq(P) /\ d \in Decoders(P) /\ rest \in Seq(D)
      /\ held \o rest = AllBytes(left)
  BY DEF InStep
<1>2. bytes \in Seq(D) /\ held \in Seq(D)
  BY <1>1, BytesFacts, HeldFacts
<1>3. AllBytes(Append(left, p)) = AllBytes(left) \o bytes
  BY <1>1, AllBytesAppend
<1>4. held \o (rest \o bytes) = AllBytes(Append(left, p)) /\ rest \o bytes \in Seq(D)
  <2> HIDE DEF held, bytes
  <2>1. Cat(Cat(held, rest), bytes) = Cat(held, Cat(rest, bytes))
    <3> HIDE DEF D
    <3> QED
      BY <1>1, <1>2, CatAlgebra
  <2>2. rest \o bytes \in Seq(D)
    BY <1>1, <1>2, ConcatProperties
  <2> QED
    BY <1>1, <1>3, <2>1, <2>2 DEF Cat
<1> HIDE DEF bytes
<1> QED
  BY <1>1, <1>4 DEF InStep, bytes

(* Which packets are a device's, for Chosen and Published.               *)
Chosen(d, packets) ==
    FlattenSeq([i \in 1..Len(packets) |->
        IF packets[i].device = d THEN <<packets[i]>> ELSE <<>>])

Chooses(P, d) ==
    /\ \A s \in Seq(P) : Chosen(d, s) \in Seq(P)
    /\ \A s, t \in Seq(P) : Chosen(d, s \o t) = Chosen(d, s) \o Chosen(d, t)
    /\ \A p \in P : p.device = d => Chosen(d, <<p>>) = <<p>>
    /\ \A p \in P : p.device # d => Chosen(d, <<p>>) = <<>>
    /\ Chosen(d, <<>>) = <<>>

LEMMA ChosenFacts ==
    ASSUME NEW P, NEW d
    PROVE  Chooses(P, d)
<1> DEFINE f == [p \in P |-> IF p.device = d THEN <<p>> ELSE <<>>]
<1>1. \A p \in P : f[p] \in Seq(P)
  <2>1. ASSUME NEW p \in P PROVE <<p>> \in Seq(P) /\ <<>> \in Seq(P)
    OBVIOUS
  <2> QED
    BY <2>1
<1>2. ASSUME NEW r \in Seq(P) PROVE Chosen(d, r) = OverAll(f, r)
  <2>1. ASSUME NEW i \in 1..Len(r)
        PROVE  f[r[i]] = IF r[i].device = d THEN <<r[i]>> ELSE <<>>
    <3>1. r[i] \in P
      <4> QED
        OBVIOUS
    <3> QED
      BY <3>1
  <2> HIDE DEF f
  <2> QED
    BY <2>1 DEF Chosen, OverAll
<1>3. /\ \A s, t \in Seq(P) : s \o t \in Seq(P)
      /\ \A p \in P : <<p>> \in Seq(P) /\ f[p] = IF p.device = d THEN <<p>> ELSE <<>>
      /\ <<>> \in Seq(P)
  BY ConcatProperties
<1> HIDE DEF f
<1>4. /\ \A s \in Seq(P) : OverAll(f, s) \in Seq(P)
      /\ \A s, t \in Seq(P) : OverAll(f, s \o t) = OverAll(f, s) \o OverAll(f, t)
      /\ \A p \in P : OverAll(f, <<p>>) = f[p]
      /\ OverAll(f, <<>>) = <<>>
  BY <1>1, OverAllFacts
<1>5. \A s \in Seq(P) : Chosen(d, s) \in Seq(P)
  BY <1>2, <1>4
<1>6. ASSUME NEW s \in Seq(P), NEW t \in Seq(P)
      PROVE  Chosen(d, s \o t) = Chosen(d, s) \o Chosen(d, t)
  <2>1. s \o t \in Seq(P)
    BY <1>3
  <2>2. Chosen(d, s \o t) = OverAll(f, s \o t)
    BY <1>2, <2>1
  <2>3. Chosen(d, s) = OverAll(f, s) /\ Chosen(d, t) = OverAll(f, t)
    BY <1>2
  <2>4. OverAll(f, s \o t) = OverAll(f, s) \o OverAll(f, t)
    BY <1>4
  <2> QED
    BY <2>2, <2>3, <2>4
<1>7. ASSUME NEW p \in P PROVE Chosen(d, <<p>>) = IF p.device = d THEN <<p>> ELSE <<>>
  <2>1. Chosen(d, <<p>>) = OverAll(f, <<p>>)
    BY <1>2, <1>3
  <2>2. OverAll(f, <<p>>) = f[p]
    BY <1>4
  <2>3. f[p] = IF p.device = d THEN <<p>> ELSE <<>>
    BY <1>3
  <2> QED
    BY <2>1, <2>2, <2>3
<1>8. Chosen(d, <<>>) = <<>>
  BY <1>2, <1>3, <1>4
<1> QED
  BY <1>5, <1>6, <1>7, <1>8 DEF Chooses

-----------------------------------------------------------------------------
(* FramePath: what the senders and the receivers do to a link.             *)

Links == [pending : Seq(Packets \X Nat), canWrite : BOOLEAN,
          wire : Seq(Packets \X Nat), lost : BOOLEAN, decoder : Decoders(Packets)]

(* A write finds out that the connection is lost; nothing is read then.    *)
LinkInv(link) ==
    /\ link \in Links
    /\ Len(link.wire) <= SocketRoom
    /\ Framed(link.decoder)
    /\ ~link.canWrite => link.lost
    /\ link.lost => link.wire = <<>>

(* The bytes a link still has to take to the decoder.                      *)
Stream(link) == link.wire \o link.pending

LEMMA PacketsHaveLengths == HaveLengths(Packets)
BY ParametersAssumption DEF HaveLengths, Packets

LEMMA MinFacts ==
    ASSUME NEW a \in Nat, NEW b \in Nat
    PROVE  Min({a, b}) \in 0..b /\ Min({a, b}) <= a
<1>1. \E x \in {a, b} : \A y \in {a, b} : x <= y
  OBVIOUS
<1>2. Min({a, b}) \in {a, b} /\ \A y \in {a, b} : Min({a, b}) <= y
  BY <1>1 DEF Min
<1> QED
  BY <1>2

LEMMA WrittenFacts ==
    ASSUME NEW link \in Links, Len(link.wire) <= SocketRoom, NEW bytes \in Seq(Packets \X Nat)
    PROVE  /\ Written(link, bytes) \in Links
           /\ Len(Written(link, bytes).wire) <= SocketRoom
           /\ Written(link, bytes).decoder = link.decoder
           /\ Written(link, bytes).lost = link.lost
           /\ link.lost => /\ ~Written(link, bytes).canWrite
                           /\ Written(link, bytes).wire = link.wire
           /\ ~link.lost => /\ Written(link, bytes).canWrite = link.canWrite
                            /\ Stream(Written(link, bytes)) = link.wire \o bytes
<1> DEFINE n == Min({SocketRoom - Len(link.wire), Len(bytes)})
<1>1. link.wire \in Seq(Packets \X Nat) /\ Len(link.wire) \in Nat /\ SocketRoom \in Nat /\ Len(bytes) \in Nat
  BY ParametersAssumption DEF Links
<1>2. n \in 0..Len(bytes) /\ n <= SocketRoom - Len(link.wire)
  <2>1. SocketRoom - Len(link.wire) \in Nat
    BY <1>1
  <2> QED
    BY <1>1, <2>1, MinFacts
<1> HIDE DEF n
<1>3. CASE link.lost
  <2>1. Written(link, bytes) = [link EXCEPT !.canWrite = FALSE]
    BY <1>3 DEF Written
  <2> QED
    BY <1>3, <2>1 DEF Links
<1>4. CASE ~link.lost
  <2> DEFINE taken == SubSeq(bytes, 1, n)
             rest == Skip(bytes, n)
             wire2 == link.wire \o taken
  <2>1. /\ taken \in Seq(Packets \X Nat) /\ Len(taken) = n /\ rest \in Seq(Packets \X Nat)
        /\ taken \o rest = bytes
    BY <1>2, SkipFacts
  <2>2. Written(link, bytes) = [link EXCEPT !.wire = wire2, !.pending = rest]
    BY <1>4 DEF Written, n
  <2> HIDE DEF rest
  <2>3. wire2 \in Seq(Packets \X Nat) /\ Len(wire2) = Len(link.wire) + n /\ wire2 \o rest = link.wire \o bytes
    <3> DEFINE w == link.wire
    <3>0. w \in Seq(Packets \X Nat) /\ taken \in Seq(Packets \X Nat) /\ rest \in Seq(Packets \X Nat)
      BY <1>1, <2>1
    <3> HIDE DEF w, taken
    <3>1. Cat(Cat(w, taken), rest) = Cat(w, Cat(taken, rest))
      BY <3>0, CatAlgebra
    <3>2. w \o taken \in Seq(Packets \X Nat) /\ Len(w \o taken) = Len(w) + Len(taken)
      BY <3>0, ConcatProperties
    <3> QED
      BY <2>1, <3>1, <3>2 DEF Cat, w
  <2> HIDE DEF wire2
  <2>4. /\ Written(link, bytes).wire = wire2 /\ Written(link, bytes).pending = rest
        /\ Written(link, bytes).canWrite = link.canWrite /\ Written(link, bytes).lost = link.lost
        /\ Written(link, bytes).decoder = link.decoder /\ Written(link, bytes) \in Links
    BY <2>1, <2>2, <2>3 DEF Links
  <2>5. Len(wire2) <= SocketRoom
    BY <1>1, <1>2, <2>3
  <2> QED
    BY <1>4, <2>3, <2>4, <2>5 DEF Stream
<1> QED
  BY <1>3, <1>4

(* Both senders: the packet goes behind everything else, or the connection *)
(* is found lost.                                                          *)
SendsTo(s, link, packet) ==
    /\ LinkInv(s)
    /\ s.decoder = link.decoder /\ s.lost = link.lost
    /\ ~link.lost => Stream(s) = Stream(link) \o Bytes(packet)

LEMMA SendFacts ==
    ASSUME NEW link, LinkInv(link), NEW packet \in Packets
    PROVE  SendsTo(SendMsg(link, packet), link, packet) /\ SendPacket(link, packet) = SendMsg(link, packet)
<1> DEFINE bytes == Bytes(packet)
           flushed == SendPendingBuffer(link)
           D == Packets \X Nat
           s == SendMsg(link, packet)
<1>1. bytes \in Seq(D)
  BY PacketsHaveLengths, BytesFacts
<1>2. /\ link \in Links /\ Len(link.wire) <= SocketRoom /\ Framed(link.decoder)
      /\ ~link.canWrite => link.lost
      /\ link.lost => link.wire = <<>>
      /\ link.pending \in Seq(D)
  BY DEF LinkInv, Links
<1>3. /\ flushed \in Links /\ Len(flushed.wire) <= SocketRoom
      /\ flushed.decoder = link.decoder /\ flushed.lost = link.lost
      /\ link.lost => ~flushed.canWrite /\ flushed.wire = link.wire
      /\ ~link.lost => flushed.canWrite = link.canWrite /\ Stream(flushed) = Stream(link)
  BY <1>2, WrittenFacts DEF SendPendingBuffer, Stream
<1>4. flushed.wire \in Seq(D) /\ flushed.pending \in Seq(D) /\ flushed.canWrite \in BOOLEAN
  BY <1>3 DEF Links
<1>5. s = IF flushed.pending = <<>> THEN Written(flushed, bytes)
          ELSE IF flushed.canWrite THEN [flushed EXCEPT !.pending = @ \o bytes]
          ELSE flushed
  BY DEF SendMsg
<1> HIDE DEF flushed, bytes, s
<1>6. CASE flushed.pending = <<>>
  <2> DEFINE w == Written(flushed, bytes)
  <2>1. /\ w \in Links /\ Len(w.wire) <= SocketRoom
        /\ w.decoder = flushed.decoder /\ w.lost = flushed.lost
        /\ flushed.lost => ~w.canWrite /\ w.wire = flushed.wire
        /\ ~flushed.lost => w.canWrite = flushed.canWrite /\ Stream(w) = flushed.wire \o bytes
    BY <1>1, <1>3, WrittenFacts
  <2>2. Stream(flushed) = flushed.wire
    BY <1>4, <1>6, ConcatEmptySeq DEF Stream
  <2> HIDE DEF w
  <2>3. s = w
    BY <1>5, <1>6 DEF w
  <2> QED
    BY <1>2, <1>3, <2>1, <2>2, <2>3 DEF SendsTo, LinkInv, bytes, s, SendPacket, SendMsg
<1>7. CASE flushed.pending # <<>> /\ flushed.canWrite
  <2> DEFINE after == flushed.pending \o bytes
  <2>1. after \in Seq(D)
    BY <1>1, <1>4, ConcatProperties
  <2>2. flushed.wire \o after = Stream(flushed) \o bytes
    <3> DEFINE w == flushed.wire
               p == flushed.pending
    <3>1. w \in Seq(D) /\ p \in Seq(D)
      BY <1>4
    <3> HIDE DEF w, p, D
    <3>2. Cat(Cat(w, p), bytes) = Cat(w, Cat(p, bytes))
      BY <1>1, <3>1, CatAlgebra
    <3> QED
      BY <3>2 DEF Cat, Stream, w, p
  <2> HIDE DEF after
  <2>3. s = [flushed EXCEPT !.pending = after]
    BY <1>5, <1>7 DEF after
  <2>4. /\ s \in Links /\ s.wire = flushed.wire /\ s.pending = after /\ s.lost = flushed.lost
        /\ s.canWrite = flushed.canWrite /\ s.decoder = flushed.decoder
    BY <1>3, <2>1, <2>3 DEF Links
  <2>5. ~link.lost => Stream(s) = Stream(link) \o bytes
    BY <1>3, <2>2, <2>4 DEF Stream
  <2> QED
    BY <1>2, <1>3, <1>7, <2>4, <2>5 DEF SendsTo, LinkInv, bytes, s, SendPacket, SendMsg
<1>8. CASE flushed.pending # <<>> /\ ~flushed.canWrite
  <2>1. s = flushed /\ link.lost
    BY <1>2, <1>3, <1>5, <1>8
  <2> QED
    BY <1>2, <1>3, <1>8, <2>1 DEF SendsTo, LinkInv, bytes, s, SendPacket, SendMsg
<1> QED
  BY <1>6, <1>7, <1>8

(* A receiver reads n bytes of a link that is in step.                     *)
Reads(link, n, left) ==
    /\ Arrived(link, n).packets \in Seq(Packets)
    /\ LinkInv(OnMessage(link, n)) /\ ~OnMessage(link, n).lost
    /\ \E later \in Seq(Packets) :
           /\ left = Arrived(link, n).packets \o later
           /\ InStep(Packets, OnMessage(link, n).decoder, Stream(OnMessage(link, n)), later)

LEMMA ReadsFacts ==
    ASSUME NEW link, LinkInv(link), ~link.lost, NEW n \in 1..Len(link.wire), n <= MaxRead,
           NEW left, InStep(Packets, link.decoder, Stream(link), left)
    PROVE  Reads(link, n, left)
<1> DEFINE D == Packets \X Nat
           w == link.wire
           p == link.pending
           part == SubSeq(w, 1, n)
           rest == Skip(w, n)
           after == rest \o p
           x == Arrived(link, n)
           new == OnMessage(link, n)
<1>1. /\ link \in Links /\ link.decoder \in Decoders(Packets) /\ w \in Seq(D) /\ p \in Seq(D)
      /\ Framed(link.decoder) /\ Len(w) <= SocketRoom /\ link.canWrite
  BY DEF LinkInv, Links
<1>2. /\ part \in Seq(D) /\ Len(part) = n /\ rest \in Seq(D) /\ Len(rest) = Len(w) - n
      /\ part \o rest = w /\ n \in Nat /\ n > 0 /\ Len(w) \in Nat
  <2>1. n \in 0..Len(w) /\ n \in Nat /\ n > 0 /\ Len(w) \in Nat
    BY <1>1
  <2> HIDE DEF w
  <2> QED
    BY <1>1, <2>1, SkipFacts
<1>3. after \in Seq(D) /\ part \o after = Stream(link)
  <2> HIDE DEF part, rest, w, p
  <2>1. Cat(Cat(part, rest), p) = Cat(part, Cat(rest, p))
    <3> HIDE DEF D
    <3> QED
      BY <1>1, <1>2, CatAlgebra
  <2>2. rest \o p \in Seq(D)
    BY <1>1, <1>2, ConcatProperties
  <2> QED
    BY <1>2, <2>1, <2>2 DEF Cat, Stream, w, p
<1> HIDE DEF after
<1>4. Decodes(Packets, x, after, left)
  <2>1. /\ MaxRead \in Nat /\ HeaderLength + MaxRead <= MaxBuffer
        /\ \A packet \in Packets : packet.length + MaxRead <= MaxBuffer
    BY ParametersAssumption DEF Packets
  <2>2. InStep(Packets, link.decoder, part \o after, left) /\ Len(part) <= MaxRead
    BY <1>2, <1>3
  <2> HIDE DEF part
  <2>3. Decodes(Packets, Decode(PushBuffer(link.decoder, part)), after, left)
    BY <1>1, <1>2, <1>3, <2>1, <2>2, PacketsHaveLengths, ReadInStep
  <2> QED
    BY <2>3 DEF Arrived, part
<1> HIDE DEF x
<1>5. x.packets \in Seq(Packets) /\ x.decoder \in Decoders(Packets) /\ Framed(x.decoder)
  BY <1>4 DEF Decodes
<1>6. PICK later \in Seq(Packets) : left = x.packets \o later /\ InStep(Packets, x.decoder, after, later)
  BY <1>4 DEF Decodes
<1>7. new = [link EXCEPT !.wire = rest, !.decoder = x.decoder, !.lost = FALSE]
  <2>1. InvalidHeader(x.decoder) = FALSE
    BY <1>5 DEF Framed, InvalidHeader
  <2>2. new = [link EXCEPT !.wire = rest, !.decoder = x.decoder, !.lost = InvalidHeader(x.decoder)]
    BY DEF OnMessage, x
  <2> HIDE DEF new, rest
  <2> QED
    BY <2>1, <2>2
<1> HIDE DEF rest, new
<1>8. /\ new \in Links /\ new.wire = rest /\ new.pending = p /\ new.decoder = x.decoder
      /\ ~new.lost /\ new.canWrite
  BY <1>1, <1>2, <1>5, <1>7 DEF Links
<1>9. LinkInv(new)
  <2>1. Len(rest) <= SocketRoom
    <3>1. SocketRoom \in Nat
      BY ParametersAssumption
    <3> HIDE DEF w
    <3> QED
      BY <1>1, <1>2, <3>1
  <2> QED
    BY <1>5, <1>8, <2>1 DEF LinkInv
<1>10. Stream(new) = after
  BY <1>8 DEF Stream, after
<1> QED
  BY <1>5, <1>6, <1>8, <1>9, <1>10 DEF Reads, x, new

LEMMA MeantForFacts ==
    ASSUME NEW v \in Viewers
    PROVE  /\ \A s \in Seq(Packets) : MeantFor(v, s) \in Seq(Packets)
           /\ \A s, t \in Seq(Packets) : MeantFor(v, s \o t) = MeantFor(v, s) \o MeantFor(v, t)
           /\ \A p \in Packets :
                  MeantFor(v, <<p>>) = IF p.device = Watches[v] THEN <<p>> ELSE <<>>
           /\ MeantFor(v, <<>>) = <<>>
<1>1. \A s : MeantFor(v, s) = Chosen(Watches[v], s)
  BY DEF MeantFor, Chosen
<1>2. Chooses(Packets, Watches[v])
  BY ChosenFacts
<1> QED
  BY <1>1, <1>2 DEF Chooses

(* A link on which late is under way, if it is not lost.                   *)
UnderWay(link, late) ==
    /\ late \in Seq(Packets)
    /\ ~link.lost => InStep(Packets, link.decoder, Stream(link), late)

LEMMA SentUnderWay ==
    ASSUME NEW link, NEW s, NEW packet \in Packets, NEW late,
           SendsTo(s, link, packet), UnderWay(link, late)
    PROVE  UnderWay(s, Append(late, packet))
<1>1. late \in Seq(Packets) /\ Append(late, packet) \in Seq(Packets)
  BY DEF UnderWay
<1>2. SUFFICES ASSUME ~s.lost PROVE InStep(Packets, s.decoder, Stream(s), Append(late, packet))
  BY <1>1 DEF UnderWay
<1> DEFINE stream == Stream(link)
<1>3. /\ s.decoder = link.decoder /\ Stream(s) = stream \o Bytes(packet)
      /\ InStep(Packets, link.decoder, stream, late)
  BY <1>2 DEF SendsTo, UnderWay
<1> HIDE DEF stream
<1>4. InStep(Packets, link.decoder, stream \o Bytes(packet), Append(late, packet))
  BY <1>3, PacketsHaveLengths, AppendInStep
<1> QED
  BY <1>3, <1>4

(* PcPublisher hands a viewer's packets on, and no others.                 *)
PassesOn(v, new, link, late, packets) ==
    /\ LinkInv(new) /\ new.lost = link.lost
    /\ UnderWay(new, late \o MeantFor(v, packets))

LEMMA PublishFacts ==
    ASSUME NEW v \in Viewers, NEW link, LinkInv(link), NEW late, UnderWay(link, late),
           NEW packet \in Packets
    PROVE  PassesOn(v, Publish(v, link, packet), link, late, <<packet>>)
<1>1. late \in Seq(Packets) /\ late \o <<>> = late /\ late \o <<packet>> = Append(late, packet)
  <2>1. late \in Seq(Packets)
    BY DEF UnderWay
  <2> HIDE DEF Packets
  <2> QED
    BY <2>1, ConcatEmptySeq, AppendIsConcat
<1>2. CASE packet.device = Watches[v] /\ link.canWrite
  <2>1. Publish(v, link, packet) = SendMsg(link, packet)
    BY <1>2, SendFacts DEF Publish
  <2>2. SendsTo(SendMsg(link, packet), link, packet)
    BY SendFacts
  <2>3. MeantFor(v, <<packet>>) = <<packet>>
    BY <1>2, MeantForFacts
  <2>4. UnderWay(SendMsg(link, packet), Append(late, packet))
    BY <2>2, SentUnderWay
  <2> QED
    BY <1>1, <2>1, <2>2, <2>3, <2>4 DEF PassesOn, SendsTo
<1>3. CASE packet.device # Watches[v]
  <2>1. Publish(v, link, packet) = link /\ MeantFor(v, <<packet>>) = <<>>
    BY <1>3, MeantForFacts DEF Publish
  <2> QED
    BY <1>1, <2>1 DEF PassesOn
<1>4. CASE packet.device = Watches[v] /\ ~link.canWrite
  <2>1. Publish(v, link, packet) = link /\ MeantFor(v, <<packet>>) = <<packet>> /\ link.lost
    BY <1>4, MeantForFacts DEF Publish, LinkInv
  <2>2. Append(late, packet) \in Seq(Packets)
    BY <1>1
  <2> QED
    BY <1>1, <2>1, <2>2 DEF PassesOn, UnderWay
<1> QED
  BY <1>2, <1>3, <1>4

LEMMA PublishAllFacts ==
    ASSUME NEW v \in Viewers, LinkInv(down[v]), NEW late, UnderWay(down[v], late),
           NEW packets \in Seq(Packets)
    PROVE  PassesOn(v, PublishAll(packets)[v], down[v], late, packets)
<1> DEFINE N == Len(packets)
           D == {l \in Links : LinkInv(l)}
           step == [p \in (1..N) \X D |-> Publish(v, p[2], packets[p[1]])]
           IsLinks(f) == f = [n \in 0..N |-> IF n = 0 THEN down[v]
                                             ELSE Publish(v, f[n - 1], packets[n])]
           g == CHOOSE f : IsLinks(f)
<1>1. N \in Nat /\ \A n \in 1..N : packets[n] \in Packets
  <2> HIDE DEF Packets
  <2> QED
    OBVIOUS
<1>2. down[v] \in D
  BY DEF LinkInv
<1>3. step \in Steps(N, D)
  <2>1. ASSUME NEW n \in 1..N, NEW l \in D PROVE Publish(v, l, packets[n]) \in D
    <3>1. packets[n] \in Packets /\ LinkInv(l)
      BY <1>1
    <3>2. LinkInv(SendMsg(l, packets[n])) /\ SendPacket(l, packets[n]) = SendMsg(l, packets[n])
      BY <3>1, SendFacts DEF SendsTo
    <3>3. LinkInv(Publish(v, l, packets[n]))
      BY <3>1, <3>2 DEF Publish
    <3> QED
      BY <3>3 DEF LinkInv
  <2> HIDE DEF D
  <2>2. \A p \in (1..N) \X D : Publish(v, p[2], packets[p[1]]) \in D
    BY <2>1
  <2> QED
    BY <2>2 DEF Steps
<1>4. PICK f : Iterates(f, N, D, down[v], step)
  <2> HIDE DEF D, step, N
  <2> QED
    BY <1>1, <1>2, <1>3, Recursion
<1>5. f \in [0..N -> D] /\ f[0] = down[v] /\ \A n \in 1..N : f[n] = step[<<n, f[n - 1]>>]
  BY <1>4 DEF Iterates
<1>6. ASSUME NEW n \in 1..N PROVE f[n] = Publish(v, f[n - 1], packets[n])
  <2>1. n - 1 \in 0..N
    BY <1>1
  <2>2. f[n - 1] \in D
    <3> HIDE DEF D, N
    <3> QED
      BY <1>5, <2>1
  <2> HIDE DEF D
  <2> QED
    BY <1>5, <2>2
<1>7. IsLinks(f)
  <2> HIDE DEF D, step
  <2> QED
    BY <1>1, <1>5, <1>6
<1>8. IsLinks(g)
  <2> HIDE DEF IsLinks
  <2> QED
    BY <1>7
<1>9. PublishAll(packets)[v] = g[N]
  BY DEF PublishAll
<1> HIDE DEF g
<1>10. g[0] = down[v] /\ \A n \in 1..N : g[n] = Publish(v, g[n - 1], packets[n])
  BY <1>1, <1>8
<1> HIDE DEF D, step, IsLinks
<1> DEFINE Good(n) == PassesOn(v, g[n], down[v], late, SubSeq(packets, 1, n))
           S == {n \in Nat : n <= N => Good(n)}
<1>11. 0 \in S
  <2>1. SubSeq(packets, 1, 0) = <<>>
    BY SubSeqEmpty
  <2>2. MeantFor(v, <<>>) = <<>>
    BY MeantForFacts
  <2>3. late \o <<>> = late
    BY ConcatEmptySeq DEF UnderWay
  <2> QED
    BY <1>10, <2>1, <2>2, <2>3 DEF PassesOn
<1>12. ASSUME NEW n \in Nat, n \in S PROVE n + 1 \in S
  <2>1. SUFFICES ASSUME n + 1 <= N PROVE Good(n + 1)
    OBVIOUS
  <2> DEFINE q == packets[n + 1]
             before == SubSeq(packets, 1, n)
             l == g[n]
             late2 == late \o MeantFor(v, before)
  <2>2. n + 1 \in 1..N /\ (n + 1) - 1 = n /\ n <= N /\ n \in 0..N
    BY <1>1, <2>1
  <2>3. q \in Packets /\ g[n + 1] = Publish(v, l, q)
    BY <1>1, <1>10, <2>2
  <2>4. Good(n)
    BY <1>12, <2>2
  <2>5. LinkInv(l) /\ l.lost = down[v].lost /\ UnderWay(l, late2)
    BY <2>4 DEF PassesOn
  <2>6. PassesOn(v, Publish(v, l, q), l, late2, <<q>>)
    <3> HIDE DEF q, l, late2
    <3> QED
      BY <2>3, <2>5, PublishFacts
  <2>7. SubSeq(packets, 1, n + 1) = before \o <<q>> /\ before \in Seq(Packets) /\ <<q>> \in Seq(Packets)
    <3>1. 1 \in 1..Len(packets) /\ n + 1 \in 1..Len(packets)
      BY <1>1, <2>2
    <3>2. before \in Seq(Packets)
      BY <2>2, SkipFacts
    <3>3. SubSeq(packets, 1, n + 1) = SubSeq(packets, 1, (n + 1) - 1) \o <<packets[n + 1]>>
      BY <3>1, SubSeqRecursiveSecond
    <3> QED
      BY <2>2, <2>3, <3>2, <3>3
  <2>8. late2 \o MeantFor(v, <<q>>) = late \o MeantFor(v, SubSeq(packets, 1, n + 1))
    <3> DEFINE x == MeantFor(v, before)
               y == MeantFor(v, <<q>>)
    <3>1. x \in Seq(Packets) /\ y \in Seq(Packets) /\ late \in Seq(Packets)
          /\ MeantFor(v, before \o <<q>>) = x \o y
      <4>1. x \in Seq(Packets) /\ y \in Seq(Packets)
        BY <2>7, MeantForFacts
      <4>2. MeantFor(v, before \o <<q>>) = x \o y
        <5> HIDE DEF q, before
        <5> QED
          BY <2>7, MeantForFacts
      <4> QED
        BY <4>1, <4>2 DEF UnderWay
    <3> HIDE DEF x, y
    <3>2. Cat(Cat(late, x), y) = Cat(late, Cat(x, y))
      <4> HIDE DEF Packets
      <4> QED
        BY <3>1, CatAlgebra
    <3> QED
      BY <2>7, <3>1, <3>2 DEF Cat, x, y
  <2> HIDE DEF q, l, late2
  <2> QED
    BY <2>3, <2>5, <2>6, <2>8 DEF PassesOn, l
<1>13. N \in S
  <2>1. Nat \subseteq S
    <3> HIDE DEF S
    <3> QED
      BY <1>11, <1>12, Induction
  <2> QED
    BY <1>1, <2>1
<1>14. SubSeq(packets, 1, N) = packets
  BY SubSeqFull
<1> QED
  <2>1. Good(N)
    BY <1>1, <1>13
  <2> HIDE DEF N
  <2> QED
    BY <1>9, <1>14, <2>1

-----------------------------------------------------------------------------
(* FramePath: the inductive invariant.  done are the packets that have     *)
(* come through pc_server; NothingLost says the same of them while the     *)
(* connection to it lasts.  Here they stay what they are when it is lost.  *)

Has(v, g, link, done) ==
    \E late \in Seq(Packets) : MeantFor(v, done) = Cat(g, late) /\ UnderWay(link, late)

Through(done, left) ==
    /\ sent = Cat(done, left)
    /\ UnderWay(up, left)
    /\ \A v \in Viewers : Has(v, got[v], down[v], done)

PathInv ==
    /\ LinkInv(up)
    /\ down \in [Viewers -> Links] /\ \A v \in Viewers : LinkInv(down[v])
    /\ sent \in Seq(Packets)
    /\ got \in [Viewers -> Seq(Packets)]
    /\ \E done, left \in Seq(Packets) : Through(done, left)

LEMMA PathInit == Init => PathInv
<1> SUFFICES ASSUME Init PROVE PathInv
  OBVIOUS
<1>1. NewDecoder \in Decoders(Packets) /\ Held(NewDecoder) = <<>> /\ Framed(NewDecoder)
  <2>1. NewDecoder \in Decoders(Packets)
    BY DEF NewDecoder, Decoders
  <2>2. Held(NewDecoder) = <<>>
    <3>1. NewDecoder.header = NoHeader /\ NewDecoder.buffer = <<>>
      BY DEF NewDecoder
    <3> QED
      BY <2>1, <3>1, PacketsHaveLengths, HeldFacts
  <2>3. HeaderLength \in Nat /\ 0 < HeaderLength
    BY DecoderAssumption
  <2> QED
    BY <2>1, <2>2, <2>3 DEF NewDecoder, Framed, InvalidHeader
<1> DEFINE l == NewLink
<1>2. /\ l \in Links /\ l.wire = <<>> /\ l.pending = <<>> /\ l.decoder = NewDecoder
      /\ l.canWrite /\ ~l.lost
  BY <1>1 DEF NewLink, Links
<1>3. LinkInv(l)
  <2>1. SocketRoom \in Nat /\ 0 <= SocketRoom
    BY ParametersAssumption
  <2> QED
    BY <1>1, <1>2, <2>1 DEF LinkInv
<1>4. UnderWay(l, <<>>)
  <2>1. Stream(l) = <<>>
    BY <1>2 DEF Stream
  <2>2. AllBytes(<<>>) = <<>>
    BY PacketsHaveLengths, AllBytesFacts
  <2>3. <<>> \o <<>> = <<>> /\ <<>> \in Seq(Packets \X Nat) /\ <<>> \in Seq(Packets)
    OBVIOUS
  <2> QED
    BY <1>1, <1>2, <2>1, <2>2, <2>3 DEF UnderWay, InStep
<1>5. <<>> \in Seq(Packets) /\ Cat(<<>>, <<>>) = <<>>
  BY DEF Cat
<1>6. up = l /\ sent = <<>> /\ down = [v \in Viewers |-> l] /\ got = [v \in Viewers |-> <<>>]
  BY DEF Init
<1> HIDE DEF l
<1>7. ASSUME NEW v \in Viewers PROVE Has(v, got[v], down[v], <<>>)
  BY <1>4, <1>5, <1>6, MeantForFacts DEF Has
<1>8. Through(<<>>, <<>>)
  BY <1>4, <1>5, <1>6, <1>7 DEF Through
<1> QED
  BY <1>2, <1>3, <1>5, <1>6, <1>8 DEF PathInv

LEMMA CarFrameStep ==
    ASSUME PathInv, NEW d \in Devices, NEW length \in BodyLengths, CarFrame(d, length)
    PROVE  PathInv'
<1> DEFINE packet == [seq |-> Len(sent), device |-> d, length |-> length]
<1>1. sent \in Seq(Packets) /\ LinkInv(up)
  BY DEF PathInv
<1>2. packet \in Packets
  <2>1. Len(sent) \in Nat /\ Len(sent) < MaxFrames /\ MaxFrames \in Nat
    BY <1>1, ParametersAssumption DEF CarFrame
  <2> QED
    BY <2>1 DEF Packets
<1>3. up' = SendMsg(up, packet) /\ sent' = Append(sent, packet) /\ UNCHANGED <<down, got>>
  BY DEF CarFrame
<1>4. PICK done, left \in Seq(Packets) : Through(done, left)
  BY DEF PathInv
<1> HIDE DEF packet
<1>5. SendsTo(up', up, packet)
  BY <1>1, <1>2, <1>3, SendFacts
<1>6. UnderWay(up', Append(left, packet))
  BY <1>1, <1>2, <1>4, <1>5, SentUnderWay DEF Through
<1>7. sent' = Cat(done, Append(left, packet)) /\ Append(left, packet) \in Seq(Packets)
  <2> DEFINE P == Packets
  <2>1. packet \in P /\ done \in Seq(P) /\ left \in Seq(P) /\ sent = done \o left
    BY <1>2, <1>4 DEF Through, Cat
  <2> HIDE DEF P
  <2> DEFINE one == <<packet>>
  <2>2. one \in Seq(P) /\ Append(left, packet) = left \o one /\ Append(left, packet) \in Seq(P)
    BY <2>1, AppendIsConcat
  <2>3. done \o left \in Seq(P)
    BY <2>1, ConcatProperties
  <2>4. Append(done \o left, packet) = (done \o left) \o one
    BY <2>1, <2>3, AppendIsConcat
  <2> HIDE DEF one
  <2>5. Cat(Cat(done, left), one) = Cat(done, Cat(left, one))
    BY <2>1, <2>2, CatAlgebra
  <2> QED
    BY <1>3, <2>1, <2>2, <2>4, <2>5 DEF Cat, P
<1>8. PICK more \in Seq(Packets) : more = Append(left, packet)
  BY <1>7
<1>9. Through(done, more)'
  BY <1>3, <1>4, <1>6, <1>7, <1>8 DEF Through
<1> QED
  <2>1. sent' \in Seq(Packets)
    BY <1>1, <1>2, <1>3
  <2> QED
    BY <1>3, <1>4, <1>5, <1>8, <1>9, <2>1 DEF PathInv, SendsTo

LEMMA ClientReadsStep ==
    ASSUME PathInv, ClientReads
    PROVE  PathInv'
<1>1. PICK n \in 1..Len(up.wire) : /\ n <= MaxRead
                                   /\ up' = OnMessage(up, n)
                                   /\ down' = PublishAll(Arrived(up, n).packets)
  BY DEF ClientReads
<1>2. ~up.lost /\ UNCHANGED <<sent, got>> /\ LinkInv(up)
  BY DEF ClientReads, Readable, PathInv
<1>3. PICK done, left \in Seq(Packets) : Through(done, left)
  BY DEF PathInv
<1> DEFINE packets == Arrived(up, n).packets
<1>4. Reads(up, n, left)
  <2>1. InStep(Packets, up.decoder, Stream(up), left)
    BY <1>2, <1>3 DEF Through, UnderWay
  <2> QED
    BY <1>1, <1>2, <2>1, ReadsFacts
<1>5. packets \in Seq(Packets) /\ LinkInv(up') /\ ~up'.lost
  BY <1>1, <1>4 DEF Reads
<1>6. PICK later \in Seq(Packets) :
          left = packets \o later /\ InStep(Packets, up'.decoder, Stream(up'), later)
  BY <1>1, <1>4 DEF Reads
<1> HIDE DEF packets
<1>7. PICK now \in Seq(Packets) : now = done \o packets /\ sent' = Cat(now, later)
  <2> DEFINE P == Packets
  <2>1. done \in Seq(P) /\ packets \in Seq(P) /\ later \in Seq(P) /\ sent' = done \o (packets \o later)
    BY <1>2, <1>3, <1>5, <1>6 DEF Through, Cat
  <2> HIDE DEF P
  <2>2. Cat(Cat(done, packets), later) = Cat(done, Cat(packets, later))
    BY <2>1, CatAlgebra
  <2>3. done \o packets \in Seq(P)
    BY <2>1, ConcatProperties
  <2> QED
    BY <2>1, <2>2, <2>3 DEF Cat, P
<1>8. ASSUME NEW v \in Viewers PROVE LinkInv(down'[v]) /\ Has(v, got'[v], down'[v], now)
  <2>1. PICK late \in Seq(Packets) : MeantFor(v, done) = Cat(got[v], late) /\ UnderWay(down[v], late)
    BY <1>3 DEF Through, Has
  <2>2. PassesOn(v, down'[v], down[v], late, packets)
    <3>1. LinkInv(down[v]) /\ down' = PublishAll(packets)
      BY <1>1 DEF PathInv, packets
    <3> QED
      BY <1>5, <2>1, <3>1, PublishAllFacts
  <2>3. MeantFor(v, now) = Cat(got[v], late \o MeantFor(v, packets))
    <3> DEFINE x == MeantFor(v, packets)
               y == got[v]
               P == Packets
    <3>1. MeantFor(v, now) = MeantFor(v, done) \o x /\ x \in Seq(P)
      <4>1. done \in Seq(Packets) /\ packets \in Seq(Packets)
        BY <1>5
      <4>2. MeantFor(v, done \o packets) = MeantFor(v, done) \o MeantFor(v, packets)
        BY ONLY <4>1, MeantForFacts, v \in Viewers
      <4>3. MeantFor(v, packets) \in Seq(Packets)
        BY <4>1, MeantForFacts
      <4> QED
        BY <1>7, <4>2, <4>3
    <3>2. y \in Seq(P) /\ late \in Seq(P)
      BY DEF PathInv
    <3> HIDE DEF x, y, P
    <3>3. \A r, s, u \in Seq(P) : Cat(Cat(r, s), u) = Cat(r, Cat(s, u))
      BY CatAlgebra
    <3>4. Cat(Cat(y, late), x) = Cat(y, Cat(late, x))
      BY ONLY <3>1, <3>2, <3>3
    <3> QED
      BY <2>1, <3>1, <3>4 DEF Cat, x, y
  <2> QED
    BY <1>2, <2>2, <2>3 DEF PassesOn, Has, UnderWay
<1>9. Through(now, later)'
  <2>1. UnderWay(up', later)
    BY <1>6 DEF UnderWay
  <2> QED
    BY <1>7, <1>8, <2>1 DEF Through
<1>10. down' \in [Viewers -> Links]
  <2>1. down' = [v \in Viewers |-> down'[v]]
    BY <1>1 DEF PublishAll
  <2> QED
    BY <1>8, <2>1 DEF LinkInv
<1>11. sent' \in Seq(Packets) /\ got' \in [Viewers -> Seq(Packets)]
  BY <1>2 DEF PathInv
<1> QED
  BY <1>5, <1>8, <1>9, <1>10, <1>11 DEF PathInv

LEMMA ViewerReadsStep ==
    ASSUME PathInv, NEW v \in Viewers, ViewerReads(v)
    PROVE  /\ PathInv'
           /\ \E packets \in Seq(Packets) : got' = [got EXCEPT ![v] = @ \o packets]
<1>1. PICK n \in 1..Len(down[v].wire) :
          /\ n <= MaxRead
          /\ down' = [down EXCEPT ![v] = OnMessage(down[v], n)]
          /\ got' = [got EXCEPT ![v] = @ \o Arrived(down[v], n).packets]
  BY DEF ViewerReads
<1>2. ~down[v].lost /\ UNCHANGED <<up, sent>> /\ LinkInv(down[v])
  BY DEF ViewerReads, Readable, PathInv
<1>3. PICK done, left \in Seq(Packets) : Through(done, left)
  BY DEF PathInv
<1>4. PICK late \in Seq(Packets) : MeantFor(v, done) = Cat(got[v], late) /\ UnderWay(down[v], late)
  BY <1>3 DEF Through, Has
<1> DEFINE packets == Arrived(down[v], n).packets
<1>5. Reads(down[v], n, late)
  <2>1. InStep(Packets, down[v].decoder, Stream(down[v]), late)
    BY <1>2, <1>4 DEF UnderWay
  <2> DEFINE link == down[v]
  <2> HIDE DEF link
  <2>2. LinkInv(link) /\ ~link.lost /\ n \in 1..Len(link.wire) /\ n <= MaxRead
        /\ InStep(Packets, link.decoder, Stream(link), late)
    BY <1>1, <1>2, <2>1 DEF link
  <2>3. Reads(link, n, late)
    BY <2>2, ReadsFacts
  <2> QED
    BY <2>3 DEF link
<1>6. /\ got \in [Viewers -> Seq(Packets)] /\ down \in [Viewers -> Links]
      /\ down'[v] = OnMessage(down[v], n) /\ got'[v] = got[v] \o packets
      /\ \A w \in Viewers \ {v} : down'[w] = down[w] /\ got'[w] = got[w]
  BY <1>1 DEF PathInv
<1>7. packets \in Seq(Packets) /\ LinkInv(down'[v]) /\ ~down'[v].lost
  BY <1>5, <1>6 DEF Reads
<1>8. PICK later \in Seq(Packets) :
          late = packets \o later /\ InStep(Packets, down'[v].decoder, Stream(down'[v]), later)
  BY <1>5, <1>6 DEF Reads
<1> HIDE DEF packets
<1>9. MeantFor(v, done) = Cat(got'[v], later) /\ got'[v] \in Seq(Packets)
  <2> DEFINE P == Packets
             g == got[v]
  <2>1. /\ g \in Seq(P) /\ packets \in Seq(P) /\ later \in Seq(P) /\ got'[v] = g \o packets
        /\ MeantFor(v, done) = g \o (packets \o later)
    BY <1>4, <1>6, <1>7, <1>8 DEF Cat
  <2> HIDE DEF P, g
  <2>2. Cat(Cat(g, packets), later) = Cat(g, Cat(packets, later))
    BY <2>1, CatAlgebra
  <2>3. g \o packets \in Seq(P)
    BY <2>1, ConcatProperties
  <2> QED
    BY <2>1, <2>2, <2>3 DEF Cat, P
<1>10. Has(v, got'[v], down'[v], done)
  BY <1>8, <1>9 DEF Has, UnderWay
<1>11. \A w \in Viewers : Has(w, got'[w], down'[w], done) /\ LinkInv(down'[w])
  BY <1>3, <1>6, <1>7, <1>10 DEF Through, PathInv
<1>12. Through(done, left)'
  BY <1>2, <1>3, <1>11 DEF Through
<1>13. down' \in [Viewers -> Links] /\ got' \in [Viewers -> Seq(Packets)]
  <2>1. down'[v] \in Links /\ OnMessage(down[v], n) \in Links
    BY <1>6, <1>7 DEF LinkInv
  <2>2. down' \in [Viewers -> Links]
    BY <1>1, <1>6, <2>1
  <2>3. got' \in [Viewers -> Seq(Packets)]
    <3> DEFINE all == got[v] \o packets
    <3>1. got' = [got EXCEPT ![v] = all] /\ all \in Seq(Packets)
      BY <1>1, <1>6, <1>9 DEF packets
    <3> HIDE DEF all
    <3> QED
      BY <1>6, <3>1
  <2> QED
    BY <2>2, <2>3
<1>14. got' = [got EXCEPT ![v] = @ \o packets]
  BY <1>1 DEF packets
<1> QED
  BY <1>2, <1>7, <1>11, <1>12, <1>13, <1>14 DEF PathInv

(* A lost connection takes the bytes of the kernel with it.                *)
LEMMA LostLink ==
    ASSUME NEW link, LinkInv(link), NEW new, new = [link EXCEPT !.lost = TRUE, !.wire = <<>>]
    PROVE  LinkInv(new) /\ new.lost
<1>1. /\ new \in Links /\ new.lost /\ new.wire = <<>> /\ new.decoder = link.decoder
  <2> DEFINE S == Seq(Packets \X Nat)
  <2>1. <<>> \in S /\ link \in Links
    BY DEF LinkInv
  <2> HIDE DEF S
  <2> QED
    BY <2>1 DEF Links, S
<1>2. SocketRoom \in Nat /\ 0 <= SocketRoom
  BY ParametersAssumption
<1> QED
  BY <1>1, <1>2 DEF LinkInv

LEMMA ClientLostStep ==
    ASSUME PathInv, ClientLost
    PROVE  PathInv'
<1>1. up' = [up EXCEPT !.lost = TRUE, !.wire = <<>>] /\ UNCHANGED <<down, sent, got>> /\ LinkInv(up)
  BY DEF ClientLost, PathInv
<1>2. LinkInv(up') /\ up'.lost
  BY <1>1, LostLink
<1>3. PICK done, left \in Seq(Packets) : Through(done, left)
  BY DEF PathInv
<1>4. Through(done, left)'
  BY <1>1, <1>2, <1>3 DEF Through, UnderWay
<1> QED
  BY <1>1, <1>2, <1>4 DEF PathInv

LEMMA ViewerLostStep ==
    ASSUME PathInv, NEW v \in Viewers, ViewerLost(v)
    PROVE  PathInv'
<1> DEFINE new == [down[v] EXCEPT !.lost = TRUE, !.wire = <<>>]
<1>1. UNCHANGED <<up, sent, got>> /\ LinkInv(down[v]) /\ down \in [Viewers -> Links]
  BY DEF ViewerLost, PathInv
<1>2. LinkInv(new) /\ new.lost
  BY <1>1, LostLink
<1>3. down' = [down EXCEPT ![v] = new]
  <2>1. down' = [down EXCEPT ![v] = [@ EXCEPT !.lost = TRUE, !.wire = <<>>]]
    BY <1>1 DEF ViewerLost, Links
  <2> QED
    BY <2>1
<1> HIDE DEF new
<1>4. /\ down' \in [Viewers -> Links] /\ down'[v] = new
      /\ \A w \in Viewers \ {v} : down'[w] = down[w]
  BY <1>1, <1>2, <1>3 DEF LinkInv
<1>5. PICK done, left \in Seq(Packets) : Through(done, left)
  BY DEF PathInv
<1>6. \A w \in Viewers : Has(w, got'[w], down'[w], done) /\ LinkInv(down'[w])
  BY <1>1, <1>2, <1>4, <1>5 DEF Through, Has, UnderWay, PathInv
<1>7. Through(done, left)'
  BY <1>1, <1>5, <1>6 DEF Through
<1> QED
  BY <1>1, <1>4, <1>6, <1>7 DEF PathInv

LEMMA PathStep == PathInv /\ [Next]_vars => PathInv'
<1> SUFFICES ASSUME PathInv, [Next]_vars PROVE PathInv'
  OBVIOUS
<1>1. ASSUME NEW d \in Devices, NEW length \in BodyLengths, CarFrame(d, length) PROVE PathInv'
  BY <1>1, CarFrameStep
<1>2. CASE ClientReads
  BY <1>2, ClientReadsStep
<1>3. CASE ClientLost
  BY <1>3, ClientLostStep
<1>4. ASSUME NEW v \in Viewers, ViewerReads(v) PROVE PathInv'
  BY <1>4, ViewerReadsStep
<1>5. ASSUME NEW v \in Viewers, ViewerLost(v) PROVE PathInv'
  BY <1>5, ViewerLostStep
<1>6. CASE UNCHANGED vars
  BY <1>6 DEF vars, PathInv, Through
<1> QED
  BY <1>1, <1>2, <1>3, <1>4, <1>5, <1>6 DEF Next

(* The invariant of FramePath, on which the properties rest.               *)
THEOREM PathInvHolds == Spec => []PathInv
BY PathInit, PathStep, PTL DEF Spec

-----------------------------------------------------------------------------
(* FramePath: the properties.                                              *)

(* Links, decoders and histories have their types, and no kernel holds     *)
(* more than it has room for.                                              *)
THEOREM PathTypeOK == Spec => []TypeOK
<1>1. PathInv => TypeOK
  BY DEF PathInv, LinkInv, Links, TypeOK
<1> QED
  BY <1>1, PathInvHolds, PTL

(* No decoder meets an invalid header or fills up: for all lengths of      *)
(* bodies, reads and kernels that ParametersAssumption allows.             *)
THEOREM PathNeverMisframed == Spec => []NeverMisframed
<1>1. PathInv => NeverMisframed
  BY DEF PathInv, LinkInv, NeverMisframed
<1> QED
  BY <1>1, PathInvHolds, PTL

LEMMA JoinFacts ==
    ASSUME NEW D, NEW s \in Seq(D), NEW t \in Seq(D)
    PROVE  /\ Len(s) \in 0..Len(s \o t)
           /\ SubSeq(s \o t, 1, Len(s)) = s /\ Skip(s \o t, Len(s)) = t
<1>1. s \o t \in Seq(D) /\ Len(s \o t) = Len(s) + Len(t) /\ Len(s) \in Nat /\ Len(t) \in Nat /\ 0 \in 0..Len(t)
  BY ConcatProperties
<1>2. /\ Skip(s \o t, Len(s) + 0) = Skip(t, 0)
      /\ SubSeq(s \o t, 1, Len(s) + 0) = s \o SubSeq(t, 1, 0)
  BY <1>1, SkipConcat
<1>3. SubSeq(t, 1, 0) = <<>>
  BY SubSeqEmpty
<1>4. s \o <<>> = s /\ Len(s) + 0 = Len(s)
  BY <1>1, ConcatEmptySeq
<1>5. Skip(t, 0) = t
  BY SubSeqFull DEF Skip
<1> QED
  BY <1>1, <1>2, <1>3, <1>4, <1>5

LEMMA CarriesFacts ==
    ASSUME NEW link, LinkInv(link), NEW packets, InStep(Packets, link.decoder, Stream(link), packets)
    PROVE  Carries(link, packets)
<1> DEFINE D == Packets \X Nat
           h == Held(link.decoder)
           w == link.wire
           p == link.pending
<1>1. w \in Seq(D) /\ p \in Seq(D) /\ link.decoder \in Decoders(Packets)
  BY DEF LinkInv, Links
<1>2. h \in Seq(D)
  BY <1>1, PacketsHaveLengths, HeldFacts
<1>3. h \o (w \o p) = AllBytes(packets)
  BY DEF InStep, Stream
<1> HIDE DEF h, w, p
<1>4. Cat(Cat(h, w), p) = Cat(h, Cat(w, p))
  <2> HIDE DEF D
  <2> QED
    BY <1>1, <1>2, CatAlgebra
<1>5. (h \o w) \o p = AllBytes(packets)
  BY <1>3, <1>4 DEF Cat
<1> QED
  BY <1>5 DEF Carries, h, w, p

(* Through both hops and any cuts no byte is lost, doubled or moved while  *)
(* the connections last.                                                   *)
THEOREM PathNothingLost == Spec => []NothingLost
<1>1. ASSUME PathInv PROVE NothingLost
  <2>1. SUFFICES ASSUME ~up.lost
                 PROVE  \E k \in 0..Len(sent) :
                            /\ Carries(up, Skip(sent, k))
                            /\ \A v \in Viewers :
                                   LET mine == MeantFor(v, SubSeq(sent, 1, k))
                                   IN  /\ got[v] = SubSeq(mine, 1, Len(got[v]))
                                       /\ ~down[v].lost => Carries(down[v], Skip(mine, Len(got[v])))
    BY DEF NothingLost
  <2>2. PICK done, left \in Seq(Packets) : Through(done, left)
    BY <1>1 DEF PathInv
  <2> DEFINE k == Len(done)
  <2>3. k \in 0..Len(sent) /\ SubSeq(sent, 1, k) = done /\ Skip(sent, k) = left
    <3>1. sent = done \o left
      BY <2>2 DEF Through, Cat
    <3> DEFINE P == Packets
    <3>2. done \in Seq(P) /\ left \in Seq(P)
      OBVIOUS
    <3> HIDE DEF P
    <3> QED
      BY <3>1, <3>2, JoinFacts
  <2> HIDE DEF k
  <2>4. Carries(up, Skip(sent, k))
    BY <1>1, <2>1, <2>2, <2>3, CarriesFacts DEF Through, UnderWay, PathInv
  <2>5. ASSUME NEW v \in Viewers
        PROVE  LET mine == MeantFor(v, SubSeq(sent, 1, k))
               IN  /\ got[v] = SubSeq(mine, 1, Len(got[v]))
                   /\ ~down[v].lost => Carries(down[v], Skip(mine, Len(got[v])))
    <3> DEFINE mine == MeantFor(v, SubSeq(sent, 1, k))
    <3>1. PICK late \in Seq(Packets) : MeantFor(v, done) = Cat(got[v], late) /\ UnderWay(down[v], late)
      BY <2>2 DEF Through, Has
    <3> DEFINE g == got[v]
    <3>2. mine = g \o late
      BY <2>3, <3>1 DEF Cat
    <3>3. g \in Seq(Packets)
      BY <1>1 DEF PathInv
    <3> HIDE DEF mine, g
    <3>4. SubSeq(mine, 1, Len(g)) = g /\ Skip(mine, Len(g)) = late
      <4> DEFINE P == Packets
      <4>1. g \in Seq(P) /\ late \in Seq(P)
        BY <3>3
      <4> HIDE DEF P
      <4> QED
        BY <3>2, <4>1, JoinFacts
    <3>5. ~down[v].lost => Carries(down[v], late)
      BY <1>1, <3>1, CarriesFacts DEF UnderWay, PathInv
    <3> QED
      BY <3>4, <3>5 DEF g, mine
  <2> QED
    BY <2>3, <2>4, <2>5
<1> QED
  BY <1>1, PathInvHolds, PTL

(* What a viewer gets is the channel: each step hands over frames to one   *)
(* viewer, adds one to those under way, or changes nothing of it.          *)
LEMMA ChannelStep == PathInv /\ [Next]_vars => [Channel!Next]_(Channel!channelVars)
<1> SUFFICES ASSUME PathInv, [Next]_vars PROVE [Channel!Next]_(Channel!channelVars)
  OBVIOUS
<1> DEFINE mine(v) == MeantFor(v, sent)
<1>0. sent \in Seq(Packets) /\ got \in [Viewers -> Seq(Packets)]
  BY DEF PathInv
<1>1. ASSUME NEW d \in Devices, NEW length \in BodyLengths, CarFrame(d, length)
      PROVE  Channel!Next
  <2> DEFINE p == [seq |-> Len(sent), device |-> d, length |-> length]
             W == {v \in Viewers : Watches[v] = d}
  <2>1. p \in Packets
    <3>1. Len(sent) \in Nat /\ Len(sent) < MaxFrames /\ MaxFrames \in Nat
      BY <1>0, <1>1, ParametersAssumption DEF CarFrame
    <3> QED
      BY <3>1 DEF Packets
  <2>2. sent' = Append(sent, p) /\ got' = got /\ p.device = d
    BY <1>1 DEF CarFrame
  <2> HIDE DEF p
  <2>3. ASSUME NEW v \in Viewers
        PROVE  MeantFor(v, sent') = IF v \in W THEN Append(mine(v), p) ELSE mine(v)
    <3> DEFINE P == Packets
               m == mine(v)
    <3>1. m \in Seq(P)
      BY <1>0, MeantForFacts
    <3>2. sent' = sent \o <<p>> /\ <<p>> \in Seq(P)
      <4>1. sent \in Seq(P) /\ p \in P
        BY <1>0, <2>1
      <4> HIDE DEF P
      <4> QED
        BY <2>2, <4>1, AppendIsConcat
    <3>3. MeantFor(v, sent \o <<p>>) = m \o MeantFor(v, <<p>>)
      BY <1>0, <3>2, MeantForFacts
    <3>4. MeantFor(v, <<p>>) = IF p.device = Watches[v] THEN <<p>> ELSE <<>>
      BY <2>1, MeantForFacts
    <3>5. m \o <<>> = m /\ m \o <<p>> = Append(m, p)
      <4>1. p \in P
        BY <2>1
      <4> HIDE DEF P, m
      <4> QED
        BY <3>1, <4>1, ConcatEmptySeq, AppendIsConcat
    <3> HIDE DEF P, m
    <3>6. CASE v \in W
      BY <2>2, <3>2, <3>3, <3>4, <3>5, <3>6 DEF m
    <3>7. CASE v \notin W
      <4>1. MeantFor(v, <<p>>) = <<>>
        BY <2>2, <3>4, <3>7
      <4> QED
        BY <3>2, <3>3, <3>5, <3>7, <4>1 DEF m
    <3> QED
      BY <3>6, <3>7
  <2>4. W \in SUBSET Viewers
    OBVIOUS
  <2> HIDE DEF W
  <2>5. [v \in Viewers |-> MeantFor(v, sent)]' =
            [v \in Viewers |-> IF v \in W THEN Append([w \in Viewers |-> mine(w)][v], p)
                               ELSE [w \in Viewers |-> mine(w)][v]]
    BY <2>3
  <2> QED
    BY <2>1, <2>2, <2>4, <2>5 DEF Channel!Next, Channel!Send
<1>2. CASE UNCHANGED <<sent, got>>
  BY <1>2 DEF Channel!channelVars
<1>3. ASSUME NEW v \in Viewers, ViewerReads(v)
      PROVE  Channel!Next \/ UNCHANGED <<sent, got>>
  <2>1. PathInv' /\ sent' = sent
    BY <1>3, ViewerReadsStep DEF ViewerReads
  <2>2. PICK packets \in Seq(Packets) : got' = [got EXCEPT ![v] = @ \o packets]
    BY <1>3, ViewerReadsStep
  <2>3. PICK done, left \in Seq(Packets) : Through(done, left)'
    BY <2>1 DEF PathInv
  <2>4. PICK late \in Seq(Packets) : MeantFor(v, done) = Cat(got'[v], late)
    BY <2>3 DEF Through, Has
  <2> DEFINE P == Packets
             a == got[v]
             g == got'[v]
             m == mine(v)
             t == MeantFor(v, left)
             after == late \o t
  <2>5. /\ a \in Seq(P) /\ g = a \o packets /\ got' = [got EXCEPT ![v] = g]
        /\ late \in Seq(P) /\ packets \in Seq(P)
    BY <1>0, <2>2
  <2>6. m = Cat(MeantFor(v, done), t) /\ t \in Seq(P)
    <3>1. sent = done \o left
      BY <2>1, <2>3 DEF Through, Cat
    <3> QED
      BY <3>1, MeantForFacts DEF Cat
  <2> HIDE DEF P, a, m, t
  <2>7. g \in Seq(P) /\ Len(g) = Len(a) + Len(packets)
    <3> HIDE DEF g
    <3> QED
      BY <2>5, ConcatProperties
  <2> HIDE DEF g
  <2>8. after \in Seq(P) /\ m = g \o after
    <3>1. Cat(Cat(g, late), t) = Cat(g, Cat(late, t))
      <4>1. g \in Seq(P) /\ late \in Seq(P) /\ t \in Seq(P)
        BY <2>5, <2>6, <2>7
      <4>2. \A r, s, u \in Seq(P) : Cat(Cat(r, s), u) = Cat(r, Cat(s, u))
        BY CatAlgebra
      <4> QED
        BY ONLY <4>1, <4>2
    <3>2. late \o t \in Seq(P)
      BY <2>5, <2>6, ConcatProperties
    <3> QED
      BY <2>4, <2>6, <3>1, <3>2 DEF Cat, g
  <2> HIDE DEF after
  <2>9. SubSeq(m, 1, Len(g)) = g /\ Len(g) \in 0..Len(m)
    BY <2>7, <2>8, JoinFacts
  <2>10. CASE packets = <<>>
    <3>1. g = a
      BY <2>5, <2>10, ConcatEmptySeq
    <3> QED
      BY <1>0, <2>1, <2>5, <3>1 DEF a
  <2>11. CASE packets # <<>>
    <3>1. Len(packets) > 0 /\ Len(a) \in Nat /\ Len(packets) \in Nat /\ Len(m) \in Nat
      <4>1. m \in Seq(P)
        BY <2>7, <2>8, ConcatProperties
      <4> QED
        BY <2>5, <2>11, <4>1
    <3>2. Len(g) \in Len(a) + 1..Len(m)
      BY <2>7, <2>9, <3>1
    <3>3. /\ [w \in Viewers |-> mine(w)][v] = m
          /\ [w \in Viewers |-> MeantFor(w, sent)]' = [w \in Viewers |-> mine(w)]
      BY <2>1 DEF m
    <3>4. got' = [got EXCEPT ![v] = SubSeq([w \in Viewers |-> mine(w)][v], 1, Len(g))]
      BY <2>5, <2>9, <3>3
    <3> QED
      BY <3>2, <3>3, <3>4 DEF Channel!Next, Channel!Receive, a
  <2> QED
    BY <2>10, <2>11
<1>4. CASE ClientReads \/ ClientLost \/ (\E v \in Viewers : ViewerLost(v)) \/ UNCHANGED vars
  <2>1. UNCHANGED <<sent, got>>
    BY <1>4 DEF ClientReads, ClientLost, ViewerLost, vars
  <2> QED
    BY <1>2, <2>1
<1> QED
  BY <1>1, <1>2, <1>3, <1>4 DEF Next

(* Through both hops every viewer gets the frames of its device in order,  *)
(* whole and once, whatever is lost: FrameChannel, whose frames are those  *)
(* of each viewer's device.                                                *)
THEOREM PathImplementsChannel == Spec => ImplementsChannel
<1>1. Init => Channel!Init
  BY MeantForFacts DEF Init, Channel!Init
<1> QED
  BY <1>1, ChannelStep, PathInvHolds, PTL DEF Spec, ImplementsChannel, Channel!Spec

-----------------------------------------------------------------------------
(* CarFeed.                                                                *)

LEMMA FeedPacketsHaveLengths == HaveLengths(FeedPackets)
BY FeedAssumption DEF HaveLengths, FeedPackets

(* Of what is cut anywhere GetPacket makes a packet or a garbled one.      *)
LEMMA FeedCuts == Cuts(FeedPackets) \subseteq FeedPackets \cup Garbles
<1> SUFFICES ASSUME NEW d \in Decoders(FeedPackets), ~BodyMissing(d)
             PROVE  GetPacket(d) \in FeedPackets \cup Garbles
  BY DEF Cuts
<1>1. d.header \in FeedPackets
  BY FeedPacketsHaveLengths, ParseBodyType
<1> DEFINE h == d.header
           device == IF d.buffer[1] = Body(h)[1] THEN h.device ELSE Garbled
           cut == [h EXCEPT !.seq = Garbled, !.device = device]
<1>2. GetPacket(d) = h \/ GetPacket(d) = cut
  BY DEF GetPacket
<1>3. cut \in Garbles
  <2>1. device \in Channels \cup {Garbled}
    BY <1>1 DEF FeedPackets
  <2> HIDE DEF device
  <2> QED
    BY <1>1, <2>1 DEF FeedPackets, Garbles
<1> QED
  BY <1>1, <1>2, <1>3

Shown == FeedPackets \cup Garbles

LEMMA PublishedFacts ==
    ASSUME NEW v \in Audience
    PROVE  /\ \A s \in Seq(Shown) : Published(v, s) \in Seq(Shown)
           /\ \A s, t \in Seq(FeedPackets) :
                  Published(v, s \o t) = Published(v, s) \o Published(v, t)
           /\ Published(v, <<>>) = <<>>
<1>1. \A s : Published(v, s) = Chosen(TopicOf[v], s)
  BY DEF Published, Chosen
<1>2. Chooses(Shown, TopicOf[v]) /\ Chooses(FeedPackets, TopicOf[v])
  BY ChosenFacts
<1>3. \A s \in Seq(Shown) : Published(v, s) \in Seq(Shown)
  BY <1>1, <1>2 DEF Chooses
<1>4. \A s, t \in Seq(FeedPackets) : Published(v, s \o t) = Published(v, s) \o Published(v, t)
  BY <1>1, <1>2 DEF Chooses
<1>5. Published(v, <<>>) = <<>>
  BY <1>1, <1>2 DEF Chooses
<1> QED
  BY <1>3, <1>4, <1>5

LEMMA FeedTypeInit == FeedInit => FeedTypeOK
<1> SUFFICES ASSUME FeedInit PROVE FeedTypeOK
  OBVIOUS
<1>1. decoder \in Decoders(FeedPackets) /\ decoder.buffer = <<>>
  BY DEF FeedInit, NewDecoder, Decoders
<1>2. 0 \in Nat /\ MaxBuffer \in Nat /\ FeedFrames \in Nat /\ MaxBreaks \in Nat
  BY DecoderAssumption, FeedAssumption
<1> QED
  BY <1>1, <1>2 DEF FeedInit, FeedTypeOK

LEMMA FrameType ==
    ASSUME FeedTypeOK, NEW d \in Channels, NEW length \in FrameLengths, Frame(d, length)
    PROVE  FeedTypeOK'
<1> DEFINE packet == [connection |-> breaks, seq |-> Len(feed), device |-> d, length |-> length]
           D == FeedPackets \X Nat
<1>1. packet \in FeedPackets /\ Len(feed) < FeedFrames /\ feed \in Seq(FeedPackets) /\ wire \in Seq(D)
  <2>1. Len(feed) \in 0..FeedFrames /\ breaks \in 0..MaxBreaks
    BY FeedAssumption DEF FeedTypeOK
  <2> QED
    BY <2>1 DEF FeedPackets, FeedTypeOK, Frame
<1>2. wire' = wire \o Bytes(packet) /\ feed' = Append(feed, packet)
      /\ UNCHANGED <<decoder, shown, clean, breaks>>
  BY DEF Frame
<1> HIDE DEF packet
<1>3. Bytes(packet) \in Seq(D)
  BY <1>1, FeedPacketsHaveLengths, BytesFacts
<1>4. wire' \in Seq(D)
  <2> DEFINE bytes == Bytes(packet)
  <2> HIDE DEF bytes, D
  <2>1. wire \o bytes \in Seq(D)
    BY <1>1, <1>3, ConcatProperties DEF bytes
  <2> QED
    BY <1>2, <2>1 DEF bytes
<1>5. feed' \in Seq(FeedPackets) /\ Len(feed') <= FeedFrames
  <2> DEFINE P == FeedPackets
  <2>1. packet \in P /\ feed \in Seq(P) /\ FeedFrames \in Nat
    BY <1>1, FeedAssumption
  <2> HIDE DEF P
  <2>2. feed' \in Seq(P) /\ Len(feed') = Len(feed) + 1
    BY <1>2, <2>1, AppendProperties
  <2> QED
    BY <1>1, <2>1, <2>2 DEF P
<1> QED
  BY <1>2, <1>4, <1>5 DEF FeedTypeOK

(* A read leaves the beginning of the next packet in the buffer, whatever  *)
(* it is the end of.                                                       *)
LEMMA HandlerReadType ==
    ASSUME FeedTypeOK, HandlerReadBuffer
    PROVE  /\ FeedTypeOK'
           /\ Decode(PushBuffer(decoder, SubSeq(wire, 1, Block))) \in Decoded(FeedPackets)
           /\ /\ SubSeq(wire, 1, Block) \in Seq(FeedPackets \X Nat)
              /\ Len(SubSeq(wire, 1, Block)) = Block
              /\ Skip(wire, Block) \in Seq(FeedPackets \X Nat)
              /\ SubSeq(wire, 1, Block) \o Skip(wire, Block) = wire
<1> DEFINE D == FeedPackets \X Nat
           part == SubSeq(wire, 1, Block)
           rest == Skip(wire, Block)
           d == PushBuffer(decoder, part)
           x == Decode(d)
<1>1. Block \in 0..Len(wire) /\ wire \in Seq(D) /\ decoder \in Decoders(FeedPackets)
      /\ Len(decoder.buffer) <= MaxBuffer
  BY FeedAssumption DEF FeedTypeOK, HandlerReadBuffer
<1>2. part \in Seq(D) /\ Len(part) = Block /\ rest \in Seq(D) /\ part \o rest = wire
  <2> HIDE DEF D
  <2> QED
    BY <1>1, SkipFacts
<1> HIDE DEF part, rest
<1>3. d \in Decoders(FeedPackets) /\ Len(d.buffer) <= MaxBuffer
  BY <1>1, <1>2, FeedPacketsHaveLengths, PushBufferType
<1> HIDE DEF d
<1>4. x \in Decoded(FeedPackets) /\ Len(x.decoder.buffer) <= Len(d.buffer)
  BY <1>3, FeedPacketsHaveLengths, DecodeType
<1> HIDE DEF x
<1>5. x.decoder \in Decoders(FeedPackets) /\ x.packets \in Seq(Shown)
  <2>1. x.packets \in Seq(Cuts(FeedPackets)) /\ x.decoder \in Decoders(FeedPackets)
    BY <1>4 DEF Decoded
  <2>2. Cuts(FeedPackets) \subseteq Shown
    BY FeedCuts DEF Shown
  <2>3. Len(x.packets) \in Nat /\ \A i \in 1..Len(x.packets) : x.packets[i] \in Shown
    BY <2>1, <2>2
  <2> QED
    BY <2>1, <2>2, <2>3
<1>6. /\ wire' = rest /\ decoder' = x.decoder
      /\ shown' = [v \in Audience |-> shown[v] \o Published(v, x.packets)]
      /\ UNCHANGED <<feed, clean, breaks>>
  BY DEF HandlerReadBuffer, x, d, part, rest
<1>7. Len(decoder'.buffer) <= MaxBuffer
  <2>1. Len(x.decoder.buffer) \in Nat /\ Len(d.buffer) \in Nat /\ MaxBuffer \in Nat
    BY <1>3, <1>5, DecoderAssumption DEF Decoders
  <2> QED
    BY <1>3, <1>4, <1>6, <2>1
<1>8. shown' \in [Audience -> Seq(Shown)]
  <2>1. ASSUME NEW v \in Audience PROVE shown[v] \o Published(v, x.packets) \in Seq(Shown)
    <3> DEFINE a == shown[v]
               b == Published(v, x.packets)
    <3>1. a \in Seq(Shown) /\ b \in Seq(Shown)
      BY <1>5, PublishedFacts DEF FeedTypeOK, Shown
    <3> HIDE DEF a, b
    <3>2. a \o b \in Seq(Shown)
      BY <3>1, ConcatProperties
    <3> QED
      BY <3>2 DEF a, b
  <2> QED
    BY <1>6, <2>1
<1>9. FeedTypeOK'
  BY <1>2, <1>5, <1>6, <1>7, <1>8 DEF FeedTypeOK, Shown
<1> QED
  BY <1>2, <1>4, <1>9 DEF x, d, part, rest

LEMMA ReConnectType ==
    ASSUME FeedTypeOK, ReConnect
    PROVE  FeedTypeOK'
<1>1. breaks' \in 0..MaxBreaks /\ clean' \in BOOLEAN
  BY FeedAssumption DEF FeedTypeOK, ReConnect
<1>2. 0 <= FeedFrames
  BY FeedAssumption
<1> QED
  BY <1>1, <1>2 DEF FeedTypeOK, ReConnect

LEMMA FeedTypeStep == FeedTypeOK /\ [FeedNext]_feedVars => FeedTypeOK'
<1> SUFFICES ASSUME FeedTypeOK, [FeedNext]_feedVars PROVE FeedTypeOK'
  OBVIOUS
<1>1. ASSUME NEW d \in Channels, NEW length \in FrameLengths, Frame(d, length) PROVE FeedTypeOK'
  BY <1>1, FrameType
<1>2. CASE HandlerReadBuffer
  BY <1>2, HandlerReadType
<1>3. CASE ReConnect
  BY <1>3, ReConnectType
<1>4. CASE UNCHANGED feedVars
  BY <1>4 DEF feedVars, FeedTypeOK
<1> QED
  BY <1>1, <1>2, <1>3, <1>4 DEF FeedNext

(* The decoder of new_web_server keeps packets and their words, garbled or *)
(* not, and never more of them than fit into m_buffer.                     *)
THEOREM FeedTypeOKHolds == FeedSpec => []FeedTypeOK
BY FeedTypeInit, FeedTypeStep, PTL DEF FeedSpec

(* done are the packets of this connection that the browsers have.         *)
FeedThrough(done, left) ==
    /\ feed = Cat(done, left)
    /\ InStep(FeedPackets, decoder, wire, left)
    /\ \A v \in Audience : shown[v] = Published(v, done)

FeedInv ==
    /\ FeedTypeOK
    /\ clean => /\ Framed(decoder)
                /\ \E done, left \in Seq(FeedPackets) : FeedThrough(done, left)

(* A connection that finds the decoder empty.                              *)
LEMMA FreshDecoder ==
    /\ Framed(NewDecoder)
    /\ InStep(FeedPackets, NewDecoder, <<>>, <<>>)
<1>1. NewDecoder \in Decoders(FeedPackets) /\ NewDecoder.header = NoHeader /\ NewDecoder.buffer = <<>>
  BY DEF NewDecoder, Decoders
<1>2. Held(NewDecoder) = <<>>
  BY <1>1, FeedPacketsHaveLengths, HeldFacts
<1>3. Framed(NewDecoder)
  BY <1>1, DecoderAssumption DEF Framed, InvalidHeader
<1>4. AllBytes(<<>>) = <<>>
  BY FeedPacketsHaveLengths, AllBytesFacts
<1>5. <<>> \o <<>> = <<>> /\ <<>> \in Seq(FeedPackets \X Nat) /\ <<>> \in Seq(FeedPackets)
  OBVIOUS
<1> QED
  BY <1>1, <1>2, <1>3, <1>4, <1>5 DEF InStep

LEMMA NothingSent ==
    ASSUME FeedTypeOK, decoder = NewDecoder, wire = <<>>, feed = <<>>,
           shown = [v \in Audience |-> <<>>]
    PROVE  FeedInv
<1>1. Cat(<<>>, <<>>) = <<>> /\ <<>> \in Seq(FeedPackets)
  BY DEF Cat
<1>2. \A v \in Audience : shown[v] = Published(v, <<>>)
  BY PublishedFacts
<1>3. FeedThrough(<<>>, <<>>)
  BY <1>1, <1>2, FreshDecoder DEF FeedThrough
<1> QED
  BY <1>1, <1>3, FreshDecoder DEF FeedInv

LEMMA FeedInvInit == FeedInit => FeedInv
<1> SUFFICES ASSUME FeedInit PROVE FeedInv
  OBVIOUS
<1> QED
  BY FeedTypeInit, NothingSent DEF FeedInit

LEMMA FrameStep ==
    ASSUME FeedInv, NEW d \in Channels, NEW length \in FrameLengths, Frame(d, length)
    PROVE  FeedInv'
<1> DEFINE packet == [connection |-> breaks, seq |-> Len(feed), device |-> d, length |-> length]
<1>1. FeedTypeOK /\ FeedTypeOK'
  BY FrameType DEF FeedInv
<1>2. packet \in FeedPackets
  <2>1. Len(feed) \in 0..FeedFrames /\ breaks \in 0..MaxBreaks
    BY <1>1, FeedAssumption DEF FeedTypeOK
  <2> QED
    BY <2>1 DEF FeedPackets, Frame
<1>3. wire' = wire \o Bytes(packet) /\ feed' = Append(feed, packet)
      /\ UNCHANGED <<decoder, shown, clean, breaks>>
  BY DEF Frame
<1> HIDE DEF packet
<1>4. SUFFICES ASSUME clean
               PROVE  \E done, left \in Seq(FeedPackets) : FeedThrough(done, left)'
  BY <1>1, <1>3 DEF FeedInv
<1>5. PICK done, left \in Seq(FeedPackets) : FeedThrough(done, left)
  BY <1>4 DEF FeedInv
<1> DEFINE P == FeedPackets
<1>6. PICK more \in Seq(P) : more = Append(left, packet) /\ feed' = Cat(done, more)
  <2>1. packet \in P /\ done \in Seq(P) /\ left \in Seq(P) /\ feed = done \o left
    BY <1>2, <1>5 DEF FeedThrough, Cat
  <2> HIDE DEF P
  <2> DEFINE one == <<packet>>
  <2>2. one \in Seq(P) /\ Append(left, packet) = left \o one /\ Append(left, packet) \in Seq(P)
    BY <2>1, AppendIsConcat
  <2>3. done \o left \in Seq(P)
    BY <2>1, ConcatProperties
  <2>4. Append(done \o left, packet) = (done \o left) \o one
    BY <2>1, <2>3, AppendIsConcat
  <2> HIDE DEF one
  <2>5. Cat(Cat(done, left), one) = Cat(done, Cat(left, one))
    BY <2>1, <2>2, CatAlgebra
  <2>6. feed' = Cat(done, Append(left, packet))
    BY <1>3, <2>1, <2>2, <2>4, <2>5 DEF Cat
  <2> QED
    BY <2>2, <2>6
<1>7. InStep(FeedPackets, decoder, wire \o Bytes(packet), more)
  BY <1>2, <1>5, <1>6, FeedPacketsHaveLengths, AppendInStep DEF FeedThrough
<1>8. InStep(FeedPackets, decoder', wire', more)
  BY <1>3, <1>7
<1>9. FeedThrough(done, more)'
  BY <1>3, <1>5, <1>6, <1>8 DEF FeedThrough
<1> QED
  BY <1>9

LEMMA HandlerReadStep ==
    ASSUME FeedInv, HandlerReadBuffer
    PROVE  FeedInv'
<1> DEFINE P == FeedPackets
           part == SubSeq(wire, 1, Block)
           rest == Skip(wire, Block)
           x == Decode(PushBuffer(decoder, part))
<1>1. /\ FeedTypeOK /\ FeedTypeOK'
      /\ part \in Seq(P \X Nat) /\ Len(part) = Block /\ rest \in Seq(P \X Nat) /\ part \o rest = wire
  BY HandlerReadType DEF FeedInv
<1>2. /\ wire' = rest /\ decoder' = x.decoder
      /\ shown' = [v \in Audience |-> shown[v] \o Published(v, x.packets)]
      /\ UNCHANGED <<feed, clean, breaks>>
  BY DEF HandlerReadBuffer
<1> HIDE DEF part, rest
<1>3. SUFFICES ASSUME clean
               PROVE  Framed(decoder') /\ \E done, left \in Seq(P) : FeedThrough(done, left)'
  BY <1>1, <1>2 DEF FeedInv
<1>4. PICK done, left \in Seq(P) : FeedThrough(done, left)
  BY <1>3 DEF FeedInv
<1>5. Decodes(P, x, rest, left)
  <2>1. InStep(P, decoder, part \o rest, left) /\ Framed(decoder)
    BY <1>1, <1>3, <1>4 DEF FeedThrough, FeedInv
  <2>2. /\ Block \in Nat /\ Len(part) <= Block /\ HeaderLength + Block <= MaxBuffer
        /\ \A p \in P : p.length + Block <= MaxBuffer
    <3>1. Block \in Nat /\ HeaderLength + Block <= MaxBuffer
      BY FeedAssumption
    <3>2. \A p \in P : p.length + Block <= MaxBuffer
      BY FeedAssumption DEF FeedPackets
    <3>3. Len(part) <= Block
      BY <1>1, <3>1
    <3> QED
      BY <3>1, <3>2, <3>3
  <2> QED
    BY <1>1, <2>1, <2>2, FeedPacketsHaveLengths, ReadInStep
<1> HIDE DEF x
<1>6. x.packets \in Seq(P) /\ Framed(decoder')
  BY <1>2, <1>5 DEF Decodes
<1>7. PICK later \in Seq(P) : left = x.packets \o later /\ InStep(P, decoder', rest, later)
  BY <1>2, <1>5 DEF Decodes
<1> DEFINE packets == x.packets
<1> HIDE DEF packets, P
<1>8. PICK now \in Seq(P) : now = done \o packets /\ feed' = Cat(now, later)
  <2>1. /\ done \in Seq(P) /\ packets \in Seq(P) /\ later \in Seq(P)
        /\ feed' = done \o (packets \o later)
    BY <1>2, <1>4, <1>6, <1>7 DEF FeedThrough, Cat, packets
  <2>2. Cat(Cat(done, packets), later) = Cat(done, Cat(packets, later))
    BY <2>1, CatAlgebra
  <2>3. done \o packets \in Seq(P)
    BY <2>1, ConcatProperties
  <2> QED
    BY <2>1, <2>2, <2>3 DEF Cat
<1>9. ASSUME NEW v \in Audience PROVE shown'[v] = Published(v, now)
  <2>1. shown'[v] = shown[v] \o Published(v, packets) /\ shown[v] = Published(v, done)
    BY <1>2, <1>4 DEF FeedThrough, packets
  <2>2. Published(v, done \o packets) = Published(v, done) \o Published(v, packets)
    BY <1>6, PublishedFacts DEF packets, P
  <2> QED
    BY <1>8, <2>1, <2>2
<1>10. FeedThrough(now, later)'
  BY <1>2, <1>7, <1>8, <1>9 DEF FeedThrough, P
<1> QED
  BY <1>6, <1>10

LEMMA ReConnectStep ==
    ASSUME FeedInv, ReConnect
    PROVE  FeedInv'
<1>1. FeedTypeOK'
  BY ReConnectType DEF FeedInv
<1>2. SUFFICES ASSUME clean'
               PROVE  Framed(decoder') /\ \E done, left \in Seq(FeedPackets) : FeedThrough(done, left)'
  BY <1>1 DEF FeedInv
<1>3. decoder' = NewDecoder /\ wire' = <<>> /\ feed' = <<>> /\ shown' = [v \in Audience |-> <<>>]
  BY <1>2 DEF ReConnect
<1>4. Cat(<<>>, <<>>) = <<>> /\ <<>> \in Seq(FeedPackets)
  BY DEF Cat
<1>5. PICK none \in Seq(FeedPackets) : none = <<>>
  BY <1>4
<1>6. \A v \in Audience : shown'[v] = Published(v, none)
  BY <1>3, <1>5, PublishedFacts
<1>7. FeedThrough(none, none)'
  BY <1>3, <1>4, <1>5, <1>6, FreshDecoder DEF FeedThrough
<1> QED
  BY <1>3, <1>7, FreshDecoder

LEMMA FeedInvStep == FeedInv /\ [FeedNext]_feedVars => FeedInv'
<1> SUFFICES ASSUME FeedInv, [FeedNext]_feedVars PROVE FeedInv'
  OBVIOUS
<1>1. ASSUME NEW d \in Channels, NEW length \in FrameLengths, Frame(d, length) PROVE FeedInv'
  BY <1>1, FrameStep
<1>2. CASE HandlerReadBuffer
  BY <1>2, HandlerReadStep
<1>3. CASE ReConnect
  BY <1>3, ReConnectStep
<1>4. CASE UNCHANGED feedVars
  BY <1>4 DEF feedVars, FeedInv, FeedThrough, FeedTypeOK
<1> QED
  BY <1>1, <1>2, <1>3, <1>4 DEF FeedNext

(* As long as connections end between two packets, the browsers have all   *)
(* packets that have come whole with the blocks read, in order and once.   *)
THEOREM FeedNothingWithheld == FeedSpec => []NothingWithheld
<1>1. ASSUME FeedInv PROVE NothingWithheld
  <2>1. SUFFICES ASSUME clean
                 PROVE  /\ Framed(decoder)
                        /\ \E k \in 0..Len(feed) :
                               /\ Held(decoder) \o wire = AllBytes(Skip(feed, k))
                               /\ \A v \in Audience : shown[v] = Published(v, SubSeq(feed, 1, k))
    BY DEF NothingWithheld
  <2>2. PICK done, left \in Seq(FeedPackets) : FeedThrough(done, left)
    BY <1>1, <2>1 DEF FeedInv
  <2> DEFINE k == Len(done)
  <2>3. k \in 0..Len(feed) /\ SubSeq(feed, 1, k) = done /\ Skip(feed, k) = left
    <3> DEFINE P == FeedPackets
    <3>1. feed = done \o left /\ done \in Seq(P) /\ left \in Seq(P)
      BY <2>2 DEF FeedThrough, Cat
    <3> HIDE DEF P
    <3> QED
      BY <3>1, JoinFacts
  <2> HIDE DEF k
  <2>4. Held(decoder) \o wire = AllBytes(left) /\ \A v \in Audience : shown[v] = Published(v, done)
    BY <2>2 DEF FeedThrough, InStep
  <2> QED
    BY <1>1, <2>1, <2>3, <2>4 DEF FeedInv
<1> QED
  BY <1>1, FeedInvInit, FeedInvStep, PTL DEF FeedSpec
=============================================================================
