------------------------ MODULE CarWebServer_proofs ------------------------
(***************************************************************************)
(* Proofs about CarWebServer: the topics are what viewers watch, nothing   *)
(* else is asked for, and the client always has a way back to a            *)
(* connection, for any number of devices and viewers, visits and failures. *)
(***************************************************************************)
EXTENDS CarWebServer, TLAPS

Errors == {"readError", "writeError"}
In(q, result) == \E i \in 1..Len(q) : q[i] = result
Waiting(result) == In(completions, result)

(* Behind the timer's completion only errors can be left, of earlier       *)
(* sockets, and there is one "connected" at most.                          *)
Ordered(q) ==
    \A i, j \in 1..Len(q) :
        /\ q[i] = "timer" /\ i < j => q[j] \in Errors
        /\ q[i] = "connected" /\ q[j] = "connected" => i = j

(* What the completions in the queue say of the link. *)
QueueInv ==
    /\ Ordered(completions)
    /\ Waiting("connectFailed") => socket = "closed"
    /\ Waiting("connected") => reads = 0 /\ socket # "connecting"
    /\ Waiting("timer") => timer = "queued"
    /\ socket = "connecting" => \A r \in Results \ Errors : ~Waiting(r)

(* What is under way for every state of the socket. *)
LinkInv ==
    /\ timer = "queued" => Waiting("timer")
    /\ timer # "idle" => socket = "closed"
    /\ socket = "closed" /\ timer = "idle" => Waiting("connectFailed")
    /\ socket \in {"connected", "cut"} =>
           reads = 1 \/ Waiting("connected") \/ Waiting("readError")
    /\ reads = 1 => socket \in {"connected", "cut"}

(* Requests exist only on the socket that carries them. *)
RequestInv ==
    /\ queued \subseteq topics
    /\ socket # "connecting" => queued = {} /\ named = {}
    /\ asked \subseteq topics \/ garbled
    /\ garbled => socket = "connected"
    /\ socket # "connected" => asked = {}

(* The inductive invariant. *)
IInv ==
    /\ TypeOK
    /\ TopicsAreWatched
    /\ QueueInv
    /\ LinkInv
    /\ RequestInv

-----------------------------------------------------------------------------
(* What posting a completion and handling one do to a queue.               *)

LEMMA AppendFacts ==
    ASSUME NEW q \in Seq(Results), NEW x \in Results
    PROVE  /\ Append(q, x) \in Seq(Results)
           /\ \A r : In(Append(q, x), r) <=> In(q, r) \/ r = x
           /\ /\ Ordered(q)
              /\ x = "connected" => ~In(q, "connected")
              /\ x \in Errors \/ ~In(q, "timer")
              => Ordered(Append(q, x))
<1> DEFINE p == Append(q, x)
<1>1. /\ p \in Seq(Results)
      /\ Len(q) \in Nat /\ Len(p) = Len(q) + 1
      /\ \A i \in 1..Len(q) : p[i] = q[i]
      /\ p[Len(q) + 1] = x
  OBVIOUS
<1> HIDE DEF p
<1>2. ASSUME NEW r PROVE In(p, r) <=> In(q, r) \/ r = x
  <2>1. In(p, r) => In(q, r) \/ r = x
    BY <1>1 DEF In
  <2>2. In(q, r) => In(p, r)
    BY <1>1 DEF In
  <2>3. In(p, x)
    BY <1>1 DEF In
  <2>4. QED
    BY <2>1, <2>2, <2>3
<1>3. /\ Ordered(q)
      /\ x = "connected" => ~In(q, "connected")
      /\ x \in Errors \/ ~In(q, "timer")
      => Ordered(p)
  BY <1>1 DEF Ordered, In, Errors
<1>4. QED
  BY <1>1, <1>2, <1>3 DEF p

LEMMA TailFacts ==
    ASSUME NEW q \in Seq(Results), q # <<>>
    PROVE  /\ Tail(q) \in Seq(Results)
           /\ In(q, Head(q))
           /\ \A r : In(Tail(q), r) => In(q, r)
           /\ \A r : In(q, r) => In(Tail(q), r) \/ r = Head(q)
           /\ Ordered(q) => Ordered(Tail(q))
           /\ Ordered(q) /\ Head(q) = "connected" => ~In(Tail(q), "connected")
           /\ Ordered(q) /\ Head(q) = "timer" => \A r : In(Tail(q), r) => r \in Errors
<1> DEFINE p == Tail(q)
<1>1. /\ p \in Seq(Results)
      /\ Len(q) \in Nat \ {0} /\ Len(p) = Len(q) - 1
      /\ \A i \in 1..Len(p) : p[i] = q[i + 1]
      /\ Head(q) = q[1]
  OBVIOUS
<1> HIDE DEF p
<1>2. In(q, Head(q))
  BY <1>1 DEF In
<1>3. ASSUME NEW r, In(p, r)
      PROVE  \E j \in 2..Len(q) : q[j] = r
  <2>1. PICK i \in 1..Len(p) : p[i] = r
    BY <1>3 DEF In
  <2>2. i + 1 \in 2..Len(q) /\ q[i + 1] = r
    BY <1>1, <2>1
  <2>3. QED
    BY <2>2
<1>4. ASSUME NEW r, In(p, r) PROVE In(q, r)
  BY <1>1, <1>3, <1>4 DEF In
<1>5. ASSUME NEW r, In(q, r) PROVE In(p, r) \/ r = Head(q)
  <2>1. PICK j \in 1..Len(q) : q[j] = r
    BY <1>5 DEF In
  <2>2. CASE j = 1
    BY <1>1, <2>1, <2>2
  <2>3. CASE j # 1
    <3>1. j - 1 \in 1..Len(p) /\ (j - 1) + 1 = j
      BY <1>1, <2>1, <2>3
    <3>2. p[j - 1] = r
      BY <1>1, <2>1, <3>1
    <3>3. QED
      BY <3>1, <3>2 DEF In
  <2>4. QED
    BY <2>2, <2>3
<1>6. ASSUME Ordered(q) PROVE Ordered(p)
  <2> SUFFICES ASSUME NEW i \in 1..Len(p), NEW j \in 1..Len(p)
               PROVE  /\ p[i] = "timer" /\ i < j => p[j] \in Errors
                      /\ p[i] = "connected" /\ p[j] = "connected" => i = j
    BY DEF Ordered
  <2>1. i + 1 \in 1..Len(q) /\ j + 1 \in 1..Len(q) /\ (i < j => i + 1 < j + 1)
        /\ (i + 1 = j + 1 => i = j)
    BY <1>1
  <2>2. p[i] = q[i + 1] /\ p[j] = q[j + 1]
    BY <1>1
  <2> DEFINE a == i + 1  b == j + 1
  <2>3. a \in 1..Len(q) /\ b \in 1..Len(q)
    BY <2>1
  <2>4. /\ q[a] = "timer" /\ a < b => q[b] \in Errors
        /\ q[a] = "connected" /\ q[b] = "connected" => a = b
    BY <1>6, <2>3 DEF Ordered
  <2>5. QED
    BY <2>1, <2>2, <2>4
<1>7. ASSUME Ordered(q), NEW r, In(p, r)
      PROVE  /\ Head(q) = "connected" => r # "connected"
             /\ Head(q) = "timer" => r \in Errors
  <2>1. PICK j \in 2..Len(q) : q[j] = r
    BY <1>3, <1>7
  <2>2. 1 \in 1..Len(q) /\ j \in 1..Len(q) /\ 1 < j
    BY <1>1
  <2>3. QED
    BY <1>1, <1>7, <2>1, <2>2 DEF Ordered
<1>8. QED
  BY <1>1, <1>2, <1>4, <1>5, <1>6, <1>7 DEF p

(* Close leaves the tail, with one more completion if something was under  *)
(* way on the socket.                                                      *)
LEMMA CloseFacts ==
    ASSUME IInv, Close, completions # <<>>
    PROVE  \/ completions' = Tail(completions) /\ socket # "connecting" /\ reads = 0
           \/ /\ completions' = Append(Tail(completions), "connectFailed")
              /\ socket = "connecting" /\ reads = 0
           \/ /\ completions' = Append(Tail(completions), "readError")
              /\ socket \in {"connected", "cut"}
<1>1. reads \in {0, 1} /\ (reads = 1 => socket \in {"connected", "cut"})
  BY DEF IInv, TypeOK, LinkInv
<1>2. CASE reads = 1
  <2>0. socket # "connecting" /\ reads > 0
    BY <1>1, <1>2
  <2>1. Aborted = <<>> \o <<"readError">>
    BY <2>0, Zenon DEF Aborted
  <2>2. Aborted = <<"readError">>
    BY <2>1
  <2>3. completions' = Tail(completions) \o <<"readError">>
    BY <2>2 DEF Close
  <2>4. completions' = Append(Tail(completions), "readError")
    BY <2>3 DEF IInv, TypeOK
  <2>5. QED
    BY <1>1, <1>2, <2>4
<1>3. CASE reads = 0 /\ socket = "connecting"
  <2>0. ~(reads > 0)
    BY <1>3
  <2>1. Aborted = <<"connectFailed">> \o <<>>
    BY <1>3, <2>0, Zenon DEF Aborted
  <2>2. Aborted = <<"connectFailed">>
    BY <2>1
  <2>3. completions' = Tail(completions) \o <<"connectFailed">>
    BY <2>2 DEF Close
  <2>4. completions' = Append(Tail(completions), "connectFailed")
    BY <2>3 DEF IInv, TypeOK
  <2>5. QED
    BY <1>3, <2>4
<1>4. CASE reads = 0 /\ socket # "connecting"
  <2>0. ~(reads > 0)
    BY <1>4
  <2>1. Aborted = <<>> \o <<>>
    BY <1>4, <2>0, Zenon DEF Aborted
  <2>2. completions' = Tail(completions) \o <<>>
    BY <2>1 DEF Close
  <2>3. Tail(completions) \in Seq(Results) \/ completions = <<>>
    BY DEF IInv, TypeOK
  <2>4. QED
    BY <1>4, <2>2, <2>3
<1>5. QED
  BY <1>1, <1>2, <1>3, <1>4
-----------------------------------------------------------------------------
LEMMA InitInv == Init => IInv
<1> SUFFICES ASSUME Init PROVE IInv
  OBVIOUS
<1>1. TypeOK
  <2>1. /\ subscribers \in [Viewers -> Devices \cup {NoDevice}]
        /\ members \in [Devices -> SUBSET Viewers]
    BY DEF Init
  <2>2. visits \in 0..MaxVisits /\ failures \in 0..MaxFailures /\ reads \in 0..1
    BY CarWebServerAssumption DEF Init
  <2>3. completions \in Seq(Results)
    BY DEF Init
  <2>4. garbled \in BOOLEAN
    BY DEF Init
  <2>5. QED
    BY <2>1, <2>2, <2>3, <2>4 DEF Init, TypeOK
<1>2. TopicsAreWatched
  <2>1. \A d \in Devices : members[d] = {} /\ \A v \in Viewers : subscribers[v] # d
    BY CarWebServerAssumption DEF Init
  <2>2. topics = {}
    BY DEF Init
  <2>3. QED
    BY <2>1, <2>2 DEF TopicsAreWatched
<1>3. Len(completions) = 0 /\ socket = "connecting" /\ timer = "idle"
  BY DEF Init
<1>4. QueueInv
  BY <1>3 DEF QueueInv, Ordered, Waiting, In
<1>5. LinkInv /\ RequestInv
  BY DEF Init, LinkInv, RequestInv
<1>6. QED
  BY <1>1, <1>2, <1>4, <1>5 DEF IInv

(* What viewers do: the queue may get one error of a write.                *)

LEMMA NotifyQueue ==
    ASSUME IInv, NEW add \in SUBSET Devices, NEW remove \in SUBSET Devices,
           Notify(add, remove), UNCHANGED <<socket, reads, timer, failures>>
    PROVE  completions' \in Seq(Results) /\ QueueInv' /\ LinkInv'
<1>1. \/ completions' = completions
      \/ /\ socket \in {"closed", "cut"}
         /\ completions' = Append(completions, "writeError")
  <2>1. CASE add \cup remove = {}
    BY <2>1 DEF Notify
  <2>2. CASE SendPacket(add, remove)
    BY <2>2 DEF SendPacket
  <2>3. QED
    BY <2>1, <2>2 DEF Notify
<1>2. CASE completions' = completions
  BY <1>2 DEF IInv, TypeOK, QueueInv, LinkInv, Waiting
<1>3. CASE socket \in {"closed", "cut"} /\ completions' = Append(completions, "writeError")
  <2>1. completions \in Seq(Results) /\ "writeError" \in Results /\ "writeError" \in Errors
    BY DEF IInv, TypeOK, Results, Errors
  <2>2. /\ completions' \in Seq(Results)
        /\ \A r : In(completions', r) <=> In(completions, r) \/ r = "writeError"
        /\ Ordered(completions) => Ordered(completions')
    BY <1>3, <2>1, AppendFacts
  <2>3. QueueInv'
    BY <1>3, <2>2 DEF IInv, QueueInv, Errors, Waiting
  <2>4. LinkInv'
    BY <1>3, <2>2 DEF IInv, LinkInv, Waiting
  <2>5. QED
    BY <2>2, <2>3, <2>4
<1>4. QED
  BY <1>1, <1>2, <1>3

LEMMA NotifyRequests ==
    ASSUME IInv, NEW add \in SUBSET Devices, NEW remove \in SUBSET Devices,
           Notify(add, remove), socket' = socket,
           topics' = (topics \cup add) \ remove
    PROVE  /\ queued' \subseteq Devices /\ named' \subseteq Devices /\ asked' \subseteq Devices
           /\ garbled' \in BOOLEAN
           /\ RequestInv'
<1>1. CASE add \cup remove = {}
  BY <1>1 DEF IInv, TypeOK, Notify, RequestInv, requestVars
<1>2. CASE SendPacket(add, remove)
  <2>1. queued' \subseteq Devices /\ named' \subseteq Devices /\ asked' \subseteq Devices
    BY <1>2 DEF IInv, TypeOK, SendPacket, requestVars
  <2>2. garbled' = garbled
    BY <1>2 DEF SendPacket, requestVars
  <2>3. RequestInv'
    BY <1>2, <2>2 DEF IInv, RequestInv, SendPacket, requestVars
  <2>4. QED
    BY <2>1, <2>2, <2>3 DEF IInv, TypeOK
<1>3. QED
  BY <1>1, <1>2 DEF Notify

LEMMA OnOpenInv == ASSUME NEW v \in Viewers, NEW d \in Devices PROVE IInv /\ OnOpen(v, d) => IInv'
<1> SUFFICES ASSUME IInv, OnOpen(v, d) PROVE IInv'
  OBVIOUS
<1>1. Notify({d} \ topics, {}) /\ UNCHANGED <<socket, reads, timer, failures>>
  BY DEF OnOpen, GetTopic, Visit
<1>2. completions' \in Seq(Results) /\ QueueInv' /\ LinkInv'
  BY <1>1, NotifyQueue
<1>3. topics' = (topics \cup ({d} \ topics)) \ {}
  BY DEF OnOpen, GetTopic
<1>4. /\ queued' \subseteq Devices /\ named' \subseteq Devices /\ asked' \subseteq Devices
      /\ garbled' \in BOOLEAN
      /\ RequestInv'
  BY <1>1, <1>3, NotifyRequests
<1>5. TypeOK'
  BY <1>1, <1>2, <1>4, CarWebServerAssumption DEF IInv, TypeOK, OnOpen, GetTopic, Visit
<1>6. TopicsAreWatched'
  BY CarWebServerAssumption DEF IInv, TypeOK, TopicsAreWatched, OnOpen, GetTopic
<1>7. QED
  BY <1>2, <1>4, <1>5, <1>6 DEF IInv

LEMMA OnCloseInv == ASSUME NEW v \in Viewers PROVE IInv /\ OnClose(v) => IInv'
<1> SUFFICES ASSUME IInv, OnClose(v) PROVE IInv'
  OBVIOUS
<1>1. Notify({}, EmptyTopics(v)) /\ UNCHANGED <<socket, reads, timer, failures>>
  BY DEF OnClose, RemoveSubscriber, Visit
<1>2. EmptyTopics(v) \in SUBSET Devices
  BY DEF IInv, TypeOK, EmptyTopics
<1>3. completions' \in Seq(Results) /\ QueueInv' /\ LinkInv'
  BY <1>1, <1>2, NotifyQueue
<1>4. topics' = (topics \cup {}) \ EmptyTopics(v)
  BY DEF OnClose, RemoveSubscriber
<1>5. /\ queued' \subseteq Devices /\ named' \subseteq Devices /\ asked' \subseteq Devices
      /\ garbled' \in BOOLEAN
      /\ RequestInv'
  BY <1>1, <1>2, <1>4, NotifyRequests
<1>6. TypeOK'
  BY <1>1, <1>3, <1>5, CarWebServerAssumption DEF IInv, TypeOK, OnClose, RemoveSubscriber, Visit
<1>7. TopicsAreWatched'
  <2>1. \A d \in Devices : members'[d] = {u \in Viewers : subscribers'[u] = d}
    BY CarWebServerAssumption DEF IInv, TypeOK, TopicsAreWatched, OnClose, RemoveSubscriber
  <2>2. topics' = {d \in Devices : members'[d] # {}}
    BY DEF IInv, TypeOK, TopicsAreWatched, OnClose, RemoveSubscriber, EmptyTopics
  <2>3. QED
    BY <2>1, <2>2 DEF TopicsAreWatched
<1>8. QED
  BY <1>3, <1>5, <1>6, <1>7 DEF IInv

-----------------------------------------------------------------------------
(* The handlers.                                                           *)

(* Closing forgets the requests of the socket. *)
LEMMA CloseRequests ==
    ASSUME IInv, Close, topics' = topics
    PROVE  /\ queued' \subseteq Devices /\ named' \subseteq Devices /\ asked' \subseteq Devices
           /\ garbled' \in BOOLEAN
           /\ RequestInv'
BY DEF Close, RequestInv

LEMMA HandlerConnectInv == IInv /\ HandlerConnect => IInv'
<1> SUFFICES ASSUME IInv, HandlerConnect PROVE IInv'
  OBVIOUS
<1> DEFINE rest == Tail(completions)
<1> DEFINE head == Head(completions)
<1>1. completions # <<>> /\ UNCHANGED <<viewerVars, failures, socket, requestVars>>
  BY DEF HandlerConnect, Completed
<1>2. /\ rest \in Seq(Results)
      /\ In(completions, head)
      /\ \A r : In(rest, r) => In(completions, r)
      /\ \A r : In(completions, r) => In(rest, r) \/ r = head
      /\ Ordered(rest)
      /\ head = "connected" => ~In(rest, "connected")
  BY <1>1, TailFacts DEF IInv, TypeOK, QueueInv
<1>3. TopicsAreWatched' /\ RequestInv'
  BY <1>1 DEF IInv, TopicsAreWatched, RequestInv, viewerVars, requestVars
<1>4. CASE /\ head = "connected" /\ socket # "closed"
           /\ reads' = reads + 1 /\ completions' = rest /\ timer' = timer
  <2>1. reads = 0 /\ socket \in {"connected", "cut"} /\ timer = "idle"
    BY <1>2, <1>4 DEF IInv, TypeOK, QueueInv, LinkInv, Waiting
  <2> HIDE DEF rest, head
  <2>2. TypeOK'
    BY <1>1, <1>2, <1>4, <2>1 DEF IInv, TypeOK, viewerVars, requestVars
  <2>3. QueueInv'
    BY <1>1, <1>2, <1>4, <2>1 DEF IInv, QueueInv, Waiting
  <2>4. LinkInv'
    BY <1>1, <1>4, <2>1 DEF LinkInv
  <2>5. QED
    BY <1>3, <2>2, <2>3, <2>4 DEF IInv
<1>5. CASE /\ head = "connected" /\ socket = "closed"
           /\ completions' = Append(rest, "readError") /\ UNCHANGED <<timer, reads>>
  <2> HIDE DEF rest, head
  <2>1. "readError" \in Results /\ "readError" \in Errors
    BY DEF Results, Errors
  <2>2. /\ completions' \in Seq(Results)
        /\ \A r : In(completions', r) <=> In(rest, r) \/ r = "readError"
        /\ Ordered(completions')
    BY <1>2, <1>5, <2>1, AppendFacts
  <2>3. TypeOK'
    BY <1>1, <1>5, <2>2 DEF IInv, TypeOK, viewerVars, requestVars
  <2>4. QueueInv'
    BY <1>1, <1>2, <1>5, <2>2 DEF IInv, QueueInv, Waiting
  <2>5. LinkInv'
    BY <1>1, <1>2, <1>5, <2>2 DEF IInv, LinkInv, Waiting
  <2>6. QED
    BY <1>3, <2>3, <2>4, <2>5 DEF IInv
<1>6. CASE /\ head = "connectFailed"
           /\ StartTimer /\ completions' = rest /\ reads' = reads
  <2> HIDE DEF rest, head
  <2>1. socket = "closed"
    BY <1>2, <1>6 DEF IInv, QueueInv, Waiting
  <2>2. /\ timer' \in {"armed", "queued"}
        /\ timer' = "queued" <=> timer = "queued"
    BY <1>6 DEF StartTimer, IInv, TypeOK
  <2>3. TypeOK'
    BY <1>1, <1>2, <1>6, <2>2 DEF IInv, TypeOK, viewerVars, requestVars
  <2>4. QueueInv'
    BY <1>1, <1>2, <1>6, <2>1, <2>2 DEF IInv, QueueInv, Waiting
  <2>5. LinkInv'
    BY <1>1, <1>2, <1>6, <2>1, <2>2 DEF IInv, TypeOK, LinkInv, Waiting
  <2>6. QED
    BY <1>3, <2>3, <2>4, <2>5 DEF IInv
<1>7. QED
  BY <1>4, <1>5, <1>6 DEF HandlerConnect, Completed

LEMMA HandlerErrorInv == IInv /\ HandlerError => IInv'
<1> SUFFICES ASSUME IInv, HandlerError PROVE IInv'
  OBVIOUS
<1> DEFINE rest == Tail(completions)
<1> DEFINE head == Head(completions)
<1>1. /\ completions # <<>> /\ head \in Errors
      /\ UNCHANGED <<viewerVars, failures>>
      /\ Close /\ StartTimer /\ socket' = "closed" /\ reads' = 0
  BY DEF HandlerError, Completed, Errors, Close
<1>2. /\ rest \in Seq(Results)
      /\ \A r : In(rest, r) => In(completions, r)
      /\ \A r : In(completions, r) => In(rest, r) \/ r = head
      /\ Ordered(rest)
  BY <1>1, TailFacts DEF IInv, TypeOK, QueueInv
<1>3. topics' = topics /\ TopicsAreWatched'
  BY <1>1 DEF IInv, TopicsAreWatched, viewerVars
<1>4. /\ queued' \subseteq Devices /\ named' \subseteq Devices /\ asked' \subseteq Devices
      /\ garbled' \in BOOLEAN
      /\ RequestInv'
  BY <1>1, <1>3, CloseRequests
<1>5. /\ timer' \in {"armed", "queued"}
      /\ timer' = "queued" <=> timer = "queued"
  BY <1>1 DEF StartTimer, IInv, TypeOK
<1> HIDE DEF rest, head
<1>6. /\ completions' \in Seq(Results) /\ Ordered(completions')
      /\ \A r : In(rest, r) => In(completions', r)
      /\ \A r : In(completions', r) => In(rest, r) \/ r \in {"connectFailed", "readError"}
  <2>1. CASE completions' = rest
    BY <1>2, <2>1
  <2>2. CASE completions' = Append(rest, "connectFailed") /\ socket = "connecting"
    <3>1. ~In(rest, "timer") /\ "connectFailed" \in Results
      BY <1>2, <2>2 DEF IInv, QueueInv, Waiting, Results, Errors
    <3>2. QED
      BY <1>2, <2>2, <3>1, AppendFacts
  <2>3. CASE completions' = Append(rest, "readError")
    <3>1. "readError" \in Errors /\ "readError" \in Results
      BY DEF Results, Errors
    <3>2. QED
      BY <1>2, <2>3, <3>1, AppendFacts
  <2>4. QED
    BY <1>1, <2>1, <2>2, <2>3, CloseFacts DEF rest
<1>7. TypeOK'
  BY <1>1, <1>4, <1>5, <1>6 DEF IInv, TypeOK, viewerVars
<1>8. QueueInv'
  BY <1>1, <1>2, <1>5, <1>6 DEF IInv, QueueInv, Waiting
<1>9. LinkInv'
  BY <1>1, <1>2, <1>5, <1>6 DEF IInv, LinkInv, Waiting, Errors
<1>10. QED
  BY <1>3, <1>4, <1>7, <1>8, <1>9 DEF IInv

LEMMA OnTimerInv == IInv /\ OnTimerReconnectJt1078Server => IInv'
<1> SUFFICES ASSUME IInv, OnTimerReconnectJt1078Server PROVE IInv'
  OBVIOUS
<1> DEFINE rest == Tail(completions)
<1>1. /\ completions # <<>> /\ Head(completions) = "timer"
      /\ UNCHANGED <<viewerVars, failures>>
      /\ Close /\ socket' = "connecting" /\ timer' = "idle" /\ reads' = 0
  BY DEF OnTimerReconnectJt1078Server, Completed, Close
<1>2. /\ rest \in Seq(Results)
      /\ In(completions, "timer")
      /\ Ordered(rest)
      /\ \A r : In(rest, r) => r \in Errors
  BY <1>1, TailFacts DEF IInv, TypeOK, QueueInv
<1>3. socket = "closed" /\ reads = 0
  BY <1>2 DEF IInv, TypeOK, QueueInv, LinkInv, Waiting
<1>4. completions' = rest
  BY <1>1, <1>3, CloseFacts
<1>5. topics' = topics /\ TopicsAreWatched'
  BY <1>1 DEF IInv, TopicsAreWatched, viewerVars
<1>6. /\ queued' \subseteq Devices /\ named' \subseteq Devices /\ asked' \subseteq Devices
      /\ garbled' \in BOOLEAN
      /\ RequestInv'
  BY <1>1, <1>5, CloseRequests
<1> HIDE DEF rest
<1>7. TypeOK'
  BY <1>1, <1>2, <1>4, <1>6 DEF IInv, TypeOK, viewerVars
<1>8. QueueInv'
  BY <1>1, <1>2, <1>4 DEF QueueInv, Waiting, Errors
<1>9. LinkInv'
  BY <1>1 DEF LinkInv
<1>10. QED
  BY <1>5, <1>6, <1>7, <1>8, <1>9 DEF IInv

-----------------------------------------------------------------------------
(* The network and the clock.                                              *)

LEMMA ConnectCompletesInv == IInv /\ ConnectCompletes => IInv'
<1> SUFFICES ASSUME IInv, ConnectCompletes PROVE IInv'
  OBVIOUS
<1>1. /\ socket = "connecting" /\ socket' \in {"connected", "cut"}
      /\ completions' = Append(completions, "connected")
      /\ queued' = {} /\ named' = {}
      /\ UNCHANGED <<viewerVars, reads, timer>>
  BY DEF ConnectCompletes, Post
<1>2. reads = 0 /\ timer = "idle" /\ ~In(completions, "connected") /\ ~In(completions, "timer")
      /\ ~In(completions, "connectFailed")
  BY <1>1 DEF IInv, TypeOK, QueueInv, LinkInv, Waiting, Results, Errors
<1>3. /\ completions' \in Seq(Results)
      /\ \A r : In(completions', r) <=> In(completions, r) \/ r = "connected"
      /\ Ordered(completions')
  <2>1. "connected" \in Results /\ completions \in Seq(Results) /\ Ordered(completions)
    BY DEF IInv, TypeOK, QueueInv, Results
  <2>2. QED
    BY <1>1, <1>2, <2>1, AppendFacts
<1>4. TopicsAreWatched'
  BY <1>1 DEF IInv, TopicsAreWatched, viewerVars
<1>5. failures' \in 0..MaxFailures
  BY CarWebServerAssumption DEF IInv, TypeOK, ConnectCompletes, Failure
<1>6. /\ asked' \subseteq Devices /\ garbled' \in BOOLEAN
      /\ asked' \subseteq topics \/ garbled'
      /\ garbled' => socket' = "connected"
      /\ socket' # "connected" => asked' = {}
  <2>1. ~garbled /\ garbled \in BOOLEAN /\ asked = {} /\ queued \subseteq topics /\ topics \subseteq Devices
        /\ queued \subseteq Devices /\ named \subseteq Devices
    BY <1>1 DEF IInv, TypeOK, RequestInv
  <2>2. CASE asked' = queued /\ UNCHANGED <<garbled, failures>> /\ socket' = "connected"
    BY <2>1, <2>2
  <2>3. CASE asked' \in SUBSET named /\ garbled' = TRUE /\ socket' = "connected"
    BY <2>1, <2>3
  <2>4. CASE socket' = "cut" /\ UNCHANGED <<asked, garbled>>
    BY <2>1, <2>4
  <2>5. QED
    BY <2>2, <2>3, <2>4 DEF ConnectCompletes
<1>7. TypeOK'
  BY <1>1, <1>3, <1>5, <1>6 DEF IInv, TypeOK, viewerVars
<1>8. QueueInv' /\ LinkInv'
  BY <1>1, <1>2, <1>3 DEF QueueInv, LinkInv, Waiting
<1>9. RequestInv'
  BY <1>1, <1>6 DEF RequestInv, viewerVars
<1>10. QED
  BY <1>4, <1>7, <1>8, <1>9 DEF IInv

LEMMA ConnectFailsInv == IInv /\ ConnectFails => IInv'
<1> SUFFICES ASSUME IInv, ConnectFails PROVE IInv'
  OBVIOUS
<1>1. /\ socket = "connecting" /\ socket' = "closed"
      /\ completions' = Append(completions, "connectFailed")
      /\ queued' = {} /\ named' = {}
      /\ UNCHANGED <<viewerVars, reads, timer, asked, garbled>>
  BY DEF ConnectFails, Post
<1>2. timer = "idle" /\ ~In(completions, "connected") /\ ~In(completions, "timer")
  BY <1>1 DEF IInv, TypeOK, QueueInv, LinkInv, Waiting, Results, Errors
<1>3. /\ completions' \in Seq(Results)
      /\ \A r : In(completions', r) <=> In(completions, r) \/ r = "connectFailed"
      /\ Ordered(completions')
  <2>1. "connectFailed" \in Results /\ completions \in Seq(Results) /\ Ordered(completions)
    BY DEF IInv, TypeOK, QueueInv, Results
  <2>2. QED
    BY <1>1, <1>2, <2>1, AppendFacts
<1>4. TopicsAreWatched' /\ RequestInv'
  BY <1>1 DEF IInv, TopicsAreWatched, RequestInv, viewerVars
<1>5. failures' \in 0..MaxFailures
  BY CarWebServerAssumption DEF IInv, TypeOK, ConnectFails, Failure
<1>6. TypeOK'
  BY <1>1, <1>3, <1>5 DEF IInv, TypeOK, viewerVars
<1>7. QueueInv' /\ LinkInv'
  BY <1>1, <1>2, <1>3 DEF IInv, QueueInv, LinkInv, Waiting
<1>8. QED
  BY <1>4, <1>6, <1>7 DEF IInv

LEMMA ConnectionBreaksInv == IInv /\ ConnectionBreaks => IInv'
<1> SUFFICES ASSUME IInv, ConnectionBreaks PROVE IInv'
  OBVIOUS
<1>1. /\ socket = "connected" /\ socket' = "cut"
      /\ asked' = {} /\ garbled' = FALSE
      /\ UNCHANGED <<viewerVars, reads, timer, completions, queued, named>>
  BY DEF ConnectionBreaks
<1>2. failures' \in 0..MaxFailures
  BY CarWebServerAssumption DEF IInv, TypeOK, ConnectionBreaks, Failure
<1>3. TypeOK' /\ TopicsAreWatched'
  BY <1>1, <1>2 DEF IInv, TypeOK, TopicsAreWatched, viewerVars
<1>4. QueueInv' /\ LinkInv' /\ RequestInv'
  BY <1>1 DEF IInv, QueueInv, LinkInv, RequestInv, Waiting, viewerVars
<1>5. QED
  BY <1>3, <1>4 DEF IInv

LEMMA ReadFailsInv == IInv /\ ReadFails => IInv'
<1> SUFFICES ASSUME IInv, ReadFails PROVE IInv'
  OBVIOUS
<1>1. /\ socket = "cut" /\ reads' = 0
      /\ completions' = Append(completions, "readError")
      /\ UNCHANGED <<viewerVars, requestVars, socket, timer, failures>>
  BY DEF ReadFails, Post
<1>2. /\ completions' \in Seq(Results)
      /\ \A r : In(completions', r) <=> In(completions, r) \/ r = "readError"
      /\ Ordered(completions')
  <2>1. /\ "readError" \in Results /\ "readError" \in Errors
        /\ completions \in Seq(Results) /\ Ordered(completions)
    BY DEF IInv, TypeOK, QueueInv, Results, Errors
  <2>2. QED
    BY <1>1, <2>1, AppendFacts
<1>3. TopicsAreWatched' /\ RequestInv'
  BY <1>1 DEF IInv, TopicsAreWatched, RequestInv, viewerVars, requestVars
<1>4. TypeOK'
  BY <1>1, <1>2 DEF IInv, TypeOK, viewerVars, requestVars
<1>5. QueueInv' /\ LinkInv'
  BY <1>1, <1>2 DEF IInv, QueueInv, LinkInv, Waiting
<1>6. QED
  BY <1>3, <1>4, <1>5 DEF IInv

LEMMA TimerExpiresInv == IInv /\ TimerExpires => IInv'
<1> SUFFICES ASSUME IInv, TimerExpires PROVE IInv'
  OBVIOUS
<1>1. /\ timer = "armed" /\ timer' = "queued"
      /\ completions' = Append(completions, "timer")
      /\ UNCHANGED <<viewerVars, requestVars, socket, reads, failures>>
  BY DEF TimerExpires, Post
<1>2. socket = "closed" /\ ~In(completions, "timer")
  BY <1>1 DEF IInv, QueueInv, LinkInv, Waiting
<1>3. /\ completions' \in Seq(Results)
      /\ \A r : In(completions', r) <=> In(completions, r) \/ r = "timer"
      /\ Ordered(completions')
  <2>1. "timer" \in Results /\ completions \in Seq(Results) /\ Ordered(completions)
    BY DEF IInv, TypeOK, QueueInv, Results
  <2>2. QED
    BY <1>1, <1>2, <2>1, AppendFacts
<1>4. TopicsAreWatched' /\ RequestInv'
  BY <1>1 DEF IInv, TopicsAreWatched, RequestInv, viewerVars, requestVars
<1>5. TypeOK'
  BY <1>1, <1>3 DEF IInv, TypeOK, viewerVars, requestVars
<1>6. QueueInv' /\ LinkInv'
  BY <1>1, <1>2, <1>3 DEF IInv, QueueInv, LinkInv, Waiting
<1>7. QED
  BY <1>4, <1>5, <1>6 DEF IInv

-----------------------------------------------------------------------------
LEMMA NextInv == IInv /\ [Next]_vars => IInv'
<1> SUFFICES ASSUME IInv, [Next]_vars PROVE IInv'
  OBVIOUS
<1>1. CASE Next
  BY <1>1, OnOpenInv, OnCloseInv, HandlerConnectInv, HandlerErrorInv, OnTimerInv,
     ConnectCompletesInv, ConnectFailsInv, ConnectionBreaksInv, ReadFailsInv, TimerExpiresInv
     DEF Next, Handlers
<1>2. CASE UNCHANGED vars
  <2>1. TypeOK' /\ TopicsAreWatched'
    BY <1>2 DEF IInv, TypeOK, TopicsAreWatched, vars, viewerVars, requestVars, linkVars
  <2>2. QueueInv' /\ LinkInv' /\ RequestInv'
    BY <1>2 DEF IInv, QueueInv, LinkInv, RequestInv, Waiting, vars, viewerVars, requestVars, linkVars
  <2>3. QED
    BY <2>1, <2>2 DEF IInv
<1>3. QED
  BY <1>1, <1>2

(* The inductive invariant holds of every behaviour. *)
THEOREM Invariance == Spec => []IInv
BY InitInv, NextInv, PTL DEF Spec

(* Every variable keeps its type: m_hdls, m_subscribers and the queue of   *)
(* completions, with one read outstanding at most.                         *)
THEOREM TypeCorrect == Spec => []TypeOK
<1>1. IInv => TypeOK
  BY DEF IInv
<1>2. QED
  BY <1>1, Invariance, PTL

(* CarTopicManager: a topic is there exactly while a viewer watches it.    *)
THEOREM TopicsWatched == Spec => []TopicsAreWatched
<1>1. IInv => TopicsAreWatched
  BY DEF IInv
<1>2. QED
  BY <1>1, Invariance, PTL

(* CarWebSocketServer and CarTcpClient ask jt1078_server for nothing that  *)
(* no viewer watches, unless a request was garbled.                        *)
THEOREM NothingElseAsked == Spec => []AskedIsWatched
<1>1. IInv => AskedIsWatched
  BY DEF IInv, RequestInv, AskedIsWatched
<1>2. QED
  BY <1>1, Invariance, PTL

(* TcpClient: whatever completes in whatever order, the client has a       *)
(* connection it reads, an attempt, a timer, or a completion to handle.    *)
THEOREM ClientNeverStuck == Spec => []NeverStuck
<1>1. ASSUME IInv PROVE NeverStuck
  <2>1. \A r : In(completions, r) => completions # <<>>
    <3>1. ASSUME NEW r, In(completions, r), completions = <<>> PROVE FALSE
      <4>1. Len(completions) = 0
        BY <3>1
      <4>2. QED
        BY <3>1, <4>1 DEF In
    <3>2. QED
      BY <3>1
  <2>2. QED
    BY <1>1, <2>1 DEF IInv, TypeOK, LinkInv, NeverStuck, Waiting
<1>2. QED
  BY <1>1, Invariance, PTL

(* OnTimerReconnectJt1078Server never closes a connection that is alive.   *)
THEOREM TimerSparesLiveConnection == Spec => []TimerSparesConnection
<1>1. IInv => TimerSparesConnection
  BY DEF IInv, LinkInv, TimerSparesConnection
<1>2. QED
  BY <1>1, Invariance, PTL
=============================================================================
