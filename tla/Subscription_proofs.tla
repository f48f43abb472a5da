------------------------ MODULE Subscription_proofs ------------------------
(***************************************************************************)
(* Proofs about PcServer, for any number of viewers and devices, and about *)
(* Subscription, for any number of cars and connections as well: pc_server *)
(* and jt1078_server agree about what is asked for.                        *)
(***************************************************************************)
EXTENDS Subscription, SequenceTheorems, FiniteSetTheorems, TLAPS

(* Sessions that were given up writing to are broken, and only registered  *)
(* sessions have a device. *)
UnwritableIsBroken == sessions \ canWrite \subseteq broken
DeviceOfSession == \A v \in Viewers : device[v] # NoDevice => v \in sessions

(* A connection that does not work has nothing asked for on it. *)
AskedNeedsConnection == client # "connected" => asked = {}

(* After a crash nothing of the process is left. *)
CrashedIsEmpty == crashed => sessions = {} /\ client = "none"

(* The inductive invariant: WatchedIsAsked and AskedIsWatched say that     *)
(* asked is the set of watched devices but for the devices of broken       *)
(* watchers; the bookkeeping facts tell which session such a device        *)
(* belongs to.                                                             *)
IInv ==
    /\ TypeOK
    /\ UnwritableIsBroken
    /\ DeviceOfSession
    /\ AskedNeedsConnection
    /\ CrashedIsEmpty
    /\ OneDevicePerSession
    /\ HealthyWatches
    /\ WatchedIsAsked
    /\ AskedIsWatched
    /\ NullClientHasTimer

-----------------------------------------------------------------------------
(* An empty process satisfies the invariant in each state of its client. *)
LEMMA InitInv == Init => IInv
BY NoDeviceAssumption
   DEF Init, IInv, TypeOK, UnwritableIsBroken, DeviceOfSession,
       AskedNeedsConnection, CrashedIsEmpty, OneDevicePerSession,
       HealthyWatches, WatchedIsAsked, WatchedDevices, AskedIsWatched,
       NullClientHasTimer, ClientStates

(* A viewer's leaving its device: what DelSubscriber and the withdrawal    *)
(* that follows it leave behind.                                           *)
LEMMA LeaveLemma ==
    ASSUME IInv, NEW v \in Viewers
    PROVE  /\ WatchersWithout(v) \in [Devices -> SUBSET Viewers]
           /\ \A d \in Devices : WatchersWithout(v)[d] = watchers[d] \ {v}
           /\ Abandoned(v) \subseteq Devices
           /\ \A d \in Abandoned(v) : d = device[v] /\ WatchersWithout(v)[d] = {}
           /\ \A d \in Devices : d = device[v] /\ d \notin Abandoned(v)
                                    => watchers[d] \ {v} # {}
<1>1. /\ WatchersWithout(v) \in [Devices -> SUBSET Viewers]
      /\ \A d \in Devices : WatchersWithout(v)[d] = watchers[d] \ {v}
  BY DEF WatchersWithout, IInv, TypeOK, OneDevicePerSession
<1>2. QED
  BY <1>1 DEF Abandoned

-----------------------------------------------------------------------------
(* Every step preserves the invariant: one step per action. *)
LEMMA NextInv == IInv /\ [Next]_vars => IInv'
<1> SUFFICES ASSUME IInv, [Next]_vars
             PROVE  IInv'
  OBVIOUS
<1> USE NoDeviceAssumption DEF IInv, viewerVars, linkVars
<1>1. CASE ConnectCompletes
  BY <1>1 DEF ConnectCompletes, OnClientConnect, TypeOK, UnwritableIsBroken,
       DeviceOfSession, AskedNeedsConnection, CrashedIsEmpty,
       OneDevicePerSession, HealthyWatches, WatchedIsAsked, WatchedDevices,
       AskedIsWatched, NullClientHasTimer, ClientStates
<1>2. CASE OnClientError
  BY <1>2 DEF OnClientError, TypeOK, UnwritableIsBroken,
       DeviceOfSession, AskedNeedsConnection, CrashedIsEmpty,
       OneDevicePerSession, HealthyWatches, WatchedIsAsked, WatchedDevices,
       AskedIsWatched, NullClientHasTimer, ClientStates
<1>3. CASE OnConnectTimer
  BY <1>3 DEF OnConnectTimer, OnClientConnect, TypeOK, UnwritableIsBroken,
       DeviceOfSession, AskedNeedsConnection, CrashedIsEmpty,
       OneDevicePerSession, HealthyWatches, WatchedIsAsked, WatchedDevices,
       AskedIsWatched, NullClientHasTimer, ClientStates
<1>4. CASE Restart
  BY <1>4 DEF Restart, TypeOK, UnwritableIsBroken,
       DeviceOfSession, AskedNeedsConnection, CrashedIsEmpty,
       OneDevicePerSession, HealthyWatches, WatchedIsAsked, WatchedDevices,
       AskedIsWatched, NullClientHasTimer, ClientStates
<1>5. ASSUME NEW d \in Devices, OnClientMessage(d)
      PROVE  IInv'
  <2>1. PICK failing \in SUBSET (watchers[d] \cap canWrite \cap broken) :
               /\ canWrite' = canWrite \ failing
               /\ watchers' = [watchers EXCEPT ![d] = @ \cap canWrite']
    BY <1>5 DEF OnClientMessage
  <2>2. client = "connected" /\ ~crashed
        /\ UNCHANGED <<sessions, broken, device, client, timer, asked, crashed>>
    BY <1>5 DEF OnClientMessage
  <2>3. TypeOK' /\ UnwritableIsBroken' /\ DeviceOfSession'
    BY <2>1, <2>2 DEF TypeOK, UnwritableIsBroken, DeviceOfSession, ClientStates
  <2>4. AskedNeedsConnection' /\ CrashedIsEmpty' /\ NullClientHasTimer'
    BY <2>2 DEF AskedNeedsConnection, CrashedIsEmpty, NullClientHasTimer
  <2>5. OneDevicePerSession' /\ HealthyWatches'
    BY <2>1, <2>2 DEF TypeOK, OneDevicePerSession, HealthyWatches
  <2>6. WatchedIsAsked'
    BY <2>1, <2>2 DEF TypeOK, WatchedIsAsked, WatchedDevices
  <2>7. AskedIsWatched'
    <3> SUFFICES ASSUME NEW e \in asked, watchers'[e] = {}
                 PROVE  \E v \in sessions : device[v] = e /\ v \notin canWrite' /\ v \in broken
      BY <2>2 DEF AskedIsWatched
    <3>1. CASE watchers[e] = {}
      BY <3>1, <2>1, <2>2 DEF AskedIsWatched
    <3>2. CASE watchers[e] # {}
      <4>1. PICK v \in watchers[e] : TRUE
        BY <3>2
      <4>2. e = d /\ e \in Devices /\ v \notin canWrite'
        BY <4>1, <2>1 DEF TypeOK
      <4>3. v \in sessions /\ device[v] = e
        BY <4>1, <4>2 DEF OneDevicePerSession
      <4>4. v \in broken
        BY <4>2, <4>3, <2>1, <2>2, <2>3 DEF UnwritableIsBroken
      <4>5. QED
        BY <4>2, <4>3, <4>4
    <3>3. QED
      BY <3>1, <3>2
  <2>8. QED
    BY <2>3, <2>4, <2>5, <2>6, <2>7
<1>6. ASSUME NEW v \in Viewers, OnNewConnection(v)
      PROVE  IInv'
  BY <1>6 DEF OnNewConnection, TypeOK, UnwritableIsBroken,
       DeviceOfSession, AskedNeedsConnection, CrashedIsEmpty,
       OneDevicePerSession, HealthyWatches, WatchedIsAsked, WatchedDevices,
       AskedIsWatched, NullClientHasTimer, ClientStates
<1>7. ASSUME NEW v \in Viewers, ConnectionBreaks(v)
      PROVE  IInv'
  BY <1>7 DEF ConnectionBreaks, TypeOK, UnwritableIsBroken,
       DeviceOfSession, AskedNeedsConnection, CrashedIsEmpty,
       OneDevicePerSession, HealthyWatches, WatchedIsAsked, WatchedDevices,
       AskedIsWatched, NullClientHasTimer, ClientStates
<1>8. ASSUME NEW v \in Viewers, OnUnSubscribe(v)
      PROVE  IInv'
  <2>1. /\ v \in sessions /\ ~crashed
        /\ UNCHANGED <<sessions, canWrite, broken, client, timer, crashed>>
    BY <1>8 DEF OnUnSubscribe, TypeOK
  <2>2. CASE client # "connected"
    <3>1. UNCHANGED <<watchers, asked, device>>
      BY <2>2, <1>8 DEF OnUnSubscribe
    <3>2. QED
      BY <2>1, <3>1 DEF TypeOK, UnwritableIsBroken, DeviceOfSession,
           AskedNeedsConnection, CrashedIsEmpty, OneDevicePerSession,
           HealthyWatches, WatchedIsAsked, WatchedDevices, AskedIsWatched,
           NullClientHasTimer, ClientStates
  <2>3. CASE client = "connected"
    <3>1. /\ watchers' = WatchersWithout(v)
          /\ asked' = asked \ Abandoned(v)
          /\ device' = [device EXCEPT ![v] = NoDevice]
      BY <2>3, <1>8 DEF OnUnSubscribe, UnSubscribeDeviceId
    <3>2. TypeOK' /\ UnwritableIsBroken' /\ DeviceOfSession'
      BY <2>1, <3>1, LeaveLemma DEF TypeOK, UnwritableIsBroken, DeviceOfSession
    <3>3. AskedNeedsConnection' /\ CrashedIsEmpty' /\ NullClientHasTimer'
      BY <2>1, <2>3 DEF AskedNeedsConnection, CrashedIsEmpty, NullClientHasTimer
    <3>4. OneDevicePerSession' /\ HealthyWatches'
      BY <2>1, <3>1, LeaveLemma DEF TypeOK, OneDevicePerSession, HealthyWatches
    <3>5. WatchedIsAsked'
      BY <2>1, <2>3, <3>1, LeaveLemma DEF WatchedIsAsked, WatchedDevices
    <3>6. AskedIsWatched'
      <4> SUFFICES ASSUME NEW e \in asked', watchers'[e] = {}
                   PROVE  \E u \in sessions : /\ device'[u] = e
                                               /\ u \notin canWrite /\ u \in broken
        BY <2>1 DEF AskedIsWatched
      <4>1. e \in asked /\ e \in Devices /\ e \notin Abandoned(v)
        BY <3>1 DEF TypeOK
      <4>2. watchers[e] \ {v} = {}
        BY <4>1, <3>1, LeaveLemma
      <4>3. device[v] # e
        BY <4>1, <4>2, LeaveLemma
      <4>4. watchers[e] = {}
        BY <4>1, <4>2, <4>3 DEF OneDevicePerSession
      <4>5. PICK u \in sessions : device[u] = e /\ u \notin canWrite /\ u \in broken
        BY <4>1, <4>4 DEF AskedIsWatched
      <4>6. device'[u] = e
        BY <4>3, <4>5, <3>1 DEF TypeOK
      <4>7. QED
        BY <4>5, <4>6
    <3>7. QED
      BY <3>2, <3>3, <3>4, <3>5, <3>6
  <2>4. QED
    BY <2>2, <2>3
<1>9. ASSUME NEW v \in Viewers, OnPacketError(v)
      PROVE  IInv'
  <2>1. CASE client = "none" /\ Abandoned(v) # {}
    <3>1. Crash
      BY <2>1, <1>9 DEF OnPacketError
    <3>2. QED
      BY <3>1 DEF Crash, TypeOK, UnwritableIsBroken,
           DeviceOfSession, AskedNeedsConnection, CrashedIsEmpty,
           OneDevicePerSession, HealthyWatches, WatchedIsAsked, WatchedDevices,
           AskedIsWatched, NullClientHasTimer, ClientStates
  <2>2. CASE ~(client = "none" /\ Abandoned(v) # {})
    <3>1. /\ watchers' = WatchersWithout(v)
          /\ asked' = IF client = "connected" THEN asked \ Abandoned(v) ELSE asked
          /\ device' = [device EXCEPT ![v] = NoDevice]
          /\ sessions' = sessions \ {v}
          /\ canWrite' = canWrite \ {v}
          /\ broken' = broken \ {v}
          /\ UNCHANGED <<client, timer, crashed>>
          /\ v \in sessions /\ ~crashed
      BY <2>2, <1>9 DEF OnPacketError, UnSubscribeDeviceId
    <3>2. TypeOK' /\ UnwritableIsBroken' /\ DeviceOfSession'
      BY <3>1, LeaveLemma DEF TypeOK, UnwritableIsBroken, DeviceOfSession
    <3>3. AskedNeedsConnection' /\ CrashedIsEmpty' /\ NullClientHasTimer'
      BY <3>1 DEF AskedNeedsConnection, CrashedIsEmpty, NullClientHasTimer
    <3>4. OneDevicePerSession' /\ HealthyWatches'
      BY <3>1, LeaveLemma DEF TypeOK, OneDevicePerSession, HealthyWatches
    <3>5. WatchedIsAsked'
      BY <3>1, LeaveLemma DEF WatchedIsAsked, WatchedDevices
    <3>6. AskedIsWatched'
      <4> SUFFICES ASSUME NEW e \in asked', watchers'[e] = {}
                   PROVE  \E u \in sessions' : /\ device'[u] = e
                                                /\ u \notin canWrite' /\ u \in broken'
        BY DEF AskedIsWatched
      <4>1. e \in asked /\ e \in Devices /\ e \notin Abandoned(v)
        BY <3>1 DEF TypeOK, AskedNeedsConnection
      <4>2. watchers[e] \ {v} = {}
        BY <4>1, <3>1, LeaveLemma
      <4>3. device[v] # e
        BY <4>1, <4>2, LeaveLemma
      <4>4. watchers[e] = {}
        BY <4>1, <4>2, <4>3 DEF OneDevicePerSession
      <4>5. PICK u \in sessions : device[u] = e /\ u \notin canWrite /\ u \in broken
        BY <4>1, <4>4 DEF AskedIsWatched
      <4>6. device'[u] = e
        BY <4>3, <4>5, <3>1 DEF TypeOK
      <4>7. u # v
        BY <4>3, <4>5
      <4>8. QED
        BY <4>5, <4>6, <4>7, <3>1
    <3>7. QED
      BY <3>2, <3>3, <3>4, <3>5, <3>6
  <2>3. QED
    BY <2>1, <2>2
<1>10. ASSUME NEW v \in Viewers, NEW d \in Devices \cup {NoDevice}, OnSubscribe(v, d)
       PROVE  IInv'
  <2>1. /\ v \in sessions /\ ~crashed
        /\ UNCHANGED <<sessions, canWrite, broken, client, timer, crashed>>
    BY <1>10 DEF OnSubscribe, TypeOK
  <2>2. CASE client # "connected"
    <3>1. UNCHANGED <<watchers, asked, device>>
      BY <2>2, <1>10 DEF OnSubscribe
    <3>2. QED
      BY <2>1, <3>1 DEF TypeOK, UnwritableIsBroken, DeviceOfSession,
           AskedNeedsConnection, CrashedIsEmpty, OneDevicePerSession,
           HealthyWatches, WatchedIsAsked, WatchedDevices, AskedIsWatched,
           NullClientHasTimer, ClientStates
  <2>3. CASE client = "connected"
    <3> DEFINE moving == device[v] # d
               left == IF moving THEN WatchersWithout(v) ELSE watchers
               kept == IF moving THEN asked \ Abandoned(v) ELSE asked
               joined == [e \in Devices |-> IF e = d THEN left[e] \cup {v} ELSE left[e]]
    <3>1. /\ watchers' = joined
          /\ asked' = kept \cup {e \in Devices : e = d /\ joined[e] = {v}}
          /\ device' = [device EXCEPT ![v] = d]
      BY <2>3, <1>10 DEF OnSubscribe, SubscribeDeviceId
    <3>2. /\ left \in [Devices -> SUBSET Viewers]
          /\ \A e \in Devices : e # d => left[e] = watchers[e] \ {v}
          /\ \A e \in Devices : e = d => left[e] \ {v} = watchers[e] \ {v}
      BY LeaveLemma DEF TypeOK, OneDevicePerSession
    <3>3. /\ kept \subseteq asked
          /\ \A e \in asked \ kept : e # d /\ left[e] = {}
          /\ \A e \in kept : e = device[v] /\ moving => watchers[e] \ {v} # {}
      BY LeaveLemma DEF TypeOK
    <3> HIDE DEF left, kept, moving
    <3>4. /\ watchers' \in [Devices -> SUBSET Viewers]
          /\ \A e \in Devices : e # d => watchers'[e] = watchers[e] \ {v}
          /\ \A e \in Devices : e = d => watchers'[e] = watchers[e] \cup {v}
      BY <3>1, <3>2
    <3>5. TypeOK' /\ UnwritableIsBroken' /\ DeviceOfSession'
      BY <2>1, <3>1, <3>3, <3>4 DEF TypeOK, UnwritableIsBroken, DeviceOfSession
    <3>6. AskedNeedsConnection' /\ CrashedIsEmpty' /\ NullClientHasTimer'
      BY <2>1, <2>3 DEF AskedNeedsConnection, CrashedIsEmpty, NullClientHasTimer
    <3>7. OneDevicePerSession' /\ HealthyWatches'
      BY <2>1, <3>1, <3>4 DEF TypeOK, OneDevicePerSession, HealthyWatches
    <3>8. WatchedIsAsked'
      <4> SUFFICES ASSUME NEW e \in Devices, watchers'[e] # {}
                   PROVE  e \in asked'
        BY DEF WatchedIsAsked, WatchedDevices
      <4>1. CASE e # d
        BY <4>1, <2>3, <3>1, <3>2, <3>3, <3>4 DEF WatchedIsAsked, WatchedDevices
      <4>2. CASE e = d
        BY <4>2, <2>3, <3>1, <3>2, <3>3, <3>4 DEF WatchedIsAsked, WatchedDevices
      <4>3. QED
        BY <4>1, <4>2
    <3>9. AskedIsWatched'
      <4> SUFFICES ASSUME NEW e \in asked', watchers'[e] = {}
                   PROVE  \E u \in sessions : /\ device'[u] = e
                                               /\ u \notin canWrite /\ u \in broken
        BY <2>1 DEF AskedIsWatched
      <4>1. e # d /\ e \in kept /\ e \in Devices /\ watchers[e] \ {v} = {}
        BY <3>1, <3>3, <3>4 DEF TypeOK
      <4>2. device[v] # e
        BY <4>1, <3>3 DEF moving
      <4>3. watchers[e] = {}
        BY <4>1, <4>2 DEF OneDevicePerSession
      <4>4. PICK u \in sessions : device[u] = e /\ u \notin canWrite /\ u \in broken
        BY <3>3, <4>1, <4>3 DEF AskedIsWatched
      <4>5. device'[u] = e
        BY <4>2, <4>4, <3>1 DEF TypeOK
      <4>6. QED
        BY <4>4, <4>5
    <3>10. QED
      BY <3>5, <3>6, <3>7, <3>8, <3>9
  <2>4. QED
    BY <2>2, <2>3
<1>11. CASE UNCHANGED vars
  BY <1>11 DEF vars, TypeOK, UnwritableIsBroken,
       DeviceOfSession, AskedNeedsConnection, CrashedIsEmpty,
       OneDevicePerSession, HealthyWatches, WatchedIsAsked, WatchedDevices,
       AskedIsWatched, NullClientHasTimer, ClientStates
<1>12. QED
  BY <1>1, <1>2, <1>3, <1>4, <1>5, <1>6, <1>7, <1>8, <1>9, <1>10, <1>11 DEF Next

(* In every reachable state the inductive invariant holds. *)
THEOREM Invariance == Spec => []IInv
<1>1. QED
  BY InitInv, NextInv, PTL DEF Spec

(* Every variable keeps its type. *)
THEOREM TypeCorrect == Spec => []TypeOK
<1>1. IInv => TypeOK
  BY DEF IInv
<1>2. QED
  BY <1>1, Invariance, PTL

(* Every watched device is asked for on the present connection: no         *)
(* reconnection, device switch or dropped watcher loses a request.         *)
THEOREM NoLostRequest == Spec => []WatchedIsAsked
<1>1. IInv => WatchedIsAsked
  BY DEF IInv
<1>2. QED
  BY <1>1, Invariance, PTL

(* Nothing stays asked for that nobody watches, but for what the read      *)
(* error of a broken session is still to withdraw.                         *)
THEOREM NoLeakedRequest == Spec => []AskedIsWatched
<1>1. IInv => AskedIsWatched
  BY DEF IInv
<1>2. QED
  BY <1>1, Invariance, PTL

(* Lists hold registered sessions only, each in the list of its device. *)
THEOREM SessionsHaveOneDevice == Spec => []OneDevicePerSession
<1>1. IInv => OneDevicePerSession
  BY DEF IInv
<1>2. QED
  BY <1>1, Invariance, PTL

(* A viewer that can be written to is on the list of its device. *)
THEOREM HealthyViewerListed == Spec => []HealthyWatches
<1>1. IInv => HealthyWatches
  BY DEF IInv
<1>2. QED
  BY <1>1, Invariance, PTL

(* The client is null exactly while the reconnect timer runs. *)
THEOREM TimerReplacesClient == Spec => []NullClientHasTimer
<1>1. IInv => NullClientHasTimer
  BY DEF IInv
<1>2. QED
  BY <1>1, Invariance, PTL

-----------------------------------------------------------------------------
(* Subscription.                                                           *)

(* m_client has a connection exactly while it is connected. *)
LinkIsConnected == link # NoLink <=> client = "connected"

(* Only connections that were made carry requests, and only those that     *)
(* were taken are sessions.                                                *)
UnmadeIsSilent == \A l \in Links : l > made => requests[l] = <<>>
SessionsAccepted == \A l \in fwdSubscribers : l <= accepted

(* jt1078_server lists its sessions only, takes for broken what has ended, *)
(* and gives up writing to nothing else.                                   *)
ListedIsSession == \A d \in Devices : members[d] \subseteq fwdSubscribers
BrokenHasEnded == fwdBroken \subseteq down
FailedIsBroken == fwdSubscribers \ fwdCanWrite \subseteq fwdBroken

(* The inductive invariant.  pc_server's own comes first: what it asks for *)
(* is what it watches; the rest says that nobody else changes what the     *)
(* session of a working connection is listed under.                        *)
LinkInv ==
    /\ LinkTypeOK
    /\ IInv
    /\ LinkIsConnected
    /\ UnmadeIsSilent
    /\ SessionsAccepted
    /\ ListedIsSession
    /\ BrokenHasEnded
    /\ FailedIsBroken
    /\ ServerFollows

-----------------------------------------------------------------------------
(* What a sequence of requests comes to.                                   *)

LEMMA OutcomeOfNone ==
    ASSUME NEW before \in BOOLEAN, NEW d \in Devices
    PROVE  Outcome(<<>>, before, d) <=> before
BY DEF Outcome

(* Handling the first request changes what the session is listed under as  *)
(* the request says, and nothing of what it will come to.                  *)
LEMMA OutcomeOfTail ==
    ASSUME NEW q \in Seq(Request), q # <<>>, NEW before \in BOOLEAN,
           NEW d \in Devices
    PROVE  Outcome(q, before, d)
             <=> Outcome(Tail(q), IF Head(q).device = d
                                  THEN Head(q).type = "subscribe"
                                  ELSE before, d)
<1> DEFINE t == Tail(q)
<1>1. /\ Len(q) \in Nat \ {0} /\ DOMAIN q = 1..Len(q)
      /\ \A i \in DOMAIN q : q[i] \in Request
      /\ t \in Seq(Request) /\ DOMAIN t = 1..(Len(q) - 1)
      /\ \A i \in DOMAIN t : t[i] = q[i + 1]
      /\ Head(q) = q[1]
  OBVIOUS
<1>2. \A m \in Request : m.device = d /\ m.type = "subscribe" <=> m = Subscribing(d)
  BY DEF Request, Subscribing
<1>3. \A i \in DOMAIN q : i = 1 \/ (i - 1 \in DOMAIN t /\ t[i - 1] = q[i])
  BY <1>1
<1>4. \A i \in DOMAIN t : i + 1 \in DOMAIN q /\ t[i] = q[i + 1]
  BY <1>1
<1> HIDE DEF t
<1>5. Subscribing(d).device = d
  BY DEF Subscribing
<1>6. CASE \A i \in DOMAIN t : t[i].device # d
  <2>1. \A i \in DOMAIN q : q[i].device = d => i = 1
    BY <1>3, <1>6
  <2>2. Outcome(q, before, d) <=> IF q[1].device = d THEN q[1] = Subscribing(d) ELSE before
    BY <1>1, <1>5, <2>1 DEF Outcome
  <2>3. ASSUME NEW b \in BOOLEAN
        PROVE  Outcome(t, b, d) <=> b
    BY <1>5, <1>6 DEF Outcome
  <2>4. q[1] \in Request
    BY <1>1
  <2> QED
    BY <1>1, <1>2, <2>2, <2>3, <2>4 DEF t
<1>7. CASE \E k \in DOMAIN t : t[k].device = d
  <2>1. PICK k \in DOMAIN t : t[k].device = d
    BY <1>7
  <2>2. k + 1 \in DOMAIN q /\ q[k + 1].device = d /\ k + 1 > 1
    BY <1>1, <1>4, <2>1
  <2>3. ASSUME NEW b \in BOOLEAN
        PROVE  Outcome(t, b, d)
                 <=> \E i \in DOMAIN t :
                        /\ t[i] = Subscribing(d)
                        /\ \A j \in DOMAIN t : t[j].device = d => j <= i
    BY <2>1 DEF Outcome
  <2>4. Outcome(q, before, d)
          <=> \E i \in DOMAIN q :
                 /\ q[i] = Subscribing(d)
                 /\ \A j \in DOMAIN q : q[j].device = d => j <= i
    BY <2>2 DEF Outcome
  <2>5. ASSUME NEW i \in DOMAIN t, t[i] = Subscribing(d),
               \A j \in DOMAIN t : t[j].device = d => j <= i
        PROVE  /\ i + 1 \in DOMAIN q /\ q[i + 1] = Subscribing(d)
               /\ \A j \in DOMAIN q : q[j].device = d => j <= i + 1
    <3>1. i \in Nat
      BY <1>1, <2>5
    <3>2. ASSUME NEW j \in DOMAIN q, q[j].device = d PROVE j <= i + 1
      <4>1. CASE j = 1
        BY <3>1, <4>1
      <4>2. CASE j - 1 \in DOMAIN t /\ t[j - 1] = q[j]
        <5>1. j - 1 <= i
          BY <2>5, <3>2, <4>2
        <5> QED
          BY <1>1, <3>1, <5>1
      <4> QED
        BY <1>3, <4>1, <4>2
    <3>3. i + 1 \in DOMAIN q /\ q[i + 1] = t[i]
      BY <1>4, <2>5
    <3> QED
      BY <2>5, <3>2, <3>3
  <2>6. ASSUME NEW i \in DOMAIN q, q[i] = Subscribing(d),
               \A j \in DOMAIN q : q[j].device = d => j <= i
        PROVE  /\ i - 1 \in DOMAIN t /\ t[i - 1] = Subscribing(d)
               /\ \A j \in DOMAIN t : t[j].device = d => j <= i - 1
    <3>1. i # 1
      BY <1>1, <2>2, <2>6
    <3> QED
      BY <1>1, <1>3, <1>4, <2>6, <3>1
  <2>7. (\E i \in DOMAIN t :
            /\ t[i] = Subscribing(d)
            /\ \A j \in DOMAIN t : t[j].device = d => j <= i)
        <=> (\E i \in DOMAIN q :
               /\ q[i] = Subscribing(d)
               /\ \A j \in DOMAIN q : q[j].device = d => j <= i)
    BY <2>5, <2>6
  <2> DEFINE b == IF Head(q).device = d THEN Head(q).type = "subscribe" ELSE before
  <2>8. b \in BOOLEAN
    OBVIOUS
  <2> HIDE DEF b
  <2>9. Outcome(q, before, d) <=> Outcome(t, b, d)
    BY <2>3, <2>4, <2>7, <2>8
  <2> QED
    BY <2>9 DEF b, t
<1> QED
  BY <1>6, <1>7

LEMMA OutcomeOfAppend ==
    ASSUME NEW q \in Seq(Request), NEW m \in Request, NEW before \in BOOLEAN,
           NEW d \in Devices
    PROVE  Outcome(Append(q, m), before, d)
             <=> IF m.device = d THEN m.type = "subscribe" ELSE Outcome(q, before, d)
<1> DEFINE r == Append(q, m)
           n == Len(q) + 1
<1>1. /\ Len(q) \in Nat /\ DOMAIN q = 1..Len(q)
      /\ DOMAIN r = 1..n /\ r[n] = m
      /\ \A i \in DOMAIN q : r[i] = q[i] /\ q[i] \in Request
  OBVIOUS
<1>2. m.device = d /\ m.type = "subscribe" <=> m = Subscribing(d)
  BY DEF Request, Subscribing
<1>3. Subscribing(d).device = d
  BY DEF Subscribing
<1> HIDE DEF r
<1>4. CASE m.device = d
  BY <1>1, <1>2, <1>3, <1>4 DEF Outcome
<1>5. CASE m.device # d
  BY <1>1, <1>3, <1>5 DEF Outcome
<1> QED
  BY <1>4, <1>5 DEF r

-----------------------------------------------------------------------------
(* What the handlers of pc_server send, and what it comes to.              *)

LEMMA LeaveOutcome ==
    ASSUME LinkTypeOK, NEW v \in Viewers, NEW q \in Seq(Request)
    PROVE  /\ LeaveRequests(v) \in Seq(Request)
           /\ q \o LeaveRequests(v) \in Seq(Request)
           /\ \A before \in BOOLEAN, e \in Devices :
                 Outcome(q \o LeaveRequests(v), before, e)
                    <=> Outcome(q, before, e) /\ e \notin Abandoned(v)
<1>1. CASE Abandoned(v) = {}
  <2>1. LeaveRequests(v) = <<>>
    BY <1>1 DEF LeaveRequests
  <2>2. q \o <<>> = q
    OBVIOUS
  <2> QED
    BY <1>1, <2>1, <2>2
<1>2. CASE Abandoned(v) # {}
  <2>1. device[v] \in Devices /\ Abandoned(v) = {device[v]}
    BY <1>2 DEF Abandoned
  <2> DEFINE m == Withdrawing(device[v])
  <2>2. m \in Request /\ m.device = device[v] /\ m.type # "subscribe"
    BY <2>1 DEF Request, Withdrawing
  <2>3. LeaveRequests(v) = <<m>>
    BY <1>2 DEF LeaveRequests
  <2> HIDE DEF m
  <2>4. <<m>> \in Seq(Request) /\ q \o <<m>> = Append(q, m) /\ Append(q, m) \in Seq(Request)
    BY <2>2
  <2>5. ASSUME NEW before \in BOOLEAN, NEW e \in Devices
        PROVE  Outcome(Append(q, m), before, e)
                 <=> Outcome(q, before, e) /\ e \notin Abandoned(v)
    BY <2>1, <2>2, OutcomeOfAppend
  <2> QED
    BY <2>3, <2>4, <2>5
<1> QED
  BY <1>1, <1>2

LEMMA MoveOutcome ==
    ASSUME LinkTypeOK, NEW v \in Viewers, NEW d \in Devices \cup {NoDevice},
           NEW q \in Seq(Request)
    PROVE  /\ MoveRequests(v, d) \in Seq(Request)
           /\ q \o MoveRequests(v, d) \in Seq(Request)
           /\ \A before \in BOOLEAN, e \in Devices :
                 Outcome(q \o MoveRequests(v, d), before, e)
                    <=> \/ e = d /\ watchers[d] \subseteq {v}
                        \/ /\ Outcome(q, before, e)
                           /\ ~(device[v] # d /\ e \in Abandoned(v))
<1> DEFINE leaving == IF device[v] # d THEN LeaveRequests(v) ELSE <<>>
           alone == d \in Devices /\ watchers[d] \subseteq {v}
           m == Subscribing(d)
<1>1. /\ leaving \in Seq(Request)
      /\ q \o leaving \in Seq(Request)
      /\ \A before \in BOOLEAN, e \in Devices :
            Outcome(q \o leaving, before, e)
               <=> Outcome(q, before, e) /\ ~(device[v] # d /\ e \in Abandoned(v))
  <2>1. CASE device[v] # d
    BY <2>1, LeaveOutcome
  <2>2. CASE device[v] = d
    <3>1. leaving = <<>> /\ q \o <<>> = q
      BY <2>2
    <3> QED
      BY <2>2, <3>1
  <2> QED
    BY <2>1, <2>2
<1>2. MoveRequests(v, d) = leaving \o (IF alone THEN <<m>> ELSE <<>>)
  BY DEF MoveRequests
<1> HIDE DEF leaving
<1>3. CASE alone
  <2>1. m \in Request /\ m.device = d /\ m.type = "subscribe"
    BY <1>3 DEF Request, Subscribing
  <2> HIDE DEF m
  <2>2. /\ MoveRequests(v, d) = Append(leaving, m)
        /\ MoveRequests(v, d) \in Seq(Request)
        /\ q \o MoveRequests(v, d) = Append(q \o leaving, m)
        /\ q \o MoveRequests(v, d) \in Seq(Request)
    BY <1>1, <1>2, <1>3, <2>1
  <2>3. ASSUME NEW before \in BOOLEAN, NEW e \in Devices
        PROVE  Outcome(Append(q \o leaving, m), before, e)
                 <=> e = d \/ Outcome(q \o leaving, before, e)
    <3>1. q \o leaving \in Seq(Request)
      BY <1>1
    <3>2. Outcome(Append(q \o leaving, m), before, e)
            <=> IF m.device = e THEN m.type = "subscribe"
                ELSE Outcome(q \o leaving, before, e)
      BY <2>1, <3>1, OutcomeOfAppend
    <3> QED
      BY <2>1, <3>2
  <2> QED
    BY <1>1, <1>3, <2>2, <2>3
<1>4. CASE ~alone
  <2>1. MoveRequests(v, d) = leaving \o <<>> /\ leaving \o <<>> = leaving
    BY <1>1, <1>2, <1>4
  <2>2. \A e \in Devices : ~(e = d /\ watchers[d] \subseteq {v})
    BY <1>4
  <2> QED
    BY <1>1, <2>1, <2>2
<1> QED
  BY <1>3, <1>4

LEMMA ResubscriptionOutcome ==
    ASSUME NEW messages \in Resubscriptions
    PROVE  /\ messages \in Seq(Request)
           /\ \A e \in Devices : Outcome(messages, FALSE, e) <=> e \in WatchedDevices
<1>1. PICK o \in [1..Cardinality(WatchedDevices) -> WatchedDevices] :
        /\ \A d \in WatchedDevices : \E i \in DOMAIN o :
              \A j \in DOMAIN o : o[j] = d <=> j = i
        /\ messages = [i \in DOMAIN o |-> Subscribing(o[i])]
  BY DEF Resubscriptions
<1>2. Cardinality(WatchedDevices) \in Nat
  BY DevicesFinite, FS_Subset, FS_CardinalityType DEF WatchedDevices
<1>3. \A d \in WatchedDevices : Subscribing(d) \in Request /\ Subscribing(d).device = d
  BY DEF Subscribing, Request, WatchedDevices
<1>4. messages \in Seq(Request)
  <2>1. messages \in [1..Cardinality(WatchedDevices) -> Request]
    BY <1>1, <1>3
  <2> QED
    BY <1>2, <2>1
<1>5. ASSUME NEW e \in WatchedDevices
      PROVE  Outcome(messages, FALSE, e)
  <2>1. PICK i \in DOMAIN o : \A j \in DOMAIN o : o[j] = e <=> j = i
    BY <1>1
  <2>2. /\ i \in DOMAIN messages /\ messages[i] = Subscribing(e)
        /\ \A j \in DOMAIN messages : messages[j].device = e => j = i
    BY <1>1, <1>3, <2>1
  <2>3. i \in Nat
    BY <1>1, <1>2
  <2> QED
    BY <2>2, <2>3 DEF Outcome
<1>6. ASSUME NEW e \in Devices, Outcome(messages, FALSE, e)
      PROVE  e \in WatchedDevices
  <2>1. PICK i \in DOMAIN messages : messages[i] = Subscribing(e)
    BY <1>6 DEF Outcome
  <2>2. i \in DOMAIN o /\ Subscribing(o[i]) = Subscribing(e) /\ o[i] \in WatchedDevices
    BY <1>1, <2>1
  <2>3. Subscribing(o[i]).device = o[i] /\ Subscribing(e).device = e
    BY DEF Subscribing
  <2> QED
    BY <2>2, <2>3
<1> QED
  BY <1>4, <1>5, <1>6 DEF WatchedDevices

-----------------------------------------------------------------------------
LEMMA LinkInitInv == LinkInit => LinkInv
<1> SUFFICES ASSUME LinkInit
             PROVE  LinkInv
  OBVIOUS
<1>1. IInv
  BY InitInv DEF LinkInit
<1>2. Server!TypeOK
  BY DEF LinkInit, Server!Init, Server!TypeOK
<1>3. /\ made \in 0..MaxLinks /\ link = made /\ accepted = 0 /\ down = {}
      /\ requests \in [Links -> Seq(Request)]
      /\ serving \in BOOLEAN /\ stops \in 0..MaxStops
  BY BoundsAssumption DEF LinkInit, Init, Links
<1>4. ServerFollows
  <2>1. asked = {} /\ members = [d \in Devices |-> {}]
    BY DEF LinkInit, Init, Server!Init
  <2>2. ASSUME link # NoLink, NEW d \in Devices
        PROVE  ~Destined(link, d)
    <3>1. link \in Links /\ requests[link] = <<>>
      BY <2>2, BoundsAssumption DEF LinkInit, NoLink, Links
    <3>2. link \notin members[d]
      BY <2>1
    <3> QED
      BY <3>1, <3>2 DEF Destined, Outcome
  <2> QED
    BY <2>1, <2>2 DEF ServerFollows
<1> QED
  BY <1>1, <1>2, <1>3, <1>4
     DEF LinkInv, LinkTypeOK, IInv, LinkInit, Server!Init, LinkIsConnected,
         NoLink, UnmadeIsSilent, SessionsAccepted, ListedIsSession,
         BrokenHasEnded, FailedIsBroken

(* Each step is one of pc_server's or leaves pc_server alone. *)
LEMMA PcStep == [LinkNext]_allVars => [Next]_vars
<1> SUFFICES ASSUME [LinkNext]_allVars
             PROVE  [Next]_vars
  OBVIOUS
<1> USE DEF pcVars
<1>1. CASE Attempt
  BY <1>1 DEF Attempt, Next
<1>2. CASE PcNoticesEnd
  BY <1>2 DEF PcNoticesEnd, Next
<1>3. CASE PcOther
  <2>1. \/ \E d \in Devices : OnClientMessage(d)
        \/ \E v \in Viewers : OnNewConnection(v) \/ ConnectionBreaks(v)
    BY <1>3 DEF PcOther
  <2> QED
    BY <2>1 DEF Next
<1>4. ASSUME NEW v \in Viewers, ViewerUnsubscribes(v) \/ ViewerEnds(v)
      PROVE  Next
  <2>1. OnUnSubscribe(v) \/ OnPacketError(v)
    BY <1>4 DEF ViewerUnsubscribes, ViewerEnds
  <2> QED
    BY <2>1 DEF Next
<1>5. ASSUME NEW v \in Viewers, NEW d \in Devices \cup {NoDevice}, ViewerSubscribes(v, d)
      PROVE  Next
  <2>1. OnSubscribe(v, d)
    BY <1>5 DEF ViewerSubscribes
  <2> QED
    BY <2>1 DEF Next
<1>6. CASE LinkBreaks \/ ServerAccepts \/ ServerCars \/ ServerStops \/ ServerStarts
  <2>1. UNCHANGED vars
    BY <1>6 DEF LinkBreaks, ServerAccepts, ServerCars, ServerStops, ServerStarts
  <2> QED
    BY <2>1
<1>7. ASSUME NEW l \in Links,
             ServerHandles(l) \/ EndReachesServer(l) \/ ServerNoticesEnd(l)
      PROVE  UNCHANGED vars
  BY <1>7 DEF ServerHandles, EndReachesServer, ServerNoticesEnd
<1>8. CASE UNCHANGED allVars
  BY <1>8 DEF allVars
<1> QED
  BY <1>1, <1>2, <1>3, <1>4, <1>5, <1>6, <1>7, <1>8 DEF LinkNext

(* A step of pc_server's that sends messages keeps the agreement when they *)
(* say what it did to asked. *)
LEMMA SendStep ==
    ASSUME LinkInv, IInv', NEW messages \in Seq(Request), Send(messages),
           UNCHANGED <<link, made, accepted, down, serving, stops, fwdVars>>,
           client' = client,
           \A d \in Devices, q \in Seq(Request), before \in BOOLEAN :
               /\ q \o messages \in Seq(Request)
               /\ (d \in asked <=> Outcome(q, before, d))
                     => (d \in asked' <=> Outcome(q \o messages, before, d))
    PROVE  LinkInv'
<1> USE DEF LinkInv, fwdVars
<1>1. requests \in [Links -> Seq(Request)]
  BY DEF LinkTypeOK
<1>2. CASE link = NoLink \/ link \in down
  <2>1. requests' = requests
    BY <1>2 DEF Send
  <2> QED
    BY <1>2, <2>1
       DEF LinkTypeOK, IInv, Server!TypeOK, LinkIsConnected, UnmadeIsSilent,
           SessionsAccepted, ListedIsSession, BrokenHasEnded, FailedIsBroken,
           ServerFollows, Links
<1>3. CASE link # NoLink /\ link \notin down
  <2>1. /\ link \in Links /\ link <= made
        /\ requests' = [requests EXCEPT ![link] = @ \o messages]
    BY <1>3, BoundsAssumption DEF LinkTypeOK, Send, Links, NoLink
  <2>2. /\ requests[link] \in Seq(Request)
        /\ requests[link] \o messages \in Seq(Request)
        /\ requests' \in [Links -> Seq(Request)]
        /\ requests'[link] = requests[link] \o messages
    BY <1>1, <2>1
  <2>3. UnmadeIsSilent'
    BY <1>1, <2>1, BoundsAssumption DEF UnmadeIsSilent, LinkTypeOK, Links
  <2>4. ServerFollows'
    <3>1. ASSUME NEW d \in Devices
          PROVE  d \in asked' <=> Outcome(requests'[link], link \in members[d], d)
      <4>1. d \in asked <=> Outcome(requests[link], link \in members[d], d)
        BY <1>3 DEF ServerFollows, Destined
      <4> DEFINE before == link \in members[d]
      <4>2. before \in BOOLEAN /\ (d \in asked <=> Outcome(requests[link], before, d))
        BY <4>1
      <4> HIDE DEF before
      <4>3. d \in asked' <=> Outcome(requests[link] \o messages, before, d)
        BY <2>2, <4>2
      <4> QED
        BY <2>2, <4>3 DEF before
    <3> QED
      BY <3>1 DEF ServerFollows, Destined
  <2> QED
    BY <2>2, <2>3, <2>4
       DEF LinkTypeOK, IInv, Server!TypeOK, LinkIsConnected,
           SessionsAccepted, ListedIsSession, BrokenHasEnded, FailedIsBroken, Links
<1> QED
  BY <1>2, <1>3

(* pc_server's steps. *)
LEMMA PcSideInv ==
    ASSUME LinkInv, IInv',
           \/ Attempt \/ PcNoticesEnd \/ PcOther
           \/ \E v \in Viewers : ViewerUnsubscribes(v) \/ ViewerEnds(v)
           \/ \E v \in Viewers, d \in Devices \cup {NoDevice} : ViewerSubscribes(v, d)
    PROVE  LinkInv'
<1> USE DEF LinkInv
<1>0. /\ requests \in [Links -> Seq(Request)] /\ made \in Nat /\ MaxLinks \in Nat
      /\ TypeOK'
  BY BoundsAssumption DEF LinkTypeOK, IInv
<1>1. CASE Attempt /\ client' = "connected"
  <2>1. /\ serving /\ made < MaxLinks /\ made' = made + 1 /\ link' = made + 1
        /\ UNCHANGED <<accepted, down, serving, stops, fwdVars>>
    BY <1>1 DEF Attempt, Attempted
  <2>2. PICK messages \in Resubscriptions :
          requests' = [requests EXCEPT ![made + 1] = messages]
    BY <1>1 DEF Attempt, Attempted
  <2>3. made + 1 \in Links /\ messages \in Seq(Request)
    <3>1. messages \in Seq(Request)
      BY ResubscriptionOutcome
    <3> QED
      BY <1>0, <2>1, <3>1 DEF Links
  <2>4. /\ requests' \in [Links -> Seq(Request)] /\ requests'[made + 1] = messages
        /\ \A l \in Links : l > made + 1 => requests'[l] = <<>>
    BY <1>0, <2>2, <2>3 DEF UnmadeIsSilent, Links
  <2>5. LinkTypeOK'
    BY <1>0, <2>1, <2>3, <2>4 DEF LinkTypeOK, Server!TypeOK, fwdVars, Links
  <2>6. asked' = WatchedDevices /\ watchers' = watchers
    <3>1. CASE ConnectCompletes \/ OnConnectTimer
      BY <1>1, <3>1 DEF ConnectCompletes, OnConnectTimer, OnClientConnect
    <3>2. CASE Restart
      BY <3>2 DEF Restart, IInv, CrashedIsEmpty, OneDevicePerSession,
                  AskedNeedsConnection, WatchedDevices
    <3> QED
      BY <1>1, <3>1, <3>2 DEF Attempt
  <2>7. \A d \in Devices : made + 1 \notin members[d]
    BY <1>0, <2>3 DEF ListedIsSession, SessionsAccepted, LinkTypeOK, Links
  <2>8. ServerFollows'
    <3>1. ASSUME NEW d \in Devices
          PROVE  d \in asked' <=> Outcome(messages, link' \in members'[d], d)
      <4>1. members' = members /\ link' \notin members'[d]
        BY <2>1, <2>7 DEF fwdVars
      <4>2. Outcome(messages, FALSE, d) <=> d \in asked'
        BY <2>6, ResubscriptionOutcome
      <4> QED
        BY <4>1, <4>2 DEF Outcome
    <3> QED
      BY <2>1, <2>4, <3>1 DEF ServerFollows, Destined
  <2>9. LinkIsConnected' /\ UnmadeIsSilent'
    BY <1>0, <1>1, <2>1, <2>4 DEF LinkIsConnected, UnmadeIsSilent, NoLink, Links
  <2> QED
    BY <2>1, <2>5, <2>8, <2>9
       DEF SessionsAccepted, ListedIsSession, BrokenHasEnded, FailedIsBroken, fwdVars
<1>2. CASE (Attempt /\ client' # "connected") \/ PcNoticesEnd
  <2>1. /\ link' = NoLink /\ client' # "connected"
        /\ UNCHANGED <<made, accepted, down, requests, serving, stops, fwdVars>>
    BY <1>2 DEF Attempt, Attempted, PcNoticesEnd, OnClientError
  <2> QED
    BY <1>0, <2>1
       DEF LinkTypeOK, Server!TypeOK, LinkIsConnected, UnmadeIsSilent,
           SessionsAccepted, ListedIsSession, BrokenHasEnded, FailedIsBroken,
           ServerFollows, NoLink, fwdVars
<1>3. CASE PcOther
  <2>1. UNCHANGED <<client, asked, netVars, fwdVars>>
    BY <1>3 DEF PcOther, OnClientMessage, OnNewConnection, ConnectionBreaks, linkVars
  <2> QED
    BY <1>0, <2>1
       DEF LinkTypeOK, Server!TypeOK, LinkIsConnected, UnmadeIsSilent,
           SessionsAccepted, ListedIsSession, BrokenHasEnded, FailedIsBroken,
           ServerFollows, Destined, Outcome, netVars, fwdVars
<1>4. ASSUME NEW v \in Viewers, ViewerUnsubscribes(v) \/ ViewerEnds(v)
      PROVE  LinkInv'
  <2>1. /\ Send(LeaveRequests(v))
        /\ UNCHANGED <<link, made, accepted, down, serving, stops, fwdVars>>
    BY <1>4 DEF ViewerUnsubscribes, ViewerEnds
  <2>2. /\ client' = client
        /\ asked' = asked \ Abandoned(v)
    <3>1. ~(client = "none" /\ Abandoned(v) # {}) \/ Crash \/ OnUnSubscribe(v)
      BY <1>4 DEF ViewerUnsubscribes, ViewerEnds, OnPacketError
    <3>2. client # "connected" => asked = {}
      BY DEF IInv, AskedNeedsConnection
    <3>3. CASE OnUnSubscribe(v)
      BY <3>2, <3>3 DEF OnUnSubscribe, UnSubscribeDeviceId, linkVars
    <3>4. CASE OnPacketError(v) /\ client = "none" /\ Abandoned(v) # {}
      BY <3>2, <3>4 DEF OnPacketError, Crash
    <3>5. CASE OnPacketError(v) /\ ~(client = "none" /\ Abandoned(v) # {})
      BY <3>2, <3>5 DEF OnPacketError, UnSubscribeDeviceId, linkVars
    <3> QED
      BY <1>4, <3>3, <3>4, <3>5 DEF ViewerUnsubscribes, ViewerEnds
  <2>3. LeaveRequests(v) \in Seq(Request)
    BY LeaveOutcome, <<>> \in Seq(Request)
  <2>4. ASSUME NEW d \in Devices, NEW q \in Seq(Request), NEW before \in BOOLEAN
        PROVE  /\ q \o LeaveRequests(v) \in Seq(Request)
               /\ (d \in asked <=> Outcome(q, before, d))
                     => (d \in asked' <=> Outcome(q \o LeaveRequests(v), before, d))
    BY <2>2, LeaveOutcome
  <2> QED
    BY <2>1, <2>2, <2>3, <2>4, SendStep
<1>5. ASSUME NEW v \in Viewers, NEW d \in Devices \cup {NoDevice}, ViewerSubscribes(v, d)
      PROVE  LinkInv'
  <2>1. /\ Send(MoveRequests(v, d))
        /\ UNCHANGED <<link, made, accepted, down, serving, stops, fwdVars>>
        /\ client' = client
    BY <1>5 DEF ViewerSubscribes, OnSubscribe, linkVars
  <2>2. CASE client # "connected"
    <3>1. asked' = asked
      BY <1>5, <2>2 DEF ViewerSubscribes, OnSubscribe
    <3>2. requests' = requests
      BY <2>1, <2>2 DEF Send, LinkIsConnected
    <3> QED
      BY <1>0, <2>1, <3>1, <3>2
         DEF LinkTypeOK, Server!TypeOK, LinkIsConnected, UnmadeIsSilent,
             SessionsAccepted, ListedIsSession, BrokenHasEnded, FailedIsBroken,
             ServerFollows, Destined, Outcome, fwdVars
  <2>3. CASE client = "connected"
    <3>1. SubscribeDeviceId(v, d) /\ watchers \in [Devices -> SUBSET Viewers]
      BY <1>5, <2>3 DEF ViewerSubscribes, OnSubscribe, IInv, TypeOK
    <3>2. ASSUME NEW e \in Devices
          PROVE  e \in asked' <=> \/ e = d /\ watchers[d] \subseteq {v}
                                  \/ e \in asked /\ ~(device[v] # d /\ e \in Abandoned(v))
      <4>1. CASE device[v] = d
        BY <3>1, <4>1 DEF SubscribeDeviceId
      <4>2. CASE device[v] # d
        BY <3>1, <4>2 DEF SubscribeDeviceId, WatchersWithout
      <4> QED
        BY <4>1, <4>2
    <3>3. MoveRequests(v, d) \in Seq(Request)
      BY MoveOutcome, <<>> \in Seq(Request)
    <3>4. ASSUME NEW e \in Devices, NEW q \in Seq(Request), NEW before \in BOOLEAN
          PROVE  /\ q \o MoveRequests(v, d) \in Seq(Request)
                 /\ (e \in asked <=> Outcome(q, before, e))
                       => (e \in asked' <=> Outcome(q \o MoveRequests(v, d), before, e))
      <4>1. /\ q \o MoveRequests(v, d) \in Seq(Request)
            /\ Outcome(q \o MoveRequests(v, d), before, e)
                  <=> \/ e = d /\ watchers[d] \subseteq {v}
                      \/ /\ Outcome(q, before, e)
                         /\ ~(device[v] # d /\ e \in Abandoned(v))
        BY MoveOutcome
      <4> QED
        BY <3>2, <4>1
    <3> QED
      BY <2>1, <3>3, <3>4, SendStep
  <2> QED
    BY <2>2, <2>3
<1> QED
  BY <1>1, <1>2, <1>3, <1>4, <1>5

(* The network's steps and jt1078_server's. *)
LEMMA ServerSideInv ==
    ASSUME LinkInv, IInv',
           \/ LinkBreaks \/ ServerAccepts \/ ServerCars \/ ServerStops \/ ServerStarts
           \/ \E l \in Links :
                 ServerHandles(l) \/ EndReachesServer(l) \/ ServerNoticesEnd(l)
    PROVE  LinkInv'
<1> USE DEF LinkInv, Server!subVars, Server!chanVars, Server!carVars
<1>0. /\ requests \in [Links -> Seq(Request)] /\ made \in Nat /\ MaxLinks \in Nat
      /\ link \in 0..made /\ accepted \in 0..made /\ made \in 0..MaxLinks
      /\ down \subseteq 1..made /\ Server!TypeOK /\ TypeOK'
  BY BoundsAssumption DEF LinkTypeOK, IInv
<1>1. CASE LinkBreaks
  <2>1. PICK n \in 0..Len(requests[link]) :
          requests' = [requests EXCEPT ![link] = SubSeq(@, 1, n)]
    BY <1>1 DEF LinkBreaks
  <2>2. /\ link \in Links /\ link # NoLink /\ link <= made
        /\ down' = down \cup {link}
        /\ UNCHANGED <<vars, link, made, accepted, serving, stops, fwdVars>>
    BY <1>0, <1>1 DEF LinkBreaks, Links, NoLink, pcVars
  <2>3. SubSeq(requests[link], 1, n) \in Seq(Request)
    BY <1>0, <2>1, <2>2, SubSeqProperties
  <2>4. requests' \in [Links -> Seq(Request)] /\ UnmadeIsSilent'
    BY <1>0, <2>1, <2>2, <2>3 DEF UnmadeIsSilent, Links
  <2>5. UNCHANGED <<fwdSubscribers, fwdCanWrite, fwdBroken, channels, members,
                    cars, carDevice, told, fwdWants>>
    BY <2>2 DEF fwdVars
  <2>6. Server!TypeOK'
    BY <1>0, <2>5 DEF Server!TypeOK
  <2>7. LinkTypeOK'
    <3>1. link \in 1..made /\ down' \subseteq 1..made
      BY <1>0, <2>2 DEF NoLink
    <3>2. /\ made' = made /\ link' = link /\ accepted' = accepted
          /\ serving' = serving /\ stops' = stops
      BY <2>2
    <3>3. serving \in BOOLEAN /\ stops \in 0..MaxStops
      BY DEF LinkTypeOK
    <3> HIDE DEF LinkInv
    <3> QED
      BY <1>0, <2>4, <2>6, <3>1, <3>2, <3>3 DEF LinkTypeOK
  <2>8. LinkIsConnected' /\ SessionsAccepted' /\ ListedIsSession' /\ FailedIsBroken'
    BY <2>2, <2>5 DEF vars, LinkIsConnected, SessionsAccepted, ListedIsSession, FailedIsBroken
  <2>9. BrokenHasEnded'
    BY <2>2, <2>5 DEF BrokenHasEnded
  <2>10. ServerFollows'
    BY <2>2 DEF ServerFollows
  <2> QED
    BY <2>4, <2>7, <2>8, <2>9, <2>10
<1>2. CASE ServerAccepts
  <2>1. /\ accepted < made /\ accepted' = accepted + 1
        /\ fwdSubscribers' = fwdSubscribers \cup {accepted + 1}
        /\ fwdCanWrite' = fwdCanWrite \cup {accepted + 1}
        /\ UNCHANGED <<vars, link, made, down, requests, serving, stops, fwdBroken,
                       channels, members, cars, carDevice, told, fwdWants>>
    BY <1>2 DEF ServerAccepts, Server!OnNewConnection, pcVars
  <2>2. accepted + 1 \in Links
    BY <1>0, <2>1 DEF Links
  <2> QED
    BY <1>0, <2>1, <2>2
       DEF LinkTypeOK, Server!TypeOK, LinkIsConnected, UnmadeIsSilent,
           SessionsAccepted, ListedIsSession, BrokenHasEnded, FailedIsBroken,
           ServerFollows, Destined, Outcome, Links, vars
<1>3. ASSUME NEW l \in Links, ServerHandles(l)
      PROVE  LinkInv'
  <2> DEFINE q == requests[l]
             r == Head(q)
  <2>1. /\ q # <<>> /\ q \in Seq(Request) /\ r \in Request /\ Tail(q) \in Seq(Request)
        /\ requests' = [requests EXCEPT ![l] = Tail(q)]
        /\ UNCHANGED <<vars, link, made, accepted, down, serving, stops>>
    BY <1>0, <1>3 DEF ServerHandles, pcVars
  <2>2. requests' \in [Links -> Seq(Request)] /\ UnmadeIsSilent'
    BY <1>0, <2>1 DEF UnmadeIsSilent, Links
  <2>3. /\ Server!TypeOK'
        /\ l \in fwdSubscribers
        /\ UNCHANGED <<fwdSubscribers, fwdCanWrite, fwdBroken>>
        /\ \A d \in Devices, k \in Links :
              k \in members'[d] <=> IF k = l /\ r.device = d
                                   THEN r.type = "subscribe"
                                   ELSE k \in members[d]
    <3>1. r.device \in Devices /\ r.type \in {"subscribe", "unsubscribe"}
      BY <2>1 DEF Request
    <3>2. CASE r.type = "subscribe"
      <4>1. Server!Subscribe(l, r.device)
        BY <1>3, <3>2 DEF ServerHandles
      <4> HIDE DEF r
      <4>2. /\ l \in fwdSubscribers
            /\ members' = [members EXCEPT ![r.device] = @ \cup {l}]
            /\ channels' = channels \cup {r.device}
            /\ told' \in {told, [told EXCEPT ![r.device] = "open"]}
            /\ fwdWants' = fwdWants \cup {<<l, r.device>>}
            /\ UNCHANGED <<fwdSubscribers, fwdCanWrite, fwdBroken, cars, carDevice>>
        BY <4>1 DEF Server!Subscribe, Server!NotifyOpenCarTerminal
      <4>3. Server!TypeOK'
        <5>1. told' \in [Devices -> {"none", "open", "close"}]
          BY <1>0, <3>1, <4>2 DEF Server!TypeOK
        <5>2. members' \in [Devices -> SUBSET Links] /\ channels' \subseteq Devices
          BY <1>0, <3>1, <4>2 DEF Server!TypeOK
        <5>3. fwdWants' \subseteq Links \X Devices
          BY <1>0, <3>1, <4>2 DEF Server!TypeOK
        <5> QED
          BY <1>0, <4>2, <5>1, <5>2, <5>3 DEF Server!TypeOK
      <4>4. members \in [Devices -> SUBSET Links]
        BY <1>0 DEF Server!TypeOK
      <4>5. ASSUME NEW d \in Devices, NEW k \in Links
            PROVE  k \in members'[d] <=> k \in members[d] \/ (k = l /\ r.device = d)
        BY <3>1, <4>2, <4>4
      <4> QED
        BY <3>2, <4>2, <4>3, <4>5
    <3>3. CASE r.type # "subscribe"
      <4>1. Server!Unsubscribe(l, r.device)
        BY <1>3, <3>3 DEF ServerHandles
      <4>2. /\ l \in fwdSubscribers
            /\ UNCHANGED <<fwdSubscribers, fwdCanWrite, fwdBroken>>
            /\ members' = [members EXCEPT ![r.device] = @ \ {l}]
        BY <4>1 DEF Server!Unsubscribe, Server!ReleaseChannelIfEmptySubscriber,
                    Server!WithoutIn
      <4>3. Server!TypeOK'
        BY <1>0, <3>1, <4>1, <4>2
           DEF Server!Unsubscribe, Server!ReleaseChannelIfEmptySubscriber,
               Server!EmptyChannels, Server!DisconnectCars, Server!TypeOK
      <4> QED
        BY <1>0, <3>1, <3>3, <4>2, <4>3 DEF Server!TypeOK
    <3> QED
      BY <3>2, <3>3
  <2>4. ServerFollows'
    <3> SUFFICES ASSUME link # NoLink, link \notin down, NEW d \in Devices
                 PROVE  d \in asked <=> Destined(link, d)'
      BY <2>1 DEF ServerFollows, vars
    <3>1. link \in Links /\ (d \in asked <=> Outcome(requests[link], link \in members[d], d))
      BY <1>0 DEF ServerFollows, Destined, NoLink, Links
    <3>2. CASE link # l
      <4>1. requests'[link] = requests[link] /\ (link \in members'[d] <=> link \in members[d])
        BY <1>0, <2>1, <2>3, <3>1, <3>2
      <4> QED
        BY <2>1, <3>1, <4>1 DEF Destined, Outcome
    <3>3. CASE link = l
      <4> DEFINE before == l \in members[d]
                 after == IF r.device = d THEN r.type = "subscribe" ELSE before
      <4>1. before \in BOOLEAN /\ after \in BOOLEAN
        <5>1. CASE r.device = d
          BY <5>1
        <5>2. CASE r.device # d
          BY <5>2
        <5> QED
          BY <5>1, <5>2
      <4>2. requests'[link] = Tail(q) /\ (link \in members'[d] <=> after)
        BY <1>0, <2>1, <2>3, <3>1, <3>3
      <4>3. Outcome(q, before, d) <=> Outcome(Tail(q), after, d)
        BY <2>1, <4>1, OutcomeOfTail
      <4>4. d \in asked <=> Outcome(q, before, d)
        BY <3>1, <3>3
      <4> HIDE DEF after, before, q
      <4>5. Outcome(requests'[link], link \in members'[d], d) <=> Outcome(Tail(q), after, d)
        BY <4>2 DEF Outcome
      <4> QED
        BY <2>1, <4>3, <4>4, <4>5 DEF Destined
    <3> QED
      BY <3>2, <3>3
  <2>5. ListedIsSession'
    BY <1>0, <2>3 DEF ListedIsSession, Server!TypeOK
  <2> QED
    BY <1>0, <2>1, <2>2, <2>3, <2>4, <2>5
       DEF LinkTypeOK, LinkIsConnected, SessionsAccepted, BrokenHasEnded,
           FailedIsBroken, vars
<1>4. ASSUME NEW l \in Links, EndReachesServer(l)
      PROVE  LinkInv'
  <2>1. /\ l \in down /\ l \in fwdSubscribers /\ fwdBroken' = fwdBroken \cup {l}
        /\ UNCHANGED <<vars, netVars, fwdSubscribers, fwdCanWrite, channels,
                       members, cars, carDevice, told, fwdWants>>
    BY <1>4 DEF EndReachesServer, Server!ConnectionBreaks, pcVars
  <2>2. LinkTypeOK' /\ BrokenHasEnded' /\ FailedIsBroken'
    BY <1>0, <2>1
       DEF LinkTypeOK, Server!TypeOK, BrokenHasEnded, FailedIsBroken, netVars
  <2>3. ServerFollows' /\ LinkIsConnected' /\ UnmadeIsSilent'
    BY <2>1 DEF LinkIsConnected, UnmadeIsSilent, ServerFollows, Destined, Outcome,
                netVars, vars
  <2> QED
    BY <2>1, <2>2, <2>3 DEF SessionsAccepted, ListedIsSession, netVars
<1>5. ASSUME NEW l \in Links, ServerNoticesEnd(l)
      PROVE  LinkInv'
  <2>1. /\ l \in fwdBroken /\ Server!OnPacketError(l)
        /\ UNCHANGED <<vars, netVars>>
    BY <1>5 DEF ServerNoticesEnd, Server!ReadErrorReported, pcVars
  <2>2. /\ fwdSubscribers' = fwdSubscribers \ {l}
        /\ fwdCanWrite' = fwdCanWrite \ {l}
        /\ fwdBroken' = fwdBroken \ {l}
        /\ members' = [d \in Devices |-> members[d] \ {l}]
    BY <2>1 DEF Server!OnPacketError, Server!ReleaseChannelIfEmptySubscriber,
                Server!Without
  <2>3. Server!TypeOK'
    BY <1>0, <2>1, <2>2
       DEF Server!OnPacketError, Server!ReleaseChannelIfEmptySubscriber,
           Server!EmptyChannels, Server!DisconnectCars, Server!TypeOK
  <2>4. ServerFollows'
    <3>1. link \notin down => \A d \in Devices : link \in members'[d] <=> link \in members[d]
      BY <2>1, <2>2 DEF BrokenHasEnded
    <3> QED
      BY <2>1, <3>1 DEF ServerFollows, Destined, Outcome, netVars, vars
  <2> QED
    BY <1>0, <2>1, <2>2, <2>3, <2>4
       DEF LinkTypeOK, LinkIsConnected, UnmadeIsSilent, SessionsAccepted,
           ListedIsSession, BrokenHasEnded, FailedIsBroken, netVars, vars
<1>6. CASE ServerCars
  <2>1. UNCHANGED <<vars, netVars>>
    BY <1>6 DEF ServerCars, pcVars
  <2>2. /\ Server!TypeOK'
        /\ UNCHANGED <<fwdSubscribers, fwdBroken>>
        /\ fwdCanWrite' \subseteq fwdCanWrite
        /\ fwdCanWrite \ fwdCanWrite' \subseteq fwdBroken
        /\ \A d \in Devices : /\ members'[d] \subseteq members[d]
                             /\ members[d] \cap fwdCanWrite' \subseteq members'[d]
    <3>1. PICK c \in Cars : \/ Server!CarConnects(c) \/ Server!CarError(c)
                            \/ \E d \in Devices : Server!CarPacket(c, d)
      BY <1>6 DEF ServerCars
    <3>2. CASE Server!CarConnects(c) \/ Server!CarError(c)
      BY <1>0, <3>2 DEF Server!CarConnects, Server!CarError, Server!TypeOK
    <3>3. CASE \E d \in Devices : Server!CarPacket(c, d)
      <4>1. PICK d \in Devices : Server!CarPacket(c, d)
        BY <3>3
      <4> DEFINE e == IF carDevice[c] = NoDevice THEN d ELSE carDevice[c]
      <4>2. /\ e \in Devices /\ carDevice' = [carDevice EXCEPT ![c] = e]
            /\ UNCHANGED <<fwdSubscribers, fwdBroken, channels, cars, told, fwdWants>>
        BY <1>0, <4>1 DEF Server!CarPacket, Server!TypeOK
      <4>3. PICK failing \in SUBSET (members[e] \cap fwdCanWrite \cap fwdBroken) :
              /\ fwdCanWrite' = fwdCanWrite \ failing
              /\ members' = [members EXCEPT ![e] = @ \cap fwdCanWrite']
        BY <4>1 DEF Server!CarPacket, Server!SendMsg
      <4> HIDE DEF e
      <4> QED
        BY <1>0, <4>2, <4>3 DEF Server!TypeOK
    <3> QED
      BY <3>1, <3>2, <3>3
  <2>3. ServerFollows'
    <3>1. ASSUME link # NoLink, link \notin down, NEW d \in Devices
          PROVE  link \in members'[d] <=> link \in members[d]
      BY <2>2, <3>1 DEF ListedIsSession, FailedIsBroken, BrokenHasEnded
    <3> QED
      BY <2>1, <3>1 DEF ServerFollows, Destined, Outcome, netVars, vars
  <2>4. ListedIsSession' /\ FailedIsBroken' /\ BrokenHasEnded'
    BY <2>1, <2>2 DEF ListedIsSession, FailedIsBroken, BrokenHasEnded, netVars
  <2> QED
    BY <1>0, <2>1, <2>2, <2>3, <2>4
       DEF LinkTypeOK, LinkIsConnected, UnmadeIsSilent, SessionsAccepted, netVars, vars
<1>7. CASE ServerStops
  <2>1. /\ stops < MaxStops /\ serving' = FALSE /\ stops' = stops + 1
        /\ down' = 1..made /\ accepted' = made
        /\ requests' = [k \in Links |-> <<>>]
        /\ fwdSubscribers' = {} /\ fwdCanWrite' = {} /\ fwdBroken' = {}
        /\ channels' = {} /\ members' = [d \in Devices |-> {}]
        /\ cars' = {} /\ carDevice' = [c \in Cars |-> NoDevice]
        /\ fwdWants' = {}
        /\ UNCHANGED <<vars, link, made, told>>
    BY <1>7 DEF ServerStops, pcVars
  <2>2. stops' \in 0..MaxStops
    BY <2>1, BoundsAssumption DEF LinkTypeOK
  <2>3. LinkTypeOK'
    <3>1. Server!TypeOK'
      BY <1>0, <2>1 DEF Server!TypeOK
    <3>2. requests' \in [Links -> Seq(Request)]
      BY <2>1
    <3>3. made' \in 0..MaxLinks /\ link' \in 0..made' /\ accepted' \in 0..made'
      BY <1>0, <2>1
    <3> QED
      BY <1>0, <2>1, <2>2, <3>1, <3>2, <3>3 DEF LinkTypeOK
  <2>4. ServerFollows'
    BY <1>0, <2>1 DEF ServerFollows, NoLink
  <2>5. LinkIsConnected' /\ UnmadeIsSilent'
    BY <2>1 DEF LinkIsConnected, UnmadeIsSilent, vars
  <2> QED
    BY <2>1, <2>3, <2>4, <2>5
       DEF SessionsAccepted, ListedIsSession, BrokenHasEnded, FailedIsBroken
<1>8. CASE ServerStarts
  <2>1. /\ serving' = TRUE
        /\ UNCHANGED <<vars, link, made, accepted, down, requests, stops, fwdVars>>
    BY <1>8 DEF ServerStarts, pcVars
  <2> QED
    BY <1>0, <2>1
       DEF LinkTypeOK, Server!TypeOK, LinkIsConnected, UnmadeIsSilent,
           SessionsAccepted, ListedIsSession, BrokenHasEnded, FailedIsBroken,
           ServerFollows, Destined, Outcome, fwdVars, vars
<1> QED
  BY <1>1, <1>2, <1>3, <1>4, <1>5, <1>6, <1>7, <1>8

-----------------------------------------------------------------------------
(* LinkInv is inductive. *)
LEMMA LinkNextInv == LinkInv /\ [LinkNext]_allVars => LinkInv'
<1> SUFFICES ASSUME LinkInv, [LinkNext]_allVars
             PROVE  LinkInv'
  OBVIOUS
<1>1. IInv'
  BY PcStep, NextInv DEF LinkInv
<1>2. CASE LinkNext
  BY <1>1, <1>2, PcSideInv, ServerSideInv DEF LinkNext
<1>3. CASE UNCHANGED allVars
  BY <1>1, <1>3
     DEF LinkInv, LinkTypeOK, TypeOK, Server!TypeOK, LinkIsConnected, UnmadeIsSilent,
         SessionsAccepted, ListedIsSession, BrokenHasEnded, FailedIsBroken,
         ServerFollows, Destined, Outcome, allVars, pcVars, vars, netVars, fwdVars
<1> QED
  BY <1>2, <1>3

(* LinkInv holds in every state of the composition. *)
LEMMA LinkInvariance == LinkSpec => []LinkInv
BY LinkInitInv, LinkNextInv, PTL DEF LinkSpec

-----------------------------------------------------------------------------
(* Both processes' variables, the connections and the requests under way   *)
(* have their types, and no handler uses a connection that was not made.   *)
THEOREM LinkTypeCorrect == LinkSpec => []LinkTypeOK
BY LinkInvariance, PTL DEF LinkInv

(* pc_server's requests and jt1078_server's lists agree up to what is      *)
(* under way, through broken connections, stale sessions and restarts of   *)
(* jt1078_server: nothing that PcServer takes as asked for is forgotten or *)
(* kept by ForwardServer.                                                  *)
THEOREM ServerFollowsPc == LinkSpec => []ServerFollows
BY LinkInvariance, PTL DEF LinkInv

(* In the composition too, while pc_server is connected each device with a *)
(* watcher has been asked for on the present connection.                   *)
THEOREM WatchedIsAskedHere == LinkSpec => []WatchedIsAsked
BY LinkInvariance, PTL DEF LinkInv, IInv

(* With nothing under way, jt1078_server lists the session of a working    *)
(* connection under every watched device, and under no other except those  *)
(* of a viewer whose read error is still to come.                          *)
Quiet == link # NoLink /\ link \notin down /\ requests[link] = <<>>
ListsTheWatched ==
    Quiet => \A d \in Devices :
                /\ watchers[d] # {} => link \in members[d]
                /\ link \in members[d] =>
                      \/ watchers[d] # {}
                      \/ \E v \in sessions :
                            device[v] = d /\ v \notin canWrite /\ v \in broken
THEOREM QuietMeansServed == LinkSpec => []ListsTheWatched
<1>1. LinkInv => ListsTheWatched
  <2> SUFFICES ASSUME LinkInv, Quiet, NEW d \in Devices
               PROVE  /\ watchers[d] # {} => link \in members[d]
                      /\ link \in members[d] =>
                            \/ watchers[d] # {}
                            \/ \E v \in sessions :
                                  device[v] = d /\ v \notin canWrite /\ v \in broken
    BY DEF ListsTheWatched
  <2>1. d \in asked <=> link \in members[d]
    BY DEF LinkInv, ServerFollows, Destined, Outcome, Quiet
  <2>2. WatchedIsAsked /\ AskedIsWatched /\ client = "connected"
    BY DEF LinkInv, IInv, LinkIsConnected, Quiet
  <2> QED
    BY <2>1, <2>2 DEF WatchedIsAsked, WatchedDevices, AskedIsWatched
<1> QED
  BY <1>1, LinkInvariance, PTL
=============================================================================
