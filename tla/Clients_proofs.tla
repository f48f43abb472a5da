-------------------------- MODULE Clients_proofs ---------------------------
(***************************************************************************)
(* Proofs about the two clients that connect again.  About RedisMq: one    *)
(* attempt at a time and never none, AUTH before SELECT, and what being    *)
(* connected means, for any set of commands and any use of a passport.     *)
(* About TcpClient: it implements the client its owners assume and spares  *)
(* the descriptors of others, for any number of descriptors.               *)
(***************************************************************************)
EXTENDS RedisMq, TcpClient, TLAPS

(* A context that is not open carries no set-up command and no reply, and  *)
(* one that is freed carries nothing.                                      *)
SetupOnlyOpen ==
    /\ ctx # "open" => ~connected /\ In(Setup) = {} /\ replies = <<>>
    /\ ctx = "freed" => wire = <<>>

(* An acceptance on its way tells the truth about the server's session.    *)
RepliesTrue ==
    \A i \in 1..Len(replies) :
        /\ replies[i] = <<"auth", TRUE>> => authed
        /\ replies[i] = <<"select", TRUE>> => db = Index

(* The inductive invariant. *)
IInv ==
    /\ TypeOK
    /\ OneAttempt
    /\ SetupOnlyOpen
    /\ RepliesTrue
    /\ SelectAfterAuth
    /\ ConnectedMeansReady

-----------------------------------------------------------------------------
(* What appending to the two queues and taking from them does to In and    *)
(* RepliesTo.                                                              *)

LEMMA WireGrows ==
    ASSUME TypeOK, NEW x, wire' = Append(wire, x), NEW S
    PROVE  In(S)' = In(S) \cup (IF x \in S THEN {Len(wire) + 1} ELSE {})
BY DEF TypeOK, In

LEMMA WireShrinks ==
    ASSUME TypeOK, wire # <<>>, wire' = Tail(wire), NEW S
    PROVE  /\ \A i : i \in In(S)' <=> i \in Nat \ {0} /\ i + 1 \in In(S)
           /\ 1 \in In(S) <=> Head(wire) \in S
           /\ In(S) \subseteq Nat \ {0}
<1>1. /\ Len(wire) \in Nat \ {0} /\ Len(wire') = Len(wire) - 1
      /\ \A i \in 1..Len(wire') : wire'[i] = wire[i + 1]
      /\ Head(wire) = wire[1]
  BY DEF TypeOK
<1>2. QED
  BY <1>1 DEF In

LEMMA RepliesGrow ==
    ASSUME TypeOK, NEW x, replies' = Append(replies, x), NEW S
    PROVE  RepliesTo(S)' = RepliesTo(S) \cup (IF x[1] \in S THEN {Len(replies) + 1} ELSE {})
BY DEF TypeOK, RepliesTo

LEMMA RepliesShrink ==
    ASSUME TypeOK, replies # <<>>, replies' = Tail(replies), NEW S
    PROVE  /\ \A i : i \in RepliesTo(S)' <=> i \in Nat \ {0} /\ i + 1 \in RepliesTo(S)
           /\ 1 \in RepliesTo(S) <=> Head(replies)[1] \in S
           /\ RepliesTo(S) \subseteq Nat \ {0}
<1>1. /\ Len(replies) \in Nat \ {0} /\ Len(replies') = Len(replies) - 1
      /\ \A i \in 1..Len(replies') : replies'[i] = replies[i + 1]
      /\ Head(replies) = replies[1]
  BY DEF TypeOK
<1>2. QED
  BY <1>1 DEF RepliesTo

LEMMA Emptied ==
    ASSUME NEW S
    PROVE  /\ wire' = <<>> => In(S)' = {}
           /\ replies' = <<>> => RepliesTo(S)' = {}
           /\ wire' = wire => In(S)' = In(S)
           /\ replies' = replies => RepliesTo(S)' = RepliesTo(S)
BY DEF In, RepliesTo

-----------------------------------------------------------------------------
LEMMA InitInv == Init => IInv
<1> SUFFICES ASSUME Init PROVE IInv
  OBVIOUS
<1>1. \A S : In(S) = {} /\ RepliesTo(S) = {}
  BY DEF Init, In, RepliesTo
<1>2. TypeOK
  <2>1. OneSetup
    BY <1>1 DEF OneSetup
  <2>2. wire \in Seq(Commands \cup Setup) /\ replies \in Seq((Commands \cup Setup) \X BOOLEAN)
    BY DEF Init
  <2>3. authed \in BOOLEAN /\ connected \in BOOLEAN /\ timer \in BOOLEAN /\ running \in BOOLEAN
    BY RedisAssumption DEF Init
  <2>4. QED
    BY <2>1, <2>2, <2>3 DEF Init, TypeOK, Fates
<1>3. QED
  BY <1>1, <1>2 DEF Init, IInv, OneAttempt, SetupOnlyOpen, RepliesTrue, SelectAfterAuth, ConnectedMeansReady

LEMMA OnConnectInv == IInv /\ OnConnect => IInv'
<1> SUFFICES ASSUME IInv, OnConnect PROVE IInv'
  OBVIOUS
<1> DEFINE x == IF Passport THEN "auth" ELSE "select"
<1>1. wire' = Append(wire, x) /\ x \in Setup /\ (Passport => x \notin {"select"})
  BY RedisAssumption DEF OnConnect, Setup
<1> HIDE DEF x
<1>2. \A S : RepliesTo(S)' = RepliesTo(S)
  BY Emptied DEF OnConnect
<1>3. In(Setup) = {} /\ RepliesTo(Setup) = {}
  BY DEF IInv, SetupOnlyOpen, OnConnect, RepliesTo
<1>4. In(Setup)' = {Len(wire) + 1} /\ (Passport => In({"select"})' = In({"select"}))
  <2>1. TypeOK
    BY DEF IInv
  <2>2. In(Setup)' = In(Setup) \cup (IF x \in Setup THEN {Len(wire) + 1} ELSE {})
    BY <1>1, <2>1, WireGrows
  <2>3. In({"select"})' = In({"select"}) \cup (IF x \in {"select"} THEN {Len(wire) + 1} ELSE {})
    BY <1>1, <2>1, WireGrows
  <2>4. QED
    BY <1>1, <1>3, <2>2, <2>3
<1>5. TypeOK'
  <2>1. OneSetup'
    BY <1>2, <1>3, <1>4 DEF OneSetup
  <2>2. wire' \in Seq(Commands \cup Setup)
    BY <1>1 DEF IInv, TypeOK
  <2>3. QED
    BY <2>1, <2>2 DEF IInv, TypeOK, OnConnect
<1>6. SetupOnlyOpen' /\ OneAttempt'
  BY DEF IInv, SetupOnlyOpen, OneAttempt, OnConnect
<1>7. RepliesTrue'
  BY DEF IInv, RepliesTrue, OnConnect
<1>8. SelectAfterAuth' /\ ConnectedMeansReady'
  BY <1>4 DEF IInv, SelectAfterAuth, ConnectedMeansReady, OnConnect
<1>9. QED
  BY <1>5, <1>6, <1>7, <1>8 DEF IInv

LEMMA ConnectionFailsInv == ASSUME NEW state PROVE IInv /\ ConnectionFails(state) => IInv'
<1> SUFFICES ASSUME IInv, ConnectionFails(state) PROVE IInv'
  OBVIOUS
<1>1. wire' = <<>> /\ replies' = <<>> /\ ctx' = "freed" /\ timer' = TRUE /\ connected' = FALSE
  BY DEF ConnectionFails, Drop, StartTimer
<1>2. \A S : In(S)' = {} /\ RepliesTo(S)' = {}
  BY <1>1, Emptied
<1>3. TypeOK'
  <2>1. fate' \in [Commands -> Fates]
    BY DEF ConnectionFails, Drop, IInv, TypeOK, Fates
  <2>2. OneSetup'
    BY <1>2 DEF OneSetup
  <2>3. wire' \in Seq(Commands \cup Setup) /\ replies' \in Seq((Commands \cup Setup) \X BOOLEAN)
    BY <1>1
  <2>4. QED
    BY <1>1, <2>1, <2>2, <2>3 DEF IInv, TypeOK, ConnectionFails
<1>4. QED
  BY <1>1, <1>2, <1>3 DEF IInv, OneAttempt, SetupOnlyOpen, RepliesTrue, SelectAfterAuth, ConnectedMeansReady

LEMMA OnReconnectTimerInv == IInv /\ OnReconnectTimer => IInv'
<1> SUFFICES ASSUME IInv, OnReconnectTimer PROVE IInv'
  OBVIOUS
<1>1. ctx = "freed" /\ ~connected /\ wire = <<>> /\ replies = <<>>
  BY DEF IInv, OneAttempt, SetupOnlyOpen, OnReconnectTimer
<1>2. ctx' = "connecting" /\ ~connected' /\ wire' = <<>> /\ replies' = <<>> /\ ~timer'
  BY <1>1 DEF OnReconnectTimer, AsyncConnect
<1>3. \A S : In(S)' = {} /\ RepliesTo(S)' = {}
  BY <1>2, Emptied
<1>4. TypeOK'
  BY <1>2, <1>3, RedisAssumption DEF IInv, TypeOK, OneSetup, OnReconnectTimer, AsyncConnect, Default, Index
<1>5. QED
  BY <1>2, <1>3, <1>4 DEF IInv, OneAttempt, SetupOnlyOpen, RepliesTrue, SelectAfterAuth, ConnectedMeansReady

LEMMA OnReplyInv == IInv /\ OnReply => IInv'
<1> SUFFICES ASSUME IInv, OnReply PROVE IInv'
  OBVIOUS
<1> DEFINE command == Head(replies)[1]
           ok == Head(replies)[2]
<1>1. TypeOK /\ replies # <<>> /\ replies' = Tail(replies)
  BY DEF IInv, OnReply
<1>2. /\ Head(replies) \in (Commands \cup Setup) \X BOOLEAN
      /\ replies' \in Seq((Commands \cup Setup) \X BOOLEAN)
      /\ Head(replies) = replies[1] /\ 1 \in 1..Len(replies)
      /\ \A i \in 1..Len(replies') : i + 1 \in 1..Len(replies) /\ replies'[i] = replies[i + 1]
  BY <1>1 DEF TypeOK
<1>3. ctx = "open"
  BY <1>1 DEF IInv, SetupOnlyOpen
<1>4. /\ \A i : i \in RepliesTo(Setup)' <=> i \in Nat \ {0} /\ i + 1 \in RepliesTo(Setup)
      /\ 1 \in RepliesTo(Setup) <=> command \in Setup
      /\ RepliesTo(Setup) \subseteq Nat \ {0}
  BY <1>1, RepliesShrink
<1>5. command \in Commands \cup Setup /\ ok \in BOOLEAN /\ Head(replies) = <<command, ok>>
  BY <1>2
<1>6. /\ command = "auth" => OnAuth(ok)
      /\ command = "select" => OnSelect(ok)
      /\ command \in Commands => UNCHANGED <<wire, connected>>
      /\ UNCHANGED <<ctx, timer, authed, db, fate, running>>
  BY DEF OnReply
<1>7. RepliesTrue'
  BY <1>2, <1>6 DEF IInv, RepliesTrue
<1>8. SetupOnlyOpen' /\ OneAttempt'
  BY <1>3, <1>6 DEF IInv, SetupOnlyOpen, OneAttempt
<1>9. command = "auth" => (ok => authed)
  BY <1>2, <1>5 DEF IInv, RepliesTrue
<1>10. command = "select" => (ok => db = Index)
  BY <1>2, <1>5 DEF IInv, RepliesTrue
<1> HIDE DEF command, ok
<1>11. command \in Setup => In(Setup) = {} /\ RepliesTo(Setup)' = {}
  BY <1>4 DEF IInv, TypeOK, OneSetup
<1>12. CASE command = "auth" /\ ok
  <2>1. wire' = Append(wire, "select") /\ connected' = connected
    BY <1>6, <1>12 DEF OnAuth, Send
  <2>2. In(Setup)' = In(Setup) \cup {Len(wire) + 1}
    BY <1>1, <2>1, WireGrows DEF Setup
  <2>3. OneSetup' /\ In(Setup)' # {}
    BY <1>11, <1>12, <2>2 DEF OneSetup, Setup
  <2>4. wire' \in Seq(Commands \cup Setup)
    BY <1>1, <2>1 DEF TypeOK, Setup
  <2>5. TypeOK'
    BY <1>1, <1>2, <1>6, <2>1, <2>3, <2>4 DEF TypeOK
  <2>6. SelectAfterAuth' /\ ConnectedMeansReady'
    BY <1>6, <1>9, <1>12, <2>3 DEF SelectAfterAuth, ConnectedMeansReady
  <2>7. QED
    BY <1>7, <1>8, <2>5, <2>6 DEF IInv
<1>13. CASE command \in Setup /\ ~(command = "auth" /\ ok)
  <2>1. wire' = wire /\ connected' \in BOOLEAN /\ (connected' => db = Index)
    BY <1>1, <1>5, <1>6, <1>10, <1>13 DEF OnAuth, OnSelect, Setup, TypeOK
  <2>2. \A S : In(S)' = In(S)
    BY <2>1, Emptied
  <2>3. OneSetup'
    BY <1>11, <1>13, <2>2 DEF OneSetup
  <2>4. TypeOK'
    BY <1>1, <1>2, <1>6, <2>1, <2>3 DEF TypeOK
  <2>5. SelectAfterAuth' /\ ConnectedMeansReady'
    BY <1>6, <2>1, <2>2 DEF IInv, SelectAfterAuth, ConnectedMeansReady
  <2>6. QED
    BY <1>7, <1>8, <2>4, <2>5 DEF IInv
<1>14. CASE command \notin Setup
  <2>1. wire' = wire /\ connected' = connected
    BY <1>5, <1>6, <1>14
  <2>2. \A S : In(S)' = In(S)
    BY <2>1, Emptied
  <2>3. OneSetup' /\ (RepliesTo(Setup)' = {} => RepliesTo(Setup) = {})
    <3>1. \A i \in RepliesTo(Setup) : i - 1 \in RepliesTo(Setup)'
      BY <1>4, <1>14
    <3>2. RepliesTo(Setup) = {} => RepliesTo(Setup)' = {}
      BY <1>4
    <3>3. \A i, j \in RepliesTo(Setup)' : i = j
      BY <1>1, <1>4 DEF TypeOK, OneSetup
    <3>4. QED
      BY <1>1, <2>2, <3>1, <3>2, <3>3 DEF TypeOK, OneSetup
  <2>4. TypeOK'
    BY <1>1, <1>2, <1>6, <2>1, <2>3 DEF TypeOK
  <2>5. SelectAfterAuth' /\ ConnectedMeansReady'
    BY <1>6, <2>1, <2>2, <2>3 DEF IInv, SelectAfterAuth, ConnectedMeansReady
  <2>6. QED
    BY <1>7, <1>8, <2>4, <2>5 DEF IInv
<1>15. QED
  BY <1>12, <1>13, <1>14

LEMMA RpushListInv == ASSUME NEW c \in Commands PROVE IInv /\ RpushList(c) => IInv'
<1> SUFFICES ASSUME IInv, RpushList(c) PROVE IInv'
  OBVIOUS
<1>1. TypeOK /\ UNCHANGED <<ctx, connected, timer, replies, authed, db>>
  BY DEF IInv, RpushList
<1>2. \A S : RepliesTo(S)' = RepliesTo(S)
  BY <1>1, Emptied
<1>3. c \notin Setup /\ c \notin {"select"}
  BY RedisAssumption DEF Setup
<1>4. /\ In(Setup)' = In(Setup) /\ In({"select"})' = In({"select"})
      /\ wire' \in Seq(Commands \cup Setup)
      /\ ctx = "freed" => wire' = wire
  <2>1. CASE ctx = "freed"
    BY <1>1, <2>1, Emptied DEF RpushList, TypeOK
  <2>2. CASE ctx # "freed"
    <3>1. wire' = Append(wire, c)
      BY <2>2 DEF RpushList, Send
    <3>2. /\ In(Setup)' = In(Setup) \cup (IF c \in Setup THEN {Len(wire) + 1} ELSE {})
          /\ In({"select"})' = In({"select"}) \cup (IF c \in {"select"} THEN {Len(wire) + 1} ELSE {})
      BY <1>1, <3>1, WireGrows
    <3>3. wire' \in Seq(Commands \cup Setup)
      BY <1>1, <3>1 DEF TypeOK
    <3>4. QED
      BY <1>3, <2>2, <3>2, <3>3
  <2>3. QED
    BY <2>1, <2>2
<1>5. TypeOK'
  <2>1. fate' \in [Commands -> Fates] /\ running' \in BOOLEAN
    BY <1>1 DEF RpushList, TypeOK, Fates
  <2>2. OneSetup'
    BY <1>1, <1>2, <1>4 DEF TypeOK, OneSetup
  <2>3. QED
    BY <1>1, <1>4, <2>1, <2>2 DEF TypeOK
<1>6. QED
  BY <1>1, <1>2, <1>4, <1>5 DEF IInv, OneAttempt, SetupOnlyOpen, RepliesTrue, SelectAfterAuth, ConnectedMeansReady

LEMMA ExecuteInv == IInv /\ Execute => IInv'
<1> SUFFICES ASSUME IInv, Execute PROVE IInv'
  OBVIOUS
<1> DEFINE command == Head(wire)
<1>1. /\ TypeOK /\ wire # <<>> /\ wire' = Tail(wire) /\ ctx = "open"
      /\ UNCHANGED <<ctx, connected, timer, running>>
      /\ ExecuteSetup \/ ExecutePush
  BY DEF IInv, Execute
<1>2. command \in Commands \cup Setup /\ wire' \in Seq(Commands \cup Setup)
  BY <1>1 DEF TypeOK
<1>3. /\ \A i : i \in In(Setup)' <=> i \in Nat \ {0} /\ i + 1 \in In(Setup)
      /\ 1 \in In(Setup) <=> command \in Setup
      /\ In(Setup) \subseteq Nat \ {0}
  BY <1>1, WireShrinks
<1>4. PICK ok \in BOOLEAN :
         /\ replies' = Append(replies, <<command, ok>>)
         /\ authed' \in BOOLEAN /\ (authed => authed') /\ (command = "auth" /\ ok = TRUE => authed')
         /\ db' \in {Index, Default} /\ (db = Index => db' = Index)
         /\ (command = "select" /\ ok = TRUE => db' = Index)
         /\ fate' \in [Commands -> Fates]
  <2>1. CASE ExecuteSetup /\ command = "auth"
    BY <1>1, <2>1 DEF ExecuteSetup, Reply, TypeOK
  <2>2. CASE ExecuteSetup /\ command = "select"
    BY <1>1, <2>2 DEF ExecuteSetup, Reply, TypeOK
  <2>3. CASE ExecutePush
    <3>1. command \notin Setup
      BY <2>3, RedisAssumption DEF ExecutePush, Setup
    <3>2. fate' \in [Commands -> Fates]
      BY <1>1, <2>3 DEF ExecutePush, TypeOK, Fates
    <3>3. QED
      BY <1>1, <2>3, <3>1, <3>2 DEF ExecutePush, Reply, TypeOK, Setup
  <2>4. QED
    BY <1>1, <2>1, <2>2, <2>3 DEF ExecuteSetup
<1> HIDE DEF command
<1>5. RepliesTo(Setup)' = RepliesTo(Setup) \cup (IF command \in Setup THEN {Len(replies) + 1} ELSE {})
  <2> DEFINE x == <<command, ok>>
  <2>1. x[1] = command /\ replies' = Append(replies, x)
    BY <1>4
  <2> HIDE DEF x
  <2>2. RepliesTo(Setup)' = RepliesTo(Setup) \cup (IF x[1] \in Setup THEN {Len(replies) + 1} ELSE {})
    BY <1>1, <2>1, RepliesGrow
  <2>3. QED
    BY <2>1, <2>2
<1>6. replies' \in Seq((Commands \cup Setup) \X BOOLEAN)
  BY <1>1, <1>2, <1>4 DEF TypeOK
<1>7. OneSetup'
  <2>1. CASE command \in Setup
    <3>1. In(Setup)' = {} /\ RepliesTo(Setup) = {}
      BY <1>1, <1>3, <2>1 DEF TypeOK, OneSetup
    <3>2. QED
      BY <1>5, <2>1, <3>1 DEF OneSetup
  <2>2. CASE command \notin Setup
    <3>1. RepliesTo(Setup)' = RepliesTo(Setup)
      BY <1>5, <2>2
    <3>2. (\A i, j \in In(Setup)' : i = j) /\ (In(Setup) = {} => In(Setup)' = {})
      BY <1>1, <1>3 DEF TypeOK, OneSetup
    <3>3. QED
      BY <1>1, <3>1, <3>2 DEF TypeOK, OneSetup
  <2>3. QED
    BY <2>1, <2>2
<1>8. TypeOK'
  BY <1>1, <1>2, <1>4, <1>6, <1>7 DEF TypeOK
<1>9. SetupOnlyOpen' /\ OneAttempt'
  BY <1>1 DEF IInv, SetupOnlyOpen, OneAttempt
<1>10. RepliesTrue'
  <2>1. \A i \in 1..Len(replies') : \/ i \in 1..Len(replies) /\ replies'[i] = replies[i]
                                    \/ replies'[i] = <<command, ok>>
    BY <1>1, <1>4 DEF TypeOK
  <2>2. \A i \in 1..Len(replies) : /\ replies[i] = <<"auth", TRUE>> => authed'
                                   /\ replies[i] = <<"select", TRUE>> => db' = Index
    BY <1>4 DEF IInv, RepliesTrue
  <2>3. /\ <<command, ok>> = <<"auth", TRUE>> => authed'
        /\ <<command, ok>> = <<"select", TRUE>> => db' = Index
    BY <1>4
  <2>4. QED
    BY <2>1, <2>2, <2>3 DEF RepliesTrue
<1>11. SelectAfterAuth'
  <2>1. \A i : i \in In({"select"})' <=> i \in Nat \ {0} /\ i + 1 \in In({"select"})
    BY <1>1, WireShrinks
  <2>2. QED
    BY <1>4, <2>1 DEF IInv, SelectAfterAuth
<1>12. ConnectedMeansReady'
  <2>1. CASE command \in Setup
    BY <1>5, <2>1 DEF ConnectedMeansReady
  <2>2. CASE command \notin Setup
    <3>1. In(Setup)' = {} => In(Setup) = {}
      <4>1. \A i \in In(Setup) : i - 1 \in In(Setup)'
        BY <1>3, <2>2
      <4>2. QED
        BY <4>1
    <3>2. RepliesTo(Setup)' = RepliesTo(Setup)
      BY <1>5, <2>2
    <3>3. QED
      BY <1>1, <1>4, <3>1, <3>2 DEF IInv, ConnectedMeansReady
  <2>3. QED
    BY <2>1, <2>2
<1>13. QED
  BY <1>8, <1>9, <1>10, <1>11, <1>12 DEF IInv

-----------------------------------------------------------------------------
LEMMA StutterInv == IInv /\ UNCHANGED vars => IInv'
<1> SUFFICES ASSUME IInv, UNCHANGED vars PROVE IInv'
  OBVIOUS
<1>1. /\ In(Setup)' = In(Setup) /\ RepliesTo(Setup)' = RepliesTo(Setup)
      /\ In({"select"})' = In({"select"})
  BY DEF vars, In, RepliesTo
<1>2. TypeOK' /\ OneAttempt'
  BY <1>1 DEF vars, IInv, TypeOK, OneSetup, OneAttempt
<1>3. SetupOnlyOpen' /\ RepliesTrue' /\ SelectAfterAuth' /\ ConnectedMeansReady'
  BY <1>1 DEF vars, IInv, SetupOnlyOpen, RepliesTrue, SelectAfterAuth, ConnectedMeansReady
<1>4. QED
  BY <1>2, <1>3 DEF IInv

LEMMA NextInv == IInv /\ [Next]_vars => IInv'
<1> SUFFICES ASSUME IInv, [Next]_vars PROVE IInv'
  OBVIOUS
<1>1. CASE OnConnect
  BY <1>1, OnConnectInv
<1>2. CASE OnConnectFailed
  BY <1>2, ConnectionFailsInv DEF OnConnectFailed
<1>3. CASE OnDisconnect
  BY <1>3, ConnectionFailsInv DEF OnDisconnect
<1>4. CASE OnReconnectTimer
  BY <1>4, OnReconnectTimerInv
<1>5. CASE OnReply
  BY <1>5, OnReplyInv
<1>6. CASE Execute
  BY <1>6, ExecuteInv
<1>7. CASE \E c \in Commands : RpushList(c)
  BY <1>7, RpushListInv
<1>8. CASE UNCHANGED vars
  BY <1>8, StutterInv
<1>9. QED
  BY <1>1, <1>2, <1>3, <1>4, <1>5, <1>6, <1>7, <1>8 DEF Next

(* The inductive invariant holds in every reachable state.                 *)
THEOREM Invariance == Spec => []IInv
BY InitInv, NextInv, PTL DEF Spec

(* Every variable keeps its type, and a connection never carries two       *)
(* set-up commands at a time.                                              *)
THEOREM TypeCorrect == Spec => []TypeOK
<1>1. IInv => TypeOK
  BY DEF IInv
<1>2. QED
  BY <1>1, Invariance, PTL

(* CRedisMqServer never stops trying to connect and never tries twice at   *)
(* a time.                                                                 *)
THEOREM OneAttemptAtATime == Spec => []OneAttempt
<1>1. IInv => OneAttempt
  BY DEF IInv
<1>2. QED
  BY <1>1, Invariance, PTL

(* OnAuth sends SELECT on accepted connections only.                       *)
THEOREM SelectFollowsAuth == Spec => []SelectAfterAuth
<1>1. IInv => SelectAfterAuth
  BY DEF IInv
<1>2. QED
  BY <1>1, Invariance, PTL

(* Connected, with nothing outstanding, means the configured database.     *)
THEOREM ReadyWhenConnected == Spec => []ConnectedMeansReady
<1>1. IInv => ConnectedMeansReady
  BY DEF IInv
<1>2. QED
  BY <1>1, Invariance, PTL

-----------------------------------------------------------------------------
(* TcpClient.                                                              *)

(* The client uses at most one descriptor, which is open and its own, and  *)
(* none while the timer runs or write_cb has closed it.                    *)
OneUse ==
    /\ hasClient <=> ~retry
    /\ evWrite # NoDescriptor => owner[evWrite] = "client" /\ hasClient /\ ~reporting
    /\ fd # NoDescriptor => owner[fd] = "client" /\ hasClient /\ ~reporting
    /\ evWrite = NoDescriptor \/ fd = NoDescriptor
    /\ reporting => hasClient

TcpInv == TcpTypeOK /\ OneUse

LEMMA TcpInitInv == TcpInit => TcpInv
BY DescriptorAssumption DEF TcpInit, TcpInv, TcpTypeOK, OneUse, Owners, MaybeDescriptor

(* One step keeps the invariant, whichever it is. *)
LEMMA TcpStepInv ==
    ASSUME TcpInv, [TcpNext]_tcpVars
    PROVE  TcpInv'
<1> USE DescriptorAssumption DEF TcpInv, TcpTypeOK, OneUse, Owners, MaybeDescriptor
<1>1. CASE TimerFires
  <2>1. ASSUME NEW f \in Free, owner' = Opened(f, "client"), Pending(f)
        PROVE  TcpInv'
    BY <1>1, <2>1 DEF TimerFires, Free, Opened, Pending
  <2>2. ASSUME NEW f \in Free, owner' = Opened(f, "client"), OnSuccess(f)
        PROVE  TcpInv'
    BY <1>1, <2>2 DEF TimerFires, Free, Opened, OnSuccess
  <2>3. ASSUME NEW f \in Free, owner' = Opened(f, "client"), OnFailure
        PROVE  TcpInv'
    BY <1>1, <2>3 DEF TimerFires, Free, Opened, OnFailure
  <2>4. CASE NotAttempted
    BY <1>1, <2>4 DEF TimerFires, NotAttempted, Unstarted
  <2>5. QED
    BY <1>1, <2>1, <2>2, <2>3, <2>4 DEF TimerFires, Attempted
<1>2. CASE Connects
  BY <1>2 DEF Connects, OnSuccess
<1>3. CASE ConnectFails
  BY <1>3 DEF ConnectFails, Closed
<1>4. CASE ReportsFailure
  BY <1>4 DEF ReportsFailure, Closed, OnFailure
<1>5. CASE TimesOut
  BY <1>5 DEF TimesOut, Closed, OnFailure
<1>6. CASE ConnectionLost
  BY <1>6 DEF ConnectionLost, Closed, OnFailure
<1>7. CASE OtherOpens
  BY <1>7 DEF OtherOpens, Free, Opened, clientVars
<1>8. CASE OtherCloses
  BY <1>8 DEF OtherCloses, Closed, clientVars
<1>9. CASE UNCHANGED tcpVars
  BY <1>9 DEF tcpVars, clientVars
<1>10. QED
  BY <1>1, <1>2, <1>3, <1>4, <1>5, <1>6, <1>7, <1>8, <1>9 DEF TcpNext

LEMMA TcpInvariance == TcpSpec => []TcpInv
<1>1. TcpInit => TcpInv
  BY TcpInitInv
<1>2. TcpInv /\ [TcpNext]_tcpVars => TcpInv'
  BY TcpStepInv
<1>3. QED
  BY <1>1, <1>2, PTL DEF TcpSpec

(* TcpClient keeps the types of its variables, for any descriptors. *)
THEOREM TcpTypeCorrect == TcpSpec => []TcpTypeOK
<1>1. TcpInv => TcpTypeOK
  BY DEF TcpInv
<1>2. QED
  BY <1>1, TcpInvariance, PTL

(* Only the rest of the process closes what the rest of the process has    *)
(* opened: the client closes the one descriptor it uses, at most once.     *)
THEOREM ClosesItsOwn == TcpSpec => OthersUntouched
<1>1. ASSUME TcpInv, [TcpNext]_tcpVars,
             NEW f \in Descriptors, owner[f] = "other", owner'[f] = "free"
      PROVE  UNCHANGED clientVars
  <2> USE <1>1, DescriptorAssumption DEF TcpInv, TcpTypeOK, OneUse, MaybeDescriptor
  <2>1. CASE TimerFires
    BY <2>1 DEF TimerFires, Attempted, NotAttempted, Free, Opened
  <2>2. CASE Connects
    BY <2>2 DEF Connects
  <2>3. CASE ConnectFails
    BY <2>3 DEF ConnectFails, Closed
  <2>4. CASE ReportsFailure \/ TimesOut \/ ConnectionLost
    BY <2>4 DEF ReportsFailure, TimesOut, ConnectionLost, Closed
  <2>5. CASE OtherOpens \/ OtherCloses \/ UNCHANGED tcpVars
    BY <2>5 DEF OtherOpens, OtherCloses, tcpVars
  <2>6. QED
    BY <2>1, <2>2, <2>3, <2>4, <2>5 DEF TcpNext
<1>2. TcpInv /\ [TcpNext]_tcpVars
        => [(\E f \in Descriptors : owner[f] = "other" /\ owner'[f] = "free")
               => UNCHANGED clientVars]_tcpVars
  BY <1>1
<1>3. QED
  BY <1>2, TcpInvariance, PTL DEF TcpSpec, OthersUntouched

(* The client with its descriptors implements the client PcServer assumes. *)
THEOREM ImplementsItsOwner == TcpSpec => ImplementsOwner
<1>0. Owner!WatchedDevices = {}
  BY Zenon DEF Owner!WatchedDevices
<1>1. TcpInit => Owner!Init
  BY DescriptorAssumption DEF TcpInit, Owner!Init, ClientState
<1>2. ASSUME TcpInv, [TcpNext]_tcpVars
      PROVE  [Owner!Next]_Owner!vars
  <2> USE <1>2, DescriptorAssumption
      DEF TcpInv, TcpTypeOK, OneUse, MaybeDescriptor, ClientState,
          Owner!viewerVars, Owner!linkVars, Owner!vars
  <2>1. CASE TimerFires
    <3>1. \/ ClientState' \in {"connecting", "dead"} /\ retry' = FALSE
          \/ ClientState' = "connected" /\ retry' = FALSE
          \/ ClientState' = "none" /\ retry' = TRUE
      BY <2>1 DEF TimerFires, Attempted, NotAttempted, Pending, OnSuccess, OnFailure,
                  Unstarted, Free
    <3>2. ClientState' = "connected" /\ retry' = FALSE => Owner!OnClientConnect(TRUE)
      BY <1>0 DEF Owner!OnClientConnect
    <3>3. ClientState' = "none" /\ retry' = TRUE => Owner!OnClientConnect(FALSE)
      BY DEF Owner!OnClientConnect
    <3>4. Owner!OnConnectTimer
      BY <2>1, <3>1, <3>2, <3>3 DEF TimerFires, Owner!OnConnectTimer
    <3>5. QED
      BY <3>4 DEF Owner!Next
  <2>2. CASE Connects
    <3>1. ClientState = "connecting" /\ ClientState' = "connected" /\ retry' = FALSE
      BY <2>2 DEF Connects, OnSuccess
    <3>2. Owner!OnClientConnect(TRUE)
      BY <1>0, <3>1 DEF Owner!OnClientConnect
    <3>3. Owner!ConnectCompletes
      BY <3>1, <3>2 DEF Owner!ConnectCompletes
    <3>4. QED
      BY <3>3 DEF Owner!Next
  <2>3. CASE ConnectFails
    <3>1. ClientState = "connecting" /\ ClientState' = "connecting" /\ retry' = retry
      BY <2>3 DEF ConnectFails
    <3>2. QED
      BY <3>1
  <2>4. CASE ReportsFailure \/ TimesOut
    <3>1. ClientState = "connecting" /\ ClientState' = "none" /\ retry' = TRUE
      BY <2>4 DEF ReportsFailure, TimesOut, OnFailure
    <3>2. Owner!ConnectCompletes
      BY <1>0, <3>1 DEF Owner!ConnectCompletes, Owner!OnClientConnect
    <3>3. QED
      BY <3>2 DEF Owner!Next
  <2>5. CASE ConnectionLost
    <3>1. ClientState = "connected" /\ ClientState' = "none" /\ retry' = TRUE
      BY <2>5 DEF ConnectionLost, OnFailure
    <3>2. Owner!OnClientError
      BY <3>1 DEF Owner!OnClientError
    <3>3. QED
      BY <3>2 DEF Owner!Next
  <2>6. CASE OtherOpens \/ OtherCloses \/ UNCHANGED tcpVars
    BY <2>6 DEF OtherOpens, OtherCloses, tcpVars, clientVars
  <2>7. QED
    BY <2>1, <2>2, <2>3, <2>4, <2>5, <2>6 DEF TcpNext
<1>3. QED
  BY <1>1, <1>2, TcpInvariance, PTL DEF TcpSpec, ImplementsOwner, Owner!Spec
=============================================================================
