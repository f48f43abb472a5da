------------------------------ MODULE RedisMq ------------------------------
(***************************************************************************)
(* The connection of jt1078_server to Redis: CRedisMqServer, CRedisClient  *)
(* and the timer that connects again, with the commands for the 808        *)
(* platform that Jt1078Service pushes through it.  hiredis and the Redis   *)
(* server are external: hiredis queues what it is given, sends it in order *)
(* once connected, hands every reply to RedisCommandCallback, and frees    *)
(* the context after a failed or a lost connection, on which m_ctx keeps   *)
(* its value.                                                              *)
(***************************************************************************)
EXTENDS Naturals, Sequences

CONSTANTS Commands,        \* the commands pushed; each one once (the bound)
          Passport,        \* whether [redis] passport is configured
          NeedsPassport    \* whether the server asks for it

ASSUME RedisAssumption ==
    /\ Passport \in BOOLEAN /\ NeedsPassport \in BOOLEAN
    /\ {"auth", "select"} \cap Commands = {}

VARIABLES ctx,         \* what m_ctx points to: a context "connecting", "open" or "freed"
          connected,   \* m_bConnected
          timer,       \* m_timer's m_bWaitTimer
          wire,        \* commands given to hiredis, not yet executed
          replies,     \* replies on the way: <<command, accepted>>
          authed,      \* the server's side of this connection: may it issue commands,
          db,          \* and which database has it selected
          fate,        \* what became of each command
          running      \* FALSE once the use of a freed context ended the process

vars == <<ctx, connected, timer, wire, replies, authed, db, fate, running>>

Setup == {"auth", "select"}
Fates == {"unsent", "sent", "listed", "misplaced", "refused", "lost"}
Index == "index"        \* the database [redis] index names, if it is not 0
Default == "default"    \* the one every connection starts in

(* The places of the commands of S on the wire, and of the replies to them. *)
In(S) == {i \in 1..Len(wire) : wire[i] \in S}
RepliesTo(S) == {i \in 1..Len(replies) : replies[i][1] \in S}

(* A connection carries at most one set-up command or its reply at a time. *)
OneSetup ==
    /\ \A i, j \in In(Setup) : i = j
    /\ \A i, j \in RepliesTo(Setup) : i = j
    /\ In(Setup) = {} \/ RepliesTo(Setup) = {}

TypeOK ==
    /\ ctx \in {"connecting", "open", "freed"}
    /\ connected \in BOOLEAN /\ timer \in BOOLEAN
    /\ authed \in BOOLEAN /\ running \in BOOLEAN
    /\ db \in {Index, Default}
    /\ wire \in Seq(Commands \cup Setup)
    /\ replies \in Seq((Commands \cup Setup) \X BOOLEAN)
    /\ fate \in [Commands -> Fates]
    /\ OneSetup

(* AsyncConnect: a new context, and with it a new session of the server.   *)
(* A failure it could report at once reaches OnConnect like a later one.   *)
AsyncConnect ==
    /\ ctx' = "connecting"
    /\ authed' = ~NeedsPassport
    /\ db' = Default

Init ==
    /\ ctx = "connecting"
    /\ connected = FALSE
    /\ timer = FALSE
    /\ wire = <<>>
    /\ replies = <<>>
    /\ authed = ~NeedsPassport
    /\ db = Default
    /\ fate = [c \in Commands |-> "unsent"]
    /\ running = TRUE

-----------------------------------------------------------------------------
(* Faulty variant: a lost connection is left at that. *)
StartTimerOnce == timer' = (timer \/ ctx = "connecting")

(* StartTimer does nothing while the timer waits already.                  *)
StartTimer == timer' = TRUE

(* OnConnect(true): the first set-up command follows what was pushed while *)
(* the connection was being made.                                          *)
OnConnect ==
    /\ running
    /\ ctx = "connecting"
    /\ ctx' = "open"
    /\ connected' = TRUE
    /\ wire' = Append(wire, IF Passport THEN "auth" ELSE "select")
    /\ UNCHANGED <<timer, replies, authed, db, fate, running>>

(* hiredis answers what is pending with a null reply, of which             *)
(* RedisCommandCallback makes nothing, and frees the context.              *)
Drop ==
    /\ ctx' = "freed"
    /\ wire' = <<>>
    /\ replies' = <<>>
    /\ fate' = [c \in Commands |-> IF In({c}) # {} THEN "lost" ELSE fate[c]]

(* OnConnect(false), and OnDisconnect(false) for a connection that breaks. *)
ConnectionFails(state) ==
    /\ running
    /\ ctx = state
    /\ connected' = FALSE
    /\ StartTimer
    /\ Drop
    /\ UNCHANGED <<authed, db, running>>
OnConnectFailed == ConnectionFails("connecting")
OnDisconnect == ConnectionFails("open")

OnReconnectTimer ==
    /\ running
    /\ timer
    /\ timer' = FALSE
    /\ IF connected THEN UNCHANGED <<ctx, authed, db>> ELSE AsyncConnect
    /\ UNCHANGED <<connected, wire, replies, fate, running>>

(* Init_And_Send_SRedisFetchInfo on a context hiredis still has.           *)
Send(command) == wire' = Append(wire, command)

OnAuth(ok) ==
    IF ok THEN Send("select") /\ UNCHANGED connected
          ELSE connected' = FALSE /\ UNCHANGED wire

(* Faulty variant: a refused SELECT is only logged. *)
OnSelectLogged(ok) == UNCHANGED <<wire, connected>>

OnSelect(ok) ==
    /\ IF ok THEN UNCHANGED connected ELSE connected' = FALSE
    /\ UNCHANGED wire

(* RedisCommandCallback with a reply; OnRpushList only logs.               *)
OnReply ==
    /\ running
    /\ replies # <<>>
    /\ replies' = Tail(replies)
    /\ LET command == Head(replies)[1]
           ok      == Head(replies)[2]
       IN  /\ command = "auth" => OnAuth(ok)
           /\ command = "select" => OnSelect(ok)
           /\ command \in Commands => UNCHANGED <<wire, connected>>
    /\ UNCHANGED <<ctx, timer, authed, db, fate, running>>

(* Jt1078Service::SendCommandTo808.  RpushList looks at nothing: a context *)
(* that was freed is used all the same, and either refuses or crashes.     *)
RpushList(c) ==
    /\ running
    /\ fate[c] = "unsent"
    /\ IF ctx = "freed"
       THEN /\ fate' = [fate EXCEPT ![c] = "lost"]
            /\ running' \in BOOLEAN
            /\ UNCHANGED wire
       ELSE /\ fate' = [fate EXCEPT ![c] = "sent"]
            /\ Send(c)
            /\ UNCHANGED running
    /\ UNCHANGED <<ctx, connected, timer, replies, authed, db>>

-----------------------------------------------------------------------------
(* The Redis server.                                                       *)

Reply(ok) == replies' = Append(replies, <<Head(wire), ok>>)

(* AUTH may be refused for the password, SELECT for the index.             *)
ExecuteSetup ==
    \/ /\ Head(wire) = "auth"
       /\ \E ok \in BOOLEAN : authed' = (authed \/ ok) /\ Reply(ok)
       /\ UNCHANGED <<db, fate>>
    \/ /\ Head(wire) = "select"
       /\ \E ok \in {FALSE, authed} : db' = (IF ok THEN Index ELSE db) /\ Reply(ok)
       /\ UNCHANGED <<authed, fate>>

ExecutePush ==
    /\ Head(wire) \in Commands
    /\ fate' = [fate EXCEPT ![Head(wire)] = CASE ~authed -> "refused"
                                              [] authed /\ db = Index -> "listed"
                                              [] OTHER -> "misplaced"]
    /\ Reply(authed)
    /\ UNCHANGED <<authed, db>>

Execute ==
    /\ running
    /\ ctx = "open"
    /\ wire # <<>>
    /\ wire' = Tail(wire)
    /\ ExecuteSetup \/ ExecutePush
    /\ UNCHANGED <<ctx, connected, timer, running>>

Next ==
    \/ OnConnect \/ OnConnectFailed \/ OnDisconnect \/ OnReconnectTimer
    \/ OnReply \/ Execute
    \/ \E c \in Commands : RpushList(c)

Spec == Init /\ [][Next]_vars

(* The event loop runs the timer and the callbacks that are due, every     *)
(* attempt to connect ends (it has a timeout) and the server answers.      *)
Fairness ==
    /\ WF_vars(OnConnect \/ OnConnectFailed)
    /\ WF_vars(OnReconnectTimer)
    /\ WF_vars(OnReply)
    /\ WF_vars(Execute)

FairSpec == Spec /\ Fairness

-----------------------------------------------------------------------------
(* Properties.                                                             *)

(* There is one connection or one attempt at a time, or a timer waits that *)
(* will make the next attempt: the four callbacks never stop trying and    *)
(* never connect twice, which would leave a context nobody frees.          *)
OneAttempt == timer <=> ctx = "freed"

(* SELECT is only sent on a connection whose AUTH the server accepted.     *)
SelectAfterAuth == Passport /\ In({"select"}) # {} => authed

(* While IsConnected() and no answer to AUTH or SELECT is outstanding, the *)
(* connection works on the configured database.                            *)
ConnectedMeansReady ==
    connected /\ In(Setup) = {} /\ RepliesTo(Setup) = {} => db = Index

(* Once the server refuses no set-up command any more and no attempt fails *)
(* or breaks, the connection ends up in the configured database.           *)
Refused == \E i \in RepliesTo(Setup) : ~replies[i][2]
ReadyInTheEnd ==
    [](running /\ ~Refused) /\ <>[][~(OnConnectFailed \/ OnDisconnect)]_vars
        => <>[](db = Index)
=============================================================================
