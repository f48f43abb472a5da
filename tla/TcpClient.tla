----------------------------- MODULE TcpClient -----------------------------
(***************************************************************************)
(* The descriptors behind the connection to jt1078_server: TcpClient and   *)
(* the TcpSession it is, with the owner that drops the client and makes    *)
(* another when the reconnect timer fires.  PcServer and WebServer share   *)
(* this code and each have one client.  The rest of the process opens and  *)
(* closes descriptors of its own; in web_server it has threads that do so  *)
(* while a callback runs.                                                  *)
(***************************************************************************)
CONSTANTS Descriptors,      \* what the process may have open at a time
          NoDescriptor,     \* INVALID_SOCKET
          Unreachable       \* whether connect() may fail outright, other
                            \* than by being refused

ASSUME DescriptorAssumption ==
    NoDescriptor \notin Descriptors /\ Unreachable \in BOOLEAN

VARIABLES owner,        \* who opened each descriptor: "free", "client", "other"
          evWrite,      \* the descriptor m_ev_write is pending on
          fd,           \* m_fd, which m_read_event is pending on
          reporting,    \* write_cb has closed its descriptor and has not
                        \* called OnConnected yet
          hasClient,    \* the owner's m_client is not null
          retry         \* m_connect_timer is pending

clientVars == <<evWrite, fd, reporting, hasClient, retry>>
tcpVars == <<owner, clientVars>>

Owners == {"free", "client", "other"}
MaybeDescriptor == Descriptors \cup {NoDescriptor}
Free == {f \in Descriptors : owner[f] = "free"}

TcpTypeOK ==
    /\ owner \in [Descriptors -> Owners]
    /\ evWrite \in MaybeDescriptor /\ fd \in MaybeDescriptor
    /\ reporting \in BOOLEAN /\ hasClient \in BOOLEAN /\ retry \in BOOLEAN

-----------------------------------------------------------------------------
Opened(f, who) == [owner EXCEPT ![f] = who]

(* The table after close(f), which does nothing to INVALID_SOCKET.         *)
Closed(f) == [e \in Descriptors |-> IF e = f THEN "free" ELSE owner[e]]

(* Faulty variant: a client that failed to connect is kept. *)
OnFailureKept ==
    /\ hasClient' = hasClient /\ retry' = TRUE
    /\ fd' = NoDescriptor /\ evWrite' = NoDescriptor

(* The owner's handler of a failed attempt and of a lost connection: the   *)
(* client goes, with its events, and the timer starts.                     *)
OnFailure ==
    /\ hasClient' = FALSE /\ retry' = TRUE
    /\ fd' = NoDescriptor /\ evWrite' = NoDescriptor

(* OnConnected for a connection on f: InitReadEvent, TcpSession::Init. *)
OnSuccess(f) ==
    /\ hasClient' = TRUE /\ retry' = FALSE
    /\ fd' = f /\ evWrite' = NoDescriptor

(* Faulty variant: m_fd is set as soon as there is a descriptor. *)
PendingOwned(f) ==
    /\ hasClient' = TRUE /\ retry' = FALSE
    /\ fd' = f /\ evWrite' = f

(* The connection is under way: f is watched for writing, with a timeout.  *)
Pending(f) ==
    /\ hasClient' = TRUE /\ retry' = FALSE
    /\ fd' = NoDescriptor /\ evWrite' = f

(* AsyncConnect returns false.  The client stays, and so does the timer as *)
(* its handler found it: not pending.                                      *)
Unstarted ==
    /\ hasClient' = TRUE /\ retry' = FALSE
    /\ fd' = NoDescriptor /\ evWrite' = NoDescriptor

(* SocketConnect on a new descriptor, and AsyncConnect's branches: 0, 1,   *)
(* and 2, after which the descriptor is neither kept nor closed.           *)
Attempted == \E f \in Free : /\ owner' = Opened(f, "client")
                             /\ Pending(f) \/ OnSuccess(f) \/ OnFailure

(* No descriptor is left for socket(), or connect() fails and what         *)
(* SocketConnect opened is closed again.                                   *)
NotAttempted ==
    /\ Free = {} \/ Unreachable
    /\ Unstarted
    /\ UNCHANGED owner

-----------------------------------------------------------------------------
(* When the process starts and AsyncConnect returns false, it ends.        *)
TcpInit ==
    /\ reporting = FALSE
    /\ \E f \in Descriptors :
        /\ owner = [e \in Descriptors |-> IF e = f THEN "client" ELSE "free"]
        /\ \/ evWrite = f /\ fd = NoDescriptor /\ hasClient = TRUE /\ retry = FALSE
           \/ evWrite = NoDescriptor /\ fd = f /\ hasClient = TRUE /\ retry = FALSE
           \/ evWrite = NoDescriptor /\ fd = NoDescriptor
              /\ hasClient = FALSE /\ retry = TRUE

(* OnConnectTimer, AsyncConnectServer. *)
TimerFires ==
    /\ retry
    /\ Attempted \/ NotAttempted
    /\ UNCHANGED reporting

(* tcp_session_write_cb without an error. *)
Connects ==
    /\ evWrite # NoDescriptor
    /\ OnSuccess(evWrite)
    /\ UNCHANGED <<owner, reporting>>

(* tcp_session_write_cb with one: the socket is closed, *)
ConnectFails ==
    /\ evWrite # NoDescriptor
    /\ owner' = Closed(evWrite)
    /\ evWrite' = NoDescriptor /\ reporting' = TRUE
    /\ UNCHANGED <<fd, hasClient, retry>>

(* and then OnConnected is called. *)
ReportsFailure ==
    /\ reporting
    /\ owner' = Closed(fd)
    /\ OnFailure
    /\ reporting' = FALSE

(* tcp_session_write_cb after the timeout: m_fd has never been set.        *)
TimesOut ==
    /\ evWrite # NoDescriptor
    /\ owner' = Closed(fd)
    /\ OnFailure
    /\ UNCHANGED reporting

(* OnError, OnClientError, TcpSession::Clear. *)
ConnectionLost ==
    /\ fd # NoDescriptor
    /\ owner' = Closed(fd)
    /\ OnFailure
    /\ UNCHANGED reporting

(* The rest of the process: accepted sessions, RTMP streams, files. *)
OtherOpens ==
    /\ \E f \in Free : owner' = Opened(f, "other")
    /\ UNCHANGED clientVars

OtherCloses ==
    /\ \E f \in Descriptors : owner[f] = "other" /\ owner' = Closed(f)
    /\ UNCHANGED clientVars

TcpNext ==
    \/ TimerFires
    \/ Connects \/ ConnectFails \/ ReportsFailure \/ TimesOut
    \/ ConnectionLost
    \/ OtherOpens \/ OtherCloses

TcpSpec == TcpInit /\ [][TcpNext]_tcpVars

-----------------------------------------------------------------------------
(* Properties.                                                             *)

(* What PcServer and WebServer take the client to be. *)
ClientState ==
    IF ~hasClient THEN "none"
    ELSE IF fd # NoDescriptor THEN "connected"
    ELSE IF evWrite # NoDescriptor \/ reporting THEN "connecting"
    ELSE "dead"

Owner == INSTANCE PcServer
    WITH Viewers <- {}, Devices <- {}, NoDevice <- NoDescriptor,
         sessions <- {}, canWrite <- {}, broken <- {},
         device <- [v \in {} |-> NoDescriptor], watchers <- [d \in {} |-> {}],
         client <- ClientState, timer <- retry, asked <- {}, crashed <- FALSE

(* The client's descriptors and events implement the client that PcServer  *)
(* assumes: it is connecting until its one answer comes, connected until   *)
(* its one error, and the timer runs only while there is none.             *)
ImplementsOwner == Owner!Spec

(* No answer, error or timeout of the client ever closes a descriptor that *)
(* somebody else has opened: none is closed twice, and none that was       *)
(* closed is kept, though its number is soon in use again.                 *)
OthersUntouched ==
    [][(\E f \in Descriptors : owner[f] = "other" /\ owner'[f] = "free")
           => UNCHANGED clientVars]_tcpVars

(* PcServer.cpp:45: the timer connects again after a failed attempt or a   *)
(* lost connection.  So there is a connection, an attempt that will be     *)
(* answered, or a timer that makes one.                                    *)
AttemptOrTimer == ClientState # "dead"
=============================================================================
