----------------------------- MODULE MCClients -----------------------------
(* RedisMq with three commands to push, and TcpClient in a process with    *)
(* four descriptors to spend.  The two share nothing, so in a behaviour    *)
(* only one of them moves.                                                 *)
EXTENDS RedisMq, TcpClient

CONSTANTS c1, c2, c3, f1, f2, f3, f4

VARIABLE moving     \* "redis" or "tcp"

MCInit ==
    /\ Init /\ TcpInit
    /\ \/ moving = "tcp"
       \/ moving = "redis" /\ retry /\ owner[f1] = "client"

MCNext ==
    /\ \/ moving = "redis" /\ Next /\ UNCHANGED tcpVars
       \/ moving = "tcp" /\ TcpNext /\ UNCHANGED vars
    /\ UNCHANGED moving

MCSpec == MCInit /\ [][MCNext]_<<vars, tcpVars, moving>>

(* RedisMq's handlers run when they are due, which leaves the behaviours    *)
(* in which it moves.                                                      *)
MCFairSpec == MCSpec /\ Fairness
=============================================================================
