--------------------------- MODULE MCCarWebServer ---------------------------
(* CarWebServer with two devices and two browsers, and CarFeed with the    *)
(* same devices and browsers and blocks of three words.  The two share     *)
(* nothing, so in a behaviour only one of them moves.                      *)
EXTENDS CarWebServer, CarFeed

CONSTANTS d1, d2, v1, v2

TopicEach == [v \in Audience |-> IF v = v1 THEN d1 ELSE d2]

VARIABLE moving     \* "server" or "feed"

MCInit == Init /\ FeedInit /\ moving \in {"server", "feed"}

MCNext ==
    /\ \/ moving = "server" /\ Next /\ UNCHANGED feedVars
       \/ moving = "feed" /\ FeedNext /\ UNCHANGED vars
    /\ UNCHANGED moving

(* CarWebServer's handlers run when they are due, which leaves the         *)
(* behaviours in which it moves.                                           *)
MCFairSpec == MCInit /\ [][MCNext]_<<vars, feedVars, moving>> /\ Fairness
=============================================================================
