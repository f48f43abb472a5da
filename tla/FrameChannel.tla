--------------------------- MODULE FrameChannel ---------------------------
(***************************************************************************)
(* What a viewer may rely on: the frames of its device come in the order   *)
(* they were sent, each whole and once, and none is skipped; when a        *)
(* connection is lost the frames simply end.  FramePath implements this.   *)
(***************************************************************************)
EXTENDS Naturals, Sequences

CONSTANTS Viewers, Frames

VARIABLES sent,         \* for each viewer: the frames meant for it, in order
          received      \* those it has got

channelVars == <<sent, received>>

Init == sent = [v \in Viewers |-> <<>>] /\ received = [v \in Viewers |-> <<>>]

(* A frame of some car; W are the viewers that watch it. *)
Send(f, W) ==
    /\ sent' = [v \in Viewers |-> IF v \in W THEN Append(sent[v], f) ELSE sent[v]]
    /\ UNCHANGED received

(* Some of the frames under way to v arrive together. *)
Receive(v) ==
    /\ \E n \in Len(received[v]) + 1 .. Len(sent[v]) :
           received' = [received EXCEPT ![v] = SubSeq(sent[v], 1, n)]
    /\ UNCHANGED sent

Next == \/ \E v \in Viewers : Receive(v)
        \/ \E f \in Frames, W \in SUBSET Viewers : Send(f, W)

Spec == Init /\ [][Next]_channelVars
=============================================================================
