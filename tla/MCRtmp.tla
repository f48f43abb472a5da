------------------------------- MODULE MCRtmp ------------------------------
(* The three parts of a device's stream in web_server, each on its own:    *)
(* FrameAssembly with short frames; IdrFrame with bytes of which 0 and 1   *)
(* make start codes and are headers too, 101 is the first byte of an IDR   *)
(* slice and 65 that of another one; and RtmpTimeline with the proportions *)
(* of the code on a short clock.  They share nothing, so in a behaviour    *)
(* only one of them moves.                                                 *)
EXTENDS FrameAssembly, IdrFrame, RtmpTimeline

VARIABLE moving     \* "assembly", "scan" or "timeline"

MCInit ==
    /\ Init /\ ScanInit /\ TimelineInit
    /\ moving \in {"assembly", "scan", "timeline"}
    /\ moving # "scan" => data = <<>>

MCNext ==
    /\ \/ moving = "assembly" /\ Next /\ UNCHANGED <<scanVars, timelineVars>>
       \/ moving = "scan" /\ NextByte /\ UNCHANGED <<vars, timelineVars>>
       \/ moving = "timeline" /\ TimelineNext /\ UNCHANGED <<vars, scanVars>>
    /\ UNCHANGED moving

MCSpec == MCInit /\ [][MCNext]_<<vars, scanVars, timelineVars, moving>>
=============================================================================
