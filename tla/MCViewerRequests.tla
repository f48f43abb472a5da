-------------------------- MODULE MCViewerRequests --------------------------
(* ViewerRequests with two viewers and one device. *)
EXTENDS ViewerRequests

CONSTANTS v1, v2, d1
=============================================================================
