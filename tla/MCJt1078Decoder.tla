-------------------------- MODULE MCJt1078Decoder --------------------------
(* Jt1078Decoder with short headers and bodies, and DeviceIds with short   *)
(* SIM numbers and the digits 0, 1, 9 and a.  The two share nothing: ids   *)
(* only move while the car has sent no packet.                             *)
EXTENDS Jt1078Decoder, DeviceIds

MCInit == DecoderInit /\ IdInit /\ (car # <<>> => typed = <<0>>)

MCNext == \/ car # <<>> /\ DecoderNext /\ UNCHANGED idVars
          \/ car = <<>> /\ IdNext /\ UNCHANGED decoderVars

MCSpec == MCInit /\ [][MCNext]_<<decoderVars, idVars>>
=============================================================================
