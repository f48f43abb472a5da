------------------------------ MODULE IdrFrame ------------------------------
(***************************************************************************)
(* CRtmpStream::isIdrFrame1, with which write_video_frame marks the frames *)
(* a player can start at.  The frame is what RtmpClient has collected of   *)
(* the packets of a car: any bytes.  Indices count from 0 as in the code,  *)
(* so that buf[i] of the code is data[i + 1] here.                         *)
(***************************************************************************)
EXTENDS Naturals, Sequences

CONSTANTS Bytes,    \* the bytes a frame is made of
          MaxSize   \* bound of the model: the bytes of a frame

ASSUME BytesAssumption == Bytes \subseteq 0..255 /\ MaxSize \in Nat

VARIABLES data,     \* the frame
          at,       \* the loop's i
          last,     \* where the present NAL unit begins, 0 before the first
          key       \* the loop was left with true

scanVars == <<data, at, last, key>>

Frames == UNION {[1..n -> Bytes] : n \in 0..MaxSize}

ScanInit == data \in Frames /\ at = 2 /\ last = 0 /\ key = FALSE

(* Types of NAL units: a slice of an IDR picture, and the parameter sets.  *)
KeyTypes == {5, 7, 8}

(* isIdrFrame2 of the unit that begins at k; at the end of m_video_buffer  *)
(* there is its NUL.                                                       *)
isIdrFrame2(k) == k < Len(data) /\ data[k + 1] % 32 \in KeyTypes

(* A start code, 00 00 01, ends at i. *)
StartCodeEnds(i) == data[i - 1] = 0 /\ data[i] = 0 /\ data[i + 1] = 1

UnitIsKey == last # 0 /\ isIdrFrame2(last)

Scanning == at <= Len(data) /\ ~key

(* Faulty variant: the units are those between two start codes. *)
NextByteBetween ==
    /\ Scanning
    /\ at' = at + 1
    /\ IF at < Len(data) /\ StartCodeEnds(at)
       THEN key' = UnitIsKey /\ last' = at + 1
       ELSE UNCHANGED <<last, key>>
    /\ UNCHANGED data

(* A turn of the loop: a unit ends with the next start code or the frame.  *)
NextByte ==
    /\ Scanning
    /\ at' = at + 1
    /\ \/ /\ at = Len(data)
          /\ key' = UnitIsKey
          /\ UNCHANGED last
       \/ /\ at < Len(data) /\ StartCodeEnds(at)
          /\ key' = UnitIsKey
          /\ last' = at + 1
       \/ /\ at < Len(data) /\ ~StartCodeEnds(at)
          /\ UNCHANGED <<last, key>>
    /\ UNCHANGED data

ScanSpec == ScanInit /\ [][NextByte]_scanVars

-----------------------------------------------------------------------------
(* Some start code of the frame is followed by a key unit's first byte.    *)
HoldsKeyUnit ==
    \E k \in 1..Len(data) - 3 : /\ data[k] = 0 /\ data[k + 1] = 0 /\ data[k + 2] = 1
                                /\ data[k + 3] % 32 \in KeyTypes

(* RtmpStream.cpp:493: the frame is marked as one to start at exactly when *)
(* it holds a key unit, wherever in it: behind the rest of a frame whose   *)
(* end was lost, as the last unit, between empty ones, or cut at the end.  *)
KeyMarked == ~Scanning => (key <=> HoldsKeyUnit)
=============================================================================
