---------------------------- MODULE RtmpTimeline ---------------------------
(***************************************************************************)
(* The times of the stream web_server pushes for one device, during the    *)
(* life of one RtmpClient: the presentation times CRtmpStream gives to     *)
(* video and audio, and the silent audio RtmpClient adds for a device that *)
(* sends none.  A frame is its timestamp; FrameAssembly is about its       *)
(* packets.  The proportions are the code's with 128 bytes as the unit:    *)
(* 640, 2048 and 2048 bytes become 5, 16 and 16.                           *)
(***************************************************************************)
EXTENDS Integers

CONSTANTS Slot,         \* 40 ms
          SlotBytes,    \* the PCM added per slot, 640 bytes
          MaxFake,      \* m_uMaxFakeAudioBufferLen, 2048 bytes
          RawBytes,     \* iRawBuffSize, the PCM one AAC frame takes, 2048 bytes
          Width,        \* the range of uint64_t
          MaxTime, MaxTimes    \* bounds of the model

ASSUME TimelineAssumption ==
    /\ {Slot, SlotBytes, MaxFake, RawBytes, Width, MaxTime} \subseteq Nat \ {0}
    /\ SlotBytes <= MaxFake /\ MaxFake <= RawBytes
    /\ SlotBytes * (MaxTime + 1) < Width /\ MaxTime + Slot < Width
    /\ MaxTimes \in Nat

Times == 1..MaxTime
Tracks == {"video", "audio"}
Unset == 0      \* the code's mark of a time that is not set yet

VARIABLES bCarHaveAudio,    \* the device has sent audio
          start, lastVideo, \* m_uStartVideoTime, m_uLastVideoTime
          count,            \* m_uSendAudioPktCount
          tsLast, offset,   \* m_ts_video_last, m_ts_video_offset and those of audio
          pcm,              \* pcmencodesize
          first, pushed,    \* history: each medium's first time; its last push
          fakeBytes,        \* history: the silence added in all
          steady,           \* history: each medium's clock only went forward,
                            \* in steps that MaxFake can fill
          frames            \* bound: frames so far

audioVars == <<start, lastVideo, count, fakeBytes>>
streamVars == <<tsLast, offset, pcm, first, pushed>>
timelineVars == <<bCarHaveAudio, audioVars, streamVars, steady, frames>>

TimelineTypeOK ==
    /\ bCarHaveAudio \in BOOLEAN
    /\ {start, lastVideo} \subseteq Times \cup {Unset}
    /\ count \in 0..Width - 1
    /\ tsLast \in [Tracks -> Times \cup {Unset}]
    /\ first \in [Tracks -> Times \cup {Unset}]
    /\ offset \in [Tracks -> 0..MaxTime]
    /\ pushed \in [Tracks -> [ts : Times \cup {Unset}, pts : 0..MaxTime]]
    /\ pcm \in 0..RawBytes - 1
    /\ fakeBytes \in Nat
    /\ steady \in BOOLEAN
    /\ frames \in 0..MaxTimes

TimelineInit ==
    /\ bCarHaveAudio = FALSE
    /\ start = Unset /\ lastVideo = Unset
    /\ count = 0
    /\ tsLast = [m \in Tracks |-> Unset]
    /\ offset = [m \in Tracks |-> 0]
    /\ pcm = 0
    /\ first = [m \in Tracks |-> Unset]
    /\ pushed = [m \in Tracks |-> [ts |-> Unset, pts |-> 0]]
    /\ fakeBytes = 0
    /\ steady = TRUE
    /\ frames = 0

-----------------------------------------------------------------------------
(* CRtmpStream.  Of a frame that is older than the one before it GetAVPts  *)
(* leaves everything as it is, and the frame is not pushed.                *)

(* Faulty variant: an older frame becomes the one to compare with. *)
AVPtsFollowing(s, m, ts) ==
    [s EXCEPT !.tsLast[m] = ts,
              !.offset[m] = IF s.tsLast[m] \in 1..ts THEN @ + (ts - s.tsLast[m]) ELSE @,
              !.first[m] = IF s.tsLast[m] = Unset THEN ts ELSE @]

(* s is the stream's state as a record.                                    *)
GetAVPts(s, m, ts) ==
    CASE s.tsLast[m] = Unset -> [s EXCEPT !.tsLast = [@ EXCEPT ![m] = ts],
                                          !.offset = [@ EXCEPT ![m] = 0],
                                          !.first = [@ EXCEPT ![m] = ts]]
      [] s.tsLast[m] > ts    -> s
      [] OTHER               -> [s EXCEPT !.tsLast = [@ EXCEPT ![m] = ts],
                                          !.offset = [@ EXCEPT ![m] = s.offset[m] + (ts - s.tsLast[m])]]

Push(s, m, ts) ==
    LET t == GetAVPts(s, m, ts)
    IN  IF s.tsLast[m] > ts THEN t
        ELSE [t EXCEPT !.pushed = [@ EXCEPT ![m] = [ts |-> ts, pts |-> t.offset[m]]]]

(* The states write_audio_frame can leave: PCM is collected until it fills *)
(* an AAC frame, which the encoder may keep for later.                     *)
WriteAudio(s, bytes, ts) ==
    IF s.pcm + bytes < RawBytes
    THEN {[s EXCEPT !.pcm = @ + bytes]}
    ELSE LET t == [s EXCEPT !.pcm = @ + bytes - RawBytes] IN {t, Push(t, "audio", ts)}

Stream == [tsLast |-> tsLast, offset |-> offset, pcm |-> pcm, first |-> first, pushed |-> pushed]
SetStream(s) ==
    /\ tsLast' = s.tsLast /\ offset' = s.offset /\ pcm' = s.pcm
    /\ first' = s.first /\ pushed' = s.pushed

-----------------------------------------------------------------------------
(* RtmpClient::AddFakeAudioPcm.                                            *)

(* nCount: the slots since the first frame, rounded up, in uint64_t.       *)
SlotsUntil(ts) == ((((ts - start) % Width) + Slot - 1) % Width) \div Slot

(* The first frame, and one no later than the one before, is given a slot  *)
(* of silence that is not counted.                                         *)
Counted(ts) == start # Unset /\ lastVideo # Unset /\ ts > lastVideo

(* Faulty variant: the whole distance, not what is missing of it. *)
FakeLenFromStart(ts) ==
    IF ~Counted(ts) THEN SlotBytes
    ELSE IF SlotsUntil(ts) * SlotBytes > MaxFake THEN MaxFake ELSE SlotsUntil(ts) * SlotBytes

FakeLen(ts) ==
    LET missing == (SlotBytes * (SlotsUntil(ts) - count)) % Width
    IN  CASE ~Counted(ts)            -> SlotBytes
          [] Counted(ts) /\ SlotsUntil(ts) > count -> IF missing > MaxFake THEN MaxFake ELSE missing
          [] OTHER                   -> 0

AddFakeAudioPcm(ts) ==
    /\ start' = IF start = Unset THEN ts ELSE start
    /\ lastVideo' = ts
    /\ count' = IF Counted(ts) /\ SlotsUntil(ts) > count THEN SlotsUntil(ts) ELSE count
    /\ fakeBytes' = fakeBytes + FakeLen(ts)

-----------------------------------------------------------------------------
(* The device.                                                             *)

(* The device's clock may show anything, and be set back.                  *)
ClockShows(m, ts) ==
    /\ frames < MaxTimes
    /\ frames' = frames + 1
    /\ steady' = (steady /\ (tsLast[m] # Unset =>
                     /\ ts > tsLast[m]
                     /\ SlotBytes * ((ts - tsLast[m] + Slot - 1) \div Slot) <= MaxFake))

(* The last packet of a video frame.                                       *)
VideoFrame(ts) ==
    /\ ClockShows("video", ts)
    /\ LET s == Push(Stream, "video", ts)
       IN  IF bCarHaveAudio
           THEN SetStream(s) /\ UNCHANGED audioVars
           ELSE /\ AddFakeAudioPcm(ts)
                /\ IF FakeLen(ts) = 0 THEN SetStream(s)
                   ELSE \E t \in WriteAudio(s, FakeLen(ts), ts) : SetStream(t)
    /\ UNCHANGED bCarHaveAudio

(* The last packet of an audio frame, of as many bytes as a slot of silence; *)
(* from the first one on no silence is added.                              *)
AudioFrame(ts) ==
    /\ ClockShows("audio", ts)
    /\ bCarHaveAudio' = TRUE
    /\ \E t \in WriteAudio(Stream, SlotBytes, ts) : SetStream(t)
    /\ UNCHANGED audioVars

TimelineNext == \E ts \in Times : VideoFrame(ts) \/ AudioFrame(ts)

TimelineSpec == TimelineInit /\ [][TimelineNext]_timelineVars

-----------------------------------------------------------------------------
(* Properties.                                                             *)

(* What is pushed is presented as long after the first frame of its medium *)
(* as the device says, whatever its clock does in between.                 *)
PushedAtElapsed ==
    \A m \in Tracks : pushed[m].ts # Unset => pushed[m].pts = pushed[m].ts - first[m]

(* On a clock that goes forward in steps MaxFake can fill, the silence     *)
(* added so far covers the video so far and one slot, neither more nor     *)
(* less.                                                                   *)
FakePaced ==
    steady /\ start # Unset =>
        fakeBytes = SlotBytes * (1 + (lastVideo - start + Slot - 1) \div Slot)
=============================================================================
