------------------------------ MODULE MCAudio -------------------------------
(***************************************************************************)
(* The audio devices for model checking: what is recorded (the ring        *)
(* buffer, the recorder with its two threads, the deadline of a read) and  *)
(* what is played (the PCM device and its thread, the volume, the decoding *)
(* of speech). In a behaviour one part is at work and the others stay as   *)
(* they were created. The ring buffer, the recorder and the PCM device are *)
(* extended: their theorems speak of what is checked.                      *)
(***************************************************************************)
EXTENDS RingBuffer, Recorder, PcmDevice

\* Buffers of 12 bytes, cut into items in three ways
MCGeometries == {[size |-> 2, capacity |-> 6], [size |-> 3, capacity |-> 4],
                 [size |-> 4, capacity |-> 3]}

\* Bytes around 0, the quarters of the range and the change of sign
Bytes == {0, 1, 2, 3, 63, 64, 65, 126, 127, 128, 129, 130,
          191, 192, 193, 253, 254, 255}

\* Times of day and timeouts around every carry
Micros == {0, 1, 2, 999, 1000, 499999, 500000, 999000, 999998, 999999}
Timeouts == {1, 2, 100, 500, 999, 1000, 1001, 1500, 1999}

VARIABLES
    part,       \* the part that is at work
    now, timeout, spec,
    volume, data, out,
    ndir, buf, played, own, decoded, heard, packets

timeoutVars == <<now, timeout, spec>>
volumeVars == <<volume, data, out>>
opusVars == <<ndir, buf, played, own, decoded, heard, packets>>

vars == <<part, ringVars, recorderVars, timeoutVars, pcmVars, volumeVars, opusVars>>

\* The deadline of a read with timeout
Timeout == INSTANCE RecorderTimeout WITH
    Micros <- Micros, Timeouts <- Timeouts

\* The volume, on 8 bit samples
Volume == INSTANCE PcmVolume WITH
    Width <- 1, Bytes <- Bytes, Volumes <- {0, 25, 50, 75, 100, 125}

\* The decoding of a speech of two packets
Opus == INSTANCE OpusDecode WITH
    MaxPayload <- 2, Sink <- TRUE, Plays <- TRUE, MaxPackets <- 2, pcm <- played,
    out <- decoded

ASSUME Instances ==
    /\ Timeout!RecorderTimeoutAssumption
    /\ Volume!PcmVolumeAssumption
    /\ Opus!OpusAssumption

-----------------------------------------------------------------------------
Init ==
    /\ part \in {"ring", "recorder", "timeout", "pcm", "volume", "opus"}
    /\ RingInit
    /\ part # "ring" => rb.item_size = 2
    /\ RecorderInit
    /\ Timeout!Init
    /\ part # "timeout" => now.usec = 0 /\ timeout = 1
    /\ PcmInit
    /\ Volume!Init
    /\ part # "volume" => volume = 0 /\ data = <<0>>
    /\ Opus!Init

RingStep ==
    /\ part = "ring" /\ RingNext
    /\ UNCHANGED <<part, recorderVars, timeoutVars, pcmVars, volumeVars, opusVars>>

RecorderStep ==
    /\ part = "recorder" /\ RecorderNext
    /\ UNCHANGED <<part, ringVars, timeoutVars, pcmVars, volumeVars, opusVars>>

TimeoutStep ==
    /\ part = "timeout" /\ Timeout!Next
    /\ UNCHANGED <<part, ringVars, recorderVars, pcmVars, volumeVars, opusVars>>

PcmStep ==
    /\ part = "pcm" /\ PcmNext
    /\ UNCHANGED <<part, ringVars, recorderVars, timeoutVars, volumeVars, opusVars>>

VolumeStep ==
    /\ part = "volume" /\ Volume!Next
    /\ UNCHANGED <<part, ringVars, recorderVars, timeoutVars, pcmVars, opusVars>>

OpusStep ==
    /\ part = "opus" /\ Opus!Next
    /\ UNCHANGED <<part, ringVars, recorderVars, timeoutVars, pcmVars, volumeVars>>

\* The packets of a speech are finite.
Ended == part \in {"opus"} /\ UNCHANGED vars

Next ==
    \/ RingStep \/ RecorderStep \/ TimeoutStep \/ PcmStep
    \/ VolumeStep \/ OpusStep \/ Ended

Spec == Init /\ [][Next]_vars

\* PortAudio calls back while a stream is open, the recognizer's thread is
\* scheduled, and the main loop runs its timers.
FairSpec ==
    /\ Spec
    /\ WF_recorderVars(part = "recorder" /\ AudioNext)
    /\ WF_recorderVars(part = "recorder" /\ ReaderNext)
    /\ WF_pcmVars(part = "pcm" /\ StopReturns)
    /\ \A i \in 1..3 : /\ WF_pcmVars(part = "pcm" /\ Callback(i))
                       /\ WF_pcmVars(part = "pcm" /\ EndOfStream(i))

-----------------------------------------------------------------------------
\* What a read's deadline, the decoder and the volume compute.  The deadline is
\* a time pthread_cond_timedwait() accepts and not a past one
\* (nugu_recorder_get_frame_timeout()); what is played is the speech, its
\* playable packets each once and in order, however they are grouped, up to a
\* packet with a wrong length (_decoder_decode()); on 8 bit samples no volume
\* makes a sample louder or turns its sign (nugu_pcm_get_data()); every position
\* of the ring buffer is inside it.
SamplesSafe ==
    /\ RingTypeOK
    /\ Timeout!DeadlineValid
    /\ Opus!PlaysPackets /\ Volume!NeverLouder

\* While the device records, a recognizer that waits for a frame is woken, be
\* the signal for the frame it looked for lost or not. Stopping a recorder or a
\* PCM device ends, whatever its thread is doing, and from a paused stream too.
\* When all data has been played the end is reported, unless the caller goes
\* on, pauses or stops.
DevicesLive ==
    /\ part = "recorder" => FrameArrives /\ RecorderStopEnds
    /\ part = "pcm" => PcmStopEnds /\ EndReported

=============================================================================
