------------------------------ MODULE Recorder ------------------------------
(***************************************************************************)
(* nugu_recorder.c with the PortAudio recorder: the audio thread pushes    *)
(* frames into the ring buffer (_recordCallback), a recognizer thread      *)
(* takes them out and waits on a condition variable when there are none.   *)
(* push_data() updates count outside the ring buffer's mutex.  Positions   *)
(* are counted in frames: a callback brings a whole number of them.        *)
(***************************************************************************)
EXTENDS Integers

CONSTANTS
    Max,        \* max_items
    Step,       \* frames brought by one callback (samplebyte of the format)
    RecorderInputs  \* which of "fail" (the device cannot be opened), "spurious"
                    \* (wakeups) and "full" (the reader falls behind) happen

ASSUME RecorderAssumption ==
    /\ Max \in Nat \ {0} /\ Step \in 1..Max
    /\ RecorderInputs \subseteq {"fail", "spurious", "full"}

None == "none"

VARIABLES
    ring,       \* read_index, count, windex (woffset in frames)
    fresh,      \* the positions written and not read since
    mutex,      \* who holds the ring buffer's mutex
    audio,      \* the audio thread: pc; c, was: count to be stored, count seen
    param,      \* the recorder's userdata: None, or whether to stop
    recording,  \* is_recording
    running,    \* asr_is_running, which the main thread changes
    reader      \* the recognizer thread: pc; c: count loaded; got: the frame

recorderVars == <<ring, fresh, mutex, audio, param, recording, running, reader>>

NoRing == [read_index |-> 0, count |-> 0, windex |-> 0]

RecorderInit ==
    /\ ring = NoRing /\ fresh = {} /\ mutex = None
    /\ audio = [pc |-> "closed", c |-> 0, was |-> 0]
    /\ param = None /\ recording = FALSE /\ running = FALSE
    /\ reader = [pc |-> "idle", c |-> 0, got |-> None]

----------------------------------------------------------------------------
(***************************************************************************)
(* The audio thread: _recordCallback(), nugu_recorder_push_frame()         *)
(***************************************************************************)

\* _calculate_count() of whole frames
NewCount(b) ==
    LET new_write_index == b.windex + Step
    IN  IF Step + b.count > Max THEN Max
        ELSE IF b.read_index > b.windex THEN Max - (b.read_index - new_write_index)
        ELSE new_write_index - b.read_index

\* Faulty AudioLoads: wakes the reader before the frames are counted.
AudioLoadsSignals ==
    /\ audio.pc = "open"
    /\ audio' = [pc |-> "computed", c |-> NewCount(ring), was |-> ring.count]
    /\ reader' = IF reader.pc = "waiting" THEN [reader EXCEPT !.pc = "woken"] ELSE reader
    /\ UNCHANGED <<ring, fresh, mutex, param, recording, running>>

AudioLoads ==
    /\ audio.pc = "open"
    /\ "full" \in RecorderInputs \/ Step + ring.count <= Max
    /\ audio' = [pc |-> "computed", c |-> NewCount(ring), was |-> ring.count]
    /\ UNCHANGED <<ring, fresh, mutex, param, recording, running, reader>>

AudioStores ==
    /\ audio.pc = "computed"
    /\ ring' = [ring EXCEPT !.count = audio.c]
    /\ audio' = [audio EXCEPT !.pc = IF Step + audio.was > Max THEN "skip" ELSE "copy"]
    /\ UNCHANGED <<fresh, mutex, param, recording, running, reader>>

\* A full buffer gives up its oldest frames, under the mutex.
AudioSkips ==
    /\ audio.pc = "skip" /\ mutex = None
    /\ ring' = [ring EXCEPT !.read_index = IF @ + Step >= Max THEN @ + Step - Max ELSE @ + Step]
    /\ audio' = [audio EXCEPT !.pc = "copy"]
    /\ UNCHANGED <<fresh, mutex, param, recording, running, reader>>

AudioCopies ==
    /\ audio.pc = "copy"
    /\ ring' = [ring EXCEPT !.windex = IF @ + Step > Max THEN @ + Step - Max ELSE @ + Step]
    /\ fresh' = fresh \cup {(ring.windex + i) % Max : i \in 0..(Step - 1)}
    /\ audio' = [audio EXCEPT !.pc = "count"]
    /\ UNCHANGED <<mutex, param, recording, running, reader>>

\* Faulty AudioSignals: nobody is told.
AudioSignalsNobody ==
    /\ audio.pc = "count"
    /\ audio' = [pc |-> IF param = "stop" THEN "closed" ELSE "open", c |-> 0, was |-> 0]
    /\ UNCHANGED <<ring, fresh, mutex, param, recording, running, reader>>

\* Faulty AudioSignals: the stream goes on although it shall stop.
AudioSignalsGoesOn ==
    /\ audio.pc = "count"
    /\ reader' = IF ring.count # 0 /\ reader.pc = "waiting" THEN [reader EXCEPT !.pc = "woken"]
                 ELSE reader
    /\ audio' = [pc |-> "open", c |-> 0, was |-> 0]
    /\ UNCHANGED <<ring, fresh, mutex, param, recording, running>>

\* With frames to read, _recorder_release_condition() signals; then the
\* callback ends the stream if it shall stop.
AudioSignals ==
    /\ audio.pc = "count"
    /\ reader' = IF ring.count # 0 /\ reader.pc = "waiting" THEN [reader EXCEPT !.pc = "woken"]
                 ELSE reader
    /\ audio' = [pc |-> IF param = "stop" THEN "closed" ELSE "open", c |-> 0, was |-> 0]
    /\ UNCHANGED <<ring, fresh, mutex, param, recording, running>>

----------------------------------------------------------------------------
(***************************************************************************)
(* The recognizer thread: nugu_recorder_start(), _get_frame_timeout() with *)
(* timeout 0 and nugu_recorder_stop()                                      *)
(***************************************************************************)

\* The buffer is cleared and the device opened; if that fails the thread ends
\* with is_recording set.
RecStart(ok) ==
    /\ reader.pc = "idle" /\ running
    /\ mutex = None
    /\ ring' = NoRing /\ fresh' = {}
    /\ recording' = TRUE
    /\ \/ /\ ok
          /\ param' = IF param = None THEN "go" ELSE param
          /\ audio' = IF param = None THEN [audio EXCEPT !.pc = "open"] ELSE audio
          /\ reader' = [reader EXCEPT !.pc = "loop"]
       \/ /\ ~ok /\ "fail" \in RecorderInputs
          /\ reader' = [reader EXCEPT !.pc = "ended"]
          /\ UNCHANGED <<param, audio>>
    /\ UNCHANGED <<mutex, running>>

\* The head of the frame loop, and the look at the frame count
LooksForFrame ==
    /\ reader.pc = "loop"
    /\ reader' = [reader EXCEPT !.pc = IF ~running THEN "clear"
                                       ELSE IF ring.count = 0 THEN "lock" ELSE "check",
                                !.got = None]
    /\ UNCHANGED <<ring, fresh, mutex, audio, param, recording, running>>

\* pthread_mutex_lock() and pthread_cond_wait(): the count is not looked at
\* again.
Waits ==
    /\ reader.pc = "lock"
    /\ reader' = [reader EXCEPT !.pc = "waiting"]
    /\ UNCHANGED <<ring, fresh, mutex, audio, param, recording, running>>

\* A wakeup without a signal leaves the wait, too.
Spurious ==
    /\ reader.pc = "waiting" /\ "spurious" \in RecorderInputs
    /\ reader' = [reader EXCEPT !.pc = "roused"]
    /\ UNCHANGED <<ring, fresh, mutex, audio, param, recording, running>>

\* nugu_ring_buffer_read_item(): no frame means *size = 0, which the
\* recognizer reports as a failure and stops.  Nobody promised a frame to a
\* reader that was only roused.
Checks ==
    /\ reader.pc \in {"woken", "check", "roused"}
    /\ reader' = IF ring.count > 0 THEN [reader EXCEPT !.pc = "take"]
                 ELSE [reader EXCEPT !.pc = "clear",
                                     !.got = IF reader.pc = "roused" THEN "nothing" ELSE "empty"]
    /\ UNCHANGED <<ring, fresh, mutex, audio, param, recording, running>>

\* Under the mutex: copy, read_index++, and count-- as a load and a store
Takes ==
    /\ reader.pc = "take" /\ mutex = None
    /\ mutex' = "reader"
    /\ reader' = [pc |-> "load", c |-> 0,
                  got |-> IF ring.read_index \in fresh THEN "frame" ELSE "garbage"]
    /\ fresh' = fresh \ {ring.read_index}
    /\ ring' = [ring EXCEPT !.read_index = @ + 1]
    /\ UNCHANGED <<audio, param, recording, running>>

Loads ==
    /\ reader.pc = "load"
    /\ reader' = [reader EXCEPT !.pc = "store", !.c = ring.count]
    /\ UNCHANGED <<ring, fresh, mutex, audio, param, recording, running>>

Stores ==
    /\ reader.pc = "store"
    /\ ring' = [ring EXCEPT !.count = reader.c - 1,
                            !.read_index = IF @ = Max THEN 0 ELSE @]
    /\ mutex' = None
    /\ reader' = [reader EXCEPT !.pc = "loop"]
    /\ UNCHANGED <<fresh, audio, param, recording, running>>

\* nugu_recorder_stop() up to the driver's wait
ClearsAndStops ==
    /\ reader.pc = "clear" /\ mutex = None
    /\ ring' = NoRing /\ fresh' = {}
    /\ recording' = FALSE
    /\ param' = IF param = None THEN None ELSE "stop"
    /\ reader' = [reader EXCEPT !.pc = "stopping"]
    /\ UNCHANGED <<mutex, audio, running>>

\* Faulty RecStopped: does not wait for the stream.
RecStoppedAtOnce ==
    /\ reader.pc = "stopping"
    /\ param' = None
    /\ reader' = [reader EXCEPT !.pc = "idle", !.got = None]
    /\ running' = FALSE
    /\ UNCHANGED <<ring, fresh, mutex, audio, recording>>

\* _rec_stop() waits until the stream has completed.  DONE follows: the
\* recognition is over.
RecStopped ==
    /\ reader.pc = "stopping"
    /\ param # None => audio.pc = "closed"
    /\ param' = None
    /\ reader' = [reader EXCEPT !.pc = "idle", !.got = None]
    /\ running' = FALSE
    /\ UNCHANGED <<ring, fresh, mutex, audio, recording>>

\* startListening() and stopListening() on the main thread
SetRunning(on) ==
    /\ running # on
    /\ on => reader.pc = "idle"
    /\ running' = on
    /\ UNCHANGED <<ring, fresh, mutex, audio, param, recording, reader>>

AudioNext == AudioLoads \/ AudioStores \/ AudioSkips \/ AudioCopies \/ AudioSignals

ReaderNext ==
    \/ \E ok \in BOOLEAN : RecStart(ok)
    \/ LooksForFrame \/ Waits \/ Checks \/ Takes \/ Loads \/ Stores \/ ClearsAndStops \/ RecStopped

\* After a failed start the thread is gone: only its main thread goes on.
RecorderNext ==
    \/ AudioNext \/ ReaderNext \/ Spurious
    \/ \E on \in BOOLEAN : SetRunning(on)
    \/ reader.pc = "ended" /\ UNCHANGED recorderVars

RecorderSpec == RecorderInit /\ [][RecorderNext]_recorderVars

\* PortAudio calls back as long as the stream is open; the thread is scheduled.
RecorderFairSpec == RecorderSpec /\ WF_recorderVars(AudioNext) /\ WF_recorderVars(ReaderNext)

----------------------------------------------------------------------------
(***************************************************************************)
(* Properties                                                              *)
(***************************************************************************)

\* The frame copied out and the place written to are inside the buffer,
\* although read_index is changed by two threads.
RecorderTypeOK ==
    /\ ring.windex \in 0..Max /\ ring.read_index \in 0..Max
    /\ mutex = None => ring.read_index < Max
    /\ fresh \subseteq 0..(Max - 1)
    /\ mutex \in {None, "reader"} /\ param \in {None, "go", "stop"}
    /\ recording \in BOOLEAN /\ running \in BOOLEAN

\* A stream is only open while its parameters exist, and there is never more
\* than one: _recordCallback() uses what _rec_stop() frees.
RecordingParamAlive == audio.pc # "closed" => param # None

\* Only a spurious wakeup gives the recognizer an empty frame, which it takes
\* for a failure of the microphone: a reader that saw a frame or was signalled
\* finds one, although both threads store count without a common lock.
NoEmptyFrame == reader.got # "empty"

\* The recorder is safe: its positions stay inside the buffer, the parameters
\* that _rec_stop() frees outlive the stream, and a promised frame is there.
RecorderSafe == RecorderTypeOK /\ RecordingParamAlive /\ NoEmptyFrame

\* While the device records, a recognizer that waits for a frame is woken, be
\* the signal for the frame it looked for lost or not.
FrameArrives == (reader.pc = "waiting" /\ param = "go") ~> reader.pc # "waiting"

\* Stopping ends, whatever the audio thread is doing.
RecorderStopEnds == reader.pc = "stopping" ~> reader.pc = "idle"

\* "wait to read until pushing data": the reader does not wait when the data
\* has been pushed.
WaitsOnlyForData ==
    ~(reader.pc = "waiting" /\ ring.count > 0 /\ audio.pc \in {"open", "closed"})

\* "Get recorded data": every frame handed out has been recorded, once.
ReadsRecorded == reader.got # "garbage"

============================================================================
