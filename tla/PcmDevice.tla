------------------------------ MODULE PcmDevice ------------------------------
(***************************************************************************)
(* One NuguPcm (nugu_pcm.c) on the PortAudio driver (portaudio.c): the     *)
(* caller's thread starts, stops, pauses and feeds it; every open stream   *)
(* calls _playbackCallback() on its own thread; the end of the data is     *)
(* reported by a timer of the main loop 500 ms later.                      *)
(***************************************************************************)
EXTENDS Integers, FiniteSets

CONSTANTS
    Starts,     \* bound: how often a stream is opened
    MaxData,    \* bound: blocks in the buffer
    PcmInputs   \* which of "nodevice", "startfail" (PortAudio fails to open,
                \* to start a stream) and "restart" (the caller starts a
                \* device that it has not stopped) happen

ASSUME PcmDeviceAssumption ==
    /\ Starts \in Nat \ {0} /\ MaxData \in Nat \ {0}
    /\ PcmInputs \subseteq {"nodevice", "startfail", "restart"}

VARIABLES
    pcm,        \* the NuguPcm: status, dud (its stream, 0 if NULL), size, is_last
    streams,    \* the pa_audio_params by number: st, pause, stop, done; pc of
                \* the callback; freed
    timers,     \* the streams whose end-of-stream timer is pending
    events,     \* END_OF_STREAM events by stream
    stopping    \* the caller is inside _pcm_stop()

pcmVars == <<pcm, streams, timers, events, stopping>>

Ids == 1..Starts
NoStream == [st |-> "none", pause |-> FALSE, stop |-> FALSE, done |-> FALSE,
             pc |-> "idle", freed |-> FALSE]

\* nugu_pcm_new()
PcmInit ==
    /\ pcm = [status |-> "STOPPED", dud |-> 0, size |-> 0, is_last |-> FALSE]
    /\ streams = [i \in Ids |-> NoStream]
    /\ timers = {} /\ events = [i \in Ids |-> 0] /\ stopping = FALSE

Fresh == {i \in Ids : streams[i].st = "none"}
NextId == CHOOSE i \in Fresh : \A j \in Fresh : i <= j

----------------------------------------------------------------------------
(***************************************************************************)
(* The caller                                                              *)
(***************************************************************************)

\* nugu_pcm_clear_buffer()
Cleared == [pcm EXCEPT !.size = 0, !.is_last = FALSE]

\* nugu_pcm_start() clears the buffer and the driver's data ...
Restarted == [Cleared EXCEPT !.dud = 0]

\* ... before _pcm_start(), whose test for a running stream therefore never
\* succeeds.
PcmStart(how) ==
    /\ ~stopping
    /\ pcm.dud = 0 \/ "restart" \in PcmInputs
    /\ \/ /\ how = "nodevice" /\ how \in PcmInputs
          /\ pcm' = Restarted
          /\ UNCHANGED streams
       \/ /\ how = "startfail" /\ how \in PcmInputs
          /\ pcm' = [Restarted EXCEPT !.status = "READY"]
          /\ UNCHANGED streams
       \/ /\ how = "ok" /\ Fresh # {}
          /\ pcm' = [Restarted EXCEPT !.dud = NextId, !.status = "PLAYING"]
          /\ streams' = [streams EXCEPT ![NextId] = [NoStream EXCEPT !.st = "active"]]
    /\ UNCHANGED <<timers, events, stopping>>

\* Faulty PcmStop: a paused stream stays paused.
PcmStopPaused ==
    /\ ~stopping
    /\ pcm' = Cleared
    /\ IF pcm.dud = 0 THEN UNCHANGED <<streams, stopping>>
       ELSE /\ streams' = [streams EXCEPT ![pcm.dud].stop = TRUE]
            /\ stopping' = TRUE
    /\ UNCHANGED <<timers, events>>

\* nugu_pcm_stop() and _pcm_stop() up to the wait
PcmStop ==
    /\ ~stopping
    /\ pcm' = Cleared
    /\ IF pcm.dud = 0 THEN UNCHANGED <<streams, stopping>>
       ELSE /\ streams' = [streams EXCEPT ![pcm.dud].stop = TRUE, ![pcm.dud].pause = FALSE]
            /\ stopping' = TRUE
    /\ UNCHANGED <<timers, events>>

\* Faulty StopReturns: does not wait for the stream.
StopReturnsAtOnce ==
    /\ stopping
    /\ streams' = [streams EXCEPT ![pcm.dud].freed = TRUE]
    /\ pcm' = [pcm EXCEPT !.dud = 0, !.status = "STOPPED"]
    /\ stopping' = FALSE
    /\ UNCHANGED <<timers, events>>

\* Faulty StopReturns: the status is not emitted.
StopReturnsSilently ==
    /\ stopping /\ streams[pcm.dud].st = "complete"
    /\ streams' = [streams EXCEPT ![pcm.dud].freed = TRUE]
    /\ pcm' = [pcm EXCEPT !.dud = 0]
    /\ stopping' = FALSE
    /\ UNCHANGED <<timers, events>>

\* The stream is inactive: close it, free its data.
StopReturns ==
    /\ stopping /\ streams[pcm.dud].st = "complete"
    /\ streams' = [streams EXCEPT ![pcm.dud].freed = TRUE]
    /\ pcm' = [pcm EXCEPT !.dud = 0, !.status = "STOPPED"]
    /\ stopping' = FALSE
    /\ UNCHANGED <<timers, events>>

\* nugu_pcm_pause() and nugu_pcm_resume() with _pcm_pause() and _pcm_resume()
SetPause(p) ==
    /\ ~stopping
    /\ IF pcm.dud = 0 \/ streams[pcm.dud].pause = p THEN UNCHANGED <<pcm, streams>>
       ELSE /\ streams' = [streams EXCEPT ![pcm.dud].pause = p]
            /\ pcm' = [pcm EXCEPT !.status = IF p THEN "PAUSED" ELSE "PLAYING"]
    /\ UNCHANGED <<timers, events, stopping>>

\* nugu_pcm_push_data() and nugu_pcm_push_data_done()
PcmPushData ==
    /\ ~stopping /\ pcm.size < MaxData
    /\ pcm' = [pcm EXCEPT !.size = @ + 1]
    /\ UNCHANGED <<streams, timers, events, stopping>>

PcmPushDataDone ==
    /\ ~stopping
    /\ pcm' = [pcm EXCEPT !.is_last = TRUE]
    /\ UNCHANGED <<streams, timers, events, stopping>>

\* _playerEndOfStream() and nugu_pcm_emit_event(): no status callback.
EndOfStream(i) ==
    /\ ~stopping /\ i \in timers
    /\ timers' = timers \ {i}
    /\ pcm' = [pcm EXCEPT !.status = "STOPPED"]
    /\ events' = [events EXCEPT ![i] = @ + 1]
    /\ UNCHANGED <<streams, stopping>>

----------------------------------------------------------------------------
(***************************************************************************)
(* _playbackCallback() of stream i                                         *)
(***************************************************************************)

\* The callback's end: the stream completes if it shall stop.
Ends(i) == IF streams[i].stop THEN "complete" ELSE "active"

CallbackPaused(i) ==
    /\ streams[i].st = "active" /\ streams[i].pc = "idle" /\ streams[i].pause
    /\ UNCHANGED pcmVars

\* nugu_pcm_get_data_size(): with data, nugu_pcm_get_data() takes up to one
\* block (the buffer may have been cleared in between).
CallbackSize(i) ==
    /\ streams[i].st = "active" /\ streams[i].pc = "idle" /\ ~streams[i].pause
    /\ streams' = [streams EXCEPT ![i].pc = IF pcm.size > 0 THEN "data" ELSE "empty"]
    /\ UNCHANGED <<pcm, timers, events, stopping>>

CallbackData(i) ==
    /\ streams[i].pc = "data"
    /\ pcm' = [pcm EXCEPT !.size = IF @ > 0 THEN @ - 1 ELSE 0]
    /\ streams' = [streams EXCEPT ![i].pc = "idle", ![i].st = Ends(i)]
    /\ UNCHANGED <<timers, events, stopping>>

\* Faulty CallbackEmpty: forgets that the end was reported.
CallbackEmptyForgets(i) ==
    /\ streams[i].pc = "empty"
    /\ timers' = IF pcm.is_last THEN timers \cup {i} ELSE timers
    /\ streams' = [streams EXCEPT ![i].pc = "idle", ![i].st = Ends(i)]
    /\ UNCHANGED <<pcm, events, stopping>>

\* Faulty CallbackEmpty: the end is not reported.
CallbackEmptySilent(i) ==
    /\ streams[i].pc = "empty"
    /\ streams' = [streams EXCEPT ![i].pc = "idle", ![i].st = Ends(i)]
    /\ UNCHANGED <<pcm, timers, events, stopping>>

\* nugu_pcm_receive_is_last_data(): the end is reported once per stream.
CallbackEmpty(i) ==
    /\ streams[i].pc = "empty"
    /\ timers' = IF pcm.is_last /\ ~streams[i].done THEN timers \cup {i} ELSE timers
    /\ streams' = [streams EXCEPT ![i].pc = "idle", ![i].st = Ends(i),
                                  ![i].done = @ \/ pcm.is_last]
    /\ UNCHANGED <<pcm, events, stopping>>

Callback(i) == CallbackPaused(i) \/ CallbackSize(i) \/ CallbackData(i) \/ CallbackEmpty(i)

PcmNext ==
    \/ \E how \in {"ok", "nodevice", "startfail"} : PcmStart(how)
    \/ PcmStop \/ StopReturns \/ PcmPushData \/ PcmPushDataDone
    \/ \E p \in BOOLEAN : SetPause(p)
    \/ \E i \in Ids : EndOfStream(i) \/ Callback(i)

PcmSpec == PcmInit /\ [][PcmNext]_pcmVars

\* PortAudio calls back while a stream is active; the main loop runs its timers.
PcmFairSpec ==
    /\ PcmSpec /\ WF_pcmVars(StopReturns)
    /\ \A i \in Ids : WF_pcmVars(Callback(i)) /\ WF_pcmVars(EndOfStream(i))

----------------------------------------------------------------------------
(***************************************************************************)
(* Properties                                                              *)
(***************************************************************************)

PcmTypeOK ==
    /\ pcm \in [status : {"STOPPED", "READY", "PLAYING", "PAUSED"}, dud : 0..Starts,
                size : 0..MaxData, is_last : BOOLEAN]
    /\ streams \in [Ids -> [st : {"none", "active", "complete"}, pause : BOOLEAN,
                            stop : BOOLEAN, done : BOOLEAN, pc : {"idle", "data", "empty"},
                            freed : BOOLEAN]]
    /\ timers \subseteq Ids /\ stopping \in BOOLEAN

\* _pcm_stop() frees what _playbackCallback() uses: no stream is active then.
PlaybackParamAlive == \A i \in Ids : streams[i].freed => streams[i].st = "complete"

\* Once nugu_pcm_stop() has returned nothing plays, and the status says so.
StoppedIsSilent ==
    pcm.dud = 0 => /\ \A i \in Ids : streams[i].st # "active"
                   /\ pcm.status \notin {"PLAYING", "PAUSED"}

\* A listener gets at most one END_OF_STREAM per start.
OneEndOfStream == \A i \in Ids : events[i] <= 1

\* A device that nobody starts again without stopping it is safe: the callback
\* never uses what was freed, silence follows a stop, and the end is reported
\* once.
PcmSafe == PcmTypeOK /\ PlaybackParamAlive /\ StoppedIsSilent /\ OneEndOfStream

\* _pcm_stop() returns, also from a paused stream: the callback leaves early
\* while it is paused and only looks at `stop' afterwards.
PcmStopEnds == stopping ~> ~stopping

\* When all data has been played the end is reported, unless the caller goes
\* on, pauses or stops.
EndReported ==
    \A i \in Ids :
        (pcm.dud = i /\ pcm.is_last /\ pcm.size = 0)
            ~> (events[i] > 0 \/ pcm.dud # i \/ stopping \/ streams[i].pause \/ pcm.size > 0)

\* "already start": the driver notices that a stream is running.
OneStream == Cardinality({i \in Ids : streams[i].st = "active"}) <= 1

============================================================================
