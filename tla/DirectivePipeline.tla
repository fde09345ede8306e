------------------------- MODULE DirectivePipeline -------------------------
(***************************************************************************)
(* From the directive stream to the loudspeaker:                           *)
(*   - the HTTP/2 thread parses directives and attachments and hands them  *)
(*     to the main loop (queue recv_pendings, eventfd efd);                *)
(*   - the main loop pushes directives into the directive sequencer        *)
(*     (list_dir) and attachments into their directive, and the capability *)
(*     agents process them; TTSAgent keeps its Speak directive until the   *)
(*     last attachment and feeds the PCM device;                           *)
(*   - the PortAudio thread plays the PCM buffer and, behind the last      *)
(*     data, starts a 500 ms timer that reports the end of the stream.     *)
(*                                                                         *)
(* An attachment is a chunk number; decoding (plugins/opus.c) maps a chunk *)
(* to its samples and keeps that number.  What other capabilities do with  *)
(* the speaker is one action, Unfocus.                                     *)
(***************************************************************************)
EXTENDS Integers, Sequences, SequencesExt

CONSTANTS
    Dirs,       \* the directives of the stream, one message id each
    Kind,       \* what CapabilityManager and the agents make of each
    Chunks      \* the attachments of a Speak directive

ASSUME PipelineAssumption ==
    /\ Kind \in [Dirs -> {"Speak", "BadSpeak", "Stop", "Other", "Unknown"}]
    /\ Chunks \in Nat \ {0}

None == "none"

ASSUME NoneAssumption == None \notin Dirs

VARIABLES
    sent,           \* attachments the HTTP/2 thread has parsed, -1: not even d
    recv_pendings, efd,     \* GAsyncQueue, and whether the eventfd is readable
    rx,             \* the HTTP/2 thread: "idle", "pushed" (not yet signalled)
    draining,       \* the main loop is in on_event()
    list_dir,       \* the directive sequencer's list
    freed,          \* the directives that were nugu_directive_free()d
    buf,            \* buf[d]: chunks added to d and not yet taken out
    callback,       \* the directives with a data callback
    speak_dir, cur_token,   \* TTSAgent
    owns,           \* cap_tts was told that it owns the speaker
    pcm,            \* NuguPcm and its PortAudio stream
    pa,             \* the playback callback: "idle", "empty" (saw no data)
    eos,            \* _playerEndOfStream timers on their way
    heard,          \* the chunks played, in order
    finished        \* the tokens reported with SpeechFinished

rxVars == <<sent, rx>>
pendingVars == <<recv_pendings, efd>>
dirVars == <<list_dir, freed, buf, callback, speak_dir, cur_token>>
pcmVars == <<owns, pcm, pa>>
outVars == <<eos, heard, finished>>
vars == <<rxVars, pendingVars, draining, dirVars, pcmVars, outVars>>

----------------------------------------------------------------------------
(***************************************************************************)
(* The HTTP/2 thread: _body_json(), _body_opus() and                       *)
(* _event_to_main_context(), which pushes and then signals.                *)
(***************************************************************************)

ReceiveDirective(d) ==
    /\ rx = "idle" /\ sent[d] = -1
    /\ sent' = [sent EXCEPT ![d] = 0]
    /\ recv_pendings' = Append(recv_pendings, [dir |-> d, chunk |-> 0])
    /\ rx' = "pushed"
    /\ UNCHANGED <<efd, draining, dirVars, pcmVars, outVars>>

ReceiveAttachment(d) ==
    /\ rx = "idle" /\ sent[d] \in 0..(Chunks - 1)
    /\ Kind[d] \in {"Speak", "BadSpeak"}
    /\ sent' = [sent EXCEPT ![d] = @ + 1]
    /\ recv_pendings' = Append(recv_pendings, [dir |-> d, chunk |-> sent[d] + 1])
    /\ rx' = "pushed"
    /\ UNCHANGED <<efd, draining, dirVars, pcmVars, outVars>>

\* Faulty Signal: the eventfd is not written.
SignalLost ==
    /\ rx = "pushed"
    /\ rx' = "idle"
    /\ UNCHANGED <<sent, pendingVars, draining, dirVars, pcmVars, outVars>>

Signal ==
    /\ rx = "pushed"
    /\ efd' = TRUE
    /\ rx' = "idle"
    /\ UNCHANGED <<sent, recv_pendings, draining, dirVars, pcmVars, outVars>>

----------------------------------------------------------------------------
(***************************************************************************)
(* The main loop: on_event() clears the eventfd, then pops until the queue *)
(* is empty.                                                               *)
(***************************************************************************)

OnEvent ==
    /\ ~draining /\ efd
    /\ efd' = FALSE
    /\ draining' = TRUE
    /\ UNCHANGED <<rxVars, recv_pendings, dirVars, pcmVars, outVars>>

\* Faulty OnEventReturns: one item per event instead of all.
OnEventReturnsEarly ==
    /\ draining
    /\ draining' = FALSE
    /\ UNCHANGED <<rxVars, pendingVars, dirVars, pcmVars, outVars>>

OnEventReturns ==
    /\ draining /\ recv_pendings = <<>>
    /\ draining' = FALSE
    /\ UNCHANGED <<rxVars, pendingVars, dirVars, pcmVars, outVars>>

Popped(d, chunk) ==
    /\ draining /\ recv_pendings # <<>>
    /\ Head(recv_pendings) = [dir |-> d, chunk |-> chunk]
    /\ recv_pendings' = Tail(recv_pendings)
    /\ UNCHANGED <<rxVars, efd, draining, outVars>>

\* nugu_pcm_stop() and nugu_pcm_start() with PortAudio's _pcm_stop() and
\* _pcm_start(): both clear the buffer; stopping waits for the callback.
Stopped == [data |-> <<>>, is_last |-> FALSE, stream |-> FALSE, done |-> FALSE]
\* Faulty Started: the buffer is not cleared.
StartedUncleared == [pcm EXCEPT !.stream = TRUE, !.done = FALSE]

Started == [Stopped EXCEPT !.stream = TRUE]

\* Faulty StopTTS and Destroyed: no completion; no test for NULL.
StopTTSKeeps(list) == list
DestroyedUnchecked(ds) == freed \cup ds

\* TTSAgent::stopTTS() on the sequencer: the Speak directive is completed.
StopTTS(list) == RemoveFirst(list, speak_dir)
Destroyed(ds) == freed \cup (ds \ {None})

\* nugu_dirseq_push(), CapabilityManager::dirseqCallback() and the agent's
\* processDirective().  An unknown namespace answers DIRSEQ_REMOVE: the
\* directive leaves the list and nobody frees it.
PushUnknown(d) ==
    /\ Popped(d, 0) /\ Kind[d] = "Unknown"
    /\ UNCHANGED <<dirVars, pcmVars>>

\* Every agent but TTSAgent completes its directive before it returns.
PushOther(d) ==
    /\ Popped(d, 0) /\ Kind[d] = "Other"
    /\ freed' = Destroyed({d})
    /\ UNCHANGED <<list_dir, buf, callback, speak_dir, cur_token, pcmVars>>

\* TTSAgent::parsingSpeak() without the mandatory fields: an early return.
PushBadSpeak(d) ==
    /\ Popped(d, 0) /\ Kind[d] = "BadSpeak"
    /\ list_dir' = Append(list_dir, d)
    /\ UNCHANGED <<freed, buf, callback, speak_dir, cur_token, pcmVars>>

\* TTSAgent::parsingSpeak(): stopTTS(), startTTS(), requestFocus().  Nobody
\* rejects cap_tts but cap_tts itself, which then owns the speaker already.
PushSpeak(d) ==
    /\ Popped(d, 0) /\ Kind[d] = "Speak"
    /\ list_dir' = StopTTS(Append(list_dir, d))
    /\ freed' = Destroyed({speak_dir})
    /\ speak_dir' = d
    /\ cur_token' = d
    /\ callback' = callback \cup {d}
    /\ owns' = TRUE
    /\ pcm' = Started
    /\ pa' = "idle"
    /\ UNCHANGED buf

\* TTSAgent::parsingStop(): stopTTS() if the token is the current one; the
\* speaker is kept.
PushStop(d) ==
    /\ Popped(d, 0) /\ Kind[d] = "Stop"
    /\ \/ /\ cur_token # None
          /\ list_dir' = StopTTS(list_dir)
          /\ freed' = Destroyed({d, speak_dir})
          /\ speak_dir' = None
          /\ pcm' = Stopped
          /\ pa' = "idle"
       \/ /\ freed' = Destroyed({d})
          /\ UNCHANGED <<list_dir, speak_dir, pcm, pa>>
    /\ UNCHANGED <<buf, callback, cur_token, owns>>

\* An attachment whose directive is no longer on the list is dropped.
DropAttachment(d, chunk) ==
    /\ Popped(d, chunk) /\ ~Contains(list_dir, d)
    /\ UNCHANGED <<dirVars, pcmVars>>

\* nugu_directive_add_data() on a directive without a data callback.
KeepAttachment(d, chunk) ==
    /\ Popped(d, chunk) /\ Contains(list_dir, d) /\ d \notin callback
    /\ buf' = [buf EXCEPT ![d] = Append(@, chunk)]
    /\ UNCHANGED <<list_dir, freed, callback, speak_dir, cur_token, pcmVars>>

\* Faulty PlayAttachment: the data are looked at and stay buffered.
PlayAttachmentPeeks(d, chunk) ==
    /\ Popped(d, chunk) /\ Contains(list_dir, d) /\ d \in callback
    /\ buf' = [buf EXCEPT ![d] = Append(@, chunk)]
    /\ pcm' = [pcm EXCEPT !.data = @ \o [i \in 1..(Len(buf[d]) + 1) |-> <<d, buf'[d][i]>>],
                          !.is_last = @ \/ chunk = Chunks]
    /\ IF chunk = Chunks
       THEN /\ list_dir' = RemoveFirst(list_dir, d)
            /\ freed' = Destroyed({d})
            /\ speak_dir' = None
       ELSE UNCHANGED <<list_dir, freed, speak_dir>>
    /\ UNCHANGED <<callback, cur_token, owns, pa>>

\* Faulty PlayAttachment: the last attachment does not complete the directive.
PlayAttachmentOpen(d, chunk) ==
    /\ Popped(d, chunk) /\ Contains(list_dir, d) /\ d \in callback
    /\ pcm' = [pcm EXCEPT !.data = Append(@, <<d, chunk>>), !.is_last = @ \/ chunk = Chunks]
    /\ UNCHANGED <<dirVars, owns, pa>>

\* nugu_directive_add_data() and TTSAgent::getAttachmentData(): everything
\* buffered goes to the PCM device; the last attachment completes the directive
\* and clears speak_dir, whatever directive speak_dir holds.
PlayAttachment(d, chunk) ==
    /\ Popped(d, chunk) /\ Contains(list_dir, d) /\ d \in callback
    /\ buf' = [buf EXCEPT ![d] = <<>>]
    /\ LET data == [i \in 1..(Len(buf[d]) + 1) |-> <<d, Append(buf[d], chunk)[i]>>]
       IN  pcm' = [pcm EXCEPT !.data = @ \o data, !.is_last = @ \/ chunk = Chunks]
    /\ IF chunk = Chunks
       THEN /\ list_dir' = RemoveFirst(list_dir, d)
            /\ freed' = Destroyed({d})
            /\ speak_dir' = None
       ELSE UNCHANGED <<list_dir, freed, speak_dir>>
    /\ UNCHANGED <<callback, cur_token, owns, pa>>

\* TTSAgent::onUnfocus(): ASR takes the speaker.
Unfocus ==
    /\ ~draining /\ owns
    /\ owns' = FALSE
    /\ pcm' = Stopped
    /\ pa' = "idle"
    /\ UNCHANGED <<rxVars, pendingVars, draining, dirVars, outVars>>

\* Faulty EndOfStream: the speaker is not released.
EndOfStreamKeeps ==
    /\ ~draining /\ eos > 0
    /\ eos' = eos - 1
    /\ finished' = finished \cup {cur_token}
    /\ UNCHANGED <<rxVars, pendingVars, draining, dirVars, pcmVars, heard>>

\* _playerEndOfStream() and TTSAgent::pcmEventCallback(): SpeechFinished for
\* the current token, and the speaker is released (onUnfocus() if owned).
EndOfStream ==
    /\ ~draining /\ eos > 0
    /\ eos' = eos - 1
    /\ finished' = finished \cup {cur_token}
    /\ owns' = FALSE
    /\ pcm' = IF owns THEN Stopped ELSE pcm
    /\ pa' = IF owns THEN "idle" ELSE pa
    /\ UNCHANGED <<rxVars, pendingVars, draining, dirVars, heard>>

----------------------------------------------------------------------------
(***************************************************************************)
(* The PortAudio thread: _playbackCallback() looks at the buffer and, if   *)
(* that is empty, then at is_last; each look takes the mutex of its own.   *)
(***************************************************************************)

PlayFrame ==
    /\ pcm.stream /\ pa = "idle" /\ pcm.data # <<>>
    /\ heard' = Append(heard, Head(pcm.data))
    /\ pcm' = [pcm EXCEPT !.data = Tail(@)]
    /\ UNCHANGED <<rxVars, pendingVars, draining, dirVars, owns, pa, eos, finished>>

SeeEmpty ==
    /\ pcm.stream /\ pa = "idle" /\ pcm.data = <<>>
    /\ pa' = "empty"
    /\ UNCHANGED <<rxVars, pendingVars, draining, dirVars, owns, pcm, outVars>>

SeeLast ==
    /\ pa = "empty"
    /\ pa' = "idle"
    /\ IF pcm.is_last /\ ~pcm.done
       THEN eos' = eos + 1 /\ pcm' = [pcm EXCEPT !.done = TRUE]
       ELSE UNCHANGED <<eos, pcm>>
    /\ UNCHANGED <<rxVars, pendingVars, draining, dirVars, owns, heard, finished>>

----------------------------------------------------------------------------

Init ==
    /\ sent = [d \in Dirs |-> -1] /\ rx = "idle"
    /\ recv_pendings = <<>> /\ efd = FALSE /\ draining = FALSE
    /\ list_dir = <<>> /\ freed = {} /\ callback = {}
    /\ buf = [d \in Dirs |-> <<>>]
    /\ speak_dir = None /\ cur_token = None
    /\ owns = FALSE /\ pcm = Stopped /\ pa = "idle"
    /\ eos = 0 /\ heard = <<>> /\ finished = {}

Handle ==
    \/ \E d \in Dirs :
          PushUnknown(d) \/ PushOther(d) \/ PushBadSpeak(d) \/ PushSpeak(d) \/ PushStop(d)
    \/ \E d \in Dirs, chunk \in 1..Chunks :
          DropAttachment(d, chunk) \/ KeepAttachment(d, chunk) \/ PlayAttachment(d, chunk)

Next ==
    \/ \E d \in Dirs : ReceiveDirective(d) \/ ReceiveAttachment(d)
    \/ Signal
    \/ OnEvent \/ Handle \/ OnEventReturns \/ Unfocus \/ EndOfStream
    \/ PlayFrame \/ SeeEmpty \/ SeeLast

Spec == Init /\ [][Next]_vars

\* The HTTP/2 thread, once it has pushed, signals; the main loop serves a
\* readable eventfd and on_event() runs to its end; timers expire; the sound
\* card asks for data.
Fairness ==
    /\ WF_vars(Signal) /\ WF_vars(OnEvent) /\ WF_vars(Handle) /\ WF_vars(OnEventReturns)
    /\ SF_vars(EndOfStream)
    /\ WF_vars(PlayFrame) /\ WF_vars(SeeEmpty) /\ WF_vars(SeeLast)

FairSpec == Spec /\ Fairness

----------------------------------------------------------------------------
(***************************************************************************)
(* Properties.                                                             *)
(***************************************************************************)

TypeOK ==
    /\ sent \in [Dirs -> -1..Chunks] /\ rx \in {"idle", "pushed"}
    /\ recv_pendings \in Seq([dir : Dirs, chunk : 0..Chunks])
    /\ efd \in BOOLEAN /\ draining \in BOOLEAN
    /\ list_dir \in Seq(Dirs) /\ freed \subseteq Dirs /\ callback \subseteq Dirs
    /\ buf \in [Dirs -> Seq(1..Chunks)]
    /\ speak_dir \in Dirs \cup {None} /\ cur_token \in Dirs \cup {None}
    /\ owns \in BOOLEAN /\ pa \in {"idle", "empty"}
    /\ pcm \in [data : Seq(Dirs \X (1..Chunks)), is_last : BOOLEAN,
                stream : BOOLEAN, done : BOOLEAN]
    /\ eos \in Nat
    /\ heard \in Seq(Dirs \X (1..Chunks))
    /\ finished \subseteq Dirs \cup {None}

\* No item is forgotten in the queue between the HTTP/2 thread's push and
\* signal and the main loop's clear and drain: while something is queued, the
\* eventfd is readable, or about to be, or the main loop is still draining.
NoLostWakeup == recv_pendings # <<>> => efd \/ rx = "pushed" \/ draining

\* TTSAgent's pointer to its directive never dangles, and the one directive
\* that would call TTSAgent back with data is the one it points to; the
\* directive completed by its last attachment is that one too.
SpeakDirTracked ==
    /\ speak_dir # None => speak_dir \notin freed
    /\ \A i \in 1..Len(list_dir) :
          /\ list_dir[i] \notin freed
          /\ list_dir[i] \in callback <=> list_dir[i] = speak_dir
    /\ speak_dir # None => Contains(list_dir, speak_dir)

\* What is heard of a speech is its first chunks, in order, none twice and none
\* of another speech in between, however Speak and Stop directives,
\* attachments, focus loss and playback interleave.
SpeechesInOrder ==
    /\ IsInjective(heard)
    /\ \A i \in 1..Len(heard) :
          \/ heard[i][2] = 1
          \/ i > 1 /\ heard[i - 1] = <<heard[i][1], heard[i][2] - 1>>

\* Nothing of a speech is played once another Speak has begun: the data in the
\* PCM device belong to the current token.
PcmIsCurrent == \A i \in 1..Len(pcm.data) : pcm.data[i][1] = cur_token

\* Everything the HTTP/2 thread hands over is handled.
Drained == recv_pendings # <<>> ~> recv_pendings = <<>>

\* A Speak directive whose last attachment has arrived is released, whether it
\* was played, stopped or replaced: the sequencer does not fill up.
SpeakCompletes ==
    \A d \in Dirs : (Kind[d] = "Speak" /\ sent[d] = Chunks) ~> d \in freed

\* A speech that was delivered to its end is over some time later: the end of
\* the stream is noticed and reported, or the speech is stopped or replaced.
SpeechEnds == pcm.stream /\ pcm.is_last ~> ~(pcm.stream /\ pcm.is_last)

\* tts_interface.hh: TTS_SPEECH_FINISH is the "Status finishing speech in TTS".
\* Refuted: a speech is reported as finished only after all of it has arrived.
\* The timer armed at the end of one speech ends the next one when a Speak
\* directive comes within its 500 ms: SpeechFinished names the newer token, and
\* the newer speech loses the speaker.
FinishedWasReceived ==
    \A d \in finished \ {None} : sent[d] = Chunks

\* Refuted too, already by one speech: a speech is reported as finished only
\* after its last chunk was played.  The playback callback finds the buffer
\* empty, the last attachment arrives, and the callback then finds is_last set:
\* the timer is armed, and may expire, with data still to be played.
FinishedMeansHeard ==
    \A d \in finished : \E i \in 1..Len(heard) : heard[i] = <<d, Chunks>>

============================================================================
