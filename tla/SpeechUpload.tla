--------------------------- MODULE SpeechUpload ---------------------------
(***************************************************************************)
(* The upload of the user's speech: ASRAgent's Recognize event             *)
(* (rec_event), which the main thread creates when listening starts and    *)
(* frees when it is done, and the recognizer's thread                      *)
(* (service/speech_recognizer.cc), which sends every piece of encoded      *)
(* speech as a numbered attachment of that event.  The two threads meet    *)
(* in sendSyncListeningEvent(): the thread waits until the main loop has   *)
(* handled the state it reports.                                           *)
(*                                                                         *)
(* VoiceSession models who may listen and when; here startListening() and  *)
(* stopListening() are simply called, and the question is what becomes of  *)
(* the event and its attachments.                                          *)
(***************************************************************************)
EXTENDS Naturals, Sequences

CONSTANTS
    MaxEvents,  \* bound: calls of startListening()
    MaxFrames,  \* the end point detector ends the speech after so many frames
                \* (max_speech_duration, time_out)
    UploadInputs \* what happens in this run

UploadAssumption ==
    /\ MaxEvents \in Nat /\ MaxFrames \in Nat
    /\ UploadInputs \subseteq {"stop", "restart", "network", "fail", "startfail", "destroy"}

Events == 1 .. MaxEvents
None == 0
Quiet == "none"

VARIABLES
    caller,     \* the main thread: "up", "joining" (in ~SpeechRecognizer()), "gone"
    asr_is_running, asr_destroy,
    rec_event,  \* the current event, None is a null pointer
    created,    \* the number of events created
    numbers,    \* numbers[e]: nugu_event_get_seq()
    sync,       \* the state the thread waits for the main loop to handle
    thread,     \* pc, ev (the event pointer it holds), frames
    connected,  \* the HTTP/2 manager's status is CONNECTED
    opened,     \* the events that were sent to the server
    attached,   \* attached[e]: the attachments sent for e
    misuse      \* the thread used an event that was freed

sessionVars ==
    <<caller, asr_is_running, asr_destroy, rec_event, created, numbers, sync, thread,
      connected, opened, attached, misuse>>
eventVars == <<rec_event, created, opened>>
uploadVars == <<numbers, attached, misuse>>
mainVars == <<caller, asr_is_running, asr_destroy>>

UploadInit ==
    /\ caller = "up" /\ asr_is_running = FALSE /\ asr_destroy = FALSE
    /\ rec_event = None /\ created = 0
    /\ numbers = [e \in Events |-> 0]
    /\ sync = Quiet
    /\ thread = [pc |-> "wait", ev |-> None, frames |-> 0]
    /\ connected = TRUE
    /\ opened = {}
    /\ attached = [e \in Events |-> <<>>]
    /\ misuse = FALSE

\* asr_cond.notify_all() wakes the thread only if it waits.
Notified == [thread EXCEPT !.pc = IF @ = "wait" THEN "woken" ELSE @]

----------------------------------------------------------------------------
(***************************************************************************)
(* The main thread                                                         *)
(***************************************************************************)

\* SpeechRecognizer::startListening() and ASRAgent's READY: the event of the
\* last session, if it is still there, is replaced; the new one is sent at once.
StartListening ==
    /\ caller = "up" /\ ~asr_is_running
    /\ "restart" \in UploadInputs \/ thread.pc = "wait"
    /\ created < MaxEvents
    /\ created' = created + 1
    /\ rec_event' = created'
    /\ opened' = IF connected THEN opened \cup {created'} ELSE opened
    /\ asr_is_running' = TRUE
    /\ thread' = Notified
    /\ UNCHANGED <<caller, asr_destroy, sync, connected, uploadVars>>

\* Faulty StopListening: a recognition that is stopped frees its event at once.
StopListeningFrees ==
    /\ "stop" \in UploadInputs
    /\ caller = "up" /\ asr_is_running
    /\ asr_is_running' = FALSE
    /\ rec_event' = None
    /\ UNCHANGED <<caller, asr_destroy, created, opened, sync, thread, connected, uploadVars>>

\* SpeechRecognizer::stopListening(), by the user or a loss of the focus
StopListening ==
    /\ "stop" \in UploadInputs
    /\ caller = "up" /\ asr_is_running
    /\ asr_is_running' = FALSE
    /\ UNCHANGED <<caller, asr_destroy, eventVars, sync, thread, connected, uploadVars>>

\* nugu_network_manager_send_event_data(): the number grows with every
\* attachment the manager accepts.
SendEventData(e, is_end) ==
    IF connected
    THEN /\ attached' = [attached EXCEPT ![e] = Append(@, [seq |-> numbers[e], end |-> is_end])]
         /\ numbers' = [numbers EXCEPT ![e] = @ + 1]
    ELSE UNCHANGED <<attached, numbers>>

\* Faulty OnListeningState: the event outlives its session.
OnListeningStateKeeps ==
    /\ caller = "up" /\ sync # Quiet
    /\ sync' = Quiet
    /\ asr_is_running' = (asr_is_running /\ sync \notin {"SPEECH_END", "TIMEOUT", "FAILED"})
    /\ IF sync = "SPEECH_END" /\ rec_event # None
       THEN SendEventData(rec_event, TRUE) ELSE UNCHANGED <<attached, numbers>>
    /\ UNCHANGED <<caller, asr_destroy, eventVars, thread, connected, misuse>>

\* invoke_sync_event() and ASRAgent::onListeningState()
OnListeningState ==
    /\ caller = "up" /\ sync # Quiet
    /\ sync' = Quiet
    /\ asr_is_running' = (asr_is_running /\ sync \notin {"SPEECH_END", "TIMEOUT", "FAILED"})
    /\ IF sync = "SPEECH_END" /\ rec_event # None
       THEN SendEventData(rec_event, TRUE) ELSE UNCHANGED <<attached, numbers>>
    /\ rec_event' = IF sync = "DONE" THEN None ELSE rec_event
    /\ UNCHANGED <<caller, asr_destroy, created, opened, thread, connected, misuse>>

\* ~ASRAgent() frees the event; then ~SpeechRecognizer() up to the join
Destroy ==
    /\ "destroy" \in UploadInputs
    /\ caller = "up"
    /\ caller' = "joining"
    /\ rec_event' = None
    /\ asr_destroy' = TRUE /\ asr_is_running' = FALSE
    /\ thread' = Notified
    /\ UNCHANGED <<created, opened, sync, connected, uploadVars>>

RecognizerJoined ==
    /\ caller = "joining" /\ thread.pc = "exited"
    /\ caller' = "gone"
    /\ UNCHANGED <<asr_is_running, asr_destroy, eventVars, sync, thread, connected, uploadVars>>

\* h2manager_get_status() changes (Connection)
NetworkChanges ==
    /\ "network" \in UploadInputs
    /\ connected' = ~connected
    /\ UNCHANGED <<mainVars, eventVars, sync, thread, uploadVars>>

----------------------------------------------------------------------------
(***************************************************************************)
(* The thread: loopListening()                                             *)
(***************************************************************************)
At(pc) == thread.pc = pc /\ sync = Quiet
Goes(pc) == thread' = [thread EXCEPT !.pc = pc]

\* sendSyncListeningEvent(): the thread goes on at pc when it is handled.
Reports(state, pc) == sync' = state /\ Goes(pc)

\* The wait is over: a start that fails ends the thread.
Wakes ==
    /\ At("woken")
    /\ \/ /\ ~asr_is_running
          /\ Goes("loop") /\ UNCHANGED sync
       \/ /\ asr_is_running /\ "startfail" \in UploadInputs
          /\ Goes("exited") /\ UNCHANGED sync
       \/ /\ asr_is_running
          /\ thread' = [thread EXCEPT !.pc = "frame", !.frames = 0]
          /\ sync' = "LISTENING"
    /\ UNCHANGED <<mainVars, eventVars, connected, uploadVars>>

\* The next frame: no more, a failure, or one with or without encoded data
Frame ==
    /\ At("frame")
    /\ \/ /\ ~asr_is_running
          /\ Goes("stop") /\ UNCHANGED sync
       \/ /\ asr_is_running /\ "fail" \in UploadInputs
          /\ Reports("FAILED", "stop")
       \/ /\ asr_is_running /\ thread.frames < MaxFrames
          /\ \E pc \in {"data", "epd"} :
                thread' = [thread EXCEPT !.pc = pc, !.frames = @ + 1]
          /\ UNCHANGED sync
    /\ UNCHANGED <<mainVars, eventVars, connected, uploadVars>>

\* ASRAgent::onRecordData(): sendEventRecognize() looks at rec_event ...
ChecksEvent ==
    /\ At("data")
    /\ Goes(IF rec_event = None THEN "epd" ELSE "build")
    /\ UNCHANGED <<mainVars, eventVars, sync, connected, uploadVars>>

\* ... fills it in and passes it on ...
BuildsEvent ==
    /\ At("build")
    /\ thread' = [thread EXCEPT !.pc = "send", !.ev = rec_event]
    /\ UNCHANGED <<mainVars, eventVars, sync, connected, uploadVars>>

\* ... the attachment is sent ...
SendsAttachment ==
    /\ At("send")
    /\ misuse' = (misuse \/ thread.ev # rec_event)
    /\ IF connected /\ thread.ev # None
       THEN /\ attached' = [attached EXCEPT ![thread.ev] =
                                Append(@, [seq |-> numbers[thread.ev], end |-> FALSE])]
            /\ Goes("count")
       ELSE Goes("epd") /\ UNCHANGED attached
    /\ UNCHANGED <<mainVars, eventVars, sync, connected, numbers>>

\* Faulty CountsAttachment: the attachment is not counted.
CountsAttachmentNot ==
    /\ At("count")
    /\ misuse' = (misuse \/ thread.ev # rec_event)
    /\ Goes("epd")
    /\ UNCHANGED <<mainVars, eventVars, sync, connected, attached, numbers>>

\* ... and counted.
CountsAttachment ==
    /\ At("count")
    /\ misuse' = (misuse \/ thread.ev # rec_event)
    /\ numbers' = [numbers EXCEPT ![thread.ev] = @ + 1]
    /\ Goes("epd")
    /\ UNCHANGED <<mainVars, eventVars, sync, connected, attached>>

\* What epd_client_run() returned
EndPoint ==
    /\ At("epd")
    /\ \/ thread.frames < MaxFrames /\ Goes("frame") /\ UNCHANGED sync
       \/ thread.frames < MaxFrames /\ Reports("SPEECH_START", "frame")
       \/ Reports("SPEECH_END", "stop")
       \/ Reports("TIMEOUT", "stop")
    /\ UNCHANGED <<mainVars, eventVars, connected, uploadVars>>

\* The recorder and the detector are stopped.
Stops ==
    /\ At("stop")
    /\ IF asr_destroy THEN Goes("loop") /\ UNCHANGED sync ELSE Reports("DONE", "loop")
    /\ UNCHANGED <<mainVars, eventVars, connected, uploadVars>>

\* The head of the loop, then the wait, which misses a notification between
LoopHead ==
    /\ At("loop")
    /\ Goes(IF asr_destroy THEN "exited" ELSE "enter")
    /\ UNCHANGED <<mainVars, eventVars, sync, connected, uploadVars>>

Waits ==
    /\ At("enter")
    /\ Goes("wait")
    /\ UNCHANGED <<mainVars, eventVars, sync, connected, uploadVars>>

Thread ==
    \/ Wakes \/ Frame \/ ChecksEvent \/ BuildsEvent \/ SendsAttachment \/ CountsAttachment
    \/ EndPoint \/ Stops \/ LoopHead \/ Waits

UploadNext ==
    \/ StartListening \/ StopListening \/ OnListeningState \/ Destroy \/ RecognizerJoined
    \/ NetworkChanges \/ Thread

UploadSpec == UploadInit /\ [][UploadNext]_sessionVars

\* Both threads run, the microphone delivers frames; nobody has to call anything.
UploadFairSpec ==
    /\ UploadSpec
    /\ WF_sessionVars(Thread) /\ WF_sessionVars(OnListeningState)
    /\ WF_sessionVars(RecognizerJoined)

----------------------------------------------------------------------------
(***************************************************************************)
(* The attachments of an event are numbered from 0 without a gap and the   *)
(* one that ends the speech is the last, although two threads send them    *)
(* and some are refused while the connection is down                       *)
(* (nugu_network_manager_send_event_data()).                               *)
(***************************************************************************)
Numbered ==
    \A e \in Events : \A i \in 1 .. Len(attached[e]) :
        /\ attached[e][i].seq = i - 1
        /\ attached[e][i].end => i = Len(attached[e])

(***************************************************************************)
(* speech_recognizer.hh: onRecordData() "is invoked in the thread          *)
(* context".  The event it sends its data with is alive until it returns.  *)
(***************************************************************************)
EventAlive == ~misuse

(***************************************************************************)
(* The Recognize event of every session that began to listen is freed      *)
(* again: the session ends, by its end point, a timeout, a failure or a    *)
(* stop, and reports DONE.  (A stop that overtakes the thread's wakeup     *)
(* begins no session.)                                                     *)
(***************************************************************************)
EventEnds == rec_event # None /\ thread.pc = "frame" ~> rec_event = None

(***************************************************************************)
(* asr_interface.hh: recognizing is "Initiated by sending a Recognize      *)
(* Event and continued streaming User speech": no speech is streamed for   *)
(* an event that was not sent.                                             *)
(***************************************************************************)
EventFirst == \A e \in Events : attached[e] # <<>> => e \in opened

(***************************************************************************)
(* nugu_client.hh: deInitialize() is to deinitialise the SDK: the main     *)
(* thread comes back from ~SpeechRecognizer(), which joins the thread.     *)
(***************************************************************************)
DestroyReturns == caller = "joining" ~> caller = "gone"

=============================================================================
