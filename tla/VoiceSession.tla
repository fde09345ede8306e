---------------------------- MODULE VoiceSession ----------------------------
(***************************************************************************)
(* A voice session end to end: the wakeup detector and the speech          *)
(* recognizer, each with its own thread, and the main thread that runs     *)
(* WakeupHandler, ASRAgent, the focus listeners of the capabilities, the   *)
(* focus manager, and the application of src/examples/standalone.          *)
(*                                                                         *)
(* Focus callbacks call the focus manager again (asr's onFocus(MIC)        *)
(* requests the speaker, its onUnfocus(SPK) makes the application start    *)
(* the wakeup detector, ...), so the main thread is a stack of pending     *)
(* calls and a step runs the topmost one up to the next call it makes.     *)
(* The threads run between any two steps of the main thread.               *)
(*                                                                         *)
(* TTSAgent and AudioPlayerAgent appear as the speaker's other users: only *)
(* their focus listeners and the calls they make to the focus manager.     *)
(***************************************************************************)
EXTENDS FocusList, FocusPolicy, SequencesExt, FiniteSets

CONSTANT
    Inputs      \* what the environment does in this run

\* What the environment does, and the listeners of this repository: their
\* addFocus() types, their onStealRequest() answers, and the one listener whose
\* onFocus() may fail and whose onUnfocus() may pause.
ASSUME VoiceAssumption ==
    /\ Resource = {"MIC", "SPK"}
    /\ Inputs \subseteq {"listen", "stop", "wakeup", "expect", "notify", "speak",
                         "play", "nodirectives", "exception",
                         "asr_fail", "kwd_fail", "spurious"}
    /\ Focus \subseteq DOMAIN Priority
    /\ {"kwd", "asr", "expect", "cap_tts"} \subseteq Focus
    /\ "play" \in Inputs => "cap_audio" \in Focus
    /\ Type = [f \in Focus |-> Priority[f]]
    /\ Rejects = PolicyRejects(Focus, Resource)
    /\ CanFail \subseteq {"cap_audio"} /\ CanPause \subseteq {"cap_audio"}

VARIABLES
    stack,          \* _focus_stack, as in NuguFocus
    focused,        \* the foci last told by a callback that they own r
    calls,          \* the pending calls of the main thread, topmost first
    queue,          \* g_main_context_invoke(): the threads' events, in order
    asr_is_running, asrThread,      \* SpeechRecognizer
    kwd_is_running, kwdThread,      \* WakeupDetector
    is_handle,      \* ASRAgent::es_attr.is_handle
    prev_listening_state,           \* ASRAgent
    timer           \* ASRAgent's response timer runs

focusVars == <<stack, focused>>
asrVars == <<asr_is_running, asrThread>>
kwdVars == <<kwd_is_running, kwdThread>>
agentVars == <<is_handle, prev_listening_state, timer>>
vars == <<focusVars, calls, queue, asrVars, kwdVars, agentVars>>

(***************************************************************************)
(* The main thread.  A call is a tuple; Return(cs) ends the topmost one    *)
(* and makes the calls cs instead.                                         *)
(***************************************************************************)

Request(f, r) == <<"request", f, r>>
Release(f, r) == <<"release", f, r>>

Running(op) == calls # <<>> /\ calls[1][1] = op
Return(cs) == calls' = cs \o Tail(calls)

\* nugu_focus_request(), as in NuguFocus up to its first callback.
RequestStep ==
    /\ Running("request")
    /\ LET f == calls[1][2]
           r == calls[1][3]
       IN  \/ /\ stack[r] = <<>>
              /\ stack' = [stack EXCEPT ![r] = <<f>>]
              /\ Return(<< <<"focus", f, r, "request">> >>)
           \/ /\ stack[r] # <<>>
              /\ <<Head(stack[r]), r, f>> \notin Rejects
              /\ Return(<< <<"unfocus", Head(stack[r]), r>>,
                           <<"stolen", f, r, Head(stack[r])>> >>)
              /\ UNCHANGED stack
           \/ /\ stack[r] # <<>>
              /\ <<Head(stack[r]), r, f>> \in Rejects
              /\ stack' = [stack EXCEPT ![r] = InsertByPriority(RemoveItems(@, f), f)]
              /\ Return(<<>>)
    /\ UNCHANGED <<focused, queue, asrVars, kwdVars, agentVars>>

\* Faulty StolenStep: the requester's older items stay.
StolenStepKeeps ==
    /\ Running("stolen")
    /\ LET f == calls[1][2]
           r == calls[1][3]
           top == calls[1][4]
       IN  \E answer \in UnfocusAnswers(top) :
              /\ stack' = [stack EXCEPT ![r] =
                     Prepend(Unfocused(RemoveItems(@, top), top, answer), f)]
              /\ Return(<< <<"focus", f, r, "request">> >>)
    /\ UNCHANGED <<focused, queue, asrVars, kwdVars, agentVars>>

\* nugu_focus_request() after unfocus_cb of the former top returned: the link
\* taken before the callback is removed, the requester becomes the top.
StolenStep ==
    /\ Running("stolen")
    /\ LET f == calls[1][2]
           r == calls[1][3]
           top == calls[1][4]
       IN  \E answer \in UnfocusAnswers(top) :
              /\ stack' = [stack EXCEPT ![r] =
                     Prepend(RemoveItems(Unfocused(RemoveItems(@, top), top, answer), f), f)]
              /\ Return(<< <<"focus", f, r, "request">> >>)
    /\ UNCHANGED <<focused, queue, asrVars, kwdVars, agentVars>>

\* nugu_focus_release() up to unfocus_cb.
ReleaseStep ==
    /\ Running("release")
    /\ LET f == calls[1][2]
           r == calls[1][3]
       IN  IF stack[r] = <<>> \/ Head(stack[r]) # f
           THEN /\ stack' = [stack EXCEPT ![r] = RemoveItems(@, f)]
                /\ Return(<<>>)
           ELSE /\ stack' = [stack EXCEPT ![r] = Tail(@)]
                /\ Return(<< <<"unfocus", f, r>>, <<"released", f, r>> >>)
    /\ UNCHANGED <<focused, queue, asrVars, kwdVars, agentVars>>

\* Faulty ReleasedStep: the next item is not called back.
ReleasedStepSilent ==
    /\ Running("released")
    /\ \E answer \in UnfocusAnswers(calls[1][2]) :
          stack' = [stack EXCEPT ![calls[1][3]] = Unfocused(@, calls[1][2], answer)]
    /\ Return(<<>>)
    /\ UNCHANGED <<focused, queue, asrVars, kwdVars, agentVars>>

\* nugu_focus_release() after unfocus_cb returned: the next item's focus_cb.
ReleasedStep ==
    /\ Running("released")
    /\ LET f == calls[1][2]
           r == calls[1][3]
       IN  \E answer \in UnfocusAnswers(f) :
              LET rest == Unfocused(stack[r], f, answer)
              IN  /\ stack' = [stack EXCEPT ![r] = rest]
                  /\ Return(IF rest # <<>> /\ Head(rest) # f
                            THEN << <<"focus", Head(rest), r, "release">> >>
                            ELSE <<>>)
    /\ UNCHANGED <<focused, queue, asrVars, kwdVars, agentVars>>

----------------------------------------------------------------------------
(***************************************************************************)
(* The focus listeners.                                                    *)
(***************************************************************************)

Told(f, r) == focused' = [focused EXCEPT ![r] = @ \cup {f}]
Lost(f, r) == focused' = [focused EXCEPT ![r] = @ \ {f}]

\* ASRAgent::startRecognition(), stopRecognition(), releaseASRSpeakFocus()
StartRecognition == <<Request("asr", "MIC")>>
StopRecognition == <<Release("asr", "MIC")>>
ReleaseASRSpeakFocus == <<Release("asr", "SPK")>>

\* WakeupHandler::startWakeup(), and the application that calls it on IDLE.
StartWakeup == <<Request("kwd", "MIC")>>
OnIdle == StartWakeup

\* Faulty AsrFocusMic: the state is reset, the expect focus is not released.
AsrFocusMicKeeps ==
    /\ Running("focus") /\ calls[1][2] = "asr" /\ calls[1][3] = "MIC"
    /\ Told("asr", "MIC")
    /\ is_handle' = FALSE
    /\ Return(<<Request("asr", "SPK")>>)
    /\ UNCHANGED <<stack, queue, asrVars, kwdVars, prev_listening_state, timer>>

\* ASRFocusListener::onFocus(MIC): give up the expect focus, take the speaker.
AsrFocusMic ==
    /\ Running("focus") /\ calls[1][2] = "asr" /\ calls[1][3] = "MIC"
    /\ Told("asr", "MIC")
    /\ is_handle' = FALSE
    /\ Return((IF is_handle THEN <<Release("expect", "SPK")>> ELSE <<>>)
              \o <<Request("asr", "SPK")>>)
    /\ UNCHANGED <<stack, queue, asrVars, kwdVars, prev_listening_state, timer>>

\* ASRAgent::onListeningState(READY)
OnReady == prev_listening_state' = "READY" /\ timer' = FALSE

\* SpeechRecognizer::startListening(): notify_all() reaches only a thread that
\* waits.
StartListening ==
    IF asr_is_running
    THEN UNCHANGED <<asrVars, prev_listening_state, timer>>
    ELSE /\ OnReady
         /\ asr_is_running' = TRUE
         /\ asrThread' = IF asrThread = "wait" THEN "woken" ELSE asrThread

\* ASRFocusListener::onFocus(SPK)
AsrFocusSpk ==
    /\ Running("focus") /\ calls[1][2] = "asr" /\ calls[1][3] = "SPK"
    /\ Told("asr", "SPK")
    /\ StartListening
    /\ Return(<<>>)
    /\ UNCHANGED <<stack, queue, kwdVars, is_handle>>

\* WakeupHandler::onFocus(): WakeupDetector::startWakeup().
KwdFocus ==
    /\ Running("focus") /\ calls[1][2] = "kwd"
    /\ Told("kwd", calls[1][3])
    /\ kwd_is_running' = TRUE
    /\ kwdThread' = IF ~kwd_is_running /\ kwdThread = "wait" THEN "woken" ELSE kwdThread
    /\ Return(<<>>)
    /\ UNCHANGED <<stack, queue, asrVars, agentVars>>

\* Faulty ExpectFocus: a focus name that nobody registered.
ExpectFocusMisspelt ==
    /\ Running("focus") /\ calls[1][2] = "expect"
    /\ Told("expect", calls[1][3])
    /\ Return(<<Request("ASR", "MIC")>>)
    /\ UNCHANGED <<stack, queue, asrVars, kwdVars, agentVars>>

\* Faulty ExpectFocus: it requests its own focus again.
ExpectFocusAgain ==
    /\ Running("focus") /\ calls[1][2] = "expect"
    /\ Told("expect", calls[1][3])
    /\ Return(<<Request("expect", "SPK")>>)
    /\ UNCHANGED <<stack, queue, asrVars, kwdVars, agentVars>>

\* ExpectFocusListener::onFocus()
ExpectFocus ==
    /\ Running("focus") /\ calls[1][2] = "expect"
    /\ Told("expect", calls[1][3])
    /\ Return(StartRecognition)
    /\ UNCHANGED <<stack, queue, asrVars, kwdVars, agentVars>>

\* TTSAgent::onFocus() always answers OK.
TtsFocus ==
    /\ Running("focus") /\ calls[1][2] = "cap_tts"
    /\ Told("cap_tts", calls[1][3])
    /\ Return(<<>>)
    /\ UNCHANGED <<stack, queue, asrVars, kwdVars, agentVars>>

\* AudioPlayerAgent::onFocus(); a request that does not get OK is taken off the
\* list again, a release does not look at the answer.
AudioFocus ==
    /\ Running("focus") /\ calls[1][2] = "cap_audio"
    /\ LET r == calls[1][3]
       IN  \E answer \in FocusAnswers("cap_audio") :
              \/ /\ answer = "OK"
                 /\ Told("cap_audio", r)
                 /\ UNCHANGED stack
              \/ /\ answer = "FAIL"
                 /\ stack' = IF calls[1][4] = "request"
                             THEN [stack EXCEPT ![r] = RemoveItems(@, "cap_audio")]
                             ELSE stack
                 /\ UNCHANGED focused
    /\ Return(<<>>)
    /\ UNCHANGED <<queue, asrVars, kwdVars, agentVars>>

\* ASRFocusListener::onUnfocus(MIC): SpeechRecognizer::stopListening().
AsrUnfocusMic ==
    /\ Running("unfocus") /\ calls[1][2] = "asr" /\ calls[1][3] = "MIC"
    /\ Lost("asr", "MIC")
    /\ asr_is_running' = FALSE
    /\ Return(<<>>)
    /\ UNCHANGED <<stack, queue, asrThread, kwdVars, agentVars>>

\* Faulty AsrUnfocusSpk: asr gives the speaker back itself.
AsrUnfocusSpkReleases ==
    /\ Running("unfocus") /\ calls[1][2] = "asr" /\ calls[1][3] = "SPK"
    /\ Lost("asr", "SPK")
    /\ Return(<<Release("asr", "SPK"), <<"reset_expect">> >>)
    /\ UNCHANGED <<stack, queue, asrVars, kwdVars, agentVars>>

\* ASRFocusListener::onUnfocus(SPK): the application is told IDLE, then the
\* expect state is reset.
AsrUnfocusSpk ==
    /\ Running("unfocus") /\ calls[1][2] = "asr" /\ calls[1][3] = "SPK"
    /\ Lost("asr", "SPK")
    /\ Return(OnIdle \o << <<"reset_expect">> >>)
    /\ UNCHANGED <<stack, queue, asrVars, kwdVars, agentVars>>

\* Faulty KwdUnfocus: the wakeup detector is not stopped.
KwdUnfocusRuns ==
    /\ Running("unfocus") /\ calls[1][2] = "kwd"
    /\ Lost("kwd", calls[1][3])
    /\ Return(<<>>)
    /\ UNCHANGED <<stack, queue, asrVars, kwdVars, agentVars>>

\* WakeupHandler::onUnfocus(): WakeupDetector::stopWakeup().
KwdUnfocus ==
    /\ Running("unfocus") /\ calls[1][2] = "kwd"
    /\ Lost("kwd", calls[1][3])
    /\ kwd_is_running' = FALSE
    /\ Return(<<>>)
    /\ UNCHANGED <<stack, queue, asrVars, kwdThread, agentVars>>

\* ExpectFocusListener::onUnfocus(), TTSAgent::onUnfocus() and
\* AudioPlayerAgent::onUnfocus() make no call; StolenStep and ReleasedStep look
\* at the answer (UnfocusAnswers).
SpeakerUnfocus ==
    /\ Running("unfocus") /\ calls[1][2] \in {"expect", "cap_tts", "cap_audio"}
    /\ Lost(calls[1][2], calls[1][3])
    /\ Return(<<>>)
    /\ UNCHANGED <<stack, queue, asrVars, kwdVars, agentVars>>

\* ASRAgent::resetExpectSpeechState()
ResetExpectStep ==
    /\ Running("reset_expect")
    /\ is_handle' = FALSE
    /\ Return(<<>>)
    /\ UNCHANGED <<focusVars, queue, asrVars, kwdVars, prev_listening_state, timer>>

----------------------------------------------------------------------------
(***************************************************************************)
(* The threads' events: posted to the main loop, and the thread waits      *)
(* until the handler has run.                                              *)
(***************************************************************************)

\* SpeechRecognizer::sendSyncListeningEvent(), WakeupDetector::sendSyncWakeupEvent()
Post(thread, state) == queue' = Append(queue, <<thread, state>>)

\* Faulty Dispatch: the source returns TRUE and stays.
DispatchStays ==
    /\ calls = <<>> /\ queue # <<>>
    /\ calls' = << <<"handle", Head(queue)[1], Head(queue)[2]>>,
                   <<"resume", Head(queue)[1], Head(queue)[2]>> >>
    /\ UNCHANGED <<focusVars, queue, asrVars, kwdVars, agentVars>>

\* Faulty Dispatch: the thread is not notified.
DispatchSilent ==
    /\ calls = <<>> /\ queue # <<>>
    /\ queue' = Tail(queue)
    /\ calls' = << <<"handle", Head(queue)[1], Head(queue)[2]>> >>
    /\ UNCHANGED <<focusVars, asrVars, kwdVars, agentVars>>

\* invoke_sync_event(): the main loop takes the next event, runs its handler
\* and, last, lets the thread go on.
Dispatch ==
    /\ calls = <<>> /\ queue # <<>>
    /\ queue' = Tail(queue)
    /\ calls' = << <<"handle", Head(queue)[1], Head(queue)[2]>>,
                   <<"resume", Head(queue)[1], Head(queue)[2]>> >>
    /\ UNCHANGED <<focusVars, asrVars, kwdVars, agentVars>>

\* ASRAgent::onListeningState(): what it calls, in order.
ListeningCalls(state) ==
    CASE state = "SPEECH_END" -> StopRecognition \o << <<"start_timer">> >>
      [] state \in {"TIMEOUT", "FAILED"} ->
            StopRecognition \o ReleaseASRSpeakFocus
      [] state = "DONE" ->
            IF prev_listening_state \in {"READY", "LISTENING", "SPEECH_START"}
            THEN ReleaseASRSpeakFocus ELSE <<>>
      [] OTHER -> <<>>

OnListeningState ==
    /\ Running("handle") /\ calls[1][2] = "asr"
    /\ Return(ListeningCalls(calls[1][3]) \o << <<"prev_state", calls[1][3]>> >>)
    /\ UNCHANGED <<focusVars, queue, asrVars, kwdVars, agentVars>>

\* ASRAgent::receiveCommand(): "wakeup_detected" withdraws a pending expect
\* speech, "releasefocus" gives the speaker back.
ReceiveWakeupDetected ==
    IF is_handle THEN <<Release("expect", "SPK"), <<"reset_expect">> >> ELSE <<>>
ReceiveReleaseFocus == <<Release("asr", "SPK")>>

\* The application starts the recognition when the wakeup word was detected.
OnDetected == StartRecognition

\* WakeupHandler::onWakeupState()
OnWakeupState ==
    /\ Running("handle") /\ calls[1][2] = "kwd"
    /\ Return(IF calls[1][3] = "DETECTED"
              THEN ReceiveWakeupDetected \o <<Release("kwd", "MIC")>> \o OnDetected
              ELSE <<>>)
    /\ UNCHANGED <<focusVars, queue, asrVars, kwdVars, agentVars>>

\* The tail of onListeningState(), and checkResponseTimeout() in SPEECH_END.
AgentStep ==
    /\ \/ /\ Running("prev_state")
          /\ prev_listening_state' = calls[1][2]
          /\ UNCHANGED timer
       \/ /\ Running("start_timer")
          /\ timer' = TRUE
          /\ UNCHANGED prev_listening_state
    /\ Return(<<>>)
    /\ UNCHANGED <<focusVars, queue, asrVars, kwdVars, is_handle>>

\* Faulty ResumeAt: a timeout does not leave the frame loop.
ResumeAtTimeoutLoops ==
    [LISTENING |-> "loop", SPEECH_START |-> "speech", SPEECH_END |-> "leave",
     TIMEOUT |-> "loop", FAILED |-> "leave", FAIL |-> "leave",
     DETECTED |-> "clear", DONE |-> "check"]

\* The thread wakes from its sync event: LISTENING and SPEECH_START go (back)
\* to the head of the frame loop, the others leave it; after DONE a new round
\* starts.  The wakeup thread clears kwd_is_running once DETECTED is handled.
ResumeAt ==
    [LISTENING |-> "loop", SPEECH_START |-> "speech", SPEECH_END |-> "leave",
     TIMEOUT |-> "leave", FAILED |-> "leave", FAIL |-> "leave",
     DETECTED |-> "clear", DONE |-> "check"]

ResumeStep ==
    /\ Running("resume")
    /\ \/ /\ calls[1][2] = "asr"
          /\ asrThread' = ResumeAt[calls[1][3]]
          /\ UNCHANGED <<asr_is_running, kwdVars>>
       \/ /\ calls[1][2] = "kwd"
          /\ kwdThread' = ResumeAt[calls[1][3]]
          /\ UNCHANGED <<asrVars, kwd_is_running>>
    /\ Return(<<>>)
    /\ UNCHANGED <<focusVars, queue, agentVars>>

Main ==
    \/ RequestStep \/ StolenStep \/ ReleaseStep \/ ReleasedStep
    \/ AsrFocusMic \/ AsrFocusSpk \/ KwdFocus \/ ExpectFocus \/ TtsFocus \/ AudioFocus
    \/ AsrUnfocusMic \/ AsrUnfocusSpk \/ KwdUnfocus \/ SpeakerUnfocus
    \/ ResetExpectStep
    \/ Dispatch \/ OnListeningState \/ OnWakeupState \/ AgentStep \/ ResumeStep

----------------------------------------------------------------------------
(***************************************************************************)
(* SpeechRecognizer::loopListening().  asrThread is where the thread is:   *)
(* "check", "wait", "woken" around asr_cond.wait(); "loop" and "frame" the *)
(* head and the body of the frame loop, "speech" and "utter" the same once *)
(* speech was reported; "sent" in a sync event; "leave" behind the loop.   *)
(* Neither mutex protects asr_is_running, and the wait has no predicate.   *)
(***************************************************************************)

AsrAt(from, to) ==
    /\ asrThread = from /\ asrThread' = to
    /\ UNCHANGED <<focusVars, calls, asr_is_running, kwdVars, agentVars>>

AsrGoto(from, to) == AsrAt(from, to) /\ UNCHANGED queue

AsrSend(from, state) == AsrAt(from, "sent") /\ Post("asr", state)

\* The head of the outer loop, up to asr_cond.wait().
AsrWait == AsrGoto("check", "wait")

\* A condition variable may wake without a notification.
AsrSpurious == "spurious" \in Inputs /\ AsrGoto("wait", "woken")

AsrWoken ==
    \/ ~asr_is_running /\ AsrGoto("woken", "check")
    \/ asr_is_running /\ AsrSend("woken", "LISTENING")

\* epd_client_start() or nugu_recorder_start() fails: the thread ends.
AsrBreak == "asr_fail" \in Inputs /\ asr_is_running /\ AsrGoto("woken", "exited")

\* The head of the frame loop reads asr_is_running once per frame.
AsrLoop ==
    IF asr_is_running THEN AsrGoto("loop", "frame") \/ AsrGoto("speech", "utter")
                      ELSE AsrGoto("loop", "leave") \/ AsrGoto("speech", "leave")

\* A frame: speech starts (reported once, on leaving EPD_START_DETECTING), or
\* the recorder or the end point detector fails.
AsrFrame ==
    \/ AsrSend("frame", "SPEECH_START")
    \/ "asr_fail" \in Inputs /\ (AsrSend("frame", "FAILED") \/ AsrSend("utter", "FAILED"))

\* The end point detector always decides: EPD_END_DETECTED, EPD_MAXSPEECH after
\* ten seconds of speech, EPD_TIMEOUT after ten seconds of silence.
AsrEndPoint ==
    \/ AsrSend("frame", "TIMEOUT")
    \/ AsrSend("frame", "SPEECH_END")
    \/ AsrSend("utter", "SPEECH_END")

\* A frame without an event, and the loop's condition fails.
AsrStopped == ~asr_is_running /\ (AsrGoto("frame", "leave") \/ AsrGoto("utter", "leave"))

AsrDone == AsrSend("leave", "DONE")

AsrStep == AsrWait \/ AsrWoken \/ AsrLoop \/ AsrStopped \/ AsrDone

Asr == AsrStep \/ AsrSpurious \/ AsrBreak \/ AsrFrame \/ AsrEndPoint

(***************************************************************************)
(* WakeupDetector::loopWakeup(), the same shape; "clear" is the assignment *)
(* kwd_is_running = false behind the DETECTED event.                       *)
(***************************************************************************)

KwdAt(from, to) ==
    /\ kwdThread = from /\ kwdThread' = to
    /\ UNCHANGED <<focusVars, calls, asrVars, agentVars>>

KwdGoto(from, to) == KwdAt(from, to) /\ UNCHANGED <<queue, kwd_is_running>>

KwdSend(from, state) ==
    KwdAt(from, "sent") /\ Post("kwd", state) /\ UNCHANGED kwd_is_running

KwdWait == KwdGoto("check", "wait")

KwdSpurious == "spurious" \in Inputs /\ KwdGoto("wait", "woken")

KwdWoken ==
    \/ ~kwd_is_running /\ KwdGoto("woken", "check")
    \/ kwd_is_running /\ KwdGoto("woken", "loop")

\* kwd_initialize() or nugu_recorder_start() fails: the thread ends.
KwdBreak == "kwd_fail" \in Inputs /\ kwd_is_running /\ KwdGoto("woken", "exited")

KwdLoop ==
    \/ kwd_is_running /\ KwdGoto("loop", "frame")
    \/ ~kwd_is_running /\ KwdGoto("loop", "leave")

\* A frame: the wakeup word is heard, or the recorder fails.
KwdFrame ==
    \/ KwdSend("frame", "DETECTED")
    \/ "kwd_fail" \in Inputs /\ KwdSend("frame", "FAIL")

KwdClear == KwdAt("clear", "leave") /\ kwd_is_running' = FALSE /\ UNCHANGED queue

KwdStopped == ~kwd_is_running /\ KwdGoto("frame", "leave")

KwdDone == KwdSend("leave", "DONE")

KwdStep == KwdWait \/ KwdWoken \/ KwdLoop \/ KwdStopped \/ KwdClear \/ KwdDone

Kwd == KwdStep \/ KwdSpurious \/ KwdBreak \/ KwdFrame

----------------------------------------------------------------------------
(***************************************************************************)
(* The environment: the user, the server's directives, the timer.  The     *)
(* main loop serves one input at a time.                                   *)
(***************************************************************************)

Input(name, cs) ==
    /\ name \in Inputs
    /\ calls = <<>>
    /\ calls' = cs
    /\ UNCHANGED <<focusVars, queue, asrVars, kwdVars>>

\* The application: startRecognition(), stopRecognition(), startWakeup().
UserListen ==
    /\ Input("listen", StartRecognition)
    /\ UNCHANGED agentVars

UserStop ==
    /\ "stop" \in Inputs /\ calls = <<>>
    /\ calls' = StopRecognition \o << <<"user_stopped">> >>
    /\ UNCHANGED <<focusVars, queue, asrVars, kwdVars, agentVars>>

UserWakeup ==
    /\ Input("wakeup", StartWakeup)
    /\ UNCHANGED agentVars

\* stopRecognition() has returned to the application.
UserStopped ==
    /\ Running("user_stopped")
    /\ Return(<<>>)
    /\ UNCHANGED <<focusVars, queue, asrVars, kwdVars, agentVars>>

\* ASRAgent::parsingExpectSpeech()
ExpectSpeech ==
    /\ Input("expect", <<Request("expect", "SPK")>>)
    /\ is_handle' = TRUE
    /\ UNCHANGED <<prev_listening_state, timer>>

\* ASRAgent::parsingNotifyResult(), PARTIAL or COMPLETE.
NotifyResult ==
    /\ timer
    /\ Input("notify", <<>>)
    /\ timer' = FALSE
    /\ UNCHANGED <<is_handle, prev_listening_state>>

\* TTSAgent::parsingSpeak() and pcmEventCallback(END_OF_STREAM)
Speak ==
    /\ Input("speak", <<Request("cap_tts", "SPK")>>)
    /\ UNCHANGED agentVars

SpeechFinished ==
    /\ calls = <<>> /\ Contains(stack["SPK"], "cap_tts")
    /\ calls' = <<Release("cap_tts", "SPK")>>
    /\ UNCHANGED <<focusVars, queue, asrVars, kwdVars, agentVars>>

\* AudioPlayerAgent::parsingPlay(): the media of another token is stopped, which
\* releases the focus (mediaStateChanged); an error ends it before the request.
Play ==
    /\ \E stop, fails \in BOOLEAN :
          Input("play", (IF stop THEN <<Release("cap_audio", "SPK")>> ELSE <<>>)
                        \o (IF fails THEN <<>> ELSE <<Request("cap_audio", "SPK")>>))
    /\ UNCHANGED agentVars

\* AudioPlayerAgent::parsingPause() and parsingStop(): asr's speaker goes first;
\* parsingStop() leaves the media of another play service alone.
PauseMedia ==
    /\ Input("play", ReceiveReleaseFocus \o <<Release("cap_audio", "SPK")>>)
    /\ UNCHANGED agentVars

StopMedia ==
    /\ \E mine \in BOOLEAN :
          Input("play", ReceiveReleaseFocus \o
                        (IF mine THEN <<Release("cap_audio", "SPK")>> ELSE <<>>))
    /\ UNCHANGED agentVars

\* AudioPlayerAgent::mediaStateChanged(STOPPED)
MediaStopped ==
    /\ "cap_audio" \in focused["SPK"]
    /\ Input("play", <<Release("cap_audio", "SPK")>>)
    /\ UNCHANGED agentVars

\* SystemAgent::parsingNoDirectives() for the current dialog.
NoDirectives ==
    /\ Input("nodirectives", ReceiveReleaseFocus)
    /\ UNCHANGED agentVars

\* SystemAgent::parsingException() of state 1003
Exception ==
    /\ Input("exception", <<Release("asr", "SPK"), Release("asr", "MIC")>>)
    /\ UNCHANGED agentVars

\* ASRAgent's response timer expires.
ResponseTimeout ==
    /\ calls = <<>> /\ timer
    /\ timer' = FALSE
    /\ calls' = ReleaseASRSpeakFocus
    /\ UNCHANGED <<focusVars, queue, asrVars, kwdVars, is_handle, prev_listening_state>>

Environment ==
    \/ UserListen \/ UserStop \/ UserWakeup \/ UserStopped
    \/ ExpectSpeech \/ NotifyResult
    \/ Speak \/ SpeechFinished \/ Play \/ PauseMedia \/ StopMedia \/ MediaStopped
    \/ NoDirectives \/ Exception \/ ResponseTimeout

----------------------------------------------------------------------------

Init ==
    /\ stack = [r \in Resource |-> <<>>]
    /\ focused = [r \in Resource |-> {}]
    /\ calls = <<>>
    /\ queue = <<>>
    /\ asr_is_running = FALSE /\ asrThread = "check"
    /\ kwd_is_running = FALSE /\ kwdThread = "check"
    /\ is_handle = FALSE
    /\ prev_listening_state = "DONE"
    /\ timer = FALSE

Next == Main \/ Asr \/ Kwd \/ Environment

Spec == Init /\ [][Next]_vars

\* The scheduler runs every thread; the main loop serves sources of the same
\* priority in turn, so a posted event is not overtaken for ever; the end point
\* detector decides, speech ends, and the timer expires.
Fairness ==
    /\ WF_vars(Main) /\ SF_vars(Dispatch)
    /\ WF_vars(AsrStep) /\ WF_vars(AsrEndPoint)
    /\ WF_vars(KwdStep)
    /\ WF_vars(UserStopped)
    /\ SF_vars(SpeechFinished) /\ SF_vars(ResponseTimeout)

FairSpec == Spec /\ Fairness

----------------------------------------------------------------------------
(***************************************************************************)
(* Properties.                                                             *)
(***************************************************************************)

Ops == {"request", "stolen", "release", "released", "focus", "unfocus",
        "reset_expect", "handle", "resume", "prev_state", "start_timer",
        "user_stopped"}

States == DOMAIN ResumeAt

TypeOK ==
    /\ stack \in [Resource -> Seq(Focus)]
    /\ focused \in [Resource -> SUBSET Focus]
    /\ \A i \in 1..Len(calls) : calls[i][1] \in Ops
    /\ \A i \in 1..Len(queue) : queue[i] \in {"asr", "kwd"} \X States
    /\ asr_is_running \in BOOLEAN /\ kwd_is_running \in BOOLEAN
    /\ asrThread \in {"check", "wait", "woken", "loop", "frame", "speech",
                      "utter", "sent", "leave", "exited"}
    /\ kwdThread \in {"check", "wait", "woken", "loop", "frame", "sent",
                      "clear", "leave", "exited"}
    /\ is_handle \in BOOLEAN
    /\ prev_listening_state \in States \cup {"READY"}
    /\ timer \in BOOLEAN

\* nugu_focus_request() takes the link of the current top, calls its
\* unfocus_cb and then deletes that link: whatever the callbacks do meanwhile,
\* the item is still on the list (else the link would be freed twice), and no
\* focus gets a second item when callbacks request and release in the middle of
\* another request or release.
LinkValid ==
    /\ \A i \in 1..Len(calls) :
          calls[i][1] = "stolen" => Contains(stack[calls[i][3]], calls[i][4])
    /\ \A r \in Resource : IsInjective(stack[r])

\* "Only one focus can be owned by a resource at the same time"
\* (nugu_focus.h): although the callbacks of one owner request the other
\* resource in the middle of a hand-over, two listeners are never both told
\* that they own the speaker, and whenever the main loop is idle the one that
\* was told is the top of the list, whom the next request asks and tells.
SpeakerExclusive ==
    /\ \A f, g \in focused["SPK"] : f = g
    /\ calls = <<>> =>
          \A f \in focused["SPK"] : stack["SPK"] # <<>> /\ Head(stack["SPK"]) = f

\* Where no listener pauses or fails, somebody owns the speaker whenever
\* somebody waits for it: no hand-over is lost in nested callbacks.
SpeakerServed ==
    (calls = <<>> /\ stack["SPK"] # <<>>) => focused["SPK"] # {}

\* ASRAgent keeps is_handle and the focus manager keeps the item of "expect":
\* three places clear the one and two take off the other, yet whenever the main
\* loop is idle they agree, so an expected speech is neither lost (no one would
\* ever listen) nor left over (a later release would start listening unasked).
ExpectTracked ==
    calls = <<>> => (is_handle <=> Contains(stack["SPK"], "expect"))

\* The wakeup detector and the speech recognizer are never both switched on.
OneRecognizer == ~(asr_is_running /\ kwd_is_running)

Pending(thread) ==
    {i \in 1..Len(queue) : queue[i][1] = thread} \cup
    {-i : i \in {j \in 1..Len(calls) : calls[j][1] = "resume" /\ calls[j][2] = thread}}

\* A thread waits in sendSync...Event() exactly as long as its one event is
\* queued or being handled: an event is never handled late, in a later
\* session's turn, and SyncEvent is never freed under the main thread.
OneEventPerThread ==
    /\ Cardinality(Pending("asr")) = IF asrThread = "sent" THEN 1 ELSE 0
    /\ Cardinality(Pending("kwd")) = IF kwdThread = "sent" THEN 1 ELSE 0

\* However the callbacks nest, the main loop gets control back, and a recognizer
\* thread is never blocked for good in a sync event, whatever else the main loop
\* has to do.
EventsHandled ==
    /\ calls # <<>> ~> calls = <<>>
    /\ asrThread = "sent" ~> asrThread # "sent"
    /\ kwdThread = "sent" ~> kwdThread # "sent"

\* The recognizer does not record for ever: a session that opened the recorder
\* closes it and the thread waits for the next session.
SessionEnds == asrThread = "loop" ~> asrThread \in {"wait", "exited"}

\* asr_interface.hh says of stopRecognition(): "Turn off the microphone and
\* stop speech recognition".
StopTurnsOffMic == Running("user_stopped") => ~asr_is_running

\* SpeechRecognizer::startListening() returns early with "Listening Thread is
\* already running...".
AlreadyRunning ==
    (Running("focus") /\ calls[1][2] = "asr" /\ calls[1][3] = "SPK" /\ asr_is_running)
        => asrThread \notin {"wait", "exited"}

\* wakeup_interface.hh says of startWakeup(): "Start the wakeup detection":
\* once it has the microphone the detector is switched on.
WakeupRuns == (calls = <<>> /\ "kwd" \in focused["MIC"]) => kwd_is_running

============================================================================
