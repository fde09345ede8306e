------------------------------ MODULE PlaySync ------------------------------
(***************************************************************************)
(* service/playsync_manager.cc: which play services are active (the        *)
(* context stack), which of them shows something (the renderers), and the  *)
(* single timer that keeps a finished context and its display for 7 s;     *)
(* with the agents that call it: TTSAgent, AudioPlayerAgent, DisplayAgent  *)
(* and, for the microphone, ASRAgent.  Everything runs in the main loop,   *)
(* so each call is one step and the manager's operations are operators     *)
(* from states to states (the record y).                                   *)
(***************************************************************************)
EXTENDS Naturals, Sequences, SequencesExt, TLC

CONSTANTS
    PsIds,      \* play service ids
    Inputs      \* what may happen besides Speak, Play and Display directives

NoPs == "noPs"          \* an empty playServiceId
None == "none"
Wild == "wild"          \* an uninitialised pointer that is not null

PlaySyncAssumption ==
    /\ PsIds \cap {NoPs, None, Wild} = {}
    /\ Inputs \subseteq {"audio", "asr", "mic", "expect", "stalestop", "straystop",
                         "notemplate"}

Caps == {"TTS", "AudioPlayer", "Display"}

\* y.stack     context_stack, the youngest last
\* y.map       context_map: from play service ids to sets of capabilities
\* y.rend      renderer_map: from play service ids to the renderer's owner
\* y.timer     is the timer's source attached to the main loop?
\* y.tps       timer_cb_param.ps_id
\* y.expect    is_expect_speech
\* y.shown     what each listener was last told to show
\* y.crashed   a call went through a wild listener pointer
VARIABLES
    y,
    tts,        \* TTSAgent: ps_id, whether it holds the speaker
    audio       \* AudioPlayerAgent: is_finished

vars == <<y, tts, audio>>

Without(f, p) == [q \in DOMAIN f \ {p} |-> f[q]]

----------------------------------------------------------------------------
(***************************************************************************)
(* PlaySyncManager                                                         *)
(***************************************************************************)

\* removeRenderer(): the owner's onReleaseContext() clears its display.
RemoveRenderer(x, p) ==
    IF p \in DOMAIN x.rend
      THEN [x EXCEPT !.shown[x.rend[p]] = None, !.rend = Without(@, p)]
      ELSE x

\* Faulty AddRenderer: the previous renderers are not removed.
AddRendererOver(x, p, cap) ==
    [x EXCEPT !.rend = (p :> cap) @@ @, !.shown[cap] = p]

\* addRenderer(): the renderers of all contexts go first; then the new
\* owner's onSyncContext() shows its template.
AddRenderer(x, p, cap) ==
    LET cleared == FoldLeft(RemoveRenderer, x, SetToSeq(DOMAIN x.rend))
    IN  [cleared EXCEPT !.rend = (p :> cap) @@ @, !.shown[cap] = p]

\* Faulty TimerCallback: the context stays on the stack.
TimerCallbackKeeps(x) ==
    RemoveRenderer([x EXCEPT !.map = Without(@, x.tps)], x.tps)

\* The timerCallback of removeContext(), on timer_cb_param.ps_id.
TimerCallback(x) ==
    RemoveRenderer([x EXCEPT !.map = Without(@, x.tps),
                             !.stack = SelectSeq(@, LAMBDA q : q # x.tps)], x.tps)

\* removeStackElement(): context_map[ps_id] creates a missing entry.
RemoveStackElement(x, p, cap) ==
    [x EXCEPT !.map = (p :> (IF p \in DOMAIN @ THEN @[p] \ {cap} ELSE {})) @@ @]

\* Faulty RemoveContext: the timer is armed but not started.
RemoveContextUntimed(x, p, cap, immediately) ==
    IF p = NoPs THEN x
    ELSE LET r == RemoveStackElement(x, p, cap)
             t == [r EXCEPT !.tps = p]
         IN  IF r.map[p] # {} \/ x.expect THEN [r EXCEPT !.expect = FALSE]
             ELSE IF immediately \/ (p \notin DOMAIN r.rend /\ Len(r.stack) >= 2)
               THEN [TimerCallback(t) EXCEPT !.expect = FALSE]
               ELSE [t EXCEPT !.expect = FALSE]

\* removeContext()
RemoveContext(x, p, cap, immediately) ==
    IF p = NoPs THEN x
    ELSE LET r == RemoveStackElement(x, p, cap)
             t == [r EXCEPT !.tps = p]
         IN  IF r.map[p] # {} \/ x.expect THEN [r EXCEPT !.expect = FALSE]
             ELSE IF immediately \/ (p \notin DOMAIN r.rend /\ Len(r.stack) >= 2)
               THEN [TimerCallback(t) EXCEPT !.expect = FALSE]
               ELSE [t EXCEPT !.timer = TRUE, !.expect = FALSE]

\* addStackElement(), or a new entry of context_map and context_stack
AddStackElement(x, p, cap) ==
    IF p \in DOMAIN x.map
      THEN [x EXCEPT !.map[p] = @ \cup {cap}]
      ELSE [x EXCEPT !.map = (p :> {cap}) @@ @, !.stack = Append(@, p)]

\* addContext(), with the listener of its renderer: null, the caller (TRUE),
\* or wild; onlyRendering as the renderer says.
AddContext(x, p, cap, listener, onlyRendering) ==
    LET renders == listener # None
                   /\ (p \notin DOMAIN x.rend \/ x.rend[p] = cap)
        rendered == IF renders THEN AddRenderer(x, p, cap) ELSE x
        previous == SelectSeq(Reverse(x.stack), LAMBDA q : q # p)
        alone == FoldLeft(LAMBDA z, q : RemoveContext(z, q, cap, TRUE), rendered, previous)
    IN  IF p = NoPs THEN x
        ELSE IF listener = Wild /\ renders THEN [x EXCEPT !.crashed = TRUE]
        ELSE IF listener # None /\ onlyRendering THEN rendered
        ELSE AddStackElement(alone, p, cap)

----------------------------------------------------------------------------
(***************************************************************************)
(* The agents                                                              *)
(***************************************************************************)

Init ==
    /\ y = [stack |-> <<>>, map |-> <<>>, rend |-> <<>>, timer |-> FALSE, tps |-> None,
            expect |-> FALSE, shown |-> [c \in Caps |-> None], crashed |-> FALSE]
    /\ tts = [ps |-> NoPs, focus |-> FALSE]
    /\ audio = [finished |-> FALSE, playing |-> FALSE]

\* TTSAgent::parsingSpeak(): the playServiceId is not mandatory.  stopTTS()
\* keeps the speaker; the speaker comes back to this agent.
Speak(p) ==
    /\ y' = AddContext(y, p, "TTS", None, FALSE)
    /\ tts' = [ps |-> p, focus |-> TRUE]
    /\ UNCHANGED audio

\* pcmEventCallback(END_OF_STREAM): finish is set, the released speaker calls
\* onUnfocus().
SpeechEnds ==
    /\ tts.focus
    /\ y' = RemoveContext(y, tts.ps, "TTS", FALSE)
    /\ tts' = [tts EXCEPT !.focus = FALSE]
    /\ UNCHANGED audio

\* ASRAgent takes the speaker from a speech: onUnfocus() before its end.
SpeechStolen ==
    /\ "asr" \in Inputs /\ tts.focus
    /\ y' = RemoveContext(y, tts.ps, "TTS", TRUE)
    /\ tts' = [tts EXCEPT !.focus = FALSE]
    /\ UNCHANGED audio

\* TTSAgent::parsingStop() assigns ps_id before it compares the token; here
\* the token is that of an earlier speech.
StaleStop(p) ==
    /\ "stalestop" \in Inputs
    /\ tts' = [tts EXCEPT !.ps = p]
    /\ UNCHANGED <<y, audio>>

\* AudioPlayerAgent::parsingPlay(): without a template the renderer's
\* listener is not initialised.
Play(p, template) ==
    /\ "audio" \in Inputs
    /\ template \/ "notemplate" \in Inputs
    /\ \E listener \in (IF template THEN {"this"} ELSE {None, Wild}) :
          y' = AddContext(y, p, "AudioPlayer", listener, FALSE)
    /\ audio' = [finished |-> FALSE, playing |-> TRUE]
    /\ UNCHANGED tts

\* The media ends: mediaFinished() sets is_finished; the context stays.
PlayEnds ==
    /\ audio.playing
    /\ audio' = [finished |-> TRUE, playing |-> FALSE]
    /\ UNCHANGED <<y, tts>>

\* AudioPlayerAgent::parsingStop(), "straystop": of a service that plays nothing
StopAudio(p) ==
    /\ "audio" \in Inputs
    /\ "straystop" \in Inputs \/ (p \in DOMAIN y.map /\ "AudioPlayer" \in y.map[p])
    /\ y' = RemoveContext(y, p, "AudioPlayer", ~audio.finished)
    /\ audio' = [audio EXCEPT !.playing = FALSE]
    /\ UNCHANGED tts

\* DisplayAgent::processDirective()
Display(p) ==
    /\ y' = AddContext(y, p, "Display", "this", TRUE)
    /\ UNCHANGED <<tts, audio>>

\* The 7 s timer: nugu_timer_callback() runs once.
TimerFires ==
    /\ y.timer
    /\ y' = [TimerCallback(y) EXCEPT !.timer = FALSE]
    /\ UNCHANGED <<tts, audio>>

\* setExpectSpeech(), of ASRAgent::parsingExpectSpeech()
SetExpectSpeech ==
    /\ "expect" \in Inputs
    /\ y' = [y EXCEPT !.expect = TRUE]
    /\ UNCHANGED <<tts, audio>>

\* onMicOn(): the recognizer became ready; nugu_timer_stop().
OnMicOn ==
    /\ "mic" \in Inputs
    /\ y' = [y EXCEPT !.timer = FALSE]
    /\ UNCHANGED <<tts, audio>>

\* onASRError(), of ASRAgent::releaseASRSpeakFocus()
OnASRError ==
    /\ "asr" \in Inputs
    /\ LET calm == [y EXCEPT !.expect = FALSE]
       IN  y' = IF y.stack = <<>> THEN calm
                ELSE RemoveContext(calm, Last(y.stack), "TTS", TRUE)
    /\ UNCHANGED <<tts, audio>>

Next ==
    /\ ~y.crashed
    /\ \/ \E p \in PsIds : Display(p) \/ StopAudio(p) \/ StaleStop(p)
       \/ \E p \in PsIds, template \in BOOLEAN : Play(p, template)
       \/ \E p \in PsIds \cup {NoPs} : Speak(p)
       \/ SpeechEnds \/ SpeechStolen \/ PlayEnds
       \/ TimerFires \/ SetExpectSpeech \/ OnMicOn \/ OnASRError

Spec == Init /\ [][Next]_vars

\* The main loop serves an attached timer; a speech ends.
FairSpec == Spec /\ WF_vars(TimerFires) /\ WF_vars(SpeechEnds)

----------------------------------------------------------------------------
(***************************************************************************)
(* Properties                                                              *)
(***************************************************************************)

TypeOK ==
    /\ y.stack \in Seq(PsIds) /\ DOMAIN y.map \subseteq PsIds
    /\ \A p \in DOMAIN y.map : y.map[p] \subseteq {"TTS", "AudioPlayer"}
    /\ DOMAIN y.rend \subseteq PsIds
    /\ \A p \in DOMAIN y.rend : y.rend[p] \in {"AudioPlayer", "Display"}
    /\ y.tps \in PsIds \cup {None} /\ y.shown \in [Caps -> PsIds \cup {None}]
    /\ y.timer \in BOOLEAN /\ y.expect \in BOOLEAN /\ y.crashed \in BOOLEAN
    /\ tts.ps \in PsIds \cup {NoPs} /\ tts.focus \in BOOLEAN
    /\ audio.finished \in BOOLEAN

\* The displays of the AudioPlayer and the Display listeners together show at
\* most one play service, the one renderer_map holds: whatever the order of
\* renderings, removals and the timer, nobody shows what was released.
OneDisplay ==
    \A c \in Caps, p \in PsIds :
        y.shown[c] = p <=> DOMAIN y.rend = {p} /\ y.rend[p] = c

\* The play stack that events report to the server names each context once,
\* and only contexts of context_map.
StackOfContexts ==
    /\ \A i, j \in DOMAIN y.stack : y.stack[i] = y.stack[j] => i = j
    /\ \A i \in DOMAIN y.stack : y.stack[i] \in DOMAIN y.map

\* The services with a display whose capabilities are all done.
Over(p) == p \in DOMAIN y.rend /\ p \in DOMAIN y.map /\ y.map[p] = {}

\* "The SDK will ask you to delete the rendered display": a display whose
\* service is done is cleared, unless the service becomes active again.
DisplayCleared == \A p \in PsIds : Over(p) ~> ~Over(p)

\* Done(p): p is reported on the play stack although nothing of it is active.
Done(p) == Contains(y.stack, p) /\ y.map[p] = {}

\* A service that is done leaves the play stack or becomes active again: when
\* only speeches, their displays and recognition errors are at work, every
\* done service has a timer running for it.
ContextEnds == \A p \in PsIds : Done(p) ~> ~Done(p)

\* "add renderer if exist": addContext() calls a renderer's listener only if
\* the caller gave one.
RendererExists == ~y.crashed

============================================================================
