--------------------------- MODULE MediaPlayback ---------------------------
(***************************************************************************)
(* Media playback, from the AudioPlayer directives down to GStreamer:      *)
(*   AudioPlayerAgent -> MediaPlayer -> NuguPlayer -> plugins/gstreamer.c. *)
(* Each layer keeps a status of its own.  Calls and callbacks are nested   *)
(* and synchronous in the main loop, so each handler is an operator from   *)
(* states to states (the record m); only the pipeline, its message bus and *)
(* the discoverer run on their own.                                        *)
(***************************************************************************)
EXTENDS Naturals, Sequences, SequencesExt

CONSTANTS
    PsIds,      \* the play services
    MaxBus,     \* bound: messages waiting on the pipeline's bus
    Inputs      \* what may happen besides directives and playback

None == "none"

MediaAssumption ==
    /\ None \notin PsIds
    /\ MaxBus \in Nat \ {0}
    /\ Inputs \subseteq {"tts", "asr", "malformed", "eos", "error", "loadfail",
                         "startfail", "pausefail", "clocklost", "dbus"}

\* m.pipe      the pipeline: "null", "ready", "paused", "starting", "playing"
\* m.bus       messages not yet seen by _cb_message()
\* m.disc      the discoverer works on the current url
\* m.status, m.pstatus      gh->status and player->status
\* m.mp, m.url              MediaPlayerPrivate: state, whether playurl is set
\* m.cur, m.finished, m.paused   AudioPlayerAgent (cur_aplayer_state, which
\*                          equals prev_aplayer_state between two calls)
\* m.focus     cap_audio on the speaker: "none", "waiting", "owner"
\* m.other     who else owns the speaker
\* m.ctx       the service whose PlaySync context holds AudioPlayer
\* m.reports   PlaybackFinished events since the media last began to play
VARIABLE m

\* May a call that the environment can let fail fail?
Outcomes(input) == IF input \in Inputs THEN BOOLEAN ELSE {TRUE}

----------------------------------------------------------------------------
(***************************************************************************)
(* Upwards: status reports from the driver to the agent.                   *)
(***************************************************************************)

\* Faulty MediaStateChanged: the end of the media does not release the speaker.
MediaStateChangedKeeps(x, state) ==
    CASE state = "PLAYING" -> [x EXCEPT !.cur = "PLAYING", !.reports = 0]
      [] state = "PAUSED"  -> [x EXCEPT !.cur = "PAUSED"]
      [] state = "STOPPED" -> [x EXCEPT !.cur = IF x.finished THEN "FINISHED" ELSE "STOPPED"]
      [] OTHER             -> x

\* AudioPlayerAgent::mediaStateChanged().  On STOPPED it releases the speaker;
\* onUnfocus() then finds the player stopped and answers REMOVE.
MediaStateChanged(x, state) ==
    CASE state = "PLAYING" -> [x EXCEPT !.cur = "PLAYING", !.reports = 0]
      [] state = "PAUSED"  -> [x EXCEPT !.cur = "PAUSED"]
      [] state = "STOPPED" ->
            [x EXCEPT !.focus = "none",
                      !.cur = IF x.finished THEN "FINISHED" ELSE "STOPPED",
                      !.reports = IF x.finished /\ @ < 2 THEN @ + 1 ELSE @]
      [] OTHER -> x

\* MediaPlayer::setState(), called by the status callback.
SetState(x, state) ==
    IF x.mp = state THEN x
    ELSE MediaStateChanged([x EXCEPT !.mp = state], state)

\* MediaPlayer's status callback: nugu_media_status to MediaPlayerState, which
\* have the same names.
StatusCallback(x, status) == SetState(x, status)

EmitStatus(x, status) ==
    IF x.pstatus = status THEN x
    ELSE StatusCallback([x EXCEPT !.pstatus = status], status)

\* Faulty NotifyStatus: the driver forgets what it reported.
NotifyStatusForgets(x, status) ==
    IF x.status = status THEN x ELSE EmitStatus(x, status)

\* NOTIFY_STATUS_CHANGED
NotifyStatus(x, status) ==
    IF x.status = status THEN x
    ELSE [EmitStatus(x, status) EXCEPT !.status = status]

\* AudioPlayerAgent::mediaFinished()
MediaFinished(x) == MediaStateChanged([x EXCEPT !.finished = TRUE], "STOPPED")

\* MediaPlayer's event callback at the end of the stream: the state changes
\* without a notification.  The other events change no state here.
EventCallback(x) == MediaFinished([x EXCEPT !.mp = "STOPPED"])

\* nugu_player_emit_event(MEDIA_EVENT_END_OF_STREAM)
EmitEndOfStream(x) == EventCallback([x EXCEPT !.pstatus = "STOPPED"])

----------------------------------------------------------------------------
(***************************************************************************)
(* Downwards: requests to the driver.  Stopping the pipeline flushes its   *)
(* bus; starting it is asynchronous.                                       *)
(***************************************************************************)

\* Faulty DriverStop: the status is not reset.
DriverStopSilent(x) == [x EXCEPT !.pipe = "null", !.bus = <<>>, !.disc = FALSE]

DriverStop(x) ==
    NotifyStatus([x EXCEPT !.pipe = "null", !.bus = <<>>, !.disc = FALSE], "STOPPED")

ToPlaying(pipe) == IF pipe = "playing" THEN pipe ELSE "starting"

DriverStart(x, ok) ==
    [x EXCEPT !.disc = TRUE, !.pipe = IF ok THEN ToPlaying(@) ELSE @]

\* Without a url the pipeline cannot leave READY.
DriverPause(x, ok) ==
    IF ok /\ x.url THEN NotifyStatus([x EXCEPT !.pipe = "paused"], "PAUSED") ELSE x

DriverResume(x) == NotifyStatus([x EXCEPT !.pipe = ToPlaying(@)], "PLAYING")

DriverSetSource(x) == DriverStop([x EXCEPT !.url = TRUE])

\* NuguPlayer passes the requests to its driver, MediaPlayer to NuguPlayer.
PlayerSetSource(x) == DriverSetSource(x)
PlayerStart(x, ok) == DriverStart(x, ok)
PlayerStop(x) == DriverStop(x)
PlayerPause(x, ok) == DriverPause(x, ok)
PlayerResume(x) == DriverResume(x)

\* MediaPlayer::setSource() clears the state without a notification; play()
\* says PREPARE "until media probed".
SetSource(x) == PlayerSetSource([x EXCEPT !.mp = "STOPPED"])
MediaPlay(x, ok) == PlayerStart([x EXCEPT !.mp = "PREPARE"], ok)
MediaStop(x) == PlayerStop(x)
MediaPause(x, ok) == PlayerPause(x, ok)

----------------------------------------------------------------------------
(***************************************************************************)
(* The focus listener of AudioPlayerAgent, and the focus manager's side.   *)
(***************************************************************************)

OnFocus(x, ok) == IF x.paused THEN x ELSE MediaPlay(x, ok)

\* Faulty OnUnfocus: the player is not paused while it still prepares.
OnUnfocusEarly(x, ok, place) ==
    IF x.finished \/ x.mp \in {"STOPPED", "PAUSED", "PREPARE"} \/ ~ok
    THEN [x EXCEPT !.focus = "none"]
    ELSE [MediaPause(x, ok) EXCEPT !.focus = place]

\* REMOVE, or pause the player and answer PAUSE: the item is put back in the
\* list, which is where place says.
OnUnfocus(x, ok, place) ==
    IF x.finished \/ x.mp \in {"STOPPED", "PAUSED"} \/ ~ok
    THEN [x EXCEPT !.focus = "none"]
    ELSE [MediaPause(x, ok) EXCEPT !.focus = place]

\* nugu_focus_request(): cap_tts refuses, asr and cap_audio itself give way.  A
\* failing onFocus() removes the item again.
RequestFocus(x, ok) ==
    IF x.other = "tts" THEN [x EXCEPT !.focus = "waiting"]
    ELSE LET y == IF x.focus = "owner" THEN OnUnfocus(x, TRUE, "waiting") ELSE x
         IN  OnFocus([y EXCEPT !.other = "none",
                               !.focus = IF ok \/ x.paused THEN "owner" ELSE "none"], ok)

\* nugu_focus_release(): a paused item goes back to the top of the list.
ReleaseFocus(x, ok) ==
    IF x.focus = "owner" THEN OnUnfocus(x, ok, "owner") ELSE [x EXCEPT !.focus = "none"]

\* The other owner releases; cap_audio is next, and whether its onFocus()
\* succeeds is not looked at.
HandOver(x, ok) ==
    IF x.focus = "waiting" THEN OnFocus([x EXCEPT !.other = "none", !.focus = "owner"], ok)
    ELSE [x EXCEPT !.other = "none"]

\* The command "releaseFocus" to ASRAgent.
AsrReleases(x, ok) == IF x.other = "asr" THEN HandOver(x, ok) ELSE x

----------------------------------------------------------------------------
(***************************************************************************)
(* Directives.                                                             *)
(***************************************************************************)

\* Faulty ParsingPlay: the context is not added.
ParsingPlayNoContext(ps, continue, ok) ==
    LET x == [m EXCEPT !.paused = FALSE, !.finished = FALSE]
    IN  m' = RequestFocus(SetSource(IF continue THEN x ELSE MediaStop(x)), ok)

\* AudioPlayerAgent::parsingPlay(): the previous media is stopped unless the
\* directive continues its token.
ParsingPlay(ps, continue, ok) ==
    LET x == [m EXCEPT !.paused = FALSE, !.finished = FALSE, !.ctx = ps]
    IN  m' = RequestFocus(SetSource(IF continue THEN x ELSE MediaStop(x)), ok)

\* AudioPlayerAgent::parsingPause()
ParsingPause(ok) ==
    m' = ReleaseFocus(MediaPause(AsrReleases([m EXCEPT !.paused = TRUE], TRUE), ok), ok)

\* AudioPlayerAgent::parsingStop(): nothing else if another service's context
\* holds AudioPlayer (getPlayStackItem()).
ParsingStop(ps, started, ok) ==
    LET x == [m EXCEPT !.paused = FALSE, !.ctx = IF @ = ps THEN None ELSE @]
        y == AsrReleases(x, started)
    IN  m' = IF x.ctx # None THEN y ELSE MediaStop(ReleaseFocus(y, ok))

\* processDirective() sets is_paused before it parses: a directive that is
\* malformed or unknown does nothing more.
Malformed(pause) ==
    /\ "malformed" \in Inputs
    /\ m' = [m EXCEPT !.paused = pause]

----------------------------------------------------------------------------
(***************************************************************************)
(* Other users of the speaker, and the D-Bus methods of the player, which  *)
(* go to NuguPlayer past MediaPlayer and the focus.                        *)
(***************************************************************************)

OtherTakes(other, ok) ==
    /\ other \in Inputs /\ m.other = "none"
    /\ LET x == IF m.focus = "owner" THEN OnUnfocus(m, ok, "waiting") ELSE m
       IN  m' = [x EXCEPT !.other = other]

OtherReleases(ok) ==
    /\ m.other # "none"
    /\ m' = HandOver(m, ok)

PlayerMethodCall(method) ==
    /\ "dbus" \in Inputs /\ m.url
    /\ m' = CASE method = "START"      -> PlayerStart(m, TRUE)
              [] method = "STOP"       -> PlayerStop(m)
              [] method = "PAUSE"      -> PlayerPause(m, TRUE)
              [] method = "RESUME"     -> PlayerResume(m)
              [] method = "SET_SOURCE" -> PlayerSetSource(m)

----------------------------------------------------------------------------
(***************************************************************************)
(* GStreamer: the pipeline posts messages, the main loop handles them.     *)
(***************************************************************************)

Post(msg) ==
    /\ Len(m.bus) < MaxBus
    /\ m' = [m EXCEPT !.bus = Append(@, msg), !.pipe = IF msg = "playing" THEN "playing" ELSE @]

PipelinePlays == m.pipe = "starting" /\ Post("playing")

PipelineReports(msg) ==
    /\ msg \in Inputs /\ ~Contains(m.bus, msg)
    /\ m.pipe \in (IF msg = "error" THEN {"starting", "playing", "paused"} ELSE {"playing"})
    /\ Post(msg)

Popped(msg) == m.bus # <<>> /\ Head(m.bus) = msg

\* _cb_message()
CbStateChanged ==
    /\ Popped("playing")
    /\ m' = NotifyStatus([m EXCEPT !.bus = Tail(@)], "PLAYING")

CbError ==
    /\ Popped("error")
    /\ m' = NotifyStatus([m EXCEPT !.bus = Tail(@), !.pipe = "ready"], "STOPPED")

CbEos ==
    /\ Popped("eos")
    /\ m' = NotifyStatus(EmitEndOfStream([m EXCEPT !.bus = Tail(@), !.pipe = "ready"]), "STOPPED")

CbClockLost ==
    /\ Popped("clocklost")
    /\ m' = [m EXCEPT !.bus = Tail(@), !.pipe = "starting"]

\* _discovered_cb(): a failure is only reported to the server.
Discovered(ok) ==
    /\ m.disc
    /\ LET x == [m EXCEPT !.disc = FALSE]
       IN  m' = IF ok /\ m.status = "STOPPED" THEN NotifyStatus(x, "READY") ELSE x

----------------------------------------------------------------------------

\* _create(), nugu_player_new(), and the constructors of MediaPlayer and
\* AudioPlayerAgent.
MediaInit ==
    m = [pipe |-> "null", bus |-> <<>>, disc |-> FALSE, status |-> "STOPPED",
         pstatus |-> "STOPPED",
         mp |-> "IDLE", url |-> FALSE,
         cur |-> "IDLE", finished |-> FALSE, paused |-> FALSE,
         focus |-> "none", other |-> "none", ctx |-> None, reports |-> 0]

CbMessage == CbStateChanged \/ CbError \/ CbEos \/ CbClockLost

Directive ==
    \/ \E ps \in PsIds, continue \in BOOLEAN, ok \in Outcomes("startfail") :
          ParsingPlay(ps, continue, ok)
    \/ \E ok \in Outcomes("pausefail") : ParsingPause(ok)
    \/ \E ps \in PsIds, started \in Outcomes("startfail"), ok \in Outcomes("pausefail") :
          ParsingStop(ps, started, ok)
    \/ \E pause \in BOOLEAN : Malformed(pause)

MediaNext ==
    \/ Directive
    \/ \E other \in {"tts", "asr"}, ok \in Outcomes("pausefail") : OtherTakes(other, ok)
    \/ \E ok \in Outcomes("startfail") : OtherReleases(ok)
    \/ \E method \in {"START", "STOP", "PAUSE", "RESUME", "SET_SOURCE"} : PlayerMethodCall(method)
    \/ PipelinePlays
    \/ \E msg \in {"eos", "error", "clocklost"} : PipelineReports(msg)
    \/ CbMessage
    \/ \E ok \in Outcomes("loadfail") : Discovered(ok)

MediaSpec == MediaInit /\ [][MediaNext]_m

\* The pipeline prerolls and the main loop handles the messages of the bus.
MediaFairSpec == MediaSpec /\ WF_m(PipelinePlays) /\ WF_m(CbMessage)

----------------------------------------------------------------------------

Statuses == {"STOPPED", "READY", "PLAYING", "PAUSED"}

MediaStates ==
    [pipe : {"null", "ready", "paused", "starting", "playing"},
     bus : BoundedSeq({"playing", "eos", "error", "clocklost"}, MaxBus),
     disc : BOOLEAN, status : Statuses, pstatus : Statuses,
     mp : Statuses \cup {"IDLE", "PREPARE"}, url : BOOLEAN,
     cur : {"IDLE", "PLAYING", "PAUSED", "STOPPED", "FINISHED"},
     finished : BOOLEAN, paused : BOOLEAN,
     focus : {"none", "waiting", "owner"}, other : {"none", "tts", "asr"},
     ctx : PsIds \cup {None}, reports : 0..2]

MediaTypeOK == m \in MediaStates

Sounding == m.pipe \in {"starting", "playing"}

\* The driver's, the player's and the agent's idea of what the media does agree
\* whenever the main loop is idle, though each filters repeated reports by its
\* own copy: no report is lost on its way up.
LayersAgree ==
    /\ m.status = m.pstatus
    /\ m.mp = "PLAYING" => m.cur = "PLAYING"
    /\ m.mp = "PAUSED" => m.cur = "PAUSED"

\* Media never sounds while another capability owns the speaker: whatever the
\* order of directives, focus changes and pipeline messages, a pipeline that
\* plays or is about to belongs to the owner of the focus.
SoundNeedsFocus == Sounding => m.focus = "owner"

\* Sounding media can be stopped: its service is the one PlaySync knows, which
\* is what parsingStop() looks up.
SoundIsStoppable == Sounding => m.ctx # None

\* Stopped media does not sit on the speaker, and does not wait for it once it
\* has ended: cap_audio owns it only while the media is being loaded, plays or
\* is paused.
NoIdleOwner ==
    /\ m.focus = "owner" /\ ~m.paused => m.mp # "STOPPED"
    /\ m.finished => m.focus = "none"

\* Media is safe where the pipeline only fails to load or to start and every
\* directive is well-formed: no report is lost, what sounds has the speaker and
\* can be stopped, and nobody holds the speaker without use
\* (nugu_player_emit_status(), AudioPlayerAgent::onUnfocus(), parsingStop(),
\* mediaStateChanged()).
MediaSafe ==
    /\ MediaTypeOK /\ LayersAgree
    /\ SoundNeedsFocus /\ SoundIsStoppable /\ NoIdleOwner

\* Media that got the speaker plays, or gives the speaker up, unless directives
\* keep coming: no order of focus changes and pipeline messages strands play().
PlayStarts ==
    <>[][~Directive]_m =>
        ((m.focus = "owner" /\ ~m.paused /\ m.mp \in {"PREPARE", "READY"})
            ~> (m.mp = "PLAYING" \/ m.focus # "owner" \/ m.paused))

\* nugu_media.h: the status "media playing" says that the media plays, once the
\* pipeline's messages are handled.
StatusIsTrue == m.bus = <<>> /\ m.status = "PLAYING" => Sounding

\* media_player.cc: "ignore STOP event after EOF": the end of the media is
\* reported once.
FinishedOnce == m.reports < 2

============================================================================
