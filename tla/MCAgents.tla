------------------------------ MODULE MCAgents ------------------------------
(***************************************************************************)
(* The capability agents for model checking: the media player with its     *)
(* layers, its volume and positions and its progress reports, the PlaySync *)
(* manager with the agents that call it, and the text agent. In a          *)
(* behaviour one part is at work and the others stay as they were created. *)
(* The media player and the text agent are extended: their theorems speak  *)
(* of what is checked.                                                     *)
(***************************************************************************)
EXTENDS Integers, FiniteSets, MediaPlayback, TextAgent

\* Seeks inside the media and beyond its ends; volumes inside the range, at its
\* borders and outside
Seeks == -4..4
Volumes == {-10, 0, 40, 100, 120}

VARIABLES
    part,       \* the part that is at work
    f,          \* the media of the parts with other inputs
    status, pipe, reached, gpos, gh, position, duration, volume, mute, pvolume,
    wanted, passed, touched,
    state, at, unread, second, report, asked, begin, reported, seen, late, plays,
    y, tts, audio

mediaVars == <<m>>
faultyVars == <<f>>
controlVars == <<status, pipe, reached, gpos, gh, position, duration, volume, mute,
                 pvolume, wanted, passed, touched>>
reportVars == <<state, at, unread, second, report, asked, begin, reported, seen, late,
                plays>>
playSyncVars == <<y, tts, audio>>

vars == <<part, mediaVars, faultyVars, controlVars, reportVars, playSyncVars, textVars>>

\* One service and everything that may happen, media commands over D-Bus and
\* malformed directives included
Faulty == INSTANCE MediaPlayback WITH
    PsIds <- {"p1"}, MaxBus <- 3, m <- f,
    Inputs <- {"tts", "asr", "malformed", "eos", "error", "loadfail",
               "startfail", "pausefail", "clocklost", "dbus"}

\* Two services that have the speaker to themselves: whether media that was
\* asked for plays
Loading == INSTANCE MediaPlayback WITH
    PsIds <- {"p1", "p2"}, MaxBus <- 3, m <- f,
    Inputs <- {"malformed", "eos", "pausefail", "loadfail"}

\* Media of three seconds
Controls == INSTANCE MediaControls WITH
    Length <- 3, Offsets <- 0..3, Seeks <- Seeks, Volumes <- Volumes

\* Seven seconds of media, with delays and intervals that are and are not whole
\* seconds, from the beginning and from an offset, the polls up to a second late
Progress == INSTANCE ProgressReport WITH
    Delays <- {0, 3, 4, 10}, Intervals <- {0, 2, 5, 6}, Offsets <- {0, 3},
    MaxUnread <- 4, MaxAt <- 14, MaxPlays <- 2, position <- second, sent <- reported

\* Two services and everything the agents do
PlaySync == INSTANCE PlaySync WITH
    PsIds <- {"ps1", "ps2"},
    Inputs <- {"audio", "asr", "mic", "expect", "stalestop", "straystop"}

\* Only speeches, their displays and recognition errors: whether what is over
\* leaves the stack
Speeches == INSTANCE PlaySync WITH
    PsIds <- {"ps1", "ps2"}, Inputs <- {"asr"}

ASSUME Instances ==
    /\ MediaAssumption
    /\ Faulty!MediaAssumption
    /\ Loading!MediaAssumption
    /\ Controls!ControlsAssumption
    /\ Progress!ProgressAssumption
    /\ PlaySync!PlaySyncAssumption
    /\ Speeches!PlaySyncAssumption
    /\ TextAssumption

-----------------------------------------------------------------------------
Init ==
    /\ part \in {"media", "faulty", "loading", "controls", "progress", "playsync",
                  "speeches", "text"}
    /\ MediaInit
    /\ Faulty!MediaInit
    /\ Controls!Init
    /\ Progress!Init
    /\ PlaySync!Init
    /\ TextInit

MediaStep ==
    /\ part = "media" /\ MediaNext
    /\ UNCHANGED <<part, faultyVars, controlVars, reportVars, playSyncVars, textVars>>

FaultyStep ==
    /\ part = "faulty" /\ Faulty!MediaNext
    /\ UNCHANGED <<part, mediaVars, controlVars, reportVars, playSyncVars, textVars>>

LoadingStep ==
    /\ part = "loading" /\ Loading!MediaNext
    /\ UNCHANGED <<part, mediaVars, controlVars, reportVars, playSyncVars, textVars>>

ControlsStep ==
    /\ part = "controls" /\ Controls!Next
    /\ UNCHANGED <<part, mediaVars, faultyVars, reportVars, playSyncVars, textVars>>

ProgressStep ==
    /\ part = "progress" /\ Progress!Next
    /\ UNCHANGED <<part, mediaVars, faultyVars, controlVars, playSyncVars, textVars>>

PlaySyncStep ==
    /\ part = "playsync" /\ PlaySync!Next
    /\ UNCHANGED <<part, mediaVars, faultyVars, controlVars, reportVars, textVars>>

SpeechesStep ==
    /\ part = "speeches" /\ Speeches!Next
    /\ UNCHANGED <<part, mediaVars, faultyVars, controlVars, reportVars, textVars>>

TextStep ==
    /\ part = "text" /\ TextNext
    /\ UNCHANGED <<part, mediaVars, faultyVars, controlVars, reportVars, playSyncVars>>

\* The plays of a run are finite.
Ended == part \in {"progress"} /\ UNCHANGED vars

Next ==
    \/ MediaStep \/ FaultyStep \/ LoadingStep \/ ControlsStep \/ ProgressStep
    \/ PlaySyncStep \/ SpeechesStep \/ TextStep \/ Ended

Spec == Init /\ [][Next]_vars

\* The pipeline prerolls, the main loop handles the messages of the bus and the
\* timers that are due, and a speech ends.
FairSpec ==
    /\ Spec
    /\ WF_faultyVars(part = "loading" /\ Loading!PipelinePlays)
    /\ WF_faultyVars(part = "loading" /\ Loading!CbMessage)
    /\ WF_playSyncVars(part = "speeches" /\ Speeches!TimerFires)
    /\ WF_playSyncVars(part = "speeches" /\ Speeches!SpeechEnds)
    /\ WF_textVars(part = "text" /\ \E again \in BOOLEAN : NotifyResponseTimeout(again))

-----------------------------------------------------------------------------
\* Also over malformed directives, failing pauses, lost clocks and D-Bus commands
\* driver, player and agent agree on what the media does whenever the main loop
\* is idle (nugu_player_emit_status()). What is heard has the volume MediaPlayer
\* says, however volume and mute changes alternate (MediaPlayer::setVolume(),
\* setMute()); media that is reported to play has been moved to the offset of its
\* Play directive, unless the seek failed or was passed over (_seek() and
\* _cb_message() of gstreamer.c); every interval and the delay that a poll hits
\* are reported once, and polls in time hit all (positionChanged()). At most one
\* play service is shown, the one renderer_map holds, and the play stack names
\* contexts of context_map, each once (PlaySyncManager).
AgentsSafe ==
    /\ Faulty!LayersAgree
    /\ part \in {"faulty", "loading"} => Loading!MediaTypeOK
    /\ Controls!VolumeFollows /\ Controls!SeeksToOffset
    /\ Progress!ReportedOnce
    /\ PlaySync!TypeOK /\ PlaySync!OneDisplay /\ PlaySync!StackOfContexts

\* Media that got the speaker plays, or gives the speaker up, unless directives
\* keep coming; a play service that is done leaves the play stack or becomes
\* active again, when only speeches and their displays are at work; an answer
\* or the response timeout ends every text request.
AgentsLive ==
    /\ part = "loading" => Loading!PlayStarts
    /\ part = "speeches" => Speeches!ContextEnds
    /\ part = "text" => BusyEnds

=============================================================================
