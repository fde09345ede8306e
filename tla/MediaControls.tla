--------------------------- MODULE MediaControls ---------------------------
(***************************************************************************)
(* Position, duration, volume and mute of a MediaPlayer, which it keeps    *)
(* beside the ones of NuguPlayer and of the GStreamer driver.  The focus,  *)
(* the agent and the other messages of the bus are left to MediaPlayback;  *)
(* positions are in seconds.                                               *)
(***************************************************************************)
EXTENDS Integers, FiniteSetsExt

CONSTANTS
    Length,     \* the length of the media
    Offsets,    \* offsetInMilliseconds / 1000 of Play directives
    Seeks,      \* arguments of MediaPlayer::seek()
    Volumes     \* arguments of MediaPlayer::setVolume()

ControlsAssumption ==
    /\ Length \in Nat \ {0}
    /\ Offsets \subseteq 0..Length
    /\ Seeks \subseteq Int /\ Volumes \subseteq Int

VARIABLES
    status,                 \* gh->status
    pipe,                   \* the pipeline: "null" (or ready), "paused", "starting", "playing"
    reached,                \* the message that it plays waits on its bus
    gpos,                   \* where the pipeline plays
    gh,                     \* GstreamerHandle: duration, seekable, seek_reserve
    position, duration,     \* MediaPlayerPrivate
    volume, mute,           \* MediaPlayerPrivate
    pvolume,                \* NuguPlayer, handed to the driver unchanged
    wanted,                 \* history: where playback was told to begin, -1 after
                            \* another seek or a stop behind it, -2 without media
    passed,                 \* history: the seek to it failed, or RESUME came first
    touched                 \* history: setVolume() or setMute() was called

mediaVars == <<status, pipe, reached, gpos, gh, position, duration, wanted, passed>>
volumeVars == <<volume, mute, pvolume, touched>>
vars == <<mediaVars, volumeVars>>

Clamp(v, low, high) == Max({low, Min({v, high})})

----------------------------------------------------------------------------
(***************************************************************************)
(* Position.                                                               *)
(***************************************************************************)

\* MediaPlayer::seek(): what it asks of the driver.
SeekTarget(pos, dur, sec) ==
    IF pos = 0 /\ dur = 0 THEN sec
    ELSE IF sec + pos < 0 THEN 0
    ELSE IF sec + pos > dur THEN dur - pos
    ELSE sec

Reserves(st) == st \in {"READY", "STOPPED"}

\* MediaPlayer::setSource() and the driver's: everything about the old media is
\* forgotten.
NoMedia == [duration |-> -1, seekable |-> FALSE, seek_reserve |-> 0]

\* AudioPlayerAgent::parsingPlay(): setSource() and seek() to the offset, which
\* the stopped driver reserves.
Load(offset) ==
    /\ status' = "STOPPED" /\ pipe' = "null" /\ reached' = FALSE
    /\ gpos' = 0
    /\ position' = 0 /\ duration' = 0
    /\ gh' = [NoMedia EXCEPT !.seek_reserve = SeekTarget(0, 0, offset)]
    /\ wanted' = offset /\ passed' = FALSE
    /\ UNCHANGED volumeVars

ToPlaying == pipe' = IF pipe = "playing" THEN pipe ELSE "starting"

\* _start(), for MediaPlayer::play() with the focus and for START over D-Bus: the
\* pipeline plays before its message is handled.
Start ==
    /\ wanted # -2
    /\ ToPlaying
    /\ UNCHANGED <<status, reached, gpos, gh, position, duration, wanted, passed, volumeVars>>

PipelinePlays ==
    /\ pipe = "starting"
    /\ pipe' = "playing" /\ reached' = TRUE
    /\ UNCHANGED <<status, gpos, gh, position, duration, wanted, passed, volumeVars>>

\* _discovered_cb() and the MEDIA_LOADED event: setDuration().
Discovered(seekable) ==
    /\ wanted # -2 /\ gh.duration = -1
    /\ gh' = [gh EXCEPT !.duration = Length, !.seekable = seekable]
    /\ duration' = Length
    /\ status' = IF status = "STOPPED" THEN "READY" ELSE status
    /\ UNCHANGED <<pipe, reached, gpos, position, wanted, passed, volumeVars>>

\* Faulty CbPlaying: the reserved position is forgotten if the media was paused.
CbPlayingPaused(ok) ==
    /\ reached /\ reached' = FALSE
    /\ status' = "PLAYING"
    /\ IF status = "PLAYING" \/ gh.seek_reserve = 0 THEN UNCHANGED <<gpos, gh, passed>>
       ELSE /\ ok => pipe # "null"
            /\ gpos' = IF ok /\ status # "PAUSED" THEN Clamp(gh.seek_reserve, 0, Length) ELSE gpos
            /\ gh' = [gh EXCEPT !.seek_reserve = 0]
            /\ passed' = (passed \/ ~ok)
    /\ UNCHANGED <<pipe, position, duration, wanted, volumeVars>>

\* _cb_message(), GST_STATE_PLAYING: a reserved seek is tried, unless RESUME said
\* already that the media plays, and dropped when it fails.
CbPlaying(ok) ==
    /\ reached /\ reached' = FALSE
    /\ status' = "PLAYING"
    /\ IF status = "PLAYING" \/ gh.seek_reserve = 0 THEN UNCHANGED <<gpos, gh, passed>>
       ELSE /\ ok => pipe # "null"
            /\ gpos' = IF ok THEN Clamp(gh.seek_reserve, 0, Length) ELSE gpos
            /\ gh' = [gh EXCEPT !.seek_reserve = 0]
            /\ passed' = (passed \/ ~ok)
    /\ UNCHANGED <<pipe, position, duration, wanted, volumeVars>>

Pause ==
    /\ wanted # -2
    /\ status' = "PAUSED" /\ pipe' = "paused"
    /\ UNCHANGED <<reached, gpos, gh, position, duration, wanted, passed, volumeVars>>

\* _resume(), over D-Bus: the driver says so itself that the media plays.
Resume ==
    /\ wanted # -2
    /\ ToPlaying
    /\ status' = "PLAYING"
    /\ passed' = (passed \/ gh.seek_reserve # 0)
    /\ UNCHANGED <<reached, gpos, gh, position, duration, wanted, volumeVars>>

\* _stop(), and _cb_message() at an error or the end of the stream, where what
\* is on the bus stays.  The reserved seek stays, too.
Stop(kept) ==
    /\ wanted # -2
    /\ status' = "STOPPED" /\ pipe' = "null" /\ reached' = (reached /\ kept)
    /\ gpos' = 0
    /\ wanted' = IF gh.seek_reserve = 0 THEN -1 ELSE wanted
    /\ passed' = FALSE
    /\ UNCHANGED <<gh, position, duration, volumeVars>>

Advance ==
    /\ pipe = "playing" /\ gpos < Length
    /\ gpos' = gpos + 1
    /\ UNCHANGED <<status, pipe, reached, gh, position, duration, wanted, passed, volumeVars>>

\* MediaPlayer::setPosition()
SetPosition(pos) == position' = IF pos < 0 THEN position ELSE pos

\* The 500 ms timer of MediaPlayer.
Poll ==
    /\ status = "PLAYING" /\ pipe # "null"
    /\ SetPosition(gpos)
    /\ UNCHANGED <<status, pipe, reached, gpos, gh, duration, wanted, passed, volumeVars>>

\* MediaPlayer::seek() and _seek(): reserved, or done at once if the media is
\* seekable and the position not negative; one that fails changes nothing.
Seek(sec) ==
    LET target == SeekTarget(position, duration, sec)
    IN  /\ wanted # -2
        /\ IF Reserves(status)
           THEN gh' = [gh EXCEPT !.seek_reserve = target] /\ UNCHANGED gpos
           ELSE /\ gh.seekable /\ target >= 0 /\ pipe # "null"
                /\ gpos' = Clamp(target, 0, Length)
                /\ UNCHANGED gh
        /\ wanted' = -1
        /\ UNCHANGED <<status, pipe, reached, position, duration, passed, volumeVars>>

----------------------------------------------------------------------------
(***************************************************************************)
(* Volume.                                                                 *)
(***************************************************************************)

VolumeMin == 0
VolumeMax == 100
MuteSetting == -10

\* nugu_player_set_volume()
PlayerSetVolume(vol) == pvolume' = Clamp(vol, VolumeMin, VolumeMax)

\* Faulty SetVolume: mute is not looked at.
SetVolumeLoud(vol) ==
    /\ vol >= 0
    /\ volume' = Clamp(vol, VolumeMin, VolumeMax)
    /\ PlayerSetVolume(volume')
    /\ touched' = TRUE
    /\ UNCHANGED <<mediaVars, mute>>

\* MediaPlayer::setVolume(): kept for later while muted.
SetVolume(vol) ==
    /\ vol >= 0
    /\ volume' = Clamp(vol, VolumeMin, VolumeMax)
    /\ IF mute THEN UNCHANGED pvolume ELSE PlayerSetVolume(volume')
    /\ touched' = TRUE
    /\ UNCHANGED <<mediaVars, mute>>

\* MediaPlayer::setMute()
SetMute(on) ==
    /\ mute # on
    /\ mute' = on
    /\ PlayerSetVolume(IF on THEN MuteSetting ELSE volume)
    /\ touched' = TRUE
    /\ UNCHANGED <<mediaVars, volume>>

----------------------------------------------------------------------------

\* MediaPlayer(NUGU_SET_VOLUME_MAX), nugu_player_new() with the default volume.
Init ==
    /\ status = "STOPPED" /\ pipe = "null" /\ reached = FALSE /\ gpos = 0 /\ gh = NoMedia
    /\ position = 0 /\ duration = 0 /\ wanted = -2 /\ passed = FALSE
    /\ volume = VolumeMax /\ mute = FALSE /\ pvolume = 50
    /\ touched = FALSE

Next ==
    \/ \E offset \in Offsets : Load(offset)
    \/ Start \/ PipelinePlays
    \/ \E seekable \in BOOLEAN : Discovered(seekable)
    \/ \E ok \in BOOLEAN : CbPlaying(ok)
    \/ Pause \/ Resume \/ (\E kept \in BOOLEAN : Stop(kept))
    \/ Advance \/ Poll
    \/ \E sec \in Seeks : Seek(sec)
    \/ \E vol \in Volumes : SetVolume(vol)
    \/ \E on \in BOOLEAN : SetMute(on)

Spec == Init /\ [][Next]_vars

----------------------------------------------------------------------------

\* What is heard is what MediaPlayer says, however volume and mute changes
\* alternate: silence while muted, the last volume set otherwise.
VolumeFollows == touched => pvolume = IF mute THEN VolumeMin ELSE volume

\* Media that is reported to play is at the offset of its Play directive or
\* behind it, though the seek is reserved in one callback and tried in another
\* and the media may be paused, stopped and started in between; unless the seek
\* fails, or RESUME over D-Bus passed over it (_seek(), _cb_message()).
SeeksToOffset == status = "PLAYING" /\ wanted >= 0 /\ ~passed => gpos >= wanted

\* audio_player_agent.cc, parsingPlay(), seeks before it asks for the focus: what
\* is heard begins at the offset of the directive.  The pipeline plays before
\* the driver handles the message that makes it seek (_start(), _cb_message()).
StartsAtOffset == pipe = "playing" /\ wanted >= 0 => gpos >= wanted

\* media_player_interface.hh, volume(): "Get volume information of the media
\* content from the media player."
VolumeIsReported == mute \/ pvolume = volume

\* media_player_interface.hh, seek(): "It is moved from the current media
\* position."
SeekMoves ==
    [][\A sec \in Seeks :
          Seek(sec) /\ status = "PLAYING" /\ position = gpos /\ duration > 0
              => gpos' = Clamp(position + sec, 0, duration)]_vars

============================================================================
