--------------------------- MODULE ProgressReport ---------------------------
(***************************************************************************)
(* The progress reports of the audio player                                *)
(* (service/capability/audio_player_agent.cc): a Play directive asks for a *)
(* report after a delay and for one in every interval.  MediaPlayer polls  *)
(* the position twice a second (service/media_player.cc) and calls         *)
(* positionChanged() for every new second; the agent compares that second  *)
(* with the settings.  The main loop may run late, and a poll that finds   *)
(* the player paused reads nothing.                                        *)
(*                                                                         *)
(* Times are in half seconds, the period of the timer; the code's settings *)
(* are in milliseconds, its positions in seconds.                          *)
(***************************************************************************)
EXTENDS Naturals, FiniteSets

CONSTANTS
    Delays,     \* values of progressReportDelayInMilliseconds
    Intervals,  \* values of progressReportIntervalInMilliseconds
    Offsets,    \* offsetInMilliseconds / 1000 of Play directives
    MaxUnread,  \* bound: how far the media moves between two polls that find it
                \* playing: 1, and 1 more for each that comes late or in a pause
    MaxAt,      \* bound: length of the media
    MaxPlays    \* bound: Play directives

\* An interval below one second divides by zero (line 642): the server does not
\* send it.
ProgressAssumption ==
    /\ Delays \subseteq Nat /\ Intervals \subseteq Nat \ {1} /\ Offsets \subseteq Nat
    /\ MaxUnread \in Nat /\ MaxAt \in Nat /\ MaxPlays \in Nat

\* The code starts from -1; it tests for > 0.
NoReport == [delay |-> 0, interval |-> 0]
Reports == [delay : Delays, interval : Intervals] \cup {NoReport}

VARIABLES
    state,     \* "STOPPED", "PLAYING" or "PAUSED"
    at,        \* the pipeline's position
    unread,    \* how far it moved since the last poll that read it
    position,  \* d->position, in seconds
    report,    \* report_delay_time, report_interval_time
    asked,     \* history: what the last Play directive asked for
    begin,     \* history: the second it began at
    sent,      \* history: the reports sent for it
    seen,      \* history: the seconds that polls read
    late,      \* history: a poll found the media more than a second further
    plays

vars == <<state, at, unread, position, report, asked, begin, sent, seen, late, plays>>

Init ==
    /\ state = "STOPPED" /\ at = 0 /\ unread = 0 /\ position = 0
    /\ report = NoReport /\ asked = NoReport
    /\ sent = [delay |-> 0, interval |-> 0]
    /\ begin = 0 /\ seen = {} /\ late = FALSE
    /\ plays = 0

Seconds(halves) == halves \div 2

\* parsingPlay() with another token: the player is stopped and the new source
\* plays from the offset, which it is sent to before the first poll
\* (MediaControls and MediaPlayback have the steps in between); a directive
\* without progressReport keeps the old settings.
Play(r, offset) ==
    /\ plays < MaxPlays
    /\ plays' = plays + 1
    /\ report' = IF r = NoReport THEN report ELSE r
    /\ asked' = r
    /\ state' = "PLAYING" /\ at' = 2 * offset /\ unread' = 0 /\ position' = 0
    /\ sent' = [delay |-> 0, interval |-> 0]
    /\ begin' = offset /\ seen' = {} /\ late' = FALSE

Pause ==
    /\ state = "PLAYING"
    /\ state' = "PAUSED"
    /\ UNCHANGED <<at, unread, position, report, asked, begin, sent, seen, late, plays>>

Resume ==
    /\ state = "PAUSED"
    /\ state' = "PLAYING"
    /\ UNCHANGED <<at, unread, position, report, asked, begin, sent, seen, late, plays>>

\* The pipeline moves on: external
Advance ==
    /\ state = "PLAYING" /\ at < MaxAt /\ unread < MaxUnread
    /\ at' = at + 1
    /\ unread' = unread + 1
    /\ UNCHANGED <<state, position, report, asked, begin, sent, seen, late, plays>>

\* positionChanged()
PositionChanged(second) ==
    sent' = [delay |-> sent.delay
                 + IF report.delay > 0 /\ Seconds(report.delay) = second THEN 1 ELSE 0,
             interval |-> sent.interval
                 + IF report.interval > 0 /\ second % Seconds(report.interval) = 0 THEN 1 ELSE 0]

\* Faulty SetPosition: listeners are called on every poll.
SetPositionAlways(second) == position' = second /\ PositionChanged(second)

\* MediaPlayer::setPosition()
SetPosition(second) ==
    IF second = position THEN UNCHANGED <<position, sent>>
    ELSE position' = second /\ PositionChanged(second)

\* The polling timer
Poll ==
    /\ state = "PLAYING"
    /\ unread' = 0
    /\ SetPosition(Seconds(at))
    /\ seen' = seen \cup {Seconds(at)}
    /\ late' = (late \/ unread > 2)
    /\ UNCHANGED <<state, at, report, asked, begin, plays>>

Next ==
    \/ \E r \in Reports, offset \in Offsets : Play(r, offset)
    \/ Pause \/ Resume \/ Advance \/ Poll

Spec == Init /\ [][Next]_vars

----------------------------------------------------------------------------
\* Seconds n divides
Multiples(n, S) == {k \in S : k % n = 0}

(***************************************************************************)
(* A report is sent only if a poll hits the very second, and the position  *)
(* is polled twice a second. Whatever the offset, the pauses, stalls and   *)
(* earlier plays, every interval a poll hit was reported exactly once, and *)
(* so was the delay; as long as no poll is late, no second that was played *)
(* to its end is missed (AudioPlayerAgent::positionChanged(),              *)
(* MediaPlayer::setPosition()).                                            *)
(***************************************************************************)
ReportedOnce ==
    /\ asked.interval > 0 =>
          sent.interval = Cardinality(Multiples(Seconds(asked.interval), seen \ {0}))
    /\ asked.delay > 1 => sent.delay = IF Seconds(asked.delay) \in seen THEN 1 ELSE 0
    /\ ~late => (begin + 1) .. position \subseteq seen

(***************************************************************************)
(* A delay that has elapsed was reported (audio_player_agent.cc,           *)
(* sendEventProgressReportDelayElapsed()). Not so when the media begins    *)
(* behind the delay or a late poll passes over its second.                 *)
(***************************************************************************)
DelayReported ==
    asked.delay > 1 /\ Seconds(asked.delay) <= position => sent.delay = 1

=============================================================================
