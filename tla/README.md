# TLA+ specifications of nugu-linux

nugu-linux is a voice assistant client: it listens for a wakeup word, records
and uploads speech, receives directives over HTTP/2 and lets capability agents
speak, play and display.  This directory holds TLA+ models of it, TLC
configurations that check them on small instances, and TLAPS proofs.
Source paths below are relative to the repository root.

Run from this directory, for example:

    tlc -config MCNetwork.cfg MCNetwork
    tlc -config MCNuguFocus_spk.cfg MCNuguFocus
    tlapm MainLoopProofs.tla

`PROJECT.json` maps every definition that models code to the lines it stands
for, and lists runs, hazards, findings and theorems.

## The system

| Part | State | Operations | Interacts with |
|---|---|---|---|
| Focus manager (`src/nugu_focus.c`) | one list of focus items per resource (MIC, SPK) | new, free, request, release, peek_top | calls back the owner (unfocus, steal) and the next owner (focus) |
| Capability manager (`service/capability_manager.cc`) | agents, foci by name | dispatch of directives, commands, focus calls | sequencer, agents, focus manager |
| Wakeup detector and handler (`service/wakeup_*.cc`) | `kwd_is_running`, a thread | startWakeup, stopWakeup, thread loop | sync events to the main loop, microphone focus, application |
| Speech recognizer (`service/speech_recognizer.cc`) | `asr_is_running`, a thread | startListening, stopListening, thread loop, destructor | sync events to the main loop, recorder, end point detector |
| ASR agent (`service/capability/asr_agent.cc`) | expect attributes, `rec_event`, response timer | start/stopRecognition, ExpectSpeech, NotifyResult, listening states, upload | recognizer, both foci, PlaySync, network, application |
| TTS agent (`service/capability/tts_agent.cc`) | `speak_dir`, `cur_token`, PCM device, decoder | Speak, Stop, attachments, end of stream | sequencer, PCM, speaker focus, PlaySync |
| Audio player agent, media player, players (`service/*player*`, `src/nugu_player.c`, `plugins/gstreamer.c`) | a status per layer, tokens, position, volume, timers | Play, Pause, Stop, seek, volume, bus messages, progress reports | speaker focus, PlaySync, GStreamer |
| Text agent (`service/capability/text_agent.cc`) | dialog id, text state, response timer | requestTextInput, TextSource, timeout | server, application's listener |
| System, display, extension agents | small | directives to listeners and events | System releases asr's foci, display uses PlaySync |
| PlaySync manager (`service/playsync_manager.cc`) | context stack and map, renderers, one timer | add/removeContext, expect speech, clear displays | TTS, media, display, ASR agents |
| Directive transport (`src/http2/v1_directives.cc`, `multipart_parser.c`, `src/nugu_network_manager.c`) | parser state, async queue, eventfd | parse and receive (HTTP/2 thread), drain (main loop) | sequencer |
| Directive sequencer, directives (`src/nugu_directive*.c`) | directive list, data buffers, callbacks | add_callback, push, complete, find, add data, deinitialize | capability manager, agents |
| PCM (`src/nugu_pcm.c`, `plugins/portaudio.c`) | buffer, `is_last`, volume, stream | start, stop, pause, resume, push, playback callback, end-of-stream timer | PortAudio thread, TTS agent |
| Decoder (`src/nugu_decoder.c`, `plugins/opus.c`) | PCM buffer, sink | decode, play | TTS agent, PCM |
| Connection (`src/http2/http2_manage.c`, `gateway_registry.cc`, `service/network_manager.cc`) | status, policy, servers, backoff, threads | connect, disconnect, status reports, ping | main loop (idle callbacks), HTTP/2 network |
| HTTP/2 network (`src/http2/http2_network.c`, `http2_request.c`) | queue, eventfd, list of running requests, reference counts | add request, loop, free | curl, senders on several threads |
| Recorder, ring buffer (`src/nugu_recorder.c`, `nugu_ringbuffer.c`, `plugins/portaudio.c`) | indices, count, condition variable | push and get frames, resize, start, stop | PortAudio thread, recognizer threads |
| Plugins, drivers, client (`src/nugu_plugin.c`, `interface/nugu_client_impl.cc`) | plugin list, driver registries, devices | load, initialize, unload, register, D-Bus AddPlugin/RemovePlugin | every device, the libraries |
| Configuration (`src/nugu_config.c`, `interface/nugu_configuration.cc`) | store, process-wide defaults | set, load, defaults, server type | client, agents |
| Log, UUID, buffer, timer (`src/nugu_log.c`, `nugu_uuid.c`, `nugu_buffer.c`, `nugu_timer.c`) | settings; none; an allocation; a source and a count | as their headers | everything |

What is hard here: focus callbacks call the focus manager again, so hand-overs
nest; the recognizer and wakeup threads share unprotected flags with the main
thread and use condition variables without predicates; directives, attachments,
focus losses and the playback thread interleave freely; a status kept by three
layers is changed by messages that were posted earlier; status reports of
network threads reach the main loop late; requests are counted by references
held on two threads; plugins, drivers and devices point at each other without
anyone owning them all; timers outlive what they were started for.

## Modules

| Module | Models | State and actions |
|---|---|---|
| `FocusList` | the lists of `nugu_focus.c` | operators: insertion by priority, removal, callbacks' answers |
| `FocusPolicy` | names, types and `onStealRequest()` of the five listeners | constants |
| `NuguFocus` | `nugu_focus.c` with arbitrary listeners | `stack` is `_focus_stack`; `focused[r]` is who was last told that it owns `r`; one action per branch of request and release |
| `VoiceSession` | wakeup, recognition, focus listeners, sample application | below |
| `DirectivePipeline` | HTTP/2 thread, main loop, sequencer, TTS agent, PCM, PortAudio thread | below |
| `MediaPlayback` | audio player agent, `MediaPlayer`, `NuguPlayer`, GStreamer driver | one record `m` with a status per layer; handlers are operators on it; the pipeline, its bus and the discoverer are actions |
| `MediaControls` | position, duration, volume and mute of the same layers | one variable per copy of the value; the pipeline plays before the message that makes the driver try the reserved seek, which may fail |
| `ProgressReport` | the delay and interval reports | position in half seconds from any offset, polled late or in a pause |
| `PlaySync` | `playsync_manager.cc` and the agents' calls | record `y`: stack, map, renderers, the one timer and its parameter |
| `TextAgent` | `text_agent.cc`, the listener calling back | handlers as operators on a record; the listener's call inside them is an argument |
| `Connection` | `http2_manage.c`, registry, directive stream, ping | three threads and the idle sources between them; a status wait ends by the callback or after 5 s |
| `Http2Requests` | `http2_network.c`, `http2_request.c`, the senders | queue, eventfd, reference counts, `http2_network_free()` in steps |
| `RequestService` | (abstract) what the network promises for a request | implemented by `Http2Requests` |
| `MultipartParser` | `multipart_parser.c`, part callbacks of `v1_directives.cc` | one action per byte; a chunk may end at every place `Cuts` allows |
| `DirectiveSequencer` | memory and ownership of directives from start to end of the client | list, freed blocks, registered callbacks |
| `SpeechUpload` | `rec_event` and its attachments, recognizer thread | the thread's steps in `onRecordData()` and in the sync events, destruction |
| `RingBuffer` | `nugu_ringbuffer.c` | the fields of `_nugu_ring_buffer`; bytes are numbered from the last clear on |
| `ItemQueue` | (abstract) a bounded queue of items that drops its oldest, until a push is beyond what it keeps | implemented by `RingBuffer` |
| `Recorder` | `nugu_recorder.c`, `portaudio.c` | audio thread, reader, starter, each cut where shared state is touched |
| `RecorderTimeout` | the deadline of `get_frame_timeout()` | a function of time of day and timeout |
| `PcmDevice` | `nugu_pcm.c` on `portaudio.c` | streams, their parameter blocks, callbacks, end-of-stream timers |
| `PcmVolume` | volume in `nugu_pcm_get_data()` | bytes modulo 2^8 |
| `OpusDecode` | `opus.c`, `nugu_decoder.c`, data of a directive | words of packets with right and wrong lengths, sink, decoder buffer |
| `Plugins` | `nugu_plugin.c`, four driver registries, the plugins, the client | blocks named by numbers, so that a dangling pointer is a number out of `DOMAIN mem` |
| `Configuration` | store, defaults, client | maps; a user agent is the sequence of types added to it |
| `NuguLog` | `nugu_log.c`, tracing HTTP/2 thread | global settings written by three parties without a lock |
| `TimeUuid` | `nugu_uuid.c` | digits in a base that is a parameter |
| `NuguBuffer` | `nugu_buffer.c` | memory, offset, and a history of what was added and not removed |
| `NuguTimer` | `nugu_timer.c` | source, count, repeat, and what was asked of it |
| `FocusListProofs` | lemmas about the lists of `FocusList` | |
| `NuguFocusProofs`, `VoiceSessionProofs`, `VoiceRecognizerProofs` | theorems about the foci and the recognizers | |
| `DirectivePipelineProofs`, `NetworkProofs` | theorems about directives; about `Http2Requests`, `SpeechUpload`, `DirectiveSequencer`, `Connection` | |
| `AudioProofs` | theorems about `RingBuffer`, `Recorder`, `PcmDevice` | |
| `MainLoopProofs` | theorems about `NuguBuffer`, `NuguTimer`, `MediaPlayback`, `MediaControls`, `ProgressReport`, `TextAgent` | |
| `MC*` | instances for TLC | |

Definitions whose comment starts with "Faulty" are variants of the definition
that follows them, each with one plausible slip; with the variant in its place
TLC finds the property named in `PROJECT.json` violated.

**VoiceSession.**  The main thread is a stack of pending calls (`calls`): a step
runs the topmost call up to the next call it makes, because `onFocus()` and
`onUnfocus()` themselves request and release.  `nugu_focus_request()` is cut at
its callbacks into `RequestStep` (up to `unfocus_cb`), `StolenStep` (from there
to `focus_cb`) and the listeners' `...Focus` actions; `nugu_focus_release()`
into `ReleaseStep` and `ReleasedStep`.  Each thread is a location (`asrThread`,
`kwdThread`); a sync event puts the thread at `"sent"` until the main loop has
run the handler (`Dispatch` ... `ResumeStep`).  `asr_is_running` and
`kwd_is_running` are read and written without a lock, as in the code, so the
steps of both sides interleave; a notification reaches only a thread that waits.
The `Inputs` constant selects what the environment does (user, server, audio
failures, spurious wakeups of the two `cond.wait()` without predicate).  TTS and
media appear with their focus listeners and focus calls only.

**DirectivePipeline.**  Three threads: receiving (push to `recv_pendings`, then
write the eventfd), the main loop (`on_event()` reads the eventfd, then drains,
one `Handle` step per item), and PortAudio's callback (two looks at the PCM
buffer, each under the mutex of its own).  A directive is a model value with a
kind, an attachment its number.  `heard` and `finished` record what was played
and what was reported.  The focus manager appears as `owns` and the action
`Unfocus` (speech recognition takes the speaker).

**Connection.**  `main`, `conn` and `http2` have a location each; a thread that
reports a status waits until `EmitInIdle` has run or, with input `slow`, five
seconds have passed.  `h2manager_free()` is cut at its two joins.  The model
stops once something points to a freed manager, because nothing is defined
after that.

**Bundles.**  `MCAudio`, `MCAgents`, `MCNetwork` and `MCClient` each combine
several components and check them in one run.  Components whose theorems state a
property of a run are extended (`RingBuffer`, `Recorder`, `PcmDevice`;
`MediaPlayback`, `TextAgent`; `Http2Requests`, `SpeechUpload`,
`DirectiveSequencer`; `NuguBuffer`, `NuguTimer`), so that the theorems speak of
the very definitions that are checked; the others are instantiated, by the
bundle and by the proof module alike.
The variable `part` is chosen initially and never changes: the steps of a
behaviour are those of that part, and the others' variables keep their initial
values, so the state space is the sum of the parts', not their product.  Where
a component is used twice, the parts differ in
`Inputs`: one with every failure for the safety properties,
one with less for what holds only then.  A conjunct `part = "x" => P` is one that
holds under the inputs of part `x`.  The components' assumptions on their constants
are asserted in `ASSUME Instances`.  `Ended` lets the parts stutter whose bounded
behaviours end, or which stop in a state where the program is undefined or
where it waits for ever; the other parts may not deadlock.

## Runs

| Run | Instance | Checks |
|---|---|---|
| `focus_speaker` | four of the speaker's foci, pausing and failing media | `TypeOK` (no item of a freed focus), `NoDuplicates`, `ExclusiveOwner`, `ReservedByPriority` |
| `focus_mic` (violation) | kwd and asr on the microphone | `TopIsFocused`: the header calls the top "the current focused object" |
| `voice_all` | five foci, all inputs including failures | `LinkValid`, `SpeakerExclusive`, `OneRecognizer`, `ExpectTracked`, `OneEventPerThread`, `TypeOK` |
| `voice_dialog` | without media and failures, fair | `SpeakerServed`, `EventsHandled` (nested calls return and events are answered), `SessionEnds` |
| `voice_already` (violation) | as `voice_dialog` | `AlreadyRunning`: a lost notification blocks later starts |
| `directive_stream` | two Speak with two attachments, a Stop, another directive | `NoLostWakeup`, `SpeakDirTracked`, `SpeechesInOrder`, `PcmIsCurrent`, `TypeOK` |
| `directive_live` | two Speak, a malformed and an unknown directive, fair | `Drained`, `SpeakCompletes`, `SpeechEnds` |
| `directive_finish` (violation) | two Speak with one attachment | `FinishedWasReceived`: the end-of-stream timer of one speech reports the next one as finished, none of which has arrived |
| `audio` | parts `ring`, `recorder`, `timeout`, `pcm`, `volume`, `opus` | `RecorderSafe`, `PcmSafe`, `SamplesSafe`, `ImplementsQueue`, `DevicesLive` |
| `agents` | parts `media`, `faulty`, `loading`, `controls`, `progress`, `playsync`, `speeches`, `text` | `MediaSafe`, `TextSafe`, `AgentsSafe`, `AgentsLive` |
| `network` | parts `connection`, `threads`, `requests`, `served`, `parser`, `sequencer`, `upload`, `sessions` | `TransportSafe`, `RequestsSafe`, `Numbered`, `DirectivesSafe`, `ServesUsers`, `NetworkLive` |
| `client` | parts `plugins`, `remote`, `config`, `log`, `uuid`, `buffer`, `timer` | `ClientSafe`, `HoldsContent`, `FiresExactly`, `CutIsTerminated` |

A property of a bundle belongs to one component or is the conjunction of
properties of several, each stated with its comment in the component's module.
What they say:

* `RecorderSafe`: the ring buffer's positions stay inside its memory, the
  recorder's parameter block outlives its stream (`RecordingParamAlive`), and only
  a spurious wakeup gives a reader an empty frame (`NoEmptyFrame`).  A condition
  variable may wake without a signal; such a reader is at `"roused"` and what it
  gets is not counted.
* `PcmSafe`: the callback's parameter block outlives its stream
  (`PlaybackParamAlive`), a stopped device is silent (`StoppedIsSilent`), and the end
  of the data is reported once per stream (`OneEndOfStream`), if nobody starts a
  running device again.
* `SamplesSafe`: the deadline of a read is a valid `timespec` (`DeadlineValid`); a
  decoder plays exactly the good packets in front of the first corrupted one where
  the packets' lengths are right, and where one is wrong, what comes in front of
  it, while every other group of packets is played as it should be
  (`PlaysPackets`); 8 bit samples never get louder than they were (`NeverLouder`),
  and the ring buffer's positions are inside it (`RingTypeOK`).
* `ImplementsQueue`: `RingBuffer` implements `ItemQueue`, lap after lap of its
  memory, overloaded or not, until a push goes beyond what the buffer keeps
  (`Keeps`) and again from the next clear or resize on; what the code does
  behind such a push is below.
* `DevicesLive`: frames arrive, stops end, ends of speech are reported.
* `MediaSafe`: the layers' statuses fit each other (`LayersAgree`); what sounds
  has the speaker (`SoundNeedsFocus`), can be stopped (`SoundIsStoppable`), and nobody
  holds the speaker without use (`NoIdleOwner`; media that was prepared counts as
  being loaded, also after a start that failed in a hand-over of the focus).
* `TextSafe`: a busy text agent has a running timer, a timer a request
  (`BusyIsTimed`), and the listener knows the agent's state (`ListenerKnows`).
* `AgentsSafe`: the layers agree under every input; what is heard is what was last
  set by volume and mute (`VolumeFollows`), media that is reported to play has been
  moved to the offset of its directive unless that seek failed or RESUME passed
  over it (`SeeksToOffset`), and what a poll of the position hits is reported once
  (`ReportedOnce`); one display at a time (`OneDisplay`), and the play stack names
  each context once and only existing ones (`StackOfContexts`).  That the timer
  removes the right context is not among them (`DisplayCleared`, below).
* `AgentsLive`: media that was asked for plays, contexts end, text requests end.
* `TransportSafe`: the connection thread is joined before the manager is freed
  (`ThreadJoined`); with the threads at rest nothing points to a freed manager (`NothingDangles`) and
  disconnecting disconnects (`DisconnectDisconnects`); the recognizer thread's event is
  alive in sessions without a restart (`EventAlive`).  Every part of a multipart
  stream is delivered in order with its header, whatever the chunks, where chunks
  do not end inside a boundary (`PartsDelivered`).
* `RequestsSafe`: a request that someone holds is alive (`HeldIsAlive`), and the
  eventfd's wakeup is never lost (`NoLostWakeup`).
* `Numbered`: attachments are numbered without gaps and the last ends the event.
* `DirectivesSafe`: the sequencer's list holds no freed directive (`ListIsLive`), one
  speech at a time (`OneSpeech`), and nothing is left in queue or list when the
  client is gone (`NothingWaits`).
* `ServesUsers`: an accepted request completes exactly once or is dropped with the
  service, while curl works (part `served`).
* `NetworkLive`: a connect is answered, a token error ends the connection, an ended
  stream is opened again, freeing returns, events end.
* `ClientSafe`: registries and device counts stay valid under every order of
  loads, failures, unloads and D-Bus calls; without D-Bus, devices are usable,
  speech goes to the sound card and nothing is left after the end; the gateway,
  the user agent and the server type agree and keys are there after initialize();
  messages go where they were asked to go, a handler gets its own data, prefixes
  are restored; identifiers show their time.
* `HoldsContent`, `FiresExactly`, `CutIsTerminated`: the data of a buffer is what was
  added and not removed; a timer calls back as often as it owes, whenever it is
  started, stopped or given another count: as often as it was last asked to, one
  time less if its own callback started it, and once more at least if less is
  asked than it has done; what was shortened ends with a NUL.

**Bounds.**  The focus instance has the foci of this repository on the resource
where they meet; the list holds each focus at most once, so the state space is
finite without a bound.  VoiceSession has no counters: calls nest to a finite
depth (`EventsHandled`), each thread has one event at a time.  DirectivePipeline
is bounded by `Dirs` and `Chunks`; two Speak directives let one replace the
other, two chunks let a replacement, a stop or a focus loss fall between two
attachments of one speech.  The other bounds are named in the modules:

* ring buffer: 12 bytes cut three ways, pushes of 1 to 7 bytes and 40 bytes between
  two clears, so that pushes end inside items and exactly at the end of the
  memory, and the stream goes round it three times, with the reader at any
  distance behind; recorder: a callback brings half of what fits, so that the
  second fills it;
* Opus: words instead of bytes, payloads of one or two words, two packets whose
  lengths are right, zero, too small, too large or out of range, grouped in every
  way;
* PCM: three streams, so that a late timer and a late callback meet a second and a
  third; volumes and bytes around every change of sign and rounding;
* media: two services and three bus messages, so that messages of one media are
  seen under the next; positions up to the length and beyond both ends; reports:
  offsets 0 and 3, delays and intervals of whole and half seconds, polls up to a
  second late;
* PlaySync: two services, because one timer serves both; text: four requests
  with answers of earlier ones outstanding;
* connection: two servers (one while threads overlap), so that the second is
  tried and the list wraps around; requests: those of `Reqs`, sent
  from two threads, and http2_network_free() at every point at which no sender is
  between its check and its push; parser: two parts whose bodies hold
  line ends and bytes of the boundary; sequencer: three directives of four kinds;
  upload: two sessions of two frames, so that one thread's frame meets the next
  session's event;
* plugins: all four files, three starts of the client or three D-Bus calls;
  buffer: five bytes, initial size two, so that it doubles; timer: counts up to four, three starts;
  UUID: base 12, so that four bytes fit TLC's integers.

`CHECK_DEADLOCK FALSE` stands only with DirectivePipeline: when the finite stream
has been handled and nothing plays, the model stops, as the program would wait.

**Fairness.**  No fairness is assumed of the user, the server or a failure.

* VoiceSession: weak fairness of the main thread's pending calls and of each
  thread's own steps (the scheduler runs runnable threads); strong fairness of
  `Dispatch`, of the response timer and of the end of a speech, because the main
  loop serves ready sources of equal priority in turn; weak fairness of
  `AsrEndPoint`, because the end point detector has a maximum speech duration and
  a timeout of ten seconds each.
* DirectivePipeline: a thread that has pushed also signals, the main loop serves a
  readable eventfd and its timers, the sound card keeps asking for data.
* MediaPlayback: a pipeline that was set to play prerolls, and its bus is a
  source of the main loop.  PlaySync: an attached timer fires, a speech ends.
  TextAgent: the response timer fires.
* Connection: the main loop dispatches idle sources, threads that can go on do,
  and the requests of the connection's setup are answered (curl has timeouts).
* Http2Requests: threads go on; strong fairness of `Completes`, because a request
  that stays with curl is answered or ended by its timeout.
* SpeechUpload: threads go on, the microphone delivers, the end point detector
  ends a speech after `MaxFrames`.
* Recorder, PcmDevice: PortAudio calls back, threads and timers run.

## Refinements

`RingBuffer` implements `ItemQueue` (an ordered queue whose items are handed out
once and in order, the oldest dropped when it is full) under the mapping from
indices to the items between them; this is a `PROPERTY` of run `audio` and proved
for every geometry, push size and number of laps in `AudioProofs`.  Both sides
say until when: a push that finds neither room behind the unread bytes nor a
buffer full of items to replace by whole ones, or one into a memory that was
written to its very end and emptied, is beyond what is kept (`Keeps`, `Kept`),
and the queue promises nothing more until the next clear.
`Http2Requests` implements `RequestService` under the mapping `Status` from
reference counts, queue and curl's list to the state of a request.  Run `network`
checks that with its liveness as `ServesUsers`; `NetworkProofs` proves the safety
part.

## Proofs

`NuguFocusProofs` proves, for every set of foci and resources, every assignment
of types and every listener behaviour within `FocusAssumption`, the four
invariants of run `focus_speaker`: `SpecTypeOK`, `SpecNoDuplicates`,
`SpecExclusiveOwner` and `SpecReservedByPriority`.  The last two hold for a resource
whose listeners are `Disciplined`: nobody rejects a more urgent focus, and a
focus rejects itself only if nothing that may wait is more urgent.  The
speaker's listeners satisfy that, the microphone's do not, which is what run
`focus_mic` shows.  None of the invariants but the first two is inductive alone:
to insert a rejected request behind the owner one must know that the owner is
more urgent than every waiter, which follows from the discipline only for foci
that can wait at all.  `WaitersBehind` says that nothing else stands behind the
top; `IndInv` is the conjunction of the five, and the proof has one step per
action and conjunct, resting on lemmas about what insertion by priority,
prepending and removal do to distinctness, order, head and range of a list.

`VoiceSessionProofs` proves five of the invariants of runs `voice_all` and
`voice_dialog`, for every set of inputs and every further focus that
`FocusPolicy` knows: `VoiceTypeOK`, `VoiceLinkValid`, `VoiceSpeakerExclusive`,
`VoiceOneEventPerThread`, and `VoiceSpeakerServed` where no listener fails or
pauses (`CanFail` and `CanPause` empty; with a failing media player TLC finds the
speaker without an owner, as the code has it).  `VoiceAssumption` holds
what the proof knows of the listeners: their types, their refusals, and that
only `cap_audio` fails or pauses; it restates `addFocus()` and `onStealRequest()`
of the five listeners and TLC evaluates it in both runs.  None of the invariants
is inductive alone, since a callback that runs now was called by a request that
is pending below it.  `Nesting` therefore lists the six ways in which calls can be
pending: no callback at all; a focus callback; a request or release whose callback
has returned; an unfocus callback above the request or release that waits for it;
and the two places inside asr's `onUnfocus(SPK)`, the only callback that
makes a request while somebody waits.  With each goes what the waiting caller
relies on: its link is still the top, an item that was taken off has not come
back, and who was told that it owns the speaker.  `Lists` says that no list holds
a focus twice and that asr is never behind another focus on the speaker, which
is why its hand-over cannot be overtaken; `Events` ties queue, pending `resume`
and the threads' locations together.  `VoiceStep` has one lemma per action;
they rest on what a return does to the pending calls (`ReturnNone`,
`ReturnOne`, `ReturnTwo`, `ReturnPlain`) and on `FocusListProofs`.  TLC has
checked `IndInv` on the instance of `voice_all`.  For `SpeakerServed` the invariant
is `Served`: unless a callback about the speaker is under way, its list is empty
or it has an owner.

`VoiceRecognizerProofs` proves `VoiceOneRecognizer`, that detector and recognizer are
never both switched on, on top of the invariant above.  asr is started by the
callback for the speaker but stopped by the one for the microphone, so between
the two its flag alone says nothing.  `RecInv` adds: `KwdFirst`, kwd is on the
top of the microphone's list or not on it; `Tidy`, a pending release by kwd is
followed by asr's request; `AsrComes`, while asr is about to be told about the
speaker it is still on the microphone's list, and no call above that would give the
microphone back; and `TopInv`, what the topmost call says of list and flags: who is
called back is alone on the list, a running detector has the list for itself,
and the recognizer outlives its place on the list only while asr's unfocus
callback or kwd's hand-over is under way.  TLC checked `RecInv` on the instance of
`voice_all` before it was proved.

It also proves `VoiceExpectTracked`: whenever no call is pending, `is_handle` says
whether "expect" is on the speaker's list.  Six handlers change either, nested in
each other, and the result needs both resources: `VoiceHolds` first shows that
asr never keeps the microphone without being on the speaker's list, unless a
call under way is about to settle it (`Turning`).  `Tracked` then says that the life
of an expected speech is always in one of eight phases: not expected (`Gone`),
waiting behind the TTS (`Waits`), waiting with a removal under way (`Withdrawn`),
requesting (`Asks`), taking the speaker (`Takes`), starting asr on its behalf
(`Starts`), handing over to asr (`Gives`), or ending (`Ends`).  Each phase is one shape
of the pending calls and of the top of the list, and only `Gone` and `Waits` are
possible when the main loop is idle.

`DirectivePipelineProofs` proves the invariants of run `directive_stream` for every
stream of directives and every number of attachments: `PipelineTypeOK`,
`PipelineNoLostWakeup`, `PipelineSpeakDirTracked`, `PipelineSpeechesInOrder` and
`PipelinePcmIsCurrent`.  What is in the PCM device depends on how far the main loop
has got in each directive, which no variable says: `IndInv` quantifies over a
function `done` from directives to the last item taken.  `QueueInv` says that the
queue holds exactly the items between `done` and what was sent, in order; `DirInv`
what sequencer and agent know of each directive; `PlayInv` that what was heard
followed by what is in the device is in order and ends with the last item of the
current speech.

`NetworkProofs` proves, for every set of requests, that a held request is alive
(`RequestsHeldIsAlive`), that no wakeup of the HTTP/2 thread is lost
(`RequestsNoLostWakeup`), both together as they are checked (`RequestsAreSafe`), and
that `Http2Requests` implements `RequestService`, step by step, where curl neither
refuses a request nor fails (`RequestsImplementService`; the instance of part
`served`, since with these failures a request is lost in ways the service does
not have).  The inductive invariant counts references: those of a request are
the creator's and that of the queue or of curl, never both, together with where
each sender is, and what the thread's location says of queue and eventfd.  For
every number of sessions and frames it proves that attachments are `Numbered`
(`UploadNumbered`), whatever happens, and that the event is alive
(`UploadEventAlive`) where nobody restarts or destroys.  `Numbered` needs two more
facts: `Counted`, the next number is the count of attachments except between
sending one and counting it, where it is one behind; and `Leaves`, a thread that
has sent the end mark goes straight to the end of its session without sending
again.

Two more results there are about what comes back.  `DirectivesAreSafe` proves
`DirectivesSafe` for every number of directives.  A handler runs inside
nugu_dirseq_push() and may complete other directives than its own, so the
invariant is stated of what a call works on: `ListHolds(w)`, the list has exactly
the live directives that arrived, each once, and `SpeakHolds(w)`, the one that
speaks is `speak_dir`.  Each call keeps the first; between completing a speech
and noting the next only the first holds.  `ConnectionThreadJoined` proves the part
`ThreadJoined` of `TransportSafe` for any number of servers and all inputs.
`ConnInv` says that the main loop is inside a call, or the connection's thread
runs, only while there is a manager; that the HTTP/2 thread has exited when there
is no network; and that without a manager, and unless something dangles already,
no idle source, registry answer or network is left that could start a thread.
`ConnectionLeavesNothing` proves the other part, `NothingDangles` and
`DisconnectDisconnects`, for any number of servers where failures come while the
threads are at rest (`Calm`, the inputs of part `connection`; the others dangle, as
part `threads` has it).  `CalmInv` follows a connection from its registry answer to
its end: while the connection thread looks for a server the main loop has nothing
to do (`Search`), there is one idle source at a time and the manager holds its id
(`SourceHeld`), nothing happens after a token error but the disconnect
(`TokenLost`), and whoever frees the manager finds its thread done or about to
return (`Joining`, `Freed`).

`AudioProofs` is about the devices.  `RecorderIsSafe`: `count` is stored by both
threads without a common lock, but what the audio thread is about to store is
positive and the reader only takes from a positive count (`CountInv`), which is
why a promised frame is there.  `PcmIsSafe`, for every number of streams, under
`"restart" \notin PcmInputs` (with it, the first stream is lost, below): only the
device's own stream is active, and what a callback has seen and the flags of its
stream say whether its end-of-stream timer is set, due or gone (`StreamInv`).
`RingImplementsQueue` proves the refinement for every geometry, every set of push
sizes and every number of laps.  `RingInv` says that byte p of the stream is at
position p modulo the size of the memory as long as it is among the last ones
written; that the read index is the number of whole items pushed less `count`,
modulo the capacity; and that what waits, the item begun included, is never more
than the memory.  The steps need division with remainder, which the SMT solver
does not do for a variable divisor, so the lemmas about it are proved by hand.
`RingStaysInside` says that every position read or written is inside the memory,
also when the count is lost.  It needs `ShortPushes`, every push brings at most
size * (capacity - 1) + 1 bytes: PortAudio's callback pushes 6400 bytes into 50
items of 3200.  A push of nearly the whole memory does move the read index
out of it, below.

`MainLoopProofs` is about components whose handlers run to their end on the main
loop.  For every set of bytes, initial size and bound, the data of a buffer stays
inside the allocation and is what was added and not removed
(`BufferHoldsContent`), and every call that shortens the data leaves a NUL
behind it and hands out the front (`BufferCutIsTerminated`).  The inductive
invariant is `BufferTypeOK /\ HoldsContent`; the lemmas are that the new size
suffices (`NewSizeSuffices`), what a copy behind the data leaves alone
(`CopiedBehind`), one per operation, and what a removal moves (`PopsFront`).
A timer calls back exactly as often as it owes (`TimerFiresExactly`), whatever it is
asked and by whom: `Owed` names the two ways in which this is not the count that
was asked for, and TLC refutes that it always is (`RepeatsAsAsked`, below).
`CountsCalls` relates the code's `count` to the calls that were made.

`MediaIsSafe` proves `MediaSafe` for every set of services and length of the bus,
under the inputs of part `media` (`Benign`: other users of the speaker, the end of
the media and errors, failures to load or to start).  A handler of
`MediaPlayback` is a composition of operators on the record of all layers, each a
function of the code, so the proof has one lemma per function, saying what it
keeps: `Kept(x)` is `Fits` (the layers agree; what sounds, plays or is being loaded
owns the focus and has loaded media; nothing finished holds it), `Known` (who
wants the focus has a service PlaySync knows) and `NoClock`.  Inside a handler the
layers do not agree, so the lemmas about the lower layers carry weaker facts
(`Loose`, `SameBelow`).  With failing pauses, lost clocks, malformed directives or
D-Bus commands `MediaSafe` is false, as TLC shows; `LayersNeverDisagree` proves
what remains for every input, `LayersAgree`, from `Sane` alone.

`ControlsFollow` proves `VolumeFollows` and `SeeksToOffset`, for every set of
volumes, seeks and offsets and every length of the media.  The offset is asked for
in one callback, kept by the driver, and tried in another, when the pipeline plays
already, with pauses, stops and starts possibly in between: the reservation is
the offset, or it is gone and the media has reached the offset, unless the seek
failed or RESUME over D-Bus made the driver pass over it (`passed`).
`ProgressReportedOnce` proves `ReportedOnce` for all delays, intervals and offsets,
over any length and number of plays, pauses and stalls.  `ProgressInv` says that
the second known is the one of the last poll, and that no second is missing from
those seen while no poll came late; `OneMoreDue` counts the multiples of the
interval among them.

`TextIsSafe` proves `TextSafe` for every number of requests, where they come
after initialize() (`~Early`, see below for the others).  The listener may call
back inside its notification; `Sound` is what a handler keeps at every such
point: an outcome is only kept for a dialog that was sent, the timer runs exactly
while the agent is busy, and the last state told is the state.

Only model-checked: all liveness (fairness and `ENABLED` are out of the proof
system's reach), that is `EventsHandled`, `SessionEnds`, `Drained`, `SpeakCompletes`,
`SpeechEnds`, the bundles' `...Live` and the liveness part of `ServesUsers`.  What folds
over sequences and recursive definitions compute is out of reach too (the
installed provers have no induction over data): the packets and samples of
`SamplesSafe`, the multipart parser's `PartsDelivered`, the two invariants of
`PlaySync`, whose play stack is selected and folded over in every step, and the
user agent and the prefixes in `ClientSafe`.  Without a theorem, though nothing in
principle stands in the way, is the plugins' part of `ClientSafe`.

## Properties the code does not have

Where a comment, a header or a test says more than the code does, the property
is stated in the module, but no run of the bundles checks it.  TLC refutes each
one when it is checked with the constants named here; unnamed constants are as in
the bundle.

| Module: property | Constants | Cause |
|---|---|---|
| VoiceSession: `StopTurnsOffMic` | as `voice_dialog` | stopRecognition() leaves the recorder on |
| VoiceSession: `WakeupRuns` | as `voice_dialog` | the thread's `kwd_is_running = false` after DETECTED overwrites a restart |
| DirectivePipeline: `FinishedMeansHeard` | one Speak | the callback looks at the buffer before the last attachment arrives and at `is_last` behind it (`portaudio.c`:178) |
| MediaPlayback: `StatusIsTrue` | `Inputs = {"tts"}` | a PLAYING message posted before a pause is reported after it (`gstreamer.c`:194) |
| MediaPlayback: `FinishedOnce` | `{"eos"}` | Pause then Stop behind the end of the media sends PlaybackFinished again (`audio_player_agent.cc`:576) |
| MediaPlayback: `PlayStarts` | `{"tts"}` | after a stale PLAYING the real one is held back as a repetition (`gstreamer.c`:31) |
| MediaControls: `StartsAtOffset` | | the pipeline plays (`gstreamer.c`:454) before the message arrives that makes the driver seek (210) |
| MediaControls: `SeekMoves` | | the clipped relative offset is passed on as an absolute time (`media_player.cc`:290) |
| MediaControls: `VolumeIsReported` | | the two layers start from different volumes (`nugu_player.c`:377) |
| ProgressReport: `DelayReported` | | only the very second of the delay is reported, which a late poll or an offset passes over (`audio_player_agent.cc`:637) |
| PlaySync: `DisplayCleared` | `{"audio"}` | one timer parameter for all contexts (`playsync_manager.cc`:151) |
| PlaySync: `RendererExists` | `{"audio", "notemplate"}` | the renderer is uninitialised without a template (`audio_player_agent.cc`:391) |
| TextAgent: `StateChanges` | | the timeout keeps the dialog id, a late answer reports IDLE again (`text_agent.cc`:156) |
| TextAgent: `BusyEnds` | `Early = TRUE` | a request before initialize() has no timer (`text_agent.cc`:142) |
| Connection: `NoRepeatedReport` | `{"reqfail"}` | the status is read again when the report arrives (`network_manager.cc`:29) |
| Connection: `NothingDangles` | `{"disconnect"}` | the idle source of the registry's answer refers to the freed manager (`gateway_registry.cc`:156) |
| Connection: `DisconnectDisconnects` | `{"disconnect"}` | h2manager_free() frees what the connection thread may make again before it is joined (`http2_manage.c`:346) |
| Connection: `StreamReopened` | `{"slow", "streamend"}` | a header that arrives after the wait timed out leaves a stream without callbacks (`v1_directives.cc`:422) |
| Http2Requests: `NothingLeft` | `{}` | queued items are freed without giving their references back (`http2_network.c`:309) |
| Http2Requests: `SuccessMeansQueued` | `{"curlfail"}` | a refused event is reported as sent (`http2_manage.c`:590) |
| MultipartParser: `MismatchIsReal` | `Cuts = {"outside", "inside"}` | `b_pos` starts again in every chunk (`multipart_parser.c`:134) |
| MultipartParser: `BodiesWhole` | bodies with CR LF CR LF | these four bytes end a body (`multipart_parser.c`:285) |
| DirectiveSequencer: `NoDoubleFree` | | deinitialize walks a list that its callbacks shorten (`nugu_directive_sequencer.c`:188) |
| DirectiveSequencer: `PassesLiveDirective` | | DIRSEQ_CONTINUE for a directive that was completed (`capability_manager.cc`:95) |
| DirectiveSequencer: `RegisteredOnce` | `MaxAppCallbacks = 2` | the comparison never succeeds (`nugu_directive_sequencer.c`:33) |
| DirectiveSequencer: `RemovedIsFreed` | | DIRSEQ_REMOVE does not free (`nugu_directive_sequencer.c`:121) |
| SpeechUpload: `EventAlive` | `{"stop", "restart"}` | the main thread frees the event the thread is using (`asr_agent.cc`:529) |
| SpeechUpload: `EventFirst` | `{"network"}` | attachments follow an event that was refused (`capability.cc`:119) |
| SpeechUpload: `DestroyReturns` | `{"destroy"}` | the destructor joins a thread that waits for the main loop (`speech_recognizer.cc`:81) |
| RingBuffer: `CountBounded` | six items of two bytes, `Sizes = {4}`, `Limit = 40` | once the reader has emptied a memory that was written to its end, the next push counts the whole lap again (`nugu_ringbuffer.c`:40): 8 items of 6, and 52 instead of 2 with the 50 items of 3200 bytes that the recorder uses |
| RingBuffer: `InOrder` | the same | an overflowing push moves the reader too far (`nugu_ringbuffer.c`:150) |
| RingBuffer: `RingTypeOK` | the same items, `Sizes = {1, 12}` | a push of nearly the whole memory leaves the read index at `max_items` (`nugu_ringbuffer.c`:150) |
| Recorder: `WaitsOnlyForData` | `Max = 4` | the count is read before the lock is taken (`nugu_recorder.c`:382) |
| Recorder: `ReadsRecorded` | `Max = 6` | the count is raised before the data is copied (`nugu_ringbuffer.c`:136) |
| RecorderTimeout: `DeadlineKept` | | milliseconds are added as nanoseconds (`nugu_recorder.c`:387) |
| PcmDevice: `OneStream` | `{"restart"}` | "already start" goes on and loses the first stream (`portaudio.c`:301) |
| PcmVolume: `NeverLouder` | `Width = 2` | the two bytes of a sample are scaled on their own (`nugu_pcm.c`:487) |
| OpusDecode: `SkipsWrong` | | only the length of a packet is skipped when it is out of range (`opus.c`:105), and one in range but wrong is not noticed |
| OpusDecode: `DecodesOwn` | `Sink = FALSE` | nugu_decoder_play() leaves samples for the next decode (`nugu_decoder.c`:212) |
| Plugins: `DevicesUsable` | as part `remote` | RemovePlugin unmaps a library that devices use (`nugu_plugin.c`:328) |
| Plugins: `SlotsLive` | as part `remote` | a plugin keeps the pointer of a refused driver (`opus.c`:186) |
| Plugins: `WakeupUsable` | `MaxCycles = 2` | deInitialize() keeps the deleted handler (`nugu_client_impl.cc`:199) |
| Configuration: `ConfigReady` | `MaxCycles = 2` | only the constructor makes the store (`nugu_client_impl.cc`:204) |
| Configuration: `GatewayMatches` | `MaxClients = 2` | the defaults of the process are appended to (`nugu_configuration.cc`:91) |
| Configuration: `LastSetCounts` | | setConfigs() keeps what is there (`nugu_client_impl.cc`:65) |
| NuguLog: `WhereAsked`, `HandlerWhole` | `Late = TRUE` | flag before value (`nugu_log.c`:145), three writes without a lock (383) |
| NuguLog: `PrefixAsSet` | | the tracing thread changes a global setting (`http2_request.c`:63) |
| TimeUuid: `ShowsTime` | `Secs` beyond half of the range | the time is put together as an int (`nugu_uuid.c`:171) |
| NuguBuffer: `PeekIsString` | | an addition writes no NUL (`nugu_buffer.c`) |
| NuguTimer: `RepeatsAsAsked` | | the call is counted after the callback that started anew (`nugu_timer.c`:35) |

The three runs that expect a violation are of this kind: a rejected request of a
more urgent type goes in front of the owner (kwd before asr), so the microphone's
list does not tell who owns it; starts can be lost at condition variables; and
the end-of-stream timer of one speech reports the next one, none of whose
attachments has arrived, as finished.

## What is abstracted or left out

* JSON, texts and the formatting of logs; a directive or an event is its kind.
* The extension agent: it passes one document to a listener and keeps no state.
  Contents of contexts and templates.  Signal processing (KWD, EPD, Opus), curl,
  TLS, GStreamer and PortAudio are external and appear as what they may answer.
* `SyncEvent`'s own condition variable wakes only by notification; a spurious
  wakeup there would delete the event under the main thread.
* DirectivePipeline: every Speak has its own token; a failure to open the sound
  device is in `PcmDevice` instead; decoding keeps a chunk's identity.
* MediaPlayback: setting the pipeline to NULL does not fail.  Part `media` leaves
  out malformed directives, failing pauses, lost clocks and D-Bus commands, under
  which only `LayersAgree` is claimed (part `faulty`).
* ProgressReport: intervals of 1 to 999 ms, which divide by zero, are excluded.  The
  media is at its offset before the first poll (`MediaControls` has the steps); a
  seek that failed is a play from offset 0.
* Connection: the connection thread's steps from starting a network to its first
  request are one step; it has finished before failures are reported, unless
  `overtake` is an input; races on the pointer `manager->network` within one
  statement are not split.
* Http2Requests: `http2_network_remove_request_sync()` has no caller.
* TextAgent: `onComplete()` of the listener is never called by the code.
* OpusDecode: an attachment holds whole packets of whole words, but their lengths may
  be wrong, so that the decoder reads payload as lengths or behind the data, where
  what it finds is refused or played (`Strays`); a negative length ends the loop.
* DirectiveSequencer: the capability manager's callback is removed with it at the
  end; the application removes none.
* Plugins stops after a memory fault; the search of directories is I/O.
* MultipartParser: a header field with its value is one byte.

## Left to do

1. Proofs: the stack of `PlaySync`, whose invariants are plain but whose handlers
   loop over sequences; the device counts of `Plugins`.
2. Abstract specifications: an arbiter with one owner and a priority queue,
   implemented by `NuguFocus` on disciplined resources; a FIFO channel,
   implemented by the queue and eventfd of `DirectivePipeline`.
