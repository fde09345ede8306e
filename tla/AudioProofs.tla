---------------------------- MODULE AudioProofs -----------------------------
(***************************************************************************)
(* The audio devices, for every size of the buffers and every number of    *)
(* streams: the recorder with its two threads, the PCM device with its     *)
(* callbacks and timers, and the ring buffer as the queue of items that it *)
(* promises to be.                                                         *)
(***************************************************************************)
EXTENDS RingBuffer, Recorder, PcmDevice, SequenceTheorems, WellFoundedInduction, TLAPS

----------------------------------------------------------------------------
(***************************************************************************)
(* The recorder.  count is stored by both threads without a common lock,   *)
(* but what the audio thread stores is positive, and the reader only takes *)
(* one from what was positive.                                             *)
(***************************************************************************)

RingStates == [read_index : 0..Max, count : Nat, windex : 0..Max]

AudioStates ==
    [pc : {"closed", "open", "computed", "skip", "copy", "count"}, c : Nat, was : Int]

ReaderStates ==
    [pc : {"idle", "loop", "lock", "waiting", "woken", "roused", "check", "take",
           "load", "store", "clear", "stopping", "ended"},
     c : Int, got : {None, "frame", "garbage", "empty", "nothing"}]

RecorderTypes ==
    /\ ring \in RingStates /\ audio \in AudioStates /\ reader \in ReaderStates
    /\ fresh \subseteq 0..(Max - 1)
    /\ mutex \in {None, "reader"} /\ param \in {None, "go", "stop"}
    /\ recording \in BOOLEAN /\ running \in BOOLEAN

\* Who holds the mutex has moved read_index and not yet wrapped it.
MutexInv ==
    /\ mutex = None <=> reader.pc \notin {"load", "store"}
    /\ mutex = None => ring.read_index < Max

\* A reader that was promised a frame finds count positive.
CountInv ==
    /\ audio.pc = "computed" => audio.c > 0
    /\ reader.pc \in {"woken", "check", "take", "load"} => ring.count > 0
    /\ reader.pc = "store" => reader.c > 0

RecorderInv == RecorderTypes /\ MutexInv /\ CountInv /\ RecordingParamAlive /\ NoEmptyFrame

\* _calculate_count() is positive, wherever the two indices are.
LEMMA NewCountPositive ==
    ASSUME NEW b \in RingStates
    PROVE  NewCount(b) \in Nat /\ NewCount(b) > 0
<1>1. /\ b.read_index \in 0..Max /\ b.count \in Nat /\ b.windex \in 0..Max
      /\ Max \in Nat \ {0} /\ Step \in 1..Max
  BY RecorderAssumption DEF RingStates
<1> QED  BY <1>1 DEF NewCount

\* A cleared ring buffer
LEMMA NoRingFacts ==
    /\ NoRing \in RingStates /\ NoRing.count = 0 /\ NoRing.read_index = 0
    /\ NoRing.read_index < Max
  BY RecorderAssumption DEF NoRing, RingStates

\* A recorder that was created satisfies the invariant.
LEMMA RecorderInitInv == RecorderInit => RecorderInv
<1> SUFFICES ASSUME RecorderInit PROVE RecorderInv
  OBVIOUS
<1>1. audio \in AudioStates /\ audio.pc = "closed"
  BY DEF RecorderInit, AudioStates
<1>2. reader \in ReaderStates /\ reader.pc = "idle" /\ reader.got = None
  BY DEF RecorderInit, ReaderStates, None
<1> QED
  BY <1>1, <1>2, NoRingFacts
     DEF RecorderInit, RecorderInv, RecorderTypes, MutexInv, CountInv, RecordingParamAlive,
         NoEmptyFrame, None

\* Every step of the two threads keeps it.
LEMMA RecorderStepInv == RecorderInv /\ [RecorderNext]_recorderVars => RecorderInv'
<1> SUFFICES ASSUME RecorderInv, [RecorderNext]_recorderVars PROVE RecorderInv'
  OBVIOUS
<1>0. Max \in Nat \ {0} /\ Step \in 1..Max
  BY RecorderAssumption
<1> USE DEF RecorderInv, RecorderTypes, MutexInv, CountInv, RecordingParamAlive, NoEmptyFrame,
            None
<1>1. CASE AudioLoads
  <2>1. audio' \in AudioStates
    BY <1>0, <1>1, NewCountPositive DEF AudioLoads, RingStates, AudioStates
  <2> QED
    BY <1>0, <1>1, <2>1, NewCountPositive DEF AudioLoads, RingStates, AudioStates, ReaderStates
<1>2. CASE AudioStores
  <2>1. ring' \in RingStates
    BY <1>0, <1>2 DEF AudioStores, RingStates, AudioStates
  <2>2. audio' \in AudioStates
    BY <1>0, <1>2 DEF AudioStores, RingStates, AudioStates
  <2> QED
    BY <1>0, <1>2, <2>1, <2>2 DEF AudioStores, RingStates, AudioStates, ReaderStates
<1>3. CASE AudioSkips
  <2>1. ring' \in RingStates
    BY <1>0, <1>3 DEF AudioSkips, RingStates
  <2>2. audio' \in AudioStates
    BY <1>0, <1>3 DEF AudioSkips, RingStates, AudioStates
  <2> QED
    BY <1>0, <1>3, <2>1, <2>2 DEF AudioSkips, RingStates, AudioStates, ReaderStates
<1>4. CASE AudioCopies
  <2>1. fresh' \subseteq 0..(Max - 1)
    <3>1. \A i \in 0..(Step - 1) : (ring.windex + i) % Max \in 0..(Max - 1)
      BY <1>0 DEF RingStates
    <3> QED  BY <1>4, <3>1 DEF AudioCopies
  <2>2. ring' \in RingStates
    BY <1>0, <1>4 DEF AudioCopies, RingStates
  <2>3. audio' \in AudioStates
    BY <1>0, <1>4 DEF AudioCopies, RingStates, AudioStates
  <2> QED
    BY <1>0, <1>4, <2>1, <2>2, <2>3 DEF AudioCopies, RingStates, AudioStates, ReaderStates
<1>5. CASE AudioSignals
  <2>1. audio' \in AudioStates
    BY <1>0, <1>5 DEF AudioSignals, RingStates, AudioStates
  <2>2. reader' \in ReaderStates
    BY <1>0, <1>5 DEF AudioSignals, RingStates, ReaderStates
  <2> QED
    BY <1>0, <1>5, <2>1, <2>2 DEF AudioSignals, RingStates, AudioStates, ReaderStates
<1>6. ASSUME NEW ok \in BOOLEAN, RecStart(ok) PROVE RecorderInv'
  <2>1. ring' \in RingStates
    BY <1>0, <1>6, NoRingFacts DEF RecStart, RingStates
  <2>2. audio' \in AudioStates
    BY <1>0, <1>6, NoRingFacts DEF RecStart, RingStates, AudioStates
  <2>3. reader' \in ReaderStates
    BY <1>0, <1>6, NoRingFacts DEF RecStart, RingStates, ReaderStates
  <2> QED
    BY <1>0, <1>6, <2>1, <2>2, <2>3, NoRingFacts DEF RecStart, RingStates, AudioStates, ReaderStates
<1>7. CASE LooksForFrame
  <2>1. reader' \in ReaderStates
    BY <1>0, <1>7 DEF LooksForFrame, RingStates, ReaderStates
  <2> QED
    BY <1>0, <1>7, <2>1 DEF LooksForFrame, RingStates, AudioStates, ReaderStates
<1>8. CASE Waits
  <2>1. reader' \in ReaderStates
    BY <1>0, <1>8 DEF Waits, RingStates, ReaderStates
  <2> QED
    BY <1>0, <1>8, <2>1 DEF Waits, RingStates, AudioStates, ReaderStates
<1>9. CASE Checks
  <2>1. reader' \in ReaderStates
    BY <1>0, <1>9 DEF Checks, RingStates, ReaderStates
  <2> QED
    BY <1>0, <1>9, <2>1 DEF Checks, RingStates, AudioStates, ReaderStates
<1>10. CASE Takes
  <2>1. ring' \in RingStates
    BY <1>0, <1>10 DEF Takes, RingStates
  <2>2. reader' \in ReaderStates
    BY <1>0, <1>10 DEF Takes, RingStates, ReaderStates
  <2> QED
    BY <1>0, <1>10, <2>1, <2>2 DEF Takes, RingStates, AudioStates, ReaderStates
<1>11. CASE Loads
  <2>1. reader' \in ReaderStates
    <3>1. ring.count \in Int
      BY DEF RingStates
    <3> QED  BY <1>11, <3>1 DEF Loads, ReaderStates
  <2> QED
    BY <1>0, <1>11, <2>1 DEF Loads, RingStates, AudioStates, ReaderStates
<1>12. CASE Stores
  <2>1. ring' \in RingStates
    <3>1. reader.c \in Int /\ reader.c > 0
      BY <1>12 DEF Stores, ReaderStates
    <3>2. ring \in RingStates /\ 0 \in 0..Max /\ reader.c - 1 \in Nat
      BY <1>0, <3>1
    <3> HIDE DEF RecorderInv
    <3> QED  BY <1>12, <3>2 DEF Stores, RingStates
  <2>2. reader' \in ReaderStates
    BY <1>0, <1>12 DEF Stores, RingStates, ReaderStates
  <2> QED
    BY <1>0, <1>12, <2>1, <2>2 DEF Stores, RingStates, AudioStates, ReaderStates
<1>13. CASE ClearsAndStops
  <2>1. ring' \in RingStates
    BY <1>0, <1>13, NoRingFacts DEF ClearsAndStops, RingStates
  <2>2. reader' \in ReaderStates
    BY <1>0, <1>13, NoRingFacts DEF ClearsAndStops, RingStates, ReaderStates
  <2> QED
    BY <1>0, <1>13, <2>1, <2>2, NoRingFacts
       DEF ClearsAndStops, RingStates, AudioStates, ReaderStates
<1>14. CASE RecStopped
  <2>1. reader' \in ReaderStates
    BY <1>0, <1>14 DEF RecStopped, RingStates, ReaderStates
  <2> QED
    BY <1>0, <1>14, <2>1 DEF RecStopped, RingStates, AudioStates, ReaderStates
<1>15. CASE Spurious
  <2>1. reader' \in ReaderStates
    BY <1>0, <1>15 DEF Spurious, RingStates, ReaderStates
  <2> QED
    BY <1>0, <1>15, <2>1 DEF Spurious, RingStates, AudioStates, ReaderStates
<1>16. ASSUME NEW on \in BOOLEAN, SetRunning(on) PROVE RecorderInv'
  BY <1>0, <1>16 DEF SetRunning
<1>17. CASE UNCHANGED recorderVars
  BY <1>17 DEF recorderVars
<1> QED
  BY <1>1, <1>2, <1>3, <1>4, <1>5, <1>6, <1>7, <1>8, <1>9, <1>10, <1>11, <1>12, <1>13, <1>14,
     <1>15, <1>16, <1>17 DEF RecorderNext, AudioNext, ReaderNext

\* For every size of the buffer and of a callback: the positions stay inside the
\* buffer, _rec_stop() never frees what _recordCallback() uses, and only a
\* spurious wakeup gives the recognizer an empty frame
\* (nugu_ring_buffer_push_data(), nugu_ring_buffer_read_item()).
THEOREM RecorderIsSafe == RecorderSpec => []RecorderSafe
<1>1. RecorderInv => RecorderSafe
  BY DEF RecorderInv, RecorderTypes, RingStates, MutexInv, RecorderSafe, RecorderTypeOK
<1> QED  BY RecorderInitInv, RecorderStepInv, <1>1, PTL DEF RecorderSpec

----------------------------------------------------------------------------
(***************************************************************************)
(* The PCM device.  Its stream, if it has one, is the only one that may be *)
(* active; a stream's timer and event are set once, when it is done.       *)
(***************************************************************************)

StreamStates ==
    [st : {"none", "active", "complete"}, pause : BOOLEAN, stop : BOOLEAN, done : BOOLEAN,
     pc : {"idle", "data", "empty"}, freed : BOOLEAN]

\* One stream s, which the device uses or not, its timer and its event count.
StreamInv(s, used, timer, n) ==
    /\ s \in StreamStates /\ n \in 0..1
    /\ s.st = "none" => s = NoStream /\ ~used /\ ~timer /\ n = 0
    /\ s.pc # "idle" => s.st = "active"
    /\ s.st = "active" => used
    /\ s.freed => s.st = "complete"
    /\ timer => s.done /\ n = 0
    /\ n = 1 => s.done

PcmInv ==
    /\ pcm \in [status : {"STOPPED", "READY", "PLAYING", "PAUSED"}, dud : 0..Starts,
                size : 0..MaxData, is_last : BOOLEAN]
    /\ pcm.dud = 0 => pcm.status \notin {"PLAYING", "PAUSED"}
    /\ timers \subseteq Ids /\ stopping \in BOOLEAN /\ (stopping => pcm.dud # 0)
    /\ DOMAIN streams = Ids /\ streams = [i \in Ids |-> streams[i]]
    /\ DOMAIN events = Ids /\ events = [i \in Ids |-> events[i]]
    /\ \A i \in Ids : StreamInv(streams[i], pcm.dud = i, i \in timers, events[i])

\* The next stream is one that was never opened.
LEMMA NextIdFresh == Fresh # {} => NextId \in Fresh
<1> SUFFICES ASSUME Fresh # {} PROVE NextId \in Fresh
  OBVIOUS
<1>1. Fresh \subseteq Nat
  BY PcmDeviceAssumption DEF Fresh, Ids
<1> DEFINE R == OpToRel(<, Nat)
<1>2. PICK i \in Fresh : \A j \in Fresh : ~(<<j, i>> \in R)
  BY <1>1, NatLessThanWellFounded, WFMin
<1>3. \A j \in Fresh : i <= j
  <2> SUFFICES ASSUME NEW j \in Fresh, ~(i <= j) PROVE FALSE
    OBVIOUS
  <2>1. i \in Nat /\ j \in Nat /\ j < i
    BY <1>1
  <2> QED
    BY <2>1, <1>2 DEF OpToRel
<1> QED
  BY <1>2, <1>3 DEF NextId

\* A device that was created satisfies the invariant.
LEMMA PcmInitInv == PcmInit => PcmInv
<1> SUFFICES ASSUME PcmInit PROVE PcmInv
  OBVIOUS
<1>1. NoStream \in StreamStates /\ NoStream.st = "none" /\ NoStream.pc = "idle" /\ ~NoStream.freed
  BY DEF NoStream, StreamStates
<1>2. ASSUME NEW i \in Ids
      PROVE  StreamInv(streams[i], pcm.dud = i, i \in timers, events[i])
  <2>1. streams[i] = NoStream /\ pcm.dud = 0 /\ i # 0 /\ i \notin timers /\ events[i] = 0
    BY PcmDeviceAssumption DEF PcmInit, Ids
  <2> QED  BY <1>1, <2>1 DEF StreamInv
<1>3. /\ pcm = [status |-> "STOPPED", dud |-> 0, size |-> 0, is_last |-> FALSE]
      /\ timers = {} /\ stopping = FALSE
  BY DEF PcmInit
<1>4. /\ DOMAIN streams = Ids /\ streams = [i \in Ids |-> streams[i]]
      /\ DOMAIN events = Ids /\ events = [i \in Ids |-> events[i]]
  BY DEF PcmInit
<1>5. pcm \in [status : {"STOPPED", "READY", "PLAYING", "PAUSED"}, dud : 0..Starts,
               size : 0..MaxData, is_last : BOOLEAN]
  BY <1>3, PcmDeviceAssumption
<1> QED
  BY <1>2, <1>3, <1>4, <1>5 DEF PcmInv

\* A step that changes one stream k at most.
LEMMA OneStreamChanges ==
    ASSUME PcmInv, NEW k \in Ids, NEW s,
           streams' = [streams EXCEPT ![k] = s],
           StreamInv(s, pcm'.dud = k, k \in timers', events'[k]),
           \A i \in Ids \ {k} : /\ pcm'.dud = i <=> pcm.dud = i
                                /\ i \in timers' <=> i \in timers
                                /\ events'[i] = events[i]
    PROVE  /\ DOMAIN streams' = Ids /\ streams' = [i \in Ids |-> streams'[i]]
           /\ \A i \in Ids : StreamInv(streams'[i], pcm'.dud = i, i \in timers', events'[i])
<1>1. DOMAIN streams = Ids /\ streams = [i \in Ids |-> streams[i]]
  BY DEF PcmInv
<1>2. streams'[k] = s /\ \A i \in Ids \ {k} : streams'[i] = streams[i]
  BY <1>1
<1>3. ASSUME NEW i \in Ids \ {k}
      PROVE  StreamInv(streams'[i], pcm'.dud = i, i \in timers', events'[i])
  <2>1. StreamInv(streams[i], pcm.dud = i, i \in timers, events[i])
    BY DEF PcmInv
  <2> QED  BY <1>2, <2>1 DEF StreamInv
<1>4. StreamInv(streams'[k], pcm'.dud = k, k \in timers', events'[k])
  BY <1>2
<1> QED  BY <1>1, <1>3, <1>4

\* A step that changes no stream.
LEMMA NoStreamChanges ==
    ASSUME PcmInv, streams' = streams, events' = events, timers' = timers, pcm'.dud = pcm.dud
    PROVE  /\ DOMAIN streams' = Ids /\ streams' = [i \in Ids |-> streams'[i]]
           /\ DOMAIN events' = Ids /\ events' = [i \in Ids |-> events'[i]]
           /\ \A i \in Ids : StreamInv(streams'[i], pcm'.dud = i, i \in timers', events'[i])
  BY DEF PcmInv, StreamInv

PcmStates == [status : {"STOPPED", "READY", "PLAYING", "PAUSED"}, dud : 0..Starts,
              size : 0..MaxData, is_last : BOOLEAN]

\* The caller's steps keep the invariant as long as he starts no device that he
\* has not stopped.
LEMMA PcmStartInv ==
    ASSUME PcmInv, "restart" \notin PcmInputs, NEW how, PcmStart(how)
    PROVE  PcmInv'
<1>1. pcm \in PcmStates /\ pcm.dud = 0 /\ 0 \in 0..Starts /\ 0 \in 0..MaxData
  BY PcmDeviceAssumption DEF PcmInv, PcmStates, PcmStart
<1>2. Restarted \in PcmStates /\ Restarted.dud = 0 /\ Restarted.status = pcm.status
  <2>0. Cleared \in PcmStates /\ Cleared.status = pcm.status
    BY <1>1 DEF Cleared, PcmStates
  <2>1. PICK p \in PcmStates : p = Cleared /\ p.status = pcm.status
    BY <2>0
  <2>2. Restarted = [p EXCEPT !.dud = 0]
    BY <2>1 DEF Restarted
  <2> QED  BY <1>1, <2>1, <2>2 DEF PcmStates
<1>3. timers' = timers /\ events' = events /\ stopping' = stopping /\ ~stopping
  BY DEF PcmStart
<1>4. CASE pcm' = Restarted /\ streams' = streams
  BY <1>1, <1>2, <1>3, <1>4, NoStreamChanges DEF PcmInv, PcmStates
<1>5. CASE pcm' = [Restarted EXCEPT !.status = "READY"] /\ streams' = streams
  <2>1. pcm' \in PcmStates /\ pcm'.dud = 0 /\ pcm'.status = "READY"
    BY <1>2, <1>5 DEF PcmStates
  <2> QED
    BY <1>1, <1>3, <1>5, <2>1, NoStreamChanges DEF PcmInv, PcmStates
<1>6. CASE /\ Fresh # {}
           /\ pcm' = [Restarted EXCEPT !.dud = NextId, !.status = "PLAYING"]
           /\ streams' = [streams EXCEPT ![NextId] = [NoStream EXCEPT !.st = "active"]]
  <2>1. PICK k \in Ids : k = NextId /\ streams[k].st = "none"
    BY <1>6, NextIdFresh DEF Fresh
  <2>2. /\ pcm' \in PcmStates /\ pcm'.dud = k /\ k # 0
    <3>1. k \in 0..Starts /\ k # 0
      BY PcmDeviceAssumption DEF Ids
    <3>2. PICK p \in PcmStates : p = Restarted
      BY <1>2
    <3>3. pcm' = [p EXCEPT !.dud = k, !.status = "PLAYING"]
      BY <1>6, <2>1, <3>2
    <3> QED  BY <3>1, <3>3 DEF PcmStates
  <2>3. StreamInv(streams[k], pcm.dud = k, k \in timers, events[k])
    BY DEF PcmInv
  <2>4. PICK s : s = [NoStream EXCEPT !.st = "active"]
    OBVIOUS
  <2>5. s \in StreamStates /\ s.st = "active" /\ s.pc = "idle" /\ ~s.freed
    BY <2>4 DEF NoStream, StreamStates
  <2>6. StreamInv(s, pcm'.dud = k, k \in timers', events'[k])
    BY <1>3, <2>1, <2>2, <2>3, <2>5 DEF StreamInv
  <2>7. \A i \in Ids \ {k} : pcm'.dud # i /\ pcm.dud # i
    BY <1>1, <2>2 DEF Ids
  <2>8. /\ DOMAIN streams' = Ids /\ streams' = [i \in Ids |-> streams'[i]]
        /\ \A i \in Ids : StreamInv(streams'[i], pcm'.dud = i, i \in timers', events'[i])
    BY <1>3, <1>6, <2>1, <2>4, <2>6, <2>7, OneStreamChanges
  <2> QED
    BY <1>3, <2>2, <2>8 DEF PcmInv, PcmStates
<1> QED
  BY <1>4, <1>5, <1>6 DEF PcmStart

\* The device's stream was opened.
LEMMA DeviceStream ==
    ASSUME PcmInv, pcm.dud # 0
    PROVE  pcm.dud \in Ids /\ streams[pcm.dud].st # "none"
<1>1. pcm.dud \in Ids
  BY PcmDeviceAssumption DEF PcmInv, Ids
<1>2. StreamInv(streams[pcm.dud], TRUE, pcm.dud \in timers, events[pcm.dud])
  BY <1>1 DEF PcmInv
<1> QED  BY <1>1, <1>2 DEF StreamInv

\* What a step makes of an opened stream, apart from its end and its closing
GoesOn(old, s) ==
    /\ s \in StreamStates /\ old.st # "none" /\ s.st # "none"
    /\ s.freed = old.freed /\ s.done = old.done
    /\ s.pc # "idle" => s.st = "active"
    /\ s.st = "active" => old.st = "active"
    /\ old.st = "complete" => s.st = "complete"

\* A stream goes on while the device keeps its stream.
LEMMA StreamGoesOn ==
    ASSUME PcmInv, NEW k \in Ids, NEW s, GoesOn(streams[k], s),
           streams' = [streams EXCEPT ![k] = s],
           events' = events, timers' = timers, stopping' \in BOOLEAN, stopping' => pcm'.dud # 0,
           pcm' \in PcmStates, pcm'.dud = pcm.dud,
           pcm'.dud = 0 => pcm'.status \notin {"PLAYING", "PAUSED"}
    PROVE  PcmInv'
<1>1. StreamInv(streams[k], pcm.dud = k, k \in timers, events[k])
  BY DEF PcmInv
<1>2. StreamInv(s, pcm'.dud = k, k \in timers', events'[k])
  BY <1>1 DEF StreamInv, GoesOn
<1>3. /\ DOMAIN streams' = Ids /\ streams' = [i \in Ids |-> streams'[i]]
      /\ \A i \in Ids : StreamInv(streams'[i], pcm'.dud = i, i \in timers', events'[i])
  BY <1>2, OneStreamChanges
<1> QED
  BY <1>3 DEF PcmInv, PcmStates

\* _pcm_stop(), and Pa_StopStream() that returns
LEMMA PcmStopInv == ASSUME PcmInv, PcmStop PROVE PcmInv'
<1>1. pcm \in PcmStates /\ 0 \in 0..MaxData
  BY PcmDeviceAssumption DEF PcmInv, PcmStates
<1>2. pcm' \in PcmStates /\ pcm'.dud = pcm.dud /\ pcm'.status = pcm.status
  BY <1>1 DEF PcmStop, Cleared, PcmStates
<1>3. timers' = timers /\ events' = events /\ ~stopping
  BY DEF PcmStop
<1>4. CASE pcm.dud = 0
  BY <1>2, <1>3, <1>4, NoStreamChanges DEF PcmStop, PcmInv, PcmStates
<1>5. CASE pcm.dud # 0
  <2>1. PICK k \in Ids : k = pcm.dud /\ streams[k].st # "none"
    BY <1>5, DeviceStream
  <2>2. PICK s : s = [streams[k] EXCEPT !.stop = TRUE, !.pause = FALSE]
    OBVIOUS
  <2>3. streams[k] \in StreamStates /\ (streams[k].pc # "idle" => streams[k].st = "active")
    BY DEF PcmInv, StreamInv
  <2>4. /\ s \in StreamStates /\ s.st = streams[k].st /\ s.pc = streams[k].pc
        /\ s.freed = streams[k].freed /\ s.done = streams[k].done
    BY <2>2, <2>3 DEF StreamStates
  <2>5. streams' = [streams EXCEPT ![k] = s] /\ stopping' = TRUE
    BY <1>5, <2>1, <2>2 DEF PcmStop, PcmInv
  <2>6. GoesOn(streams[k], s)
    BY <2>1, <2>3, <2>4 DEF GoesOn
  <2> QED
    BY <1>2, <1>3, <1>5, <2>5, <2>6, StreamGoesOn
<1> QED
  BY <1>4, <1>5

LEMMA PcmStopReturnsInv == ASSUME PcmInv, StopReturns PROVE PcmInv'
<1>1. pcm.dud # 0 /\ stopping
  BY DEF StopReturns, PcmInv
<1>2. PICK k \in Ids : k = pcm.dud /\ streams[k].st = "complete"
  BY <1>1, DeviceStream DEF StopReturns
<1>3. PICK s : s = [streams[k] EXCEPT !.freed = TRUE]
  OBVIOUS
<1>4. StreamInv(streams[k], pcm.dud = k, k \in timers, events[k])
  BY DEF PcmInv
<1>5. /\ s \in StreamStates /\ s.st = "complete" /\ s.pc = streams[k].pc
      /\ s.done = streams[k].done
  BY <1>2, <1>3, <1>4 DEF StreamStates, StreamInv
<1>6. /\ streams' = [streams EXCEPT ![k] = s] /\ timers' = timers /\ events' = events
      /\ pcm' = [pcm EXCEPT !.dud = 0, !.status = "STOPPED"] /\ stopping' = FALSE
  <2>1. [streams EXCEPT ![k].freed = TRUE] = [streams EXCEPT ![k] = s]
    BY <1>2, <1>3 DEF PcmInv
  <2> QED  BY <1>2, <2>1 DEF StopReturns
<1>7. pcm' \in PcmStates /\ pcm'.dud = 0 /\ pcm'.status = "STOPPED"
  <2>1. pcm \in PcmStates /\ 0 \in 0..Starts
    BY PcmDeviceAssumption DEF PcmInv, PcmStates
  <2> QED  BY <1>6, <2>1 DEF PcmStates
<1>8. StreamInv(s, pcm'.dud = k, k \in timers', events'[k])
  BY <1>2, <1>4, <1>5, <1>6 DEF StreamInv
<1>9. \A i \in Ids \ {k} : pcm'.dud # i /\ pcm.dud # i
  BY <1>2, <1>7 DEF Ids
<1>10. /\ DOMAIN streams' = Ids /\ streams' = [i \in Ids |-> streams'[i]]
       /\ \A i \in Ids : StreamInv(streams'[i], pcm'.dud = i, i \in timers', events'[i])
  BY <1>6, <1>8, <1>9, OneStreamChanges
<1> QED
  BY <1>6, <1>7, <1>10 DEF PcmInv, PcmStates

\* _pcm_pause(), _pcm_resume() and _pcm_push_data()
LEMMA PcmPauseInv == ASSUME PcmInv, NEW p \in BOOLEAN, SetPause(p) PROVE PcmInv'
<1>1. CASE UNCHANGED <<pcm, streams>>
  BY <1>1, NoStreamChanges DEF SetPause, PcmInv
<1>2. CASE ~UNCHANGED <<pcm, streams>>
  <2>1. PICK k \in Ids : k = pcm.dud /\ streams[k].st # "none"
    BY <1>2, DeviceStream DEF SetPause
  <2>2. PICK s : s = [streams[k] EXCEPT !.pause = p]
    OBVIOUS
  <2>3. streams[k] \in StreamStates /\ (streams[k].pc # "idle" => streams[k].st = "active")
    BY DEF PcmInv, StreamInv
  <2>4. /\ s \in StreamStates /\ s.st = streams[k].st /\ s.pc = streams[k].pc
        /\ s.freed = streams[k].freed /\ s.done = streams[k].done
    BY <2>2, <2>3 DEF StreamStates
  <2>5. /\ streams' = [streams EXCEPT ![k] = s] /\ timers' = timers /\ events' = events
        /\ pcm' = [pcm EXCEPT !.status = IF p THEN "PAUSED" ELSE "PLAYING"]
        /\ ~stopping /\ stopping' = stopping
    BY <1>2, <2>1, <2>2 DEF SetPause, PcmInv
  <2>6. pcm' \in PcmStates /\ pcm'.dud = pcm.dud /\ pcm'.dud # 0
    BY <2>1, <2>5 DEF PcmInv, PcmStates, Ids
  <2>7. GoesOn(streams[k], s)
    BY <2>1, <2>3, <2>4 DEF GoesOn
  <2>8. stopping' \in BOOLEAN
    BY <2>5 DEF PcmInv
  <2> QED
    BY <2>5, <2>6, <2>7, <2>8, StreamGoesOn
<1> QED
  BY <1>1, <1>2

LEMMA PcmPushInv == ASSUME PcmInv, PcmPushData \/ PcmPushDataDone PROVE PcmInv'
<1>1. pcm \in PcmStates /\ MaxData \in Nat
  BY PcmDeviceAssumption DEF PcmInv, PcmStates
<1>2. pcm' \in PcmStates /\ pcm'.dud = pcm.dud /\ pcm'.status = pcm.status
  <2>1. CASE PcmPushData
    <3>1. pcm.size + 1 \in 0..MaxData
      BY <1>1, <2>1 DEF PcmPushData, PcmStates
    <3> QED  BY <1>1, <2>1, <3>1 DEF PcmPushData, PcmStates
  <2>2. CASE PcmPushDataDone
    BY <1>1, <2>2 DEF PcmPushDataDone, PcmStates
  <2> QED  BY <2>1, <2>2
<1>3. /\ streams' = streams /\ timers' = timers /\ events' = events /\ stopping' = stopping
  BY DEF PcmPushData, PcmPushDataDone
<1> QED
  BY <1>2, <1>3, NoStreamChanges DEF PcmInv, PcmStates

\* The timer reports the end once: it was set once.
LEMMA PcmEndInv == ASSUME PcmInv, NEW k \in Ids, EndOfStream(k) PROVE PcmInv'
<1>1. /\ k \in timers /\ timers' = timers \ {k} /\ pcm' = [pcm EXCEPT !.status = "STOPPED"]
      /\ events' = [events EXCEPT ![k] = @ + 1] /\ streams' = streams
      /\ ~stopping /\ stopping' = stopping
  BY DEF EndOfStream
<1>2. /\ DOMAIN events = Ids /\ events = [i \in Ids |-> events[i]]
      /\ DOMAIN streams = Ids /\ streams = [i \in Ids |-> streams[i]]
  BY DEF PcmInv
<1>3. pcm' \in PcmStates /\ pcm'.dud = pcm.dud /\ pcm'.status = "STOPPED"
  <2>1. pcm \in PcmStates
    BY DEF PcmInv, PcmStates
  <2> QED  BY <1>1, <2>1 DEF PcmStates
<1>4. StreamInv(streams[k], pcm.dud = k, k \in timers, events[k])
  BY DEF PcmInv
<1>5. events[k] = 0 /\ events'[k] = 1 /\ k \notin timers'
  BY <1>1, <1>2, <1>4 DEF StreamInv
<1>6. StreamInv(streams'[k], pcm'.dud = k, k \in timers', events'[k])
  BY <1>1, <1>3, <1>4, <1>5 DEF StreamInv
<1>7. ASSUME NEW i \in Ids \ {k}
      PROVE  StreamInv(streams'[i], pcm'.dud = i, i \in timers', events'[i])
  <2>1. StreamInv(streams[i], pcm.dud = i, i \in timers, events[i])
    BY DEF PcmInv
  <2>2. events'[i] = events[i] /\ (i \in timers' <=> i \in timers) /\ streams'[i] = streams[i]
    BY <1>1, <1>2
  <2> QED  BY <1>3, <2>1, <2>2 DEF StreamInv
<1>8. DOMAIN events' = Ids /\ events' = [i \in Ids |-> events'[i]]
  BY <1>1, <1>2
<1>9. \A i \in Ids : StreamInv(streams'[i], pcm'.dud = i, i \in timers', events'[i])
  BY <1>6, <1>7
<1>10. timers' \subseteq Ids /\ stopping' \in BOOLEAN /\ ~stopping'
  BY <1>1 DEF PcmInv
<1> QED
  BY <1>1, <1>2, <1>3, <1>8, <1>9, <1>10 DEF PcmInv, PcmStates

\* _playbackCallback()
LEMMA PcmCallbackInv == ASSUME PcmInv, NEW k \in Ids, Callback(k) PROVE PcmInv'
<1>1. pcm \in PcmStates /\ stopping \in BOOLEAN /\ (stopping => pcm.dud # 0)
      /\ (pcm.dud = 0 => pcm.status \notin {"PLAYING", "PAUSED"})
  BY DEF PcmInv, PcmStates
<1>2. DOMAIN streams = Ids /\ streams = [i \in Ids |-> streams[i]]
  BY DEF PcmInv
<1>3. StreamInv(streams[k], pcm.dud = k, k \in timers, events[k])
  BY DEF PcmInv
<1>4. CASE CallbackPaused(k)
  BY <1>4, NoStreamChanges DEF CallbackPaused, pcmVars, PcmInv
<1>5. CASE CallbackSize(k)
  <2>1. PICK s : s = [streams[k] EXCEPT !.pc = IF pcm.size > 0 THEN "data" ELSE "empty"]
    OBVIOUS
  <2>2. GoesOn(streams[k], s)
    BY <1>3, <1>5, <2>1 DEF CallbackSize, StreamInv, StreamStates, GoesOn
  <2>3. streams' = [streams EXCEPT ![k] = s]
    BY <1>2, <1>5, <2>1 DEF CallbackSize
  <2> QED
    BY <1>1, <1>5, <2>2, <2>3, StreamGoesOn DEF CallbackSize
<1>6. CASE CallbackData(k)
  <2>1. PICK s : s = [streams[k] EXCEPT !.pc = "idle", !.st = Ends(k)]
    OBVIOUS
  <2>2. GoesOn(streams[k], s)
    BY <1>3, <1>6, <2>1 DEF CallbackData, Ends, StreamInv, StreamStates, GoesOn
  <2>3. streams' = [streams EXCEPT ![k] = s]
    BY <1>2, <1>6, <2>1 DEF CallbackData
  <2>4. pcm' \in PcmStates /\ pcm'.dud = pcm.dud /\ pcm'.status = pcm.status
    BY <1>1, <1>6, PcmDeviceAssumption DEF CallbackData, PcmStates
  <2> QED
    BY <1>1, <1>6, <2>2, <2>3, <2>4, StreamGoesOn DEF CallbackData
<1>7. CASE CallbackEmpty(k)
  <2>1. PICK s : s = [streams[k] EXCEPT !.pc = "idle", !.st = Ends(k), !.done = @ \/ pcm.is_last]
    OBVIOUS
  <2>2. /\ streams[k] \in StreamStates /\ streams[k].st = "active" /\ pcm.is_last \in BOOLEAN
        /\ ~streams[k].freed
    BY <1>1, <1>3, <1>7 DEF CallbackEmpty, StreamInv, PcmStates
  <2>3. /\ s \in StreamStates /\ s.st \in {"active", "complete"} /\ s.pc = "idle" /\ ~s.freed
        /\ s.done = (streams[k].done \/ pcm.is_last)
    BY <2>1, <2>2 DEF Ends, StreamStates
  <2>4. /\ streams' = [streams EXCEPT ![k] = s]
        /\ timers' = IF pcm.is_last /\ ~streams[k].done THEN timers \cup {k} ELSE timers
        /\ UNCHANGED <<pcm, events, stopping>>
    BY <1>2, <1>7, <2>1 DEF CallbackEmpty
  <2>5. StreamInv(s, pcm'.dud = k, k \in timers', events'[k])
    <3>1. /\ pcm.dud = k /\ events[k] \in 0..1
          /\ k \in timers => streams[k].done /\ events[k] = 0
          /\ events[k] = 1 => streams[k].done
      BY <1>3, <2>2 DEF StreamInv
    <3>2. streams[k].done => s.done
      BY <2>2, <2>3 DEF StreamStates
    <3>3. k \in timers' => s.done /\ events[k] = 0
      <4>1. CASE k \in timers
        BY <3>1, <3>2, <4>1
      <4>2. ASSUME k \notin timers, k \in timers' PROVE s.done /\ events[k] = 0
        <5>1. pcm.is_last /\ ~streams[k].done
          BY <2>4, <4>2
        <5>2. s.done
          BY <2>3, <5>1
        <5> QED  BY <3>1, <5>1, <5>2
      <4> QED  BY <4>1, <4>2
    <3> QED  BY <2>3, <2>4, <3>1, <3>2, <3>3 DEF StreamInv
  <2>6. /\ DOMAIN streams' = Ids /\ streams' = [i \in Ids |-> streams'[i]]
        /\ \A i \in Ids : StreamInv(streams'[i], pcm'.dud = i, i \in timers', events'[i])
    BY <2>4, <2>5, OneStreamChanges
  <2> QED
    BY <2>4, <2>6 DEF PcmInv
<1> QED
  BY <1>4, <1>5, <1>6, <1>7 DEF Callback

\* A caller who stops the device before he starts it again never makes the
\* callback use freed parameters, hears nothing once nugu_pcm_stop() returned,
\* and gets at most one END_OF_STREAM for a start, for every number of streams
\* and whatever fails (_pcm_start(), _pcm_stop(), _playbackCallback(),
\* _playerEndOfStream()).
THEOREM PcmIsSafe ==
    ASSUME "restart" \notin PcmInputs
    PROVE  PcmSpec => []PcmSafe
<1>1. PcmInv /\ [PcmNext]_pcmVars => PcmInv'
  <2> SUFFICES ASSUME PcmInv, [PcmNext]_pcmVars PROVE PcmInv'
    OBVIOUS
  <2>1. CASE UNCHANGED pcmVars
    BY <2>1, NoStreamChanges DEF pcmVars, PcmInv
  <2> QED
    BY <2>1, PcmStartInv, PcmStopInv, PcmStopReturnsInv, PcmPauseInv, PcmPushInv, PcmEndInv,
       PcmCallbackInv DEF PcmNext
<1>2. PcmInv => PcmSafe
  <2> SUFFICES ASSUME PcmInv PROVE PcmSafe
    OBVIOUS
  <2>1. \A i \in Ids : StreamInv(streams[i], pcm.dud = i, i \in timers, events[i])
    BY DEF PcmInv
  <2>2. streams \in [Ids -> StreamStates]
    <3>1. streams = [i \in Ids |-> streams[i]]
      BY DEF PcmInv
    <3>2. \A i \in Ids : streams[i] \in StreamStates
      BY <2>1 DEF StreamInv
    <3> QED  BY <3>1, <3>2
  <2>3. PcmTypeOK
    BY <2>2 DEF PcmInv, PcmTypeOK, StreamStates
  <2>4. PlaybackParamAlive /\ OneEndOfStream
    BY <2>1 DEF StreamInv, PlaybackParamAlive, OneEndOfStream
  <2>5. StoppedIsSilent
    <3> SUFFICES ASSUME pcm.dud = 0
                 PROVE  /\ \A i \in Ids : streams[i].st # "active"
                        /\ pcm.status \notin {"PLAYING", "PAUSED"}
      BY DEF StoppedIsSilent
    <3>1. ASSUME NEW i \in Ids PROVE streams[i].st # "active"
      <4>1. pcm.dud # i
        BY DEF Ids
      <4> QED  BY <2>1, <4>1 DEF StreamInv
    <3> QED  BY <3>1 DEF PcmInv
  <2> QED  BY <2>3, <2>4, <2>5 DEF PcmSafe
<1> QED  BY PcmInitInv, <1>1, <1>2, PTL DEF PcmSpec

----------------------------------------------------------------------------
(***************************************************************************)
(* The ring buffer.  Arithmetic first.                                     *)
(***************************************************************************)

\* Division and remainder
LEMMA DivIs ==
    ASSUME NEW a \in Nat, NEW s \in Nat \ {0}
    PROVE  a \div s \in Nat /\ a % s \in 0..(s - 1) /\ a = s * (a \div s) + (a % s)
  OBVIOUS

\* They are the only numbers that make up the dividend.
LEMMA DivUnique ==
    ASSUME NEW a \in Nat, NEW s \in Nat \ {0}, NEW q \in Nat, NEW c \in 0..(s - 1),
           a = s * q + c
    PROVE  a \div s = q /\ a % s = c
  OBVIOUS

\* More items need more bytes.
LEMMA MulMono ==
    ASSUME NEW s \in Nat, NEW a \in Nat, NEW b \in Nat, a <= b
    PROVE  s * a <= s * b
<1>1. PICK c \in Nat : b = a + c
  <2>1. b - a \in Nat /\ b = a + (b - a)
    OBVIOUS
  <2> QED  BY <2>1
<1>2. s * b = s * a + s * c
  BY <1>1
<1>3. s * c \in Nat /\ s * a \in Nat
  OBVIOUS
<1> QED  BY <1>2, <1>3

\* What fits in m items of s bytes: u whole ones and f bytes of the next.
LEMMA Fit ==
    ASSUME NEW s \in Nat \ {0}, NEW u \in Nat, NEW m \in Nat, NEW f \in 0..(s - 1),
           s * u + f <= s * m
    PROVE  u <= m /\ (f # 0 => u + 1 <= m)
<1>1. s * m \in Nat /\ s * u \in Nat
  OBVIOUS
<1>2. u <= m
  <2> SUFFICES ASSUME m + 1 <= u PROVE FALSE
    OBVIOUS
  <2>1. s * (m + 1) <= s * u
    BY MulMono
  <2>2. s * (m + 1) = s * m + s
    OBVIOUS
  <2> QED  BY <1>1, <2>1, <2>2
<1>3. f # 0 => u # m
  BY <1>1
<1> QED  BY <1>2, <1>3

\* Whole laps of m items do not move what is begun.
LEMMA Lap ==
    ASSUME NEW s \in Nat \ {0}, NEW m \in Nat, NEW l \in Nat, NEW w \in Nat
    PROVE  /\ (l * (s * m) + w) \div s = l * m + (w \div s)
           /\ (l * (s * m) + w) % s = w % s
<1>1. PICK q, a : q = w \div s /\ a = w % s  OBVIOUS
<1>2. q \in Nat /\ a \in 0..(s - 1) /\ w = s * q + a
  BY <1>1, DivIs
<1>3. PICK j, t : j = l * (s * m) + w /\ t = l * m + q  OBVIOUS
<1>4. l * m \in Nat /\ l * (s * m) \in Nat /\ j \in Nat /\ t \in Nat
  BY <1>2, <1>3
<1>5. j = s * t + a
  <2>1. l * (s * m) = s * (l * m)
    OBVIOUS
  <2>2. s * t = s * (l * m) + s * q
    BY <1>2, <1>3, <1>4
  <2> QED  BY <1>2, <1>3, <1>4, <2>1, <2>2
<1>6. j \div s = t /\ j % s = a
  BY <1>2, <1>4, <1>5, DivUnique
<1> QED  BY <1>1, <1>3, <1>6

\* Where a position is that is less than a lap before or two laps behind the
\* beginning of lap l
LEMMA PosIs ==
    ASSUME NEW m \in Nat \ {0}, NEW l \in Nat, NEW y \in Int, l * m + y \in Nat
    PROVE  /\ 0 <= y /\ y < m => (l * m + y) % m = y
           /\ m <= y /\ y < 2 * m => (l * m + y) % m = y - m
           /\ -m <= y /\ y < 0 => (l * m + y) % m = y + m
<1>1. PICK p : p = l * m + y  OBVIOUS
<1>2. p \in Nat /\ l * m \in Nat
  BY <1>1
<1>3. ASSUME 0 <= y, y < m PROVE p % m = y
  <2>1. y \in 0..(m - 1) /\ p = m * l + y
    BY <1>1, <1>3
  <2> QED  BY <1>2, <2>1, DivUnique
<1>4. ASSUME m <= y, y < 2 * m PROVE p % m = y - m
  <2>1. y - m \in 0..(m - 1) /\ l + 1 \in Nat
    BY <1>4
  <2>2. m * (l + 1) = l * m + m
    OBVIOUS
  <2>3. p = m * (l + 1) + (y - m)
    BY <1>1, <1>2, <2>2
  <2> QED  BY <1>2, <2>1, <2>3, DivUnique
<1>5. ASSUME -m <= y, y < 0 PROVE p % m = y + m
  <2>1. l # 0
    BY <1>1, <1>2, <1>5
  <2>2. y + m \in 0..(m - 1) /\ l - 1 \in Nat
    BY <1>5, <2>1
  <2>3. m * (l - 1) = l * m - m
    OBVIOUS
  <2>4. p = m * (l - 1) + (y + m)
    BY <1>1, <1>2, <2>3
  <2> QED  BY <1>2, <2>2, <2>4, DivUnique
<1> QED  BY <1>1, <1>3, <1>4, <1>5

\* The items that a push touches are those that it completes, the one it
\* begins included.
LEMMA WriteItemsIs ==
    ASSUME NEW b, NEW size \in Nat, b.item_size \in Nat \ {0}, b.woffset \in Nat
    PROVE  \E s, w, q, f, u :
             /\ s = b.item_size /\ w = b.woffset /\ q = w \div s
             /\ (w + size) \div s = q + u /\ f = (w + size) % s
             /\ q \in Nat /\ u \in Nat /\ f \in 0..(s - 1)
             /\ s * u + f = (w % s) + size
             /\ WriteItems(b, size) = u + (IF f # 0 THEN 1 ELSE 0)
<1>0. PICK s, w : s = b.item_size /\ w = b.woffset /\ s \in Nat \ {0} /\ w \in Nat
  OBVIOUS
<1>1. PICK q, a : q = w \div s /\ a = w % s  OBVIOUS
<1>2. q \in Nat /\ a \in 0..(s - 1) /\ w = s * q + a
  BY <1>0, <1>1, DivIs
<1>3. PICK p, c : p = size \div s /\ c = size % s  OBVIOUS
<1>4. p \in Nat /\ c \in 0..(s - 1) /\ size = s * p + c
  BY <1>0, <1>3, DivIs
<1>5. PICK e, g : e = (a + c) \div s /\ g = (a + c) % s  OBVIOUS
<1>6. e \in Nat /\ g \in 0..(s - 1) /\ a + c = s * e + g
  <2>1. a + c \in Nat BY <1>2, <1>4
  <2> QED BY <1>0, <1>5, <2>1, DivIs
<1>7. PICK v \in Nat : v = q + p + e
  BY <1>2, <1>4, <1>6
<1>8. s * v = s * q + s * p + s * e /\ s * q \in Nat /\ s * p \in Nat /\ s * e \in Nat
  BY <1>0, <1>2, <1>4, <1>6, <1>7
<1>9. (w + size) \div s = v /\ (w + size) % s = g
  <2>1. PICK j \in Nat : j = w + size
    BY <1>0
  <2>2. j = s * v + g
    BY <1>2, <1>4, <1>6, <1>8, <2>1
  <2>3. v \in Nat /\ g \in 0..(s - 1)
    BY <1>6, <1>7
  <2>5. s \in Nat \ {0}
    BY <1>0
  <2>4. j \div s = v /\ j % s = g
    BY <2>2, <2>3, <2>5, DivUnique
  <2> QED  BY <2>1, <2>4
<1>10. WriteItems(b, size) = p + e + (IF g # 0 THEN 1 ELSE 0)
  BY <1>0, <1>1, <1>3, <1>5 DEF WriteItems
<1>11. PICK u \in Nat : u = p + e
  BY <1>4, <1>6
<1>12. v = q + u /\ s * u + g = a + size
  <2>1. s * u = s * p + s * e
    BY <1>0, <1>4, <1>6, <1>11
  <2> QED  BY <1>2, <1>4, <1>6, <1>7, <1>8, <1>11, <2>1
<1>13. WriteItems(b, size) = u + (IF g # 0 THEN 1 ELSE 0)
  BY <1>4, <1>6, <1>10, <1>11
<1>14. q \in Nat /\ u \in Nat /\ g \in 0..(s - 1) /\ s * u + g = (w % s) + size
  BY <1>1, <1>2, <1>6, <1>12
<1>15. (w + size) \div s = q + u /\ g = (w + size) % s
  BY <1>9, <1>12
<1> WITNESS s, w, q, g, u
<1> QED  BY <1>0, <1>1, <1>13, <1>14, <1>15

----------------------------------------------------------------------------
\* The memory holds the last bytes pushed, each where its number belongs; woffset
\* is the writer's place in its lap. Of this a reader that loses its place, too,
\* is sure.
RingMemory(b, n) ==
    /\ b.item_size \in Nat \ {0} /\ b.max_items \in Nat \ {0} /\ n \in Nat
    /\ [size |-> b.item_size, capacity |-> b.max_items] \in Geometries
    /\ b.woffset \in 0..(b.item_size * b.max_items) /\ (b.woffset = 0 => n = 0)
    /\ \E l \in Nat : n = l * (b.item_size * b.max_items) + b.woffset
    /\ DOMAIN b.buf = 0..(b.item_size * b.max_items - 1)
    /\ \A p \in Nat : n - b.item_size * b.max_items <= p /\ p < n
                         => b.buf[p % (b.item_size * b.max_items)] = p + 1

\* The reader stands at the first item of the stream that waits; the memory has
\* room for what waits and the item begun.
RingQueue(b, n) ==
    /\ b.count \in Nat /\ b.count <= n \div b.item_size
    /\ b.read_index = ((n \div b.item_size) - b.count) % b.max_items
    /\ b.count * b.item_size + (n % b.item_size) <= b.item_size * b.max_items

RingShape(b) ==
    DOMAIN b = {"item_size", "max_items", "read_index", "count", "woffset", "buf"}

RingInv ==
    /\ RingShape(rb) /\ RingMemory(rb, pushed) /\ overrun \in BOOLEAN
    /\ ~overrun => RingQueue(rb, pushed)

\* A push leaves the last bytes in the memory, whatever the reader does.
LEMMA PushRemembers ==
    ASSUME NEW b, NEW n, RingShape(b), RingMemory(b, n),
           NEW size \in Nat \ {0}, size <= b.max_items * b.item_size,
           NEW d, d = PushData(b, size, n + 1)
    PROVE  /\ RingShape(d) /\ RingMemory(d, n + size)
           /\ d.item_size = b.item_size /\ d.max_items = b.max_items
           /\ d.read_index = SkipItems(b, WriteItems(b, size))
           /\ d.count = CalculateCount(b, WriteItems(b, size), size)
<1>1. PICK s, m, M, w : s = b.item_size /\ m = b.max_items /\ M = s * m /\ w = b.woffset
  OBVIOUS
<1>2. /\ s \in Nat \ {0} /\ m \in Nat \ {0} /\ n \in Nat /\ w \in 0..M
      /\ DOMAIN b.buf = 0..(M - 1) /\ [size |-> s, capacity |-> m] \in Geometries
      /\ \A p \in Nat : n - M <= p /\ p < n => b.buf[p % M] = p + 1
  BY <1>1 DEF RingMemory
<1>3. M \in Nat \ {0} /\ m * s = M /\ size <= M
  BY <1>1, <1>2
<1>4. PICK l \in Nat : n = l * M + w
  BY <1>1 DEF RingMemory
<1>5. PICK P : P = l * M
  OBVIOUS
<1>6. P \in Nat /\ n = P + w
  BY <1>3, <1>4, <1>5
<1>7. PICK f, v : f = CopyIn(b, size, n + 1).buf /\ v = CopyIn(b, size, n + 1).woffset
  OBVIOUS
<1>8. v = IF w + size > M THEN w + size - M ELSE w + size
  BY <1>1, <1>3, <1>7 DEF CopyIn
<1>9. f = [o \in 0..(M - 1) |->
              IF o >= w /\ o < w + size THEN (n + 1) + o - w
              ELSE IF w + size > M /\ o < w + size - M THEN (n + 1) + o + M - w
              ELSE b.buf[o]]
  BY <1>1, <1>2, <1>3, <1>7 DEF CopyIn
<1>10. /\ d.item_size = s /\ d.max_items = m /\ d.woffset = v /\ d.buf = f /\ RingShape(d)
       /\ d.read_index = SkipItems(b, WriteItems(b, size))
       /\ d.count = CalculateCount(b, WriteItems(b, size), size)
  BY <1>1, <1>7 DEF PushData, RingShape
<1>11. v \in 0..M /\ v # 0
  BY <1>2, <1>3, <1>8
<1>12. \E l2 \in Nat : n + size = l2 * M + v
  <2>1. CASE w + size > M
    <3>1. (l + 1) * M = P + M
      BY <1>3, <1>5
    <3>2. n + size = (l + 1) * M + v
      BY <1>2, <1>3, <1>6, <1>8, <2>1, <3>1
    <3> QED  BY <3>2
  <2>2. CASE ~(w + size > M)
    <3>1. n + size = l * M + v
      BY <1>2, <1>3, <1>5, <1>6, <1>8, <2>2
    <3> QED  BY <3>1
  <2> QED  BY <2>1, <2>2
<1>13. ASSUME NEW p \in Nat, (n + size) - M <= p, p < n + size
       PROVE  f[p % M] = p + 1
  <2>1. PICK y \in Int : y = p - P
    BY <1>6
  <2>2. p = l * M + y /\ w + size - M <= y /\ y < w + size
    BY <1>2, <1>3, <1>5, <1>6, <1>13, <2>1
  <2>6. y < 2 * M /\ -M <= y
    <3>1. w \in Nat /\ w <= M /\ M \in Nat /\ size <= M
      BY <1>2, <1>3
    <3>2. w + size - M <= y /\ y < w + size
      BY <2>2
    <3> QED  BY <3>1, <3>2
  <2>3. CASE M <= y
    <3>1. p % M = y - M
      BY <1>3, <2>2, <2>3, <2>6, PosIs
    <3>2. f[y - M] = (n + 1) + (y - M) + M - w
      BY <1>2, <1>3, <1>9, <2>2, <2>3
    <3> QED  BY <1>2, <1>3, <1>6, <2>1, <3>1, <3>2
  <2>4. CASE 0 <= y /\ y < M
    <3>1. p % M = y
      BY <1>3, <2>2, <2>4, PosIs
    <3>2. CASE w <= y
      <4>1. f[y] = (n + 1) + y - w
        BY <1>2, <1>3, <1>9, <2>2, <2>4, <3>2
      <4> QED  BY <1>2, <1>6, <2>1, <3>1, <4>1
    <3>3. CASE y < w
      <4>1. f[y] = b.buf[y]
        BY <1>2, <1>3, <1>9, <2>2, <2>4, <3>3
      <4>2. n - M <= p /\ p < n
        BY <1>2, <1>3, <1>6, <1>13, <2>1, <3>3
      <4> QED  BY <1>2, <3>1, <4>1, <4>2
    <3> QED  BY <1>2, <3>2, <3>3
  <2>5. CASE y < 0
    <3>1. p % M = y + M
      BY <1>3, <2>2, <2>5, <2>6, PosIs
    <3>2. f[y + M] = b.buf[y + M]
      BY <1>2, <1>3, <1>9, <2>2, <2>5
    <3>3. n - M <= p /\ p < n
      <4>1. w \in Nat /\ p = P + y
        BY <1>2, <1>6, <2>1
      <4> QED  BY <1>3, <1>6, <1>13, <2>5, <4>1
    <3> QED  BY <1>2, <3>1, <3>2, <3>3
  <2> QED  BY <1>3, <2>3, <2>4, <2>5
<1>14. DOMAIN f = 0..(M - 1) /\ n + size \in Nat
  BY <1>2, <1>9
<1>15. RingMemory(d, n + size)
  BY <1>1, <1>2, <1>10, <1>11, <1>12, <1>13, <1>14 DEF RingMemory
<1> QED  BY <1>1, <1>10, <1>15

\* The k-th item of a stream of items of s bytes
StreamItem(s, k) == [i \in 1..s |-> (k - 1) * s + i]

\* A stretch of the stream: c items behind the first r
Stretch(s, r, c) == [i \in 1..c |-> StreamItem(s, r + i)]

\* The queue that a buffer stands for
Waiting(b) ==
    [i \in 1..(IF b.count < 0 THEN 0 ELSE b.count) |->
        ItemAt(b, (b.read_index + i - 1) % b.max_items)]

\* An item all of whose bytes are in the memory is that of the stream.
LEMMA ItemIs ==
    ASSUME NEW b, NEW n, RingMemory(b, n), NEW k \in Nat,
           n - b.item_size * b.max_items <= b.item_size * k,
           b.item_size * (k + 1) <= n
    PROVE  ItemAt(b, k % b.max_items) = StreamItem(b.item_size, k + 1)
<1>1. PICK s, m, M : s = b.item_size /\ m = b.max_items /\ M = s * m
  OBVIOUS
<1>2. /\ s \in Nat \ {0} /\ m \in Nat \ {0} /\ n \in Nat
      /\ \A p \in Nat : n - M <= p /\ p < n => b.buf[p % M] = p + 1
  BY <1>1 DEF RingMemory
<1>3. PICK z, r : z = k \div m /\ r = k % m
  OBVIOUS
<1>4. z \in Nat /\ r \in 0..(m - 1) /\ k = m * z + r
  BY <1>2, <1>3, DivIs
<1>5. M \in Nat \ {0} /\ s * k \in Nat /\ r * s \in Nat /\ s * (k + 1) = s * k + s
  BY <1>1, <1>2, <1>4
<1>6. s * k = M * z + r * s
  <2>1. s * (m * z + r) = (s * m) * z + r * s
    BY <1>2, <1>4
  <2> QED  BY <1>1, <1>4, <2>1
<1>7. r * s + s <= M
  <2>1. s * (r + 1) <= s * m
    BY <1>2, <1>4, MulMono
  <2>2. s * (r + 1) = r * s + s
    BY <1>2, <1>4
  <2> QED  BY <1>1, <2>1, <2>2
<1>8. ASSUME NEW i \in 1..s
      PROVE  b.buf[r * s + i - 1] = ((k + 1) - 1) * s + i
  <2>1. PICK p : p = s * k + i - 1
    OBVIOUS
  <2>2. p \in Nat /\ n - M <= p /\ p < n
    BY <1>1, <1>2, <1>5, <2>1
  <2>3. PICK o : o = r * s + i - 1
    OBVIOUS
  <2>4. o \in 0..(M - 1)
    BY <1>2, <1>5, <1>7, <2>3
  <2>5. p = M * z + o
    <3>1. M * z \in Nat
      BY <1>4, <1>5
    <3> QED  BY <1>5, <1>6, <2>1, <2>3, <3>1
  <2>6. p % M = o
    BY <1>4, <1>5, <2>2, <2>4, <2>5, DivUnique
  <2>7. b.buf[o] = p + 1
    BY <1>2, <2>2, <2>6
  <2>8. ((k + 1) - 1) * s = s * k
    BY <1>2
  <2> QED  BY <1>5, <2>1, <2>3, <2>7, <2>8
<1> QED
  BY <1>1, <1>3, <1>8 DEF ItemAt, StreamItem

\* What waits of a stream of n bytes: c items behind the first k.
LEMMA WaitingFacts ==
    ASSUME NEW b, NEW n, RingMemory(b, n), RingQueue(b, n)
    PROVE  \E s, m, c, r, q, k, a :
             /\ s = b.item_size /\ m = b.max_items /\ c = b.count /\ r = b.read_index
             /\ q = n \div s /\ a = n % s /\ k = q - c
             /\ s \in Nat \ {0} /\ m \in Nat \ {0} /\ c \in Nat /\ q \in Nat /\ k \in Nat
             /\ n \in Nat /\ s * m \in Nat \ {0} /\ s * q + a = n /\ a \in 0..(s - 1)
             /\ n - s * m <= s * k /\ s * k + s * c = s * q /\ c * s + a <= s * m
             /\ c <= m /\ q = k + c /\ r = k % m /\ r \in 0..(m - 1)
<1>0. PICK s, m, c, r : /\ s = b.item_size /\ m = b.max_items /\ c = b.count
                        /\ r = b.read_index
  OBVIOUS
<1>9. PICK q, k : q = n \div s /\ k = q - c
  OBVIOUS
<1>1. /\ s \in Nat \ {0} /\ m \in Nat \ {0} /\ n \in Nat /\ c \in Nat /\ c <= q
      /\ r = k % m /\ c * s + (n % s) <= s * m
  BY <1>0, <1>9 DEF RingMemory, RingQueue
<1>2. PICK a : a = n % s
  OBVIOUS
<1>3. q \in Nat /\ a \in 0..(s - 1) /\ n = s * q + a
  BY <1>1, <1>2, <1>9, DivIs
<1>4. k \in Nat /\ q = k + c
  BY <1>1, <1>3, <1>9
<1>5. s * q = s * k + s * c /\ s * c = c * s
  BY <1>1, <1>4
<1>6. s * q \in Nat /\ s * k \in Nat /\ s * c \in Nat /\ s * m \in Nat \ {0}
  BY <1>1, <1>3, <1>4
<1>7. c <= m
  BY <1>1, <1>2, <1>3, <1>5, Fit
<1>8. k % m \in 0..(m - 1)
  BY <1>1, <1>4, DivIs
<1>10. /\ s \in Nat \ {0} /\ m \in Nat \ {0} /\ c \in Nat /\ q \in Nat /\ k \in Nat
       /\ n \in Nat /\ s * m \in Nat \ {0} /\ s * q + a = n /\ a \in 0..(s - 1)
       /\ n - s * m <= s * k /\ s * k + s * c = s * q /\ c * s + a <= s * m
       /\ c <= m /\ q = k + c /\ r = k % m /\ r \in 0..(m - 1)
  BY <1>1, <1>2, <1>3, <1>4, <1>5, <1>6, <1>7, <1>8
<1> WITNESS s, m, c, r, q, k, a
<1> QED  BY <1>0, <1>2, <1>9, <1>10

\* The queue is the part of the stream between what was read and what is
\* complete.
LEMMA WaitingIs ==
    ASSUME NEW b, NEW n, RingMemory(b, n), RingQueue(b, n)
    PROVE  Waiting(b) = Stretch(b.item_size, (n \div b.item_size) - b.count, b.count)
<1>2. PICK s, m, c, r, q, k, a :
        /\ s = b.item_size /\ m = b.max_items /\ c = b.count /\ r = b.read_index
        /\ q = n \div s /\ a = n % s /\ k = q - c
        /\ s \in Nat \ {0} /\ m \in Nat \ {0} /\ c \in Nat /\ q \in Nat /\ k \in Nat
        /\ n \in Nat /\ s * m \in Nat \ {0} /\ s * q + a = n /\ a \in 0..(s - 1)
        /\ n - s * m <= s * k /\ s * k + s * c = s * q /\ c * s + a <= s * m
        /\ c <= m /\ q = k + c /\ r = k % m /\ r \in 0..(m - 1)
  BY WaitingFacts
<1>1. /\ s \in Nat \ {0} /\ m \in Nat \ {0} /\ c \in Nat /\ q \in Nat /\ k \in Nat
      /\ n \in Nat /\ s * m \in Nat \ {0} /\ s * q + a = n /\ a \in 0..(s - 1)
      /\ n - s * m <= s * k /\ s * k + s * c = s * q /\ c * s + a <= s * m
      /\ c <= m /\ q = k + c /\ r \in 0..(m - 1)
  BY <1>2
<1>0. s = b.item_size /\ m = b.max_items /\ c = b.count /\ r = b.read_index /\ r = k % m
  BY <1>2
<1>3. ASSUME NEW i \in 1..c
      PROVE  ItemAt(b, (r + i - 1) % m) = StreamItem(s, k + i)
  <2>1. PICK j \in Nat : j = k + i - 1
    BY <1>1
  <2>2. (r + i - 1) % m = j % m
    <3>1. PICK z : z = k \div m
      OBVIOUS
    <3>2. z \in Nat /\ k = m * z + r
      <4>1. k \in Nat /\ m \in Nat \ {0} /\ r = k % m
        BY <1>0, <1>1
      <4> QED  BY <3>1, <4>1, DivIs
    <3>3. PICK x : x = r + i - 1
      OBVIOUS
    <3>4. x \in Nat /\ j = m * z + x
      <4>1. m * z \in Nat
        BY <1>1, <3>2
      <4> QED  BY <1>1, <2>1, <3>2, <3>3, <4>1
    <3>5. PICK y, u : y = x \div m /\ u = x % m
      OBVIOUS
    <3>6. y \in Nat /\ u \in 0..(m - 1) /\ x = m * y + u
      BY <1>1, <3>4, <3>5, DivIs
    <3>7. z + y \in Nat /\ j = m * (z + y) + u
      <4>1. m * (z + y) = m * z + m * y /\ m * z \in Nat /\ m * y \in Nat
        BY <1>1, <3>2, <3>6
      <4> QED  BY <3>2, <3>4, <3>6, <4>1
    <3>8. j % m = u
      BY <1>1, <3>6, <3>7, DivUnique
    <3> QED  BY <3>3, <3>5, <3>8
  <2>3. n - s * m <= s * j
    <3>1. s * k <= s * j
      BY <1>1, <2>1, MulMono
    <3>2. s * k \in Nat /\ s * j \in Nat /\ s * m \in Nat
      BY <1>1, <2>1
    <3> QED  BY <1>1, <3>1, <3>2
  <2>4. s * (j + 1) <= n
    <3>1. s * (j + 1) <= s * q
      <4>1. j + 1 \in Nat /\ j + 1 <= q
        BY <1>1, <2>1
      <4> QED  BY <1>1, <4>1, MulMono
    <3>2. s * (j + 1) \in Nat /\ s * q \in Nat
      BY <1>1, <2>1
    <3> QED  BY <1>1, <3>1, <3>2
  <2>5. ItemAt(b, j % m) = StreamItem(s, j + 1)
    BY <1>0, <1>1, <2>3, <2>4, ItemIs
  <2>6. j + 1 = k + i
    BY <1>1, <2>1
  <2> QED  BY <2>2, <2>5, <2>6
<1>4. Waiting(b) = [i \in 1..c |-> ItemAt(b, (r + i - 1) % m)]
  BY <1>0, <1>1 DEF Waiting
<1>5. Waiting(b) = Stretch(s, k, c)
  BY <1>3, <1>4 DEF Stretch
<1> QED
  BY <1>2, <1>5

\* How far the writer is ahead of the reader in the memory: in the same lap, one
\* lap ahead, or at the very end of the lap that the reader has read.
LEMMA ReaderIs ==
    ASSUME NEW m \in Nat \ {0}, NEW l \in Nat, NEW q \in 0..m, NEW c \in 0..m,
           NEW k \in Nat, l * m + q = k + c
    PROVE  \/ c <= q /\ q - c < m /\ k % m = q - c
           \/ q < c /\ k % m = q - c + m
           \/ q = m /\ c = 0 /\ k % m = 0
<1>1. PICK y \in Int : y = q - c
  OBVIOUS
<1>2. -m <= y /\ y <= m
  BY <1>1
<1>3. l * m \in Nat /\ k = l * m + y
  BY <1>1
<1>4. l * m + y \in Nat
  BY <1>3
<1>5. CASE 0 <= y /\ y < m
  <2>1. (l * m + y) % m = y
    BY <1>4, <1>5, PosIs
  <2> QED  BY <1>1, <1>3, <1>5, <2>1
<1>6. CASE y < 0
  <2>1. (l * m + y) % m = y + m
    BY <1>2, <1>4, <1>6, PosIs
  <2> QED  BY <1>1, <1>3, <1>6, <2>1
<1>7. CASE y = m
  <2>1. q = m /\ c = 0
    BY <1>1, <1>7
  <2>2. m <= y /\ y < 2 * m
    BY <1>7
  <2>3. (l * m + y) % m = y - m
    BY <1>4, <2>2, PosIs
  <2> QED  BY <1>3, <1>7, <2>1, <2>3
<1> QED  BY <1>2, <1>5, <1>6, <1>7

\* What a push that is kept finds
RingRoom(b, size) ==
    /\ size <= b.max_items * b.item_size
    /\ \/ b.count * b.item_size + (b.woffset % b.item_size) + size
              <= b.max_items * b.item_size
       \/ /\ b.count * b.item_size + (b.woffset % b.item_size) = b.max_items * b.item_size
          /\ size % b.item_size = 0
    /\ ~(b.count = 0 /\ b.woffset = b.max_items * b.item_size)

\* A push that is kept leaves the reader at the first item that waits, and what
\* waits fits.
LEMMA PushQueues ==
    ASSUME NEW b, NEW n, RingShape(b), RingMemory(b, n), RingQueue(b, n),
           NEW size \in Nat \ {0}, RingRoom(b, size), NEW d, d = PushData(b, size, n + 1)
    PROVE  /\ RingQueue(d, n + size)
           /\ \E c, u, old, m :
                /\ c = b.count /\ old = n \div b.item_size /\ m = b.max_items
                /\ c \in Nat /\ u \in Nat /\ old \in Nat /\ m \in Nat /\ c <= old
                /\ (n + size) \div b.item_size = old + u
                /\ d.count = IF c + u > m THEN m ELSE c + u
<1>1. PICK s, m, c, r, old, k, a :
        /\ s = b.item_size /\ m = b.max_items /\ c = b.count /\ r = b.read_index
        /\ old = n \div s /\ a = n % s /\ k = old - c
        /\ s \in Nat \ {0} /\ m \in Nat \ {0} /\ c \in Nat /\ old \in Nat /\ k \in Nat
        /\ n \in Nat /\ s * m \in Nat \ {0} /\ s * old + a = n /\ a \in 0..(s - 1)
        /\ n - s * m <= s * k /\ s * k + s * c = s * old /\ c * s + a <= s * m
        /\ c <= m /\ old = k + c /\ r = k % m /\ r \in 0..(m - 1)
  BY WaitingFacts
<1>2. /\ s \in Nat \ {0} /\ m \in Nat \ {0} /\ c \in 0..m /\ old \in Nat /\ k \in Nat
      /\ n \in Nat /\ a \in 0..(s - 1) /\ old = k + c /\ r \in 0..(m - 1)
  BY <1>1
<1>3. /\ s = b.item_size /\ m = b.max_items /\ c = b.count /\ r = b.read_index
      /\ r = k % m
  BY <1>1
<1>4. PICK M : M = s * m
  OBVIOUS
<1>5. M \in Nat \ {0} /\ m * s = M /\ size <= M
  BY <1>2, <1>3, <1>4 DEF RingRoom
<1>6. PICK w : w = b.woffset
  OBVIOUS
<1>7. PICK l \in Nat : n = l * (s * m) + w
  BY <1>3, <1>6 DEF RingMemory
<1>8. w \in 0..M
  BY <1>3, <1>4, <1>6 DEF RingMemory
<1>24. PICK s2, w2, q, f, u :
         /\ s2 = b.item_size /\ w2 = b.woffset /\ q = w2 \div s2
         /\ (w2 + size) \div s2 = q + u /\ f = (w2 + size) % s2
         /\ q \in Nat /\ u \in Nat /\ f \in 0..(s2 - 1)
         /\ s2 * u + f = (w2 % s2) + size
         /\ WriteItems(b, size) = u + (IF f # 0 THEN 1 ELSE 0)
  <2>1. size \in Nat /\ b.item_size \in Nat \ {0} /\ b.woffset \in Nat
    BY <1>2, <1>3, <1>6, <1>8
  <2> QED  BY <2>1, WriteItemsIs
<1>9. /\ q = w \div s /\ (w + size) \div s = q + u /\ f = (w + size) % s
      /\ q \in Nat /\ u \in Nat /\ f \in 0..(s - 1)
      /\ s * u + f = (w % s) + size
      /\ WriteItems(b, size) = u + (IF f # 0 THEN 1 ELSE 0)
  BY <1>3, <1>6, <1>24
<1>10. q \in Nat /\ u \in Nat /\ f \in 0..(s - 1)
  BY <1>9
<1>11. old = l * m + q /\ w % s = a
  <2>1. w \in Nat
    BY <1>8
  <2>2. (l * (s * m) + w) \div s = l * m + (w \div s) /\ (l * (s * m) + w) % s = w % s
    <3>1. s \in Nat \ {0} /\ m \in Nat /\ l \in Nat
      BY <1>2
    <3> QED  BY <2>1, <3>1, Lap, ZenonT(60)
  <2> QED  BY <1>1, <1>7, <1>9, <2>2
<1>12. (n + size) \div s = old + u /\ (n + size) % s = f
  <2>1. PICK x \in Nat : x = w + size
    BY <1>8
  <2>2. (l * (s * m) + x) \div s = l * m + (x \div s) /\ (l * (s * m) + x) % s = x % s
    <3>1. s \in Nat \ {0} /\ m \in Nat /\ l \in Nat
      BY <1>2
    <3> QED  BY <3>1, Lap, ZenonT(60)
  <2>3. l * (s * m) \in Nat /\ l * m \in Nat
    BY <1>2
  <2>4. n + size = l * (s * m) + x
    BY <1>7, <1>8, <2>1, <2>3
  <2>5. x \div s = q + u /\ x % s = f
    BY <1>9, <2>1
  <2>6. l * m + (q + u) = old + u
    BY <1>10, <1>11, <2>3
  <2> QED  BY <2>2, <2>4, <2>5, <2>6
<1>13. s * u + f = a + size
  BY <1>9, <1>11
<1>14. q \in 0..m /\ (q = m => w = M)
  <2>1. s * q + a = w
    <3>1. w \in Nat
      BY <1>8
    <3> QED  BY <1>2, <1>9, <1>11, <3>1, DivIs
  <2>2. s * q + a <= s * m
    BY <1>4, <1>8, <2>1
  <2>3. q <= m
    BY <1>2, <1>10, <2>2, Fit
  <2>4. q = m => w = M
    BY <1>2, <1>4, <1>5, <1>8, <2>1
  <2> QED  BY <1>2, <1>10, <2>3, <2>4
<1>15. \/ c <= q /\ q - c < m /\ r = q - c
       \/ q < c /\ r = q - c + m
  <2>1. l * m + q = k + c
    BY <1>2, <1>11
  <2>2. \/ c <= q /\ q - c < m /\ r = q - c
        \/ q < c /\ r = q - c + m
        \/ q = m /\ c = 0 /\ r = 0
    <3>1. m \in Nat \ {0} /\ q \in 0..m /\ c \in 0..m /\ k \in Nat
      BY <1>2, <1>14
    <3>2. \/ c <= q /\ q - c < m /\ k % m = q - c
          \/ q < c /\ k % m = q - c + m
          \/ q = m /\ c = 0 /\ k % m = 0
      BY <2>1, <3>1, ReaderIs
    <3> QED  BY <1>3, <3>2
  <2>3. ~(q = m /\ c = 0)
    BY <1>3, <1>5, <1>6, <1>14 DEF RingRoom
  <2> QED  BY <2>2, <2>3
<1>16. PICK v : v = WriteItems(b, size)
  OBVIOUS
<1>17. v = u + (IF f # 0 THEN 1 ELSE 0)
  BY <1>9, <1>16
<1>18. /\ d.item_size = s /\ d.max_items = m
       /\ d.read_index = SkipItems(b, v) /\ d.count = CalculateCount(b, v, size)
  <2>1. size <= b.max_items * b.item_size
    BY DEF RingRoom
  <2> QED  BY <1>3, <1>16, <2>1, PushRemembers
<1>19. u # 0 \/ f # 0
  BY <1>2, <1>10, <1>13
<1>23. ASSUME d.count = IF c + u > m THEN m ELSE c + u
       PROVE  \E c2, u2, old2, m2 :
                /\ c2 = b.count /\ old2 = n \div b.item_size /\ m2 = b.max_items
                /\ c2 \in Nat /\ u2 \in Nat /\ old2 \in Nat /\ m2 \in Nat /\ c2 <= old2
                /\ (n + size) \div b.item_size = old2 + u2
                /\ d.count = IF c2 + u2 > m2 THEN m2 ELSE c2 + u2
  <2>1. c = b.count /\ old = n \div b.item_size /\ m = b.max_items
    BY <1>1
  <2>2. c \in Nat /\ u \in Nat /\ old \in Nat /\ m \in Nat /\ c <= old
    BY <1>2, <1>10
  <2>3. (n + size) \div b.item_size = old + u
    BY <1>3, <1>12
  <2> WITNESS c, u, old, m
  <2> QED  BY <1>23, <2>1, <2>2, <2>3
<1>20. CASE c * s + a + size <= M
  <2>1. s * (c + u) + f <= s * m
    <3>1. s * (c + u) = c * s + s * u /\ c * s \in Nat /\ s * u \in Nat
      BY <1>2, <1>10
    <3> QED  BY <1>2, <1>4, <1>5, <1>10, <1>13, <1>20, <3>1
  <2>2. v # 0
    BY <1>10, <1>17, <1>19
  <2>3. q = b.woffset \div s /\ q + u = (b.woffset + size) \div s
    BY <1>6, <1>9
  <2>4. d.count = c + u /\ d.read_index = r /\ c + u <= m
    <3>1. c + u <= m /\ (f # 0 => c + u + 1 <= m)
      BY <1>2, <1>10, <2>1, Fit
    <3>2. v \in Nat /\ v + c <= m
      BY <1>2, <1>10, <1>17, <3>1
    <3>3. SkipItems(b, v) = r
      BY <1>2, <1>3, <3>2 DEF SkipItems
    <3>4. CalculateCount(b, v, size) = (IF r > q THEN m - (r - (q + u)) ELSE (q + u) - r)
      <4>1. ~(v + c > m)
        BY <1>2, <3>2
      <4> QED  BY <1>3, <2>3, <4>1 DEF CalculateCount
    <3>5. CalculateCount(b, v, size) = c + u
      <4>1. CASE c <= q /\ q - c < m /\ r = q - c
        BY <1>2, <1>10, <3>4, <4>1
      <4>2. CASE q < c /\ r = q - c + m
        <5>1. c < m
          BY <1>2, <2>2, <3>2
        <5> QED  BY <1>2, <1>10, <3>4, <4>2, <5>1
      <4> QED  BY <1>15, <4>1, <4>2
    <3> QED  BY <1>18, <3>1, <3>3, <3>5
  <2>5. c + u \in Nat /\ c + u <= old + u /\ (old + u) - (c + u) = k
    BY <1>2, <1>10
  <2>6. (c + u) * s + f <= s * m
    BY <1>2, <1>10, <2>1
  <2>7. RingQueue(d, n + size)
    BY <1>3, <1>12, <1>18, <2>4, <2>5, <2>6 DEF RingQueue
  <2>8. d.count = IF c + u > m THEN m ELSE c + u
    BY <1>2, <1>10, <2>4
  <2> QED  BY <1>23, <2>7, <2>8
<1>21. CASE c * s + a = M /\ size % s = 0
  <2>1. c = m /\ a = 0
    <3>1. s * c + a <= s * m
      BY <1>2, <1>4, <1>21
    <3>2. c <= m /\ (a # 0 => c + 1 <= m)
      BY <1>2, <3>1, Fit
    <3>3. c # m => c + 1 <= m
      BY <1>2
    <3>4. c + 1 <= m => c * s + s <= M
      <4>1. ASSUME c + 1 <= m PROVE c * s + s <= M
        <5>1. s * (c + 1) <= s * m
          BY <1>2, <4>1, MulMono
        <5> QED  BY <1>2, <1>4, <5>1
      <4> QED  BY <4>1
    <3>5. ~(c + 1 <= m)
      <4>1. c * s \in Nat
        BY <1>2
      <4> QED  BY <1>2, <1>5, <1>21, <3>4, <4>1
    <3> QED  BY <3>2, <3>3, <3>5
  <2>2. size = s * u + f
    BY <1>13, <2>1
  <2>3. f = 0
    <3>1. size % s = f
      BY <1>2, <1>10, <2>2, DivUnique
    <3> QED  BY <1>21, <3>1
  <2>4. u \in 1..m /\ v = u
    <3>1. s * u + f <= s * m
      BY <1>4, <1>5, <2>2
    <3>2. u <= m
      BY <1>2, <1>10, <3>1, Fit
    <3> QED  BY <1>10, <1>17, <1>19, <2>3, <3>2
  <2>5. PICK z : z = k \div m
    OBVIOUS
  <2>6. z \in Nat /\ k = m * z + r
    <3>1. k \in Nat /\ m \in Nat \ {0} /\ r = k % m
      BY <1>2, <1>3
    <3> QED  BY <2>5, <3>1, DivIs
  <2>7. d.count = m /\ d.read_index = (k + u) % m
    <3>1. u + m > m /\ ~(u + m <= m)
      BY <1>2, <2>4
    <3>2. CalculateCount(b, u, size) = m
      BY <1>3, <2>1, <3>1 DEF CalculateCount
    <3>3. PICK y \in Nat : y = r + u
      BY <1>2, <1>10
    <3>4. SkipItems(b, u) = IF y >= m THEN y - m ELSE y
      BY <1>3, <2>1, <3>1, <3>3 DEF SkipItems
    <3>5. k + u = z * m + y /\ z * m + y \in Nat /\ y < 2 * m
      BY <1>2, <2>4, <2>6, <3>3
    <3>7. m \in Nat \ {0}
      BY <1>2
    <3>8. z \in Nat
      BY <2>6, Zenon
    <3>6. (z * m + y) % m = IF y >= m THEN y - m ELSE y
      <4>1. CASE y >= m
        <5>1. y - m \in 0..(m - 1) /\ z + 1 \in Nat
          BY <3>5, <3>7, <3>8, <4>1
        <5>2. PICK x \in Nat : x = z * m + y
          BY <3>5
        <5>3. x = m * (z + 1) + (y - m)
          BY <3>7, <3>8, <5>2
        <5>4. x % m = y - m
          BY <3>7, <5>1, <5>3, DivUnique
        <5> QED  BY <4>1, <5>2, <5>4
      <4>2. CASE y < m
        <5>1. y \in 0..(m - 1)
          BY <3>7, <4>2
        <5>2. PICK x \in Nat : x = z * m + y
          BY <3>5
        <5>3. x = m * z + y
          BY <3>7, <3>8, <5>2
        <5>4. x % m = y
          BY <3>7, <3>8, <5>1, <5>3, DivUnique
        <5> QED  BY <3>7, <4>2, <5>2, <5>4
      <4> QED  BY <1>2, <4>1, <4>2
    <3> QED  BY <1>18, <2>4, <3>2, <3>4, <3>5, <3>6
  <2>8. m <= old + u /\ (old + u) - m = k + u
    BY <1>2, <1>10, <2>1
  <2>9. m * s + f <= s * m
    BY <1>4, <1>5, <2>3
  <2>10. RingQueue(d, n + size)
    BY <1>2, <1>12, <1>18, <2>7, <2>8, <2>9 DEF RingQueue
  <2>11. d.count = IF c + u > m THEN m ELSE c + u
    BY <1>2, <1>10, <2>1, <2>7
  <2> QED  BY <1>23, <2>10, <2>11
<1>22. \/ c * s + a + size <= M
       \/ c * s + a = M /\ size % s = 0
  BY <1>3, <1>5, <1>6, <1>11 DEF RingRoom
<1> QED  BY <1>20, <1>21, <1>22

----------------------------------------------------------------------------
(***************************************************************************)
(* Stretches of the stream as sequences.                                   *)
(***************************************************************************)

\* One stretch goes on with the next, ...
LEMMA StretchLonger ==
    ASSUME NEW s, NEW r \in Nat, NEW c \in Nat, NEW k \in Nat
    PROVE  /\ Stretch(s, r, c) \o Stretch(s, r + c, k) = Stretch(s, r, c + k)
           /\ Len(Stretch(s, r, c + k)) = c + k
<1>1. PICK x, y, z : x = Stretch(s, r, c) /\ y = Stretch(s, r + c, k) /\ z = Stretch(s, r, c + k)
  OBVIOUS
<1>2. PICK S : S = {StreamItem(s, j) : j \in Int}
  OBVIOUS
<1>3. /\ x \in Seq(S) /\ Len(x) = c /\ \A i \in 1..c : x[i] = StreamItem(s, r + i)
      /\ y \in Seq(S) /\ Len(y) = k /\ \A i \in 1..k : y[i] = StreamItem(s, (r + c) + i)
      /\ z \in Seq(S) /\ Len(z) = c + k /\ \A i \in 1..(c + k) : z[i] = StreamItem(s, r + i)
  BY <1>1, <1>2 DEF Stretch
<1>4. /\ x \o y \in Seq(S) /\ Len(x \o y) = c + k
      /\ \A i \in 1..(c + k) : (x \o y)[i] = IF i <= c THEN x[i] ELSE y[i - c]
  BY <1>3, ConcatProperties
<1>5. ASSUME NEW i \in 1..(c + k) PROVE (x \o y)[i] = z[i]
  <2>1. CASE i <= c
    BY <1>3, <1>4, <2>1
  <2>2. CASE i > c
    <3>1. i - c \in 1..k /\ (r + c) + (i - c) = r + i
      BY <2>2
    <3>2. (x \o y)[i] = y[i - c]
      BY <1>4, <2>2
    <3> QED  BY <1>3, <3>1, <3>2
  <2>3. i <= c \/ i > c
    OBVIOUS
  <2> QED  BY <2>1, <2>2, <2>3
<1>6. x \o y = z
  BY <1>3, <1>4, <1>5, SeqEqual
<1> QED
  BY <1>1, <1>3, <1>6

\* ... is one without its first e items, ...
LEMMA StretchShorter ==
    ASSUME NEW s, NEW r \in Nat, NEW c \in Nat, NEW e \in 0..c
    PROVE  SubSeq(Stretch(s, r, c), e + 1, c) = Stretch(s, r + e, c - e)
<1>1. PICK x, y : x = Stretch(s, r, c) /\ y = Stretch(s, r + e, c - e)
  OBVIOUS
<1>2. PICK S : S = {StreamItem(s, j) : j \in Int}
  OBVIOUS
<1>3. /\ x \in Seq(S) /\ Len(x) = c /\ \A i \in 1..c : x[i] = StreamItem(s, r + i)
      /\ y \in Seq(S) /\ Len(y) = c - e
      /\ \A i \in 1..(c - e) : y[i] = StreamItem(s, (r + e) + i)
  BY <1>1, <1>2 DEF Stretch
<1>4. PICK z : z = SubSeq(x, e + 1, c)
  OBVIOUS
<1>5. z \in Seq(S) /\ Len(z) = c - e /\ \A i \in 1..(c - e) : z[i] = x[e + i]
  BY <1>3, <1>4
<1>6. ASSUME NEW i \in 1..(c - e) PROVE z[i] = y[i]
  <2>1. e + i \in 1..c /\ r + (e + i) = (r + e) + i
    OBVIOUS
  <2> QED  BY <1>3, <1>5, <2>1
<1>7. z = y
  BY <1>3, <1>5, <1>6, SeqEqual
<1> QED  BY <1>1, <1>4, <1>7

\* ... and begins with its first item.
LEMMA StretchHead ==
    ASSUME NEW s, NEW r \in Nat, NEW c \in Nat, c # 0
    PROVE  /\ Stretch(s, r, c) # <<>>
           /\ Head(Stretch(s, r, c)) = StreamItem(s, r + 1)
           /\ Tail(Stretch(s, r, c)) = Stretch(s, r + 1, c - 1)
<1>1. PICK x, y : x = Stretch(s, r, c) /\ y = Stretch(s, r + 1, c - 1)
  OBVIOUS
<1>2. PICK S : S = {StreamItem(s, j) : j \in Int}
  OBVIOUS
<1>3. /\ x \in Seq(S) /\ Len(x) = c /\ \A i \in 1..c : x[i] = StreamItem(s, r + i)
      /\ y \in Seq(S) /\ Len(y) = c - 1
      /\ \A i \in 1..(c - 1) : y[i] = StreamItem(s, (r + 1) + i)
  BY <1>1, <1>2 DEF Stretch
<1>4. x # <<>>
  BY <1>3
<1>5. Tail(x) \in Seq(S) /\ Len(Tail(x)) = c - 1
  BY <1>3, <1>4
<1>6. ASSUME NEW i \in 1..(c - 1) PROVE Tail(x)[i] = y[i]
  <2>1. Tail(x)[i] = x[i + 1] /\ i + 1 \in 1..c /\ (r + 1) + i = r + (i + 1)
    BY <1>3, <1>4
  <2> QED  BY <1>3, <2>1
<1>7. Tail(x) = y
  BY <1>3, <1>5, <1>6, SeqEqual
<1>8. Head(x) = x[1]
  BY <1>3, <1>4
<1> QED
  BY <1>1, <1>3, <1>4, <1>7, <1>8

\* No items
LEMMA StretchEmpty == ASSUME NEW s, NEW r PROVE Stretch(s, r, 0) = <<>>
  BY DEF Stretch

----------------------------------------------------------------------------
(***************************************************************************)
(* Every step of the ring buffer is one of the queue.                      *)
(***************************************************************************)

\* The items of the queue's stream
LEMMA QueueItemIs == \A k : Queue!ItemAt(k) = StreamItem(rb.item_size, k)
  BY DEF Queue!ItemAt, StreamItem

\* Nothing pushed, nothing waits.
LEMMA EmptyHolds ==
    ASSUME NEW b, b.item_size \in Nat \ {0}, b.max_items \in Nat \ {0},
           [size |-> b.item_size, capacity |-> b.max_items] \in Geometries,
           b.read_index = 0, b.count = 0, b.woffset = 0,
           DOMAIN b.buf = 0..(b.item_size * b.max_items - 1)
    PROVE  RingMemory(b, 0) /\ RingQueue(b, 0)
<1>1. PICK s, m, M : s = b.item_size /\ m = b.max_items /\ M = s * m
  OBVIOUS
<1>2. s \in Nat \ {0} /\ m \in Nat \ {0} /\ M \in Nat \ {0}
  BY <1>1
<1>3. 0 \div s = 0 /\ 0 % s = 0 /\ 0 % m = 0
  BY <1>2
<1>4. 0 = 0 * M + 0
  BY <1>2
<1>5. RingMemory(b, 0)
  BY <1>1, <1>2, <1>4 DEF RingMemory
<1>6. RingQueue(b, 0)
  BY <1>1, <1>2, <1>3 DEF RingQueue
<1> QED  BY <1>5, <1>6

\* A new buffer and a cleared one hold nothing.
LEMMA NewHolds ==
    ASSUME NEW g \in Geometries, NEW b, b = NewBuffer(g)
    PROVE  /\ RingShape(b) /\ RingMemory(b, 0) /\ RingQueue(b, 0) /\ b.count = 0
           /\ [size |-> b.item_size, capacity |-> b.max_items] = g
<1>1. PICK s, m : g = [size |-> s, capacity |-> m] /\ s \in Nat \ {0} /\ m \in Nat \ {0}
  BY RingBufferAssumption
<1>2. /\ b.item_size = s /\ b.max_items = m /\ b.read_index = 0 /\ b.count = 0 /\ b.woffset = 0
      /\ b.buf = [o \in 0..(s * m - 1) |-> 0] /\ RingShape(b)
  BY <1>1 DEF NewBuffer, RingShape
<1>3. [size |-> b.item_size, capacity |-> b.max_items] = g
  BY <1>1, <1>2
<1> QED  BY <1>1, <1>2, <1>3, EmptyHolds

\* A cleared buffer keeps its geometry.
LEMMA ClearHolds ==
    ASSUME NEW b, NEW n, RingShape(b), RingMemory(b, n), NEW d, d = ClearItems(b)
    PROVE  /\ RingShape(d) /\ RingMemory(d, 0) /\ RingQueue(d, 0) /\ d.count = 0
           /\ d.item_size = b.item_size /\ d.max_items = b.max_items
<1>1. /\ d.item_size = b.item_size /\ d.max_items = b.max_items /\ d.read_index = 0
      /\ d.count = 0 /\ d.woffset = 0 /\ d.buf = b.buf /\ RingShape(d)
  BY DEF ClearItems, RingShape
<1>2. /\ d.item_size \in Nat \ {0} /\ d.max_items \in Nat \ {0}
      /\ [size |-> d.item_size, capacity |-> d.max_items] \in Geometries
      /\ DOMAIN d.buf = 0..(d.item_size * d.max_items - 1)
  BY <1>1 DEF RingMemory
<1> QED  BY <1>1, <1>2, EmptyHolds

\* A read takes the first item and moves the reader on.
LEMMA ReadHolds ==
    ASSUME NEW b, NEW n, RingShape(b), RingMemory(b, n), NEW d, d = ReadItem(b)
    PROVE  /\ RingShape(d) /\ RingMemory(d, n)
           /\ d.item_size = b.item_size /\ d.max_items = b.max_items
           /\ RingQueue(b, n) /\ b.count # 0
                => /\ RingQueue(d, n) /\ d.count = b.count - 1
                   /\ ItemAt(b, b.read_index)
                         = StreamItem(b.item_size, ((n \div b.item_size) - b.count) + 1)
<1>1. /\ d.item_size = b.item_size /\ d.max_items = b.max_items /\ d.woffset = b.woffset
      /\ d.buf = b.buf /\ RingShape(d)
  BY DEF ReadItem, RingShape
<1>2. RingMemory(d, n)
  BY <1>1 DEF RingMemory
<1>3. ASSUME RingQueue(b, n), b.count # 0
      PROVE  /\ RingQueue(d, n) /\ d.count = b.count - 1
             /\ ItemAt(b, b.read_index)
                   = StreamItem(b.item_size, ((n \div b.item_size) - b.count) + 1)
  <2>1. PICK s, m, c, r, q, k, a :
          /\ s = b.item_size /\ m = b.max_items /\ c = b.count /\ r = b.read_index
          /\ q = n \div s /\ a = n % s /\ k = q - c
          /\ s \in Nat \ {0} /\ m \in Nat \ {0} /\ c \in Nat /\ q \in Nat /\ k \in Nat
          /\ n \in Nat /\ s * m \in Nat \ {0} /\ s * q + a = n /\ a \in 0..(s - 1)
          /\ n - s * m <= s * k /\ s * k + s * c = s * q /\ c * s + a <= s * m
          /\ c <= m /\ q = k + c /\ r = k % m /\ r \in 0..(m - 1)
    BY <1>3, WaitingFacts
  <2>2. /\ s \in Nat \ {0} /\ m \in Nat \ {0} /\ c \in Nat \ {0} /\ q \in Nat /\ k \in Nat
        /\ q = k + c /\ r \in 0..(m - 1) /\ a \in 0..(s - 1) /\ n \in Nat
    BY <1>3, <2>1
  <2>3. s = b.item_size /\ m = b.max_items /\ c = b.count /\ r = b.read_index /\ r = k % m
    BY <2>1
  <2>4. q = n \div s /\ a = n % s
    BY <2>1
  <2>5. s * q + a = n /\ n - s * m <= s * k /\ c * s + a <= s * m
    BY <2>1
  <2>6. d.count = c - 1 /\ d.read_index = (IF r + 1 = m THEN 0 ELSE r + 1)
    <3>1. ~(c <= 0)
      BY <2>2
    <3> QED  BY <2>3, <3>1 DEF ReadItem, RingShape
  <2>7. (k + 1) % m = IF r + 1 = m THEN 0 ELSE r + 1
    <3>1. PICK z : z = k \div m
      OBVIOUS
    <3>2. z \in Nat /\ k = m * z + r
      <4>1. k \in Nat /\ m \in Nat \ {0} /\ r = k % m
        BY <2>2, <2>3
      <4> QED  BY <3>1, <4>1, DivIs
    <3>3. PICK j \in Nat : j = k + 1
      BY <2>2
    <3>4. CASE r + 1 = m
      <4>1. j = m * (z + 1) + 0 /\ z + 1 \in Nat /\ 0 \in 0..(m - 1)
        BY <2>2, <3>2, <3>3, <3>4
      <4>2. j % m = 0
        BY <2>2, <4>1, DivUnique
      <4> QED  BY <3>3, <3>4, <4>2
    <3>5. CASE r + 1 # m
      <4>1. j = m * z + (r + 1) /\ r + 1 \in 0..(m - 1)
        BY <2>2, <3>2, <3>3, <3>5
      <4>2. j % m = r + 1
        BY <2>2, <3>2, <4>1, DivUnique
      <4> QED  BY <3>3, <3>5, <4>2
    <3> QED  BY <3>4, <3>5
  <2>8. /\ c - 1 \in Nat /\ c - 1 <= q /\ q - (c - 1) = k + 1
        /\ (c - 1) * s + a <= s * m
    <3>1. (c - 1) * s = c * s - s /\ c * s \in Nat
      BY <2>2
    <3>2. (c - 1) * s + a <= s * m
      <4>1. s * m \in Nat
        BY <2>2
      <4> QED  BY <2>2, <2>5, <3>1, <4>1
    <3> QED  BY <2>2, <3>2
  <2>9. RingQueue(d, n)
    BY <1>1, <2>3, <2>4, <2>6, <2>7, <2>8 DEF RingQueue
  <2>10. ItemAt(b, r) = StreamItem(s, k + 1)
    <3>1. s * (k + 1) <= n
      <4>1. k + 1 \in Nat /\ k + 1 <= q
        BY <2>2
      <4>2. s * (k + 1) <= s * q
        BY <2>2, <4>1, MulMono
      <4>3. s * (k + 1) \in Nat /\ s * q \in Nat
        BY <2>2
      <4> QED  BY <2>2, <2>5, <4>2, <4>3
    <3>2. n - s * m <= s * k
      BY <2>5
    <3> QED  BY <2>2, <2>3, <3>1, <3>2, ItemIs
  <2>11. k = (n \div b.item_size) - b.count
    BY <2>1
  <2> QED  BY <2>3, <2>6, <2>9, <2>10, <2>11
<1> QED  BY <1>1, <1>2, <1>3

\* What the queue keeps and its push of n bytes in the words of the buffer
QueueKept(n) ==
    LET memory == rb.item_size * rb.max_items
        unread == Len(Waiting(rb)) * rb.item_size + (pushed % rb.item_size)
    IN  /\ unread + n <= memory \/ (unread = memory /\ n % rb.item_size = 0)
        /\ ~(Waiting(rb) = <<>> /\ pushed > 0 /\ pushed % memory = 0)

QueueAppended(n) ==
    LET old == pushed \div rb.item_size
        new == (pushed + n) \div rb.item_size
    IN  Waiting(rb) \o [i \in 1..(new - old) |-> Queue!ItemAt(old + i)]

QueuePush(n) ==
    /\ n <= rb.item_size * rb.max_items
    /\ pushed' = pushed + n
    /\ rb'.item_size = rb.item_size /\ rb'.max_items = rb.max_items
    /\ IF ~overrun /\ QueueKept(n)
         THEN LET all == QueueAppended(n)
                  drop == IF Len(all) > rb.max_items THEN Len(all) - rb.max_items ELSE 0
              IN  /\ Waiting(rb)' = SubSeq(all, drop + 1, Len(all))
                  /\ item' = item /\ overrun' = overrun
         ELSE overrun' = TRUE

\* It is the queue's push.
LEMMA QueuePushes ==
    ASSUME NEW n \in Sizes, QueuePush(n)
    PROVE  Queue!Push
<1>1. Queue!Kept(n) <=> QueueKept(n)
  BY DEF Queue!Kept, QueueKept, Waiting
<1>2. Queue!Appended(n) = QueueAppended(n)
  BY DEF Queue!Appended, QueueAppended, Waiting
<1> QED  BY <1>1, <1>2 DEF QueuePush, Waiting, Queue!Push

\* What waits is as long as count says.
LEMMA WaitingLen ==
    ASSUME NEW b, b.count \in Nat
    PROVE  Len(Waiting(b)) = b.count /\ (Waiting(b) = <<>> <=> b.count = 0)
<1>1. PICK c \in Nat : c = b.count
  OBVIOUS
<1>2. Waiting(b) = [i \in 1..c |-> ItemAt(b, (b.read_index + i - 1) % b.max_items)]
  BY <1>1 DEF Waiting
<1> QED  BY <1>1, <1>2

\* The buffer and the queue keep the same pushes.
LEMMA KeepsIsKept ==
    ASSUME RingMemory(rb, pushed), RingQueue(rb, pushed), NEW size \in Nat
    PROVE  QueueKept(size) <=> Keeps(size)
<1>1. PICK s, m, M, w, c :
        s = rb.item_size /\ m = rb.max_items /\ M = s * m /\ w = rb.woffset /\ c = rb.count
  OBVIOUS
<1>2. /\ s \in Nat \ {0} /\ m \in Nat \ {0} /\ c \in Nat /\ w \in 0..M /\ pushed \in Nat
      /\ (w = 0 => pushed = 0)
  BY <1>1 DEF RingMemory, RingQueue
<1>3. M \in Nat \ {0} /\ m * s = M
  BY <1>1, <1>2
<1>4. PICK l \in Nat : pushed = l * (s * m) + w
  BY <1>1 DEF RingMemory
<1>5. pushed % s = w % s
  <2>3. w \in Nat
    BY <1>2, <1>3
  <2>1. s \in Nat \ {0} /\ m \in Nat
    BY <1>2
  <2>2. (l * (s * m) + w) % s = w % s
    BY <2>1, <2>3, Lap, ZenonT(60)
  <2> QED  BY <1>4, <2>2
<1>6. (pushed > 0 /\ pushed % M = 0) <=> w = M
  <2>1. PICK P \in Nat : P = M * l /\ pushed = P + w
    BY <1>1, <1>3, <1>4
  <2>2. CASE w = M
    <3>1. pushed = M * (l + 1) + 0 /\ l + 1 \in Nat /\ 0 \in 0..(M - 1)
      BY <1>3, <2>1, <2>2
    <3>2. pushed % M = 0
      BY <1>2, <1>3, <3>1, DivUnique
    <3> QED  BY <1>3, <2>1, <2>2, <3>2
  <2>3. CASE w # M
    <3>1. pushed = M * l + w /\ w \in 0..(M - 1)
      BY <1>2, <1>3, <2>1, <2>3
    <3>2. pushed % M = w
      BY <1>2, <1>3, <3>1, DivUnique
    <3> QED  BY <1>2, <2>3, <3>2
  <2> QED  BY <2>2, <2>3
<1>7. Len(Waiting(rb)) = c /\ (Waiting(rb) = <<>> <=> c = 0)
  BY <1>1, <1>2, WaitingLen
<1>8. PICK x : x = c * s + (w % s)
  OBVIOUS
<1>9. QueueKept(size) <=>
        /\ x + size <= M \/ (x = M /\ size % s = 0)
        /\ ~(c = 0 /\ w = M)
  BY <1>1, <1>5, <1>6, <1>7, <1>8 DEF QueueKept
<1>10. Keeps(size) <=>
        /\ x + size <= M \/ (x = M /\ size % s = 0)
        /\ ~(c = 0 /\ w = M)
  BY <1>1, <1>3, <1>8 DEF Keeps
<1> QED  BY <1>9, <1>10

\* Bytes pushed into the buffer are bytes pushed into the queue.
LEMMA PushRefines ==
    ASSUME RingInv, NEW size \in Sizes, Push(size)
    PROVE  RingInv' /\ Queue!Push
<1>1. size \in Nat \ {0} /\ size <= rb.max_items * rb.item_size
  BY RingBufferAssumption DEF Push
<1>2. /\ rb' = PushData(rb, size, pushed + 1) /\ pushed' = pushed + size /\ item' = item
      /\ overrun' = (overrun \/ ~Keeps(size))
  BY DEF Push
<1>3. RingShape(rb) /\ RingMemory(rb, pushed) /\ overrun \in BOOLEAN
  BY DEF RingInv
<1>4. /\ RingShape(rb') /\ RingMemory(rb', pushed')
      /\ rb'.item_size = rb.item_size /\ rb'.max_items = rb.max_items
  BY <1>1, <1>2, <1>3, PushRemembers
<1>5. size <= rb.item_size * rb.max_items
  <2>1. rb.item_size \in Nat /\ rb.max_items \in Nat
    BY <1>3 DEF RingMemory
  <2>2. rb.item_size * rb.max_items = rb.max_items * rb.item_size
    BY <2>1
  <2> QED  BY <1>1, <2>2
<1>6. CASE overrun \/ ~Keeps(size)
  <2>1. overrun' = TRUE
    BY <1>2, <1>6
  <2>2. RingInv'
    BY <1>4, <2>1 DEF RingInv
  <2>3. ~(~overrun /\ QueueKept(size))
    <3>1. CASE overrun
      BY <3>1
    <3>2. CASE ~overrun
      <4>1. RingQueue(rb, pushed)
        BY <3>2 DEF RingInv
      <4>2. QueueKept(size) <=> Keeps(size)
        BY <1>1, <1>3, <4>1, KeepsIsKept
      <4> QED  BY <1>6, <3>2, <4>2
    <3> QED  BY <3>1, <3>2
  <2>4. QueuePush(size)
    BY <1>2, <1>4, <1>5, <2>1, <2>3 DEF QueuePush
  <2> QED  BY <2>2, <2>4, QueuePushes
<1>7. CASE ~overrun /\ Keeps(size)
  <2>1. overrun' = FALSE /\ overrun' = overrun
    BY <1>2, <1>3, <1>7
  <2>2. RingQueue(rb, pushed)
    BY <1>7 DEF RingInv
  <2>3. RingRoom(rb, size)
    BY <1>1, <1>7 DEF Keeps, RingRoom
  <2>4. /\ RingQueue(rb', pushed + size)
        /\ \E c, u, old, m :
             /\ c = rb.count /\ old = pushed \div rb.item_size /\ m = rb.max_items
             /\ c \in Nat /\ u \in Nat /\ old \in Nat /\ m \in Nat /\ c <= old
             /\ (pushed + size) \div rb.item_size = old + u
             /\ rb'.count = IF c + u > m THEN m ELSE c + u
    BY <1>1, <1>2, <1>3, <2>2, <2>3, PushQueues
  <2>5. RingInv'
    BY <1>2, <1>4, <2>1, <2>4 DEF RingInv
  <2>6. PICK c, u, old, m :
          /\ c = rb.count /\ old = pushed \div rb.item_size /\ m = rb.max_items
          /\ c \in Nat /\ u \in Nat /\ old \in Nat /\ m \in Nat /\ c <= old
          /\ (pushed + size) \div rb.item_size = old + u
          /\ rb'.count = IF c + u > m THEN m ELSE c + u
    BY <2>4
  <2>7. PICK s, k : s = rb.item_size /\ k = old - c
    OBVIOUS
  <2>8. c \in Nat /\ u \in Nat /\ old \in Nat /\ m \in Nat /\ k \in Nat /\ old = k + c
    BY <2>6, <2>7
  <2>9. Waiting(rb) = Stretch(s, k, c)
    <3>1. Waiting(rb) =
            Stretch(rb.item_size, (pushed \div rb.item_size) - rb.count, rb.count)
      BY <1>3, <2>2, WaitingIs
    <3>2. k = (pushed \div rb.item_size) - rb.count
      BY <2>6, <2>7
    <3> QED  BY <2>6, <2>7, <3>1, <3>2
  <2>10. PICK d, e : d = rb'.count /\ e = IF c + u > m THEN (c + u) - m ELSE 0
    OBVIOUS
  <2>11. e \in 0..(c + u) /\ d = (c + u) - e /\ (old + u) - d = k + e
    <3>1. d = IF c + u > m THEN m ELSE c + u
      BY <2>6, <2>10
    <3> QED  BY <2>8, <2>10, <3>1
  <2>12. Waiting(rb') = Stretch(s, k + e, d)
    <3>1. Waiting(rb') =
            Stretch(rb'.item_size, ((pushed + size) \div rb'.item_size) - rb'.count, rb'.count)
      BY <1>2, <1>4, <2>4, WaitingIs
    <3>2. ((pushed + size) \div rb'.item_size) - rb'.count = (old + u) - d
      BY <1>4, <2>6, <2>10
    <3> QED  BY <1>4, <2>7, <2>10, <2>11, <3>1, <3>2
  <2>13. PICK all : all = QueueAppended(size)
    OBVIOUS
  <2>14. all = Stretch(s, k, c + u) /\ Len(all) = c + u
    <3>1. [i \in 1..((old + u) - old) |-> Queue!ItemAt(old + i)] = Stretch(s, old, u)
      <4>1. (old + u) - old = u
        BY <2>8
      <4> QED  BY <2>7, <4>1, QueueItemIs DEF Stretch
    <3>2. all = Stretch(s, k, c) \o Stretch(s, k + c, u)
      BY <2>6, <2>8, <2>9, <2>13, <3>1 DEF QueueAppended
    <3>3. k \in Nat /\ c \in Nat /\ u \in Nat
      BY <2>8
    <3>4. Stretch(s, k, c) \o Stretch(s, k + c, u) = Stretch(s, k, c + u)
      BY <3>3, StretchLonger, Zenon
    <3>5. Len(Stretch(s, k, c + u)) = c + u
      BY <3>3, StretchLonger, Zenon
    <3> QED  BY <3>2, <3>4, <3>5, Zenon
  <2>15. SubSeq(all, e + 1, Len(all)) = Stretch(s, k + e, d)
    <3>1. PICK x : x = c + u
      OBVIOUS
    <3>2. x \in Nat /\ k \in Nat /\ e \in 0..x /\ d = x - e
      BY <2>8, <2>11, <3>1
    <3>3. SubSeq(Stretch(s, k, x), e + 1, x) = Stretch(s, k + e, x - e)
      BY <3>2, StretchShorter, Zenon
    <3> QED  BY <2>14, <3>1, <3>2, <3>3, Zenon
  <2>16. Waiting(rb)' = SubSeq(all, e + 1, Len(all))
    BY <2>12, <2>15
  <2>17. e = IF Len(all) > rb.max_items THEN Len(all) - rb.max_items ELSE 0
    BY <2>6, <2>10, <2>14
  <2>18. QueueKept(size)
    BY <1>1, <1>3, <1>7, <2>2, KeepsIsKept
  <2>19. QueuePush(size)
    BY <1>2, <1>4, <1>5, <1>7, <2>1, <2>13, <2>16, <2>17, <2>18 DEF QueuePush
  <2> QED  BY <2>5, <2>19, QueuePushes
<1> QED  BY <1>6, <1>7

\* The queue's other steps, its initial states and its variables in the words
\* of the buffer
RingGeometry == [size |-> rb.item_size, capacity |-> rb.max_items]

QueueInit ==
    /\ RingGeometry \in Geometries /\ pushed = 0 /\ Waiting(rb) = <<>> /\ item = <<>>
    /\ overrun = FALSE

QueueClear ==
    /\ RingGeometry' \in Geometries /\ pushed' = 0 /\ Waiting(rb)' = <<>> /\ item' = <<>>
    /\ overrun' = FALSE

QueueRead ==
    /\ ~overrun => IF Waiting(rb) = <<>> THEN item' = <<>> /\ Waiting(rb)' = Waiting(rb)
                   ELSE item' = Head(Waiting(rb)) /\ Waiting(rb)' = Tail(Waiting(rb))
    /\ RingGeometry' = RingGeometry /\ pushed' = pushed /\ overrun' = overrun

\* They are the queue's.
LEMMA QueueInits == QueueInit => Queue!Init
  BY DEF QueueInit, RingGeometry, Waiting, Queue!Init

LEMMA QueueClears == QueueClear => Queue!Clear
  BY DEF QueueClear, RingGeometry, Waiting, Queue!Clear

LEMMA QueueReads == QueueRead => Queue!Read
  BY DEF QueueRead, RingGeometry, Waiting, Queue!Read

LEMMA QueueStutters == UNCHANGED ringVars => UNCHANGED Queue!vars
  BY DEF ringVars, Queue!vars

\* An empty buffer is an empty queue.
LEMMA EmptyWaiting == ASSUME NEW b, b.count = 0 PROVE Waiting(b) = <<>>
  BY DEF Waiting

\* A new buffer is a new queue.
LEMMA InitRefines == ASSUME RingInit PROVE RingInv /\ Queue!Init
<1>1. PICK g \in Geometries : rb = NewBuffer(g)
  BY DEF RingInit
<1>2. pushed = 0 /\ item = <<>> /\ overrun = FALSE
  BY DEF RingInit
<1>3. /\ RingShape(rb) /\ RingMemory(rb, 0) /\ RingQueue(rb, 0) /\ rb.count = 0
      /\ RingGeometry = g
  BY <1>1, NewHolds DEF RingGeometry
<1>4. Waiting(rb) = <<>>
  BY <1>3, EmptyWaiting
<1>5. RingInv
  BY <1>2, <1>3 DEF RingInv
<1>6. QueueInit
  BY <1>2, <1>3, <1>4 DEF QueueInit
<1> QED  BY <1>5, <1>6, QueueInits

\* To clear or to resize the buffer clears the queue; to resize it to what it
\* has changes neither.
LEMMA ClearRefines == ASSUME RingInv, Clear PROVE RingInv' /\ Queue!Clear
<1>1. rb' = ClearItems(rb) /\ pushed' = 0 /\ item' = <<>> /\ overrun' = FALSE
  BY DEF Clear
<1>2. RingShape(rb) /\ RingMemory(rb, pushed)
  BY DEF RingInv
<1>3. /\ RingShape(rb') /\ RingMemory(rb', 0) /\ RingQueue(rb', 0) /\ rb'.count = 0
      /\ rb'.item_size = rb.item_size /\ rb'.max_items = rb.max_items
  BY <1>1, <1>2, ClearHolds
<1>4. RingGeometry' = RingGeometry /\ RingGeometry \in Geometries
  BY <1>2, <1>3 DEF RingGeometry, RingMemory
<1>5. Waiting(rb') = <<>>
  BY <1>3, EmptyWaiting
<1>6. RingInv'
  BY <1>1, <1>3 DEF RingInv
<1>7. QueueClear
  BY <1>1, <1>4, <1>5 DEF QueueClear
<1> QED  BY <1>6, <1>7, QueueClears

LEMMA ResizeRefines ==
    ASSUME RingInv, NEW g \in Geometries, Resize(g)
    PROVE  RingInv' /\ (Queue!Clear \/ UNCHANGED Queue!vars)
<1>1. CASE rb' = rb
  <2>1. UNCHANGED ringVars
    BY <1>1 DEF Resize, ringVars
  <2>2. UNCHANGED Queue!vars
    BY <2>1, QueueStutters
  <2>3. RingInv'
    BY <2>1 DEF RingInv, ringVars
  <2> QED  BY <2>2, <2>3
<1>2. CASE rb' # rb
  <2>1. rb' = NewBuffer(g) /\ pushed' = 0 /\ item' = <<>> /\ overrun' = FALSE
    BY <1>2 DEF Resize, Resized
  <2>2. /\ RingShape(rb') /\ RingMemory(rb', 0) /\ RingQueue(rb', 0) /\ rb'.count = 0
        /\ RingGeometry' = g
    BY <2>1, NewHolds DEF RingGeometry
  <2>3. Waiting(rb') = <<>>
    BY <2>2, EmptyWaiting
  <2>4. RingInv'
    BY <2>1, <2>2 DEF RingInv
  <2>5. QueueClear
    BY <2>1, <2>2, <2>3 DEF QueueClear
  <2> QED  BY <2>4, <2>5, QueueClears
<1> QED  BY <1>1, <1>2

\* What is read from the buffer is the head of the queue.
LEMMA ReadRefines == ASSUME RingInv, Read PROVE RingInv' /\ Queue!Read
<1>1. /\ item' = (IF rb.count <= 0 THEN <<>> ELSE ItemAt(rb, rb.read_index))
      /\ rb' = ReadItem(rb) /\ pushed' = pushed /\ overrun' = overrun
  BY DEF Read
<1>2. RingShape(rb) /\ RingMemory(rb, pushed) /\ overrun \in BOOLEAN
  BY DEF RingInv
<1>3. /\ RingShape(rb') /\ RingMemory(rb', pushed)
      /\ rb'.item_size = rb.item_size /\ rb'.max_items = rb.max_items
      /\ RingQueue(rb, pushed) /\ rb.count # 0
           => /\ RingQueue(rb', pushed) /\ rb'.count = rb.count - 1
              /\ ItemAt(rb, rb.read_index)
                    = StreamItem(rb.item_size, ((pushed \div rb.item_size) - rb.count) + 1)
  BY <1>1, <1>2, ReadHolds
<1>4. RingGeometry' = RingGeometry
  BY <1>3 DEF RingGeometry
<1>5. CASE overrun
  <2>1. RingInv'
    BY <1>1, <1>2, <1>3, <1>5 DEF RingInv
  <2>2. QueueRead
    BY <1>1, <1>4, <1>5 DEF QueueRead
  <2> QED  BY <2>1, <2>2, QueueReads
<1>6. CASE ~overrun /\ rb.count = 0
  <2>1. rb' = rb /\ item' = <<>>
    BY <1>1, <1>6 DEF ReadItem
  <2>2. Waiting(rb) = <<>>
    BY <1>6, EmptyWaiting
  <2>3. RingInv'
    BY <1>1, <2>1 DEF RingInv
  <2>4. QueueRead
    BY <1>1, <2>1, <2>2 DEF QueueRead, RingGeometry
  <2> QED  BY <2>3, <2>4, QueueReads
<1>7. CASE ~overrun /\ rb.count # 0
  <2>1. RingQueue(rb, pushed)
    BY <1>7 DEF RingInv
  <2>2. PICK s, c, k, q : /\ s = rb.item_size /\ c = rb.count /\ q = pushed \div s
                          /\ k = q - c
    OBVIOUS
  <2>3. c \in Nat \ {0} /\ k \in Nat
    <3>1. s \in Nat \ {0} /\ pushed \in Nat /\ c \in Nat /\ c <= q
      BY <2>1, <1>2, <2>2 DEF RingQueue, RingMemory
    <3>2. q \in Nat
      BY <2>2, <3>1, DivIs
    <3> QED  BY <1>7, <2>2, <3>1, <3>2
  <2>4. /\ RingQueue(rb', pushed) /\ rb'.count = c - 1
        /\ ItemAt(rb, rb.read_index) = StreamItem(s, k + 1)
    BY <1>3, <1>7, <2>1, <2>2
  <2>5. Waiting(rb) = Stretch(s, k, c)
    BY <1>2, <2>1, <2>2, WaitingIs
  <2>6. Waiting(rb') = Stretch(s, k + 1, c - 1)
    <3>1. Waiting(rb') =
            Stretch(rb'.item_size, (pushed \div rb'.item_size) - rb'.count, rb'.count)
      BY <1>3, <2>4, WaitingIs
    <3>2. (pushed \div rb'.item_size) - rb'.count = q - (c - 1)
      BY <1>3, <2>2, <2>4
    <3>3. q - (c - 1) = k + 1
      <4>1. q \in Int
        <5>1. s \in Nat \ {0} /\ pushed \in Nat /\ q = pushed \div s
          BY <1>2, <2>2 DEF RingMemory
        <5> QED  BY <5>1, DivIs
      <4>2. k = q - c
        BY <2>2
      <4> QED  BY <2>3, <4>1, <4>2
    <3>4. rb'.item_size = s
      BY <1>3, <2>2
    <3> QED  BY <2>4, <3>1, <3>2, <3>3, <3>4
  <2>7. /\ Stretch(s, k, c) # <<>> /\ Head(Stretch(s, k, c)) = StreamItem(s, k + 1)
        /\ Tail(Stretch(s, k, c)) = Stretch(s, k + 1, c - 1)
    BY <2>3, StretchHead
  <2>8. item' = StreamItem(s, k + 1)
    <3>1. ~(rb.count <= 0)
      BY <2>2, <2>3
    <3> QED  BY <1>1, <2>4, <3>1
  <2>9. /\ Waiting(rb) # <<>> /\ item' = Head(Waiting(rb))
        /\ Waiting(rb') = Tail(Waiting(rb))
    BY <2>5, <2>6, <2>7, <2>8, Zenon
  <2>10. QueueRead
    BY <1>1, <1>4, <2>9 DEF QueueRead
  <2>11. RingInv'
    BY <1>1, <1>2, <1>3, <2>4 DEF RingInv
  <2> QED  BY <2>10, <2>11, QueueReads
<1> QED  BY <1>2, <1>5, <1>6, <1>7

\* The ring buffer implements the queue that it is, until a push is beyond what
\* it keeps, and again from the next clear on: in every item handed out until
\* then are the bytes of the stream, in order, lap after lap of the memory, and
\* none is dropped but the oldest of a full one.
THEOREM RingImplementsQueue == RingSpec => ImplementsQueue
<1>1. RingInit => RingInv /\ Queue!Init
  BY InitRefines
<1>2. RingInv /\ [RingNext]_ringVars => RingInv' /\ [Queue!Next]_(Queue!vars)
  <2> SUFFICES ASSUME RingInv, [RingNext]_ringVars
               PROVE  RingInv' /\ [Queue!Next]_(Queue!vars)
    OBVIOUS
  <2>1. ASSUME NEW size \in Sizes, Push(size) PROVE RingInv' /\ Queue!Next
    BY <2>1, PushRefines DEF Queue!Next
  <2>2. ASSUME Read PROVE RingInv' /\ Queue!Next
    BY <2>2, ReadRefines DEF Queue!Next
  <2>3. ASSUME Clear PROVE RingInv' /\ Queue!Next
    BY <2>3, ClearRefines DEF Queue!Next
  <2>4. ASSUME NEW g \in Geometries, Resize(g)
        PROVE  RingInv' /\ (Queue!Next \/ UNCHANGED Queue!vars)
    BY <2>4, ResizeRefines DEF Queue!Next
  <2>5. ASSUME UNCHANGED ringVars PROVE RingInv' /\ UNCHANGED Queue!vars
    <3>1. RingInv'
      BY <2>5 DEF RingInv, ringVars
    <3> QED  BY <2>5, <3>1, QueueStutters
  <2> QED  BY <2>1, <2>2, <2>3, <2>4, <2>5 DEF RingNext
<1> QED  BY <1>1, <1>2, PTL DEF RingSpec, ImplementsQueue, Queue!Spec

----------------------------------------------------------------------------
(***************************************************************************)
(* The positions, also of a reader that lost its place.                    *)
(***************************************************************************)

\* A push leaves an item of the memory free but for its first byte, as the 6400
\* bytes that PortAudio brings leave most of 50 items of 3200.
ShortPushes == \A g \in Geometries, n \in Sizes : n <= g.size * (g.capacity - 1) + 1

RingPlaces ==
    /\ RingShape(rb) /\ RingMemory(rb, pushed)
    /\ rb.read_index \in 0..(rb.max_items - 1) /\ rb.count \in Int

\* Then it touches no more items than there are.
LEMMA WriteItemsFit ==
    ASSUME NEW b, NEW n, RingMemory(b, n), NEW size \in Nat \ {0},
           size <= b.item_size * (b.max_items - 1) + 1
    PROVE  WriteItems(b, size) \in 0..b.max_items /\ size <= b.max_items * b.item_size
<1>1. PICK s, m, w : s = b.item_size /\ m = b.max_items /\ w = b.woffset
  OBVIOUS
<1>2. s \in Nat \ {0} /\ m \in Nat \ {0} /\ w \in Nat
  <2>1. s \in Nat \ {0} /\ m \in Nat \ {0} /\ w \in 0..(s * m)
    BY <1>1 DEF RingMemory
  <2>2. s * m \in Nat
    BY <2>1
  <2> QED  BY <2>1, <2>2
<1>3. PICK a, j : a = w % s /\ j = s * m
  OBVIOUS
<1>4. a \in 0..(s - 1) /\ j \in Nat /\ s * (m - 1) = j - s /\ m * s = j
  <2>1. a \in 0..(s - 1)
    BY <1>2, <1>3, DivIs
  <2> QED  BY <1>2, <1>3, <2>1
<1>5. size <= j - s + 1
  BY <1>1, <1>4
<1>6. PICK s2, w2, q, f, u :
        /\ s2 = b.item_size /\ w2 = b.woffset /\ q = w2 \div s2
        /\ (w2 + size) \div s2 = q + u /\ f = (w2 + size) % s2
        /\ q \in Nat /\ u \in Nat /\ f \in 0..(s2 - 1)
        /\ s2 * u + f = (w2 % s2) + size
        /\ WriteItems(b, size) = u + (IF f # 0 THEN 1 ELSE 0)
  <2>1. size \in Nat /\ b.item_size \in Nat \ {0} /\ b.woffset \in Nat
    BY <1>1, <1>2
  <2> QED  BY <2>1, WriteItemsIs
<1>7. /\ u \in Nat /\ f \in 0..(s - 1) /\ s * u + f = a + size
      /\ WriteItems(b, size) = u + (IF f # 0 THEN 1 ELSE 0)
  BY <1>1, <1>3, <1>6
<1>8. s * u + f <= s * m
  BY <1>2, <1>3, <1>4, <1>5, <1>7
<1>9. u <= m /\ (f # 0 => u + 1 <= m)
  BY <1>2, <1>7, <1>8, Fit
<1>10. WriteItems(b, size) \in 0..m
  BY <1>2, <1>7, <1>9
<1>11. size <= m * s
  BY <1>2, <1>4, <1>5
<1> QED  BY <1>1, <1>10, <1>11

\* A push keeps its places.
LEMMA PushPlaces ==
    ASSUME ShortPushes, RingPlaces, NEW size \in Sizes, Push(size)
    PROVE  RingPlaces'
<1>1. size \in Nat \ {0} /\ rb' = PushData(rb, size, pushed + 1) /\ pushed' = pushed + size
  BY RingBufferAssumption DEF Push
<1>2. RingShape(rb) /\ RingMemory(rb, pushed)
  BY DEF RingPlaces
<1>3. PICK v : v = WriteItems(rb, size)
  OBVIOUS
<1>4. size <= rb.item_size * (rb.max_items - 1) + 1
  <2>1. PICK g \in Geometries : g = [size |-> rb.item_size, capacity |-> rb.max_items]
    BY <1>2 DEF RingMemory
  <2> QED  BY <2>1 DEF ShortPushes
<1>5. v \in 0..rb.max_items /\ size <= rb.max_items * rb.item_size
  BY <1>1, <1>2, <1>3, <1>4, WriteItemsFit
<1>6. /\ RingShape(rb') /\ RingMemory(rb', pushed')
      /\ rb'.item_size = rb.item_size /\ rb'.max_items = rb.max_items
      /\ rb'.read_index = SkipItems(rb, v) /\ rb'.count = CalculateCount(rb, v, size)
  BY <1>1, <1>2, <1>3, <1>5, PushRemembers
<1>7. PICK m, r, c : m = rb.max_items /\ r = rb.read_index /\ c = rb.count
  OBVIOUS
<1>8. m \in Nat \ {0} /\ r \in 0..(m - 1) /\ c \in Int /\ v \in 0..m
  BY <1>2, <1>5, <1>7 DEF RingPlaces, RingMemory
<1>9. SkipItems(rb, v) \in 0..(m - 1)
  BY <1>7, <1>8 DEF SkipItems
<1>10. CalculateCount(rb, v, size) \in Int
  <2>1. PICK q, t : q = rb.woffset \div rb.item_size /\ t = (rb.woffset + size) \div rb.item_size
    OBVIOUS
  <2>2. q \in Int /\ t \in Int
    <3>1. PICK s, w : s = rb.item_size /\ w = rb.woffset
      OBVIOUS
    <3>2. s \in Nat \ {0} /\ w \in 0..(s * rb.max_items) /\ rb.max_items \in Nat
      BY <1>2, <3>1 DEF RingMemory
    <3>3. w \in Nat
      <4>1. s * rb.max_items \in Nat
        BY <3>2
      <4> QED  BY <3>2, <4>1
    <3>4. w \div s \in Nat
      BY <3>2, <3>3, DivIs
    <3>5. PICK x \in Nat : x = w + size
      BY <1>1, <3>3
    <3>6. x \div s \in Nat
      BY <3>2, DivIs
    <3> QED  BY <2>1, <3>1, <3>4, <3>5, <3>6
  <2>3. CalculateCount(rb, v, size) =
          IF v + c > m THEN m ELSE IF r > q THEN m - (r - t) ELSE t - r
    BY <1>7, <2>1 DEF CalculateCount
  <2> QED  BY <1>8, <2>2, <2>3
<1> QED  BY <1>6, <1>7, <1>9, <1>10 DEF RingPlaces

\* When no push brings nearly as much as the memory holds, every copy stays
\* inside the memory, whatever is pushed and read before, also once the buffer is
\* no queue any more.
THEOREM RingStaysInside == ASSUME ShortPushes PROVE RingSpec => []RingTypeOK
<1>1. RingInit => RingPlaces
  <2> SUFFICES ASSUME RingInit PROVE RingPlaces
    OBVIOUS
  <2>1. PICK g \in Geometries : rb = NewBuffer(g)
    BY DEF RingInit
  <2>2. rb.count = 0 /\ rb.read_index = 0
    BY <2>1 DEF NewBuffer
  <2>3. RingShape(rb) /\ RingMemory(rb, pushed)
    BY InitRefines DEF RingInv
  <2>4. 0 \in 0..(rb.max_items - 1)
    <3>1. rb.max_items \in Nat \ {0}
      BY <2>3 DEF RingMemory
    <3> QED  BY <3>1
  <2> QED  BY <2>2, <2>3, <2>4 DEF RingPlaces
<1>2. RingPlaces /\ [RingNext]_ringVars => RingPlaces'
  <2> SUFFICES ASSUME RingPlaces, [RingNext]_ringVars PROVE RingPlaces'
    OBVIOUS
  <2>1. RingShape(rb) /\ RingMemory(rb, pushed)
    BY DEF RingPlaces
  <2>2. CASE Read
    <3>1. rb' = ReadItem(rb) /\ pushed' = pushed
      BY <2>2 DEF Read
    <3>2. /\ RingShape(rb') /\ RingMemory(rb', pushed')
          /\ rb'.item_size = rb.item_size /\ rb'.max_items = rb.max_items
      BY <2>1, <3>1, ReadHolds
    <3>3. rb'.read_index \in 0..(rb.max_items - 1) /\ rb'.count \in Int
      <4>1. PICK m, r, c : m = rb.max_items /\ r = rb.read_index /\ c = rb.count
        OBVIOUS
      <4>2. m \in Nat \ {0} /\ r \in 0..(m - 1) /\ c \in Int
        BY <2>1, <4>1 DEF RingMemory, RingPlaces
      <4>3. \/ rb'.read_index = r /\ rb'.count = c
            \/ /\ rb'.read_index = (IF r + 1 = m THEN 0 ELSE r + 1)
               /\ rb'.count = c - 1
        BY <2>1, <3>1, <4>1 DEF ReadItem, RingShape
      <4> QED  BY <4>1, <4>2, <4>3
    <3> QED  BY <3>2, <3>3 DEF RingPlaces
  <2>3. CASE Clear
    <3>1. rb' = ClearItems(rb) /\ pushed' = 0
      BY <2>3 DEF Clear
    <3>2. RingShape(rb') /\ RingMemory(rb', 0)
      BY <2>1, <3>1, ClearHolds
    <3>3. rb'.read_index = 0 /\ rb'.count = 0
      BY <2>1, <3>1 DEF ClearItems, RingShape
    <3>4. 0 \in 0..(rb'.max_items - 1)
      <4>1. rb'.max_items \in Nat \ {0}
        BY <3>2 DEF RingMemory
      <4> QED  BY <4>1
    <3> QED  BY <3>1, <3>2, <3>3, <3>4 DEF RingPlaces
  <2>4. ASSUME NEW g \in Geometries, Resize(g) PROVE RingPlaces'
    <3>1. CASE rb' = rb
      BY <2>4, <3>1 DEF Resize, RingPlaces
    <3>2. CASE rb' # rb
      <4>1. rb' = NewBuffer(g) /\ pushed' = 0
        BY <2>4, <3>2 DEF Resize, Resized
      <4>2. RingShape(rb') /\ RingMemory(rb', 0)
        BY <4>1, NewHolds
      <4>3. rb'.read_index = 0 /\ rb'.count = 0
        BY <4>1 DEF NewBuffer
      <4>4. 0 \in 0..(rb'.max_items - 1)
        <5>1. rb'.max_items \in Nat \ {0}
          BY <4>2 DEF RingMemory
        <5> QED  BY <5>1
      <4> QED  BY <4>1, <4>2, <4>3, <4>4 DEF RingPlaces
    <3> QED  BY <3>1, <3>2
  <2>5. CASE UNCHANGED ringVars
    BY <2>5 DEF RingPlaces, ringVars
  <2> QED  BY <2>2, <2>3, <2>4, <2>5, PushPlaces DEF RingNext
<1>3. RingPlaces => RingTypeOK
  <2> SUFFICES ASSUME RingPlaces PROVE RingTypeOK
    OBVIOUS
  <2>1. PICK s, m : s = rb.item_size /\ m = rb.max_items
    OBVIOUS
  <2>2. /\ s \in Nat \ {0} /\ m \in Nat \ {0} /\ rb.woffset \in 0..(s * m)
        /\ rb.read_index \in 0..(m - 1) /\ rb.count \in Int
    BY <2>1 DEF RingPlaces, RingMemory
  <2>3. s * m = m * s
    BY <2>2
  <2> QED  BY <2>1, <2>2, <2>3 DEF RingTypeOK
<1> QED  BY <1>1, <1>2, <1>3, PTL DEF RingSpec

=============================================================================
