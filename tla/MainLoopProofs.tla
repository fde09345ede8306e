--------------------------- MODULE MainLoopProofs ---------------------------
(***************************************************************************)
(* Components whose handlers run to their end on the main loop: the byte   *)
(* buffer, the timer, media playback with its controls and reports, and    *)
(* the text agent.  For every default size, every set of bytes and every   *)
(* bound: the data of a NuguBuffer is what was put in and not taken out,   *)
(* lies inside its allocation, and can be read as a string after it was    *)
(* shortened.  For every repeat count, also one changed while it runs, a   *)
(* timer calls back as often as it owes.  For every set of play services   *)
(* and every length of the bus: media that sounds has the speaker and can  *)
(* be stopped, nobody holds the speaker without use, and no report of the  *)
(* driver is lost on its way up, the last whatever fails.  The volume set  *)
(* is the one heard, a start offset is kept until a seek to it is tried,   *)
(* and every interval that a poll hits is reported once.  For every number *)
(* of requests: a text request has a timer, a timer a request, and the     *)
(* listener knows.                                                         *)
(***************************************************************************)
EXTENDS NuguBuffer, NuguTimer, MediaPlayback, TextAgent, Integers,
        SequenceTheorems, FiniteSetTheorems, TLAPS

\* The type invariant and the content: each step needs both.
BufferInv == BufferTypeOK /\ HoldsContent

\* _buffer_resize() makes room: whatever is needed fits behind the data.
LEMMA NewSizeSuffices ==
    ASSUME alloc \in Nat, index \in Nat, index <= alloc, NEW n \in Nat \ {0}
    PROVE  /\ NewSize(n) \in Nat
           /\ alloc <= NewSize(n)
           /\ index + n <= NewSize(n)
  BY DEF NewSize

\* An empty buffer holds nothing.
LEMMA InitInv == BufferInit => BufferInv
  BY NuguBufferAssumption DEF BufferInit, BufferInv, BufferTypeOK, HoldsContent, Memory

\* Memory of size a2, after the bytes d were copied behind the data
Copied(a2, d) ==
    [i \in 0..(a2 - 1) |-> IF index <= i /\ i < index + Len(d) THEN d[i - index + 1]
                           ELSE IF i < alloc THEN data[i] ELSE Junk]

\* It holds the content and d.
LEMMA CopiedBehind ==
    ASSUME BufferInv, NEW a2 \in Nat, alloc <= a2,
           NEW d \in Seq(Bytes), index + Len(d) <= a2
    PROVE  /\ Copied(a2, d) \in [0..(a2 - 1) -> Memory]
           /\ content \o d \in Seq(Bytes) /\ Len(content \o d) = index + Len(d)
           /\ \A i \in 1..(index + Len(d)) : Copied(a2, d)[i - 1] = (content \o d)[i]
<1>1. /\ alloc \in Nat /\ index \in Nat /\ index <= alloc /\ Len(d) \in Nat
      /\ data \in [0..(alloc - 1) -> Memory] /\ content \in Seq(Bytes)
      /\ Len(content) = index /\ \A i \in 1..index : data[i - 1] = content[i]
  BY DEF BufferInv, BufferTypeOK, HoldsContent
<1>2. Copied(a2, d) \in [0..(a2 - 1) -> Memory]
  <2>1. ASSUME NEW i \in 0..(a2 - 1), index <= i /\ i < index + Len(d)
        PROVE  d[i - index + 1] \in Memory
    BY <1>1, <2>1 DEF Memory
  <2>2. ASSUME NEW i \in 0..(a2 - 1), i < alloc
        PROVE  data[i] \in Memory
    BY <1>1, <2>2
  <2> QED
    BY <2>1, <2>2 DEF Memory, Copied
<1>3. content \o d \in Seq(Bytes) /\ Len(content \o d) = index + Len(d)
  BY <1>1, ConcatProperties
<1>4. ASSUME NEW i \in 1..(index + Len(d))
      PROVE  Copied(a2, d)[i - 1] = (content \o d)[i]
  <2>1. i - 1 \in 0..(a2 - 1)
    BY <1>1
  <2>2. CASE i <= index
    BY <1>1, <2>1, <2>2 DEF Copied
  <2>3. CASE i > index
    BY <1>1, <2>1, <2>3 DEF Copied
  <2> QED
    BY <1>1, <2>2, <2>3
<1> QED
  BY <1>2, <1>3, <1>4

\* nugu_buffer_add() keeps what is there and appends the rest.
LEMMA AddInv ==
    ASSUME BufferInv, NEW d \in Seq(Bytes), Add(d)
    PROVE  BufferInv'
<1>1. alloc \in Nat /\ index \in Nat /\ index <= alloc /\ Len(d) \in Nat \ {0}
  BY DEF BufferInv, BufferTypeOK, HoldsContent, Add
<1>2. PICK a2 \in Nat : a2 = alloc' /\ alloc <= a2 /\ index + Len(d) <= a2
  <2>1. NewSize(Len(d)) \in Nat /\ alloc <= NewSize(Len(d)) /\ index + Len(d) <= NewSize(Len(d))
    BY <1>1, NewSizeSuffices
  <2> QED
    BY <1>1, <2>1 DEF Add
<1>3. /\ Copied(a2, d) \in [0..(a2 - 1) -> Memory]
      /\ content \o d \in Seq(Bytes) /\ Len(content \o d) = index + Len(d)
      /\ \A i \in 1..(index + Len(d)) : Copied(a2, d)[i - 1] = (content \o d)[i]
  BY <1>2, CopiedBehind
<1>4. data' = Copied(a2, d)
  BY <1>2 DEF Add, Copied
<1>5. alloc' = a2 /\ index' = index + Len(d) /\ content' = content \o d
  BY <1>2 DEF Add
<1>6. BufferTypeOK'
  BY <1>1, <1>3, <1>4, <1>5 DEF BufferTypeOK
<1>7. HoldsContent'
  BY <1>1, <1>2, <1>3, <1>4, <1>5 DEF HoldsContent
<1> QED
  BY <1>6, <1>7 DEF BufferInv

\* nugu_buffer_clear() leaves an empty buffer.
LEMMA ClearInv == BufferInv /\ Clear => BufferInv'
  BY DEF BufferInv, BufferTypeOK, HoldsContent, Clear, Memory

\* nugu_buffer_clear_from() keeps what is in front of the position.
LEMMA ClearFromInv ==
    ASSUME BufferInv, NEW n \in 0..MaxSize, ClearFrom(n)
    PROVE  BufferInv'
<1>1. n \in Nat /\ index' = n /\ index' <= index /\ alloc' = alloc
  BY NuguBufferAssumption DEF ClearFrom
<1>2. data' \in [0..(alloc' - 1) -> Memory]
  BY <1>1 DEF BufferInv, BufferTypeOK, ClearFrom, Memory
<1>3. content' \in Seq(Bytes) /\ Len(content') = index'
  BY <1>1 DEF BufferInv, BufferTypeOK, HoldsContent, ClearFrom
<1>4. ASSUME NEW i \in 1..index'
      PROVE  data'[i - 1] = content'[i]
  BY <1>1 DEF BufferInv, BufferTypeOK, HoldsContent, ClearFrom
<1> QED
  BY <1>1, <1>2, <1>3, <1>4 DEF BufferInv, BufferTypeOK, HoldsContent

\* nugu_buffer_shift_left() and nugu_buffer_pop() move the rest to the front.
LEMMA DropFrontInv ==
    ASSUME BufferInv, NEW n \in Nat, DropFront(n)
    PROVE  BufferInv'
<1>1. index' \in Nat /\ index' <= index /\ alloc' = alloc /\ (index' # 0 => index' = index - n)
  BY DEF BufferInv, BufferTypeOK, DropFront
<1>2. data' \in [0..(alloc' - 1) -> Memory]
  <2>1. ASSUME NEW i \in 0..(alloc - 1), n < index, i < index - n
        PROVE  data[i + n] \in Memory
    BY <2>1 DEF BufferInv, BufferTypeOK, HoldsContent
  <2> QED
    BY <1>1, <2>1 DEF BufferInv, BufferTypeOK, DropFront, Shifted, Memory
<1>3. content' \in Seq(Bytes) /\ Len(content') = index'
  BY <1>1 DEF BufferInv, BufferTypeOK, HoldsContent, DropFront
<1>4. ASSUME NEW i \in 1..index'
      PROVE  data'[i - 1] = content'[i]
  <2>1. i - 1 \in 0..(alloc - 1) /\ n < index /\ i - 1 < index - n /\ i + n \in 1..index
    BY <1>1 DEF BufferInv, BufferTypeOK, HoldsContent
  <2>2. data'[i - 1] = data[(i - 1) + n]
    BY <2>1 DEF DropFront, Shifted
  <2>3. content'[i] = content[i + n]
    BY <1>1 DEF DropFront
  <2> QED
    BY <1>1, <2>1, <2>2, <2>3 DEF BufferInv, BufferTypeOK, HoldsContent
<1> QED
  BY <1>1, <1>2, <1>3, <1>4 DEF BufferInv, BufferTypeOK, HoldsContent

\* Every operation keeps the invariant.
LEMMA NextInv == BufferInv /\ [BufferNext]_bufferVars => BufferInv'
<1> SUFFICES ASSUME BufferInv, [BufferNext]_bufferVars
             PROVE  BufferInv'
  OBVIOUS
<1>1. ASSUME NEW n \in 1..MaxAdd, NEW d \in [1..n -> Bytes], Add(d)
      PROVE  BufferInv'
  <2>1. d \in Seq(Bytes)
    BY NuguBufferAssumption
  <2> QED
    BY <1>1, <2>1, AddInv
<1>2. CASE Clear
  BY <1>2, ClearInv
<1>3. ASSUME NEW n \in 0..MaxSize, ClearFrom(n)
      PROVE  BufferInv'
  BY <1>3, ClearFromInv
<1>4. ASSUME NEW n \in 0..MaxSize, ShiftLeft(n)
      PROVE  BufferInv'
  BY <1>4, DropFrontInv, NuguBufferAssumption DEF ShiftLeft
<1>5. ASSUME NEW n \in 0..MaxSize, Pop(n)
      PROVE  BufferInv'
  BY <1>5, DropFrontInv, NuguBufferAssumption DEF Pop, PopSize, BufferInv, BufferTypeOK
<1>6. CASE UNCHANGED bufferVars
  BY <1>6 DEF BufferInv, BufferTypeOK, HoldsContent, bufferVars
<1> QED
  BY <1>1, <1>2, <1>3, <1>4, <1>5, <1>6 DEF BufferNext

\* The data lies inside the allocation and is what was added and not removed,
\* for every size of buffers and additions (nugu_buffer.c).
THEOREM BufferHoldsContent == BufferSpec => [](BufferTypeOK /\ HoldsContent)
<1>1. BufferSpec => []BufferInv
  BY InitInv, NextInv, PTL DEF BufferSpec
<1> QED
  BY <1>1, PTL DEF BufferInv

\* A step that shortens the data leaves a NUL behind it.
LEMMA CutTerminates ==
    BufferInv /\ BufferNext => (index' < index => index' < alloc' /\ data'[index'] = Nul)
<1> SUFFICES ASSUME BufferInv, BufferNext, index' < index
             PROVE  index' < alloc' /\ data'[index'] = Nul
  OBVIOUS
<1>1. ASSUME NEW n \in 1..MaxAdd, NEW d \in [1..n -> Bytes], Add(d)
      PROVE  FALSE
  BY <1>1, NuguBufferAssumption DEF BufferInv, BufferTypeOK, Add
<1>2. CASE Clear
  BY <1>2 DEF BufferInv, BufferTypeOK, HoldsContent, Clear
<1>3. ASSUME NEW n \in 0..MaxSize, ClearFrom(n)
      PROVE  index' < alloc' /\ data'[index'] = Nul
  BY <1>3, NuguBufferAssumption DEF BufferInv, BufferTypeOK, HoldsContent, ClearFrom
<1>4. ASSUME NEW n \in Nat, DropFront(n)
      PROVE  index' < alloc' /\ data'[index'] = Nul
  BY <1>4 DEF BufferInv, BufferTypeOK, HoldsContent, DropFront, Shifted
<1>5. ASSUME NEW n \in 0..MaxSize, ShiftLeft(n) \/ Pop(n)
      PROVE  index' < alloc' /\ data'[index'] = Nul
  <2>1. \E k \in Nat : DropFront(k)
    BY <1>5, NuguBufferAssumption DEF ShiftLeft, Pop, PopSize, BufferInv, BufferTypeOK
  <2> QED
    BY <2>1, <1>4
<1> QED
  BY <1>1, <1>2, <1>3, <1>5 DEF BufferNext

\* A pop returns the bytes in front of what is left, and a NUL.
LEMMA PopsFront ==
    ASSUME BufferInv, BufferNext, popped' # popped
    PROVE  /\ popped'[Len(popped')] = Nul
           /\ content = SubSeq(popped', 1, Len(popped') - 1) \o content'
<1>1. PICK n \in 0..MaxSize : Pop(n)
  BY DEF BufferNext, Add, Clear, ClearFrom, ShiftLeft
<1> DEFINE k == PopSize(n)
<1>2. /\ index \in Nat /\ index <= alloc /\ content \in Seq(Bytes) /\ Len(content) = index
      /\ \A i \in 1..index : data[i - 1] = content[i]
  BY DEF BufferInv, BufferTypeOK, HoldsContent
<1>3. k \in Nat /\ k <= index
  BY <1>2, NuguBufferAssumption DEF PopSize
<1>4. popped' = [i \in 1..(k + 1) |-> IF i <= k THEN data[i - 1] ELSE Nul]
  BY <1>1 DEF Pop
<1>5. /\ index' = index - k
      /\ content' = [i \in 1..(index - k) |-> content[i + k]]
  BY <1>1, <1>2, <1>3 DEF Pop, DropFront
<1> HIDE DEF k
<1>6. popped' \in Seq(Bytes \cup {Nul}) /\ Len(popped') = k + 1
  <2>1. ASSUME NEW i \in 1..(k + 1), i <= k
        PROVE  data[i - 1] \in Bytes
    BY <1>2, <1>3, <2>1
  <2> QED
    BY <1>3, <1>4, <2>1
<1>7. popped'[Len(popped')] = Nul
  BY <1>3, <1>4, <1>6
<1> DEFINE front == SubSeq(popped', 1, k)
<1>8. front \in Seq(Bytes \cup {Nul}) /\ Len(front) = k /\ \A i \in 1..k : front[i] = content[i]
  <2>1. ASSUME NEW i \in 1..k
        PROVE  front[i] = popped'[i] /\ popped'[i] = data[i - 1] /\ data[i - 1] = content[i]
    BY <1>2, <1>3, <1>4, <1>6, <2>1
  <2> QED
    BY <1>3, <1>6, <2>1
<1>9. content' \in Seq(Bytes) /\ Len(content') = index - k
  BY <1>2, <1>3, <1>5
<1> HIDE DEF front
<1>10. /\ front \o content' \in Seq(Bytes \cup {Nul})
       /\ Len(front \o content') = index
       /\ \A i \in 1..index : (front \o content')[i] = content[i]
  <2>1. content' \in Seq(Bytes \cup {Nul})
    BY <1>9
  <2>2. front \o content' \in Seq(Bytes \cup {Nul}) /\ Len(front \o content') = index
    BY <1>2, <1>3, <1>8, <1>9, <2>1
  <2>3. ASSUME NEW i \in 1..index
        PROVE  (front \o content')[i] = content[i]
    <3>1. CASE i <= k
      BY <1>2, <1>3, <1>8, <1>9, <2>1, <3>1
    <3>2. CASE i > k
      <4>1. (front \o content')[i] = content'[i - k]
        BY <1>2, <1>3, <1>8, <1>9, <2>1, <3>2
      <4>2. i - k \in 1..(index - k) /\ (i - k) + k = i
        BY <1>2, <1>3, <3>2
      <4>3. content'[i - k] = content[(i - k) + k]
        BY <1>5, <4>2
      <4> QED
        BY <4>1, <4>2, <4>3
    <3>3. i <= k \/ i > k
      BY <1>2, <1>3
    <3> QED
      BY <3>1, <3>2, <3>3
  <2> QED
    BY <2>2, <2>3
<1>11. content = front \o content'
  <2>1. content \in Seq(Bytes \cup {Nul})
    BY <1>2
  <2> QED
    BY <1>2, <1>10, <2>1, SeqEqual
<1> QED
  BY <1>3, <1>6, <1>7, <1>11 DEF front

\* What the multipart parser cuts a body to can be read as a string, and what is
\* popped are the first bytes, for every length of the data and every history of
\* its buffer.
THEOREM BufferCutIsTerminated == BufferSpec => CutIsTerminated
<1>1. BufferInv /\ [BufferNext]_bufferVars =>
        [/\ index' < index => index' < alloc' /\ data'[index'] = Nul
         /\ popped' # popped =>
               /\ popped'[Len(popped')] = Nul
               /\ content = SubSeq(popped', 1, Len(popped') - 1) \o content']_bufferVars
  BY CutTerminates, PopsFront DEF bufferVars
<1>2. BufferSpec => []BufferInv
  BY InitInv, NextInv, PTL DEF BufferSpec
<1> QED
  BY <1>1, <1>2, PTL DEF BufferSpec, CutIsTerminated

-----------------------------------------------------------------------------
(***************************************************************************)
(* The timer                                                               *)
(***************************************************************************)

TimerInv == TimerTypeOK /\ CountsCalls

\* The invariant holds of a timer that was created.
LEMMA TimerInitInv == TimerInit => TimerInv
  BY TimerAssumption DEF TimerInit, TimerInv, TimerTypeOK, CountsCalls, NoPlan

\* Every call of the API and every callback keeps it, from inside of the
\* callback and from outside.
LEMMA TimerStep == TimerInv /\ [TimerNext]_timerVars => TimerInv'
  <1> SUFFICES ASSUME TimerInv, [TimerNext]_timerVars PROVE TimerInv'
    OBVIOUS
  <1> USE TimerAssumption DEF TimerInv, TimerTypeOK, CountsCalls
  <1>1. ASSUME NEW n \in 0 .. MaxRepeat, SetRepeat(n) PROVE TimerInv'
    <2>1. /\ repeat' = n /\ n \in Nat /\ UNCHANGED <<source, count, fired, starts>>
          /\ plan' = IF source = "armed"
                        THEN [plan EXCEPT !.asked = n, !.least = fired + 1] ELSE plan
      BY <1>1 DEF SetRepeat
    <2>2. CASE source = "armed"
      <3>1. /\ plan' \in [asked : Nat, least : Nat, inside : 0 .. 1]
            /\ plan'.asked = n /\ plan'.least = fired + 1 /\ plan'.inside = plan.inside
        <4> HIDE DEF TimerInv, CountsCalls
        <4>1. plan \in [asked : Nat, least : Nat, inside : 0 .. 1] /\ fired + 1 \in Nat /\ n \in Nat
          BY DEF TimerInv
        <4>2. plan' = [plan EXCEPT !.asked = n, !.least = fired + 1]
          BY <2>1, <2>2
        <4> QED
          BY <4>1, <4>2
      <3>2. TimerTypeOK'
        BY <2>1, <3>1
      <3>3. count = fired + plan.inside
        BY <2>2
      <3>4. plan'.least <= fired' + 1 /\ fired' < plan'.least
        BY <2>1, <3>1
      <3>5. source' = "armed" /\ plan'.asked = repeat' /\ count' = fired' + plan'.inside
        BY <2>1, <2>2, <3>1, <3>3
      <3> QED
        BY <3>2, <3>4, <3>5
    <2>3. CASE source # "armed"
      <3>1. plan' = plan
        BY <2>1, <2>3
      <3>2. Owed' = Owed
        BY <3>1 DEF Owed
      <3> QED
        BY <2>1, <2>3, <3>1, <3>2
    <2> QED
      BY <2>2, <2>3
  <1>2. CASE Start
    BY <1>2 DEF Start, NoPlan, Owed
  <1>3. CASE Stop
    BY <1>3 DEF Stop, NoPlan
  <1>4. CASE Fires
    <2>1. CASE fired < plan.least
      BY <1>4, <2>1 DEF Fires, Owed
    <2>2. CASE count < repeat
      BY <1>4, <2>2 DEF Fires, Owed
    <2> QED
      BY <1>4, <2>1, <2>2 DEF Fires
  <1>5. CASE FiresAndStops
    BY <1>5 DEF FiresAndStops, NoPlan
  <1>6. CASE FiresAndStarts
    BY <1>6 DEF FiresAndStarts
  <1>7. CASE UNCHANGED timerVars
    <2>1. UNCHANGED <<source, repeat, count, fired, plan, starts>>
      BY <1>7 DEF timerVars
    <2>2. Owed' = Owed
      BY <2>1 DEF Owed
    <2> QED
      BY <2>1, <2>2
  <1> QED
    BY <1>1, <1>2, <1>3, <1>4, <1>5, <1>6, <1>7 DEF TimerNext

\* A timer that was started and not stopped calls back exactly as often as it
\* owes, whenever its repeat count is changed and whoever starts it
\* (_nugu_timer_callback(), nugu_timer_start(), nugu_timer_set_repeat()).
THEOREM TimerFiresExactly == TimerSpec => []FiresExactly
  <1>1. TimerInv => FiresExactly
    BY DEF TimerInv, TimerTypeOK, CountsCalls, FiresExactly, Owed
  <1> QED
    BY TimerInitInv, TimerStep, <1>1, PTL DEF TimerSpec
------------------------------------------------------------------------------
(***************************************************************************)
(* Media playback.                                                         *)
(***************************************************************************)

\* What the proof knows of a media state x, which is m between two handlers.
Buses == BoundedSeq({"playing", "eos", "error", "clocklost"}, MaxBus)
NoMedium == {"STOPPED", "IDLE"}
Sounds(x) == x.pipe \in {"starting", "playing"}

\* Driver and player agree, and the agent has heard what MediaPlayer says.
Agree(x) ==
    /\ x.status = x.pstatus
    /\ x.mp = "PLAYING" => x.cur = "PLAYING"
    /\ x.mp = "PAUSED" => x.cur = "PAUSED"

\* Who sounds owns the speaker; who has the speaker, or waits for it with its
\* media paused, has media that can go on; ended media has given the speaker up.
FocusFits(x) ==
    /\ Sounds(x) => x.focus = "owner" /\ x.mp \notin NoMedium \cup {"PAUSED"}
    /\ x.focus = "owner" => x.mp \notin NoMedium
    /\ x.focus = "waiting" /\ x.paused => x.mp \notin NoMedium
    /\ x.mp \in NoMedium => x.status = "STOPPED"
    /\ x.finished => x.focus = "none"
    /\ x.focus # "none" => x.url

Sane(x) == x \in MediaStates /\ Agree(x)
Fits(x) == Sane(x) /\ FocusFits(x)
Known(x) == x.ctx = None => x.focus = "none"
NoClock(x) == x.bus \in Seq({"playing", "eos", "error"})

Kept(x) == Fits(x) /\ Known(x) /\ NoClock(x)
MediaInv == Kept(m)

\* What may happen where MediaSafe is claimed
Benign ==
    /\ MediaAssumption
    /\ Inputs \subseteq {"tts", "asr", "eos", "error", "loadfail", "startfail"}

\* Two states agree but for the reports on their way up: status, pstatus, mp,
\* cur, focus, reports.
SameBelow(x, y) ==
    /\ y.pipe = x.pipe /\ y.bus = x.bus /\ y.disc = x.disc /\ y.url = x.url
    /\ y.finished = x.finished /\ y.paused = x.paused
    /\ y.other = x.other /\ y.ctx = x.ctx

LEMMA MediaStateChangedFits ==
    ASSUME NEW x \in MediaStates, NEW s \in Statuses,
           NEW y, y = MediaStateChanged(x, s)
    PROVE  /\ y \in MediaStates /\ SameBelow(x, y)
           /\ y.status = x.status /\ y.pstatus = x.pstatus /\ y.mp = x.mp
           /\ y.focus = IF s = "STOPPED" THEN "none" ELSE x.focus
           /\ s = "PLAYING" => y.cur = "PLAYING"
           /\ s = "PAUSED" => y.cur = "PAUSED"
<1>0. /\ x = [x EXCEPT !.mp = x.mp]
      /\ x.reports \in 0..2 /\ 0 \in 0..2
  BY DEF MediaStates
<1>1. CASE s = "PLAYING"
  <2>1. y = [x EXCEPT !.cur = "PLAYING", !.reports = 0]  BY <1>1 DEF MediaStateChanged
  <2> QED  BY <1>0, <1>1, <2>1 DEF MediaStates, SameBelow
<1>2. CASE s = "PAUSED"
  <2>1. y = [x EXCEPT !.cur = "PAUSED"]  BY <1>2 DEF MediaStateChanged
  <2> QED  BY <1>2, <2>1 DEF MediaStates, SameBelow
<1>3. CASE s = "STOPPED"
  <2>1. PICK c, n : /\ y = [x EXCEPT !.focus = "none", !.cur = c, !.reports = n]
                    /\ c \in {"FINISHED", "STOPPED"}
                    /\ n = IF x.finished /\ x.reports < 2 THEN x.reports + 1 ELSE x.reports
    BY <1>3 DEF MediaStateChanged
  <2>2. n \in 0..2  BY <1>0, <2>1
  <2> QED  BY <1>3, <2>1, <2>2 DEF MediaStates, SameBelow
<1>4. CASE s = "READY"  BY <1>4 DEF MediaStateChanged, MediaStates, SameBelow
<1> QED  BY <1>1, <1>2, <1>3, <1>4 DEF Statuses

\* NOTIFY_STATUS_CHANGED: a report that is not dropped reaches the agent.
LEMMA Notified ==
    ASSUME NEW x, Sane(x), NEW s \in Statuses, NEW y, y = NotifyStatus(x, s)
    PROVE  /\ Sane(y) /\ SameBelow(x, y) /\ y.status = s
           /\ y.mp = IF x.status = s THEN x.mp ELSE s
           /\ y.focus = IF x.status # s /\ x.mp # s /\ s = "STOPPED" THEN "none" ELSE x.focus
<1> x \in MediaStates /\ Agree(x)  BY DEF Sane
<1>1. CASE x.status = s
  BY <1>1 DEF NotifyStatus, Sane, SameBelow
<1>2. CASE x.status # s
  <2>0. DEFINE p == [x EXCEPT !.pstatus = s]
  <2>1. p \in MediaStates /\ p.pstatus = s /\ p.status = x.status /\ p.mp = x.mp /\ p.cur = x.cur
        /\ p.focus = x.focus /\ SameBelow(x, p)
    BY DEF MediaStates, SameBelow
  <2>2. x.pstatus # s  BY <1>2 DEF Agree
  <2> HIDE DEF p
  <2>3. NotifyStatus(x, s) = [SetState(p, s) EXCEPT !.status = s]
    BY <1>2, <2>2 DEF NotifyStatus, EmitStatus, StatusCallback, p
  <2>4. CASE p.mp = s
    <3>1. SetState(p, s) = p  BY <2>4 DEF SetState
    <3>2. y = [p EXCEPT !.status = s]  BY <2>3, <3>1
    <3>3. y \in MediaStates /\ SameBelow(p, y) /\ y.status = s /\ y.pstatus = s /\ y.mp = p.mp
          /\ y.cur = p.cur /\ y.focus = p.focus
      BY <3>2, <2>1 DEF MediaStates, SameBelow
    <3> QED  BY <3>3, <2>1, <2>4, <1>2 DEF Sane, Agree, SameBelow
  <2>5. CASE p.mp # s
    <3> DEFINE q == [p EXCEPT !.mp = s]
    <3>1. q \in MediaStates /\ q.mp = s /\ q.pstatus = s /\ q.focus = p.focus /\ SameBelow(p, q)
      BY <2>1 DEF MediaStates, SameBelow
    <3> HIDE DEF q
    <3>2. PICK r : r = MediaStateChanged(q, s)  OBVIOUS
    <3>3. SetState(p, s) = r  BY <3>2, <2>5 DEF SetState, q
    <3>4. /\ r \in MediaStates /\ SameBelow(q, r)
          /\ r.pstatus = s /\ r.mp = s
          /\ r.focus = IF s = "STOPPED" THEN "none" ELSE q.focus
          /\ s = "PLAYING" => r.cur = "PLAYING"
          /\ s = "PAUSED" => r.cur = "PAUSED"
      BY <3>1, <3>2, MediaStateChangedFits
    <3>5. y = [r EXCEPT !.status = s]  BY <2>3, <3>3
    <3>6. y \in MediaStates /\ SameBelow(r, y) /\ y.status = s /\ y.pstatus = s /\ y.mp = s
          /\ y.cur = r.cur /\ y.focus = r.focus
      BY <3>4, <3>5 DEF MediaStates, SameBelow
    <3> QED  BY <3>6, <3>4, <3>1, <2>1, <2>5, <1>2 DEF Sane, Agree, SameBelow
  <2> QED  BY <2>4, <2>5
<1> QED  BY <1>1, <1>2

\* A bus is a short sequence of messages.
LEMMA BusFacts ==
    ASSUME MaxBus \in Nat
    PROVE  /\ \A b : b \in Buses <=> /\ b \in Seq({"playing", "eos", "error", "clocklost"})
                                    /\ Len(b) <= MaxBus
           /\ <<>> \in Buses
<1> DEFINE M == {"playing", "eos", "error", "clocklost"}
<1>1. ASSUME NEW b \in Buses PROVE b \in Seq(M) /\ Len(b) <= MaxBus
  <2>1. PICK n \in 0..MaxBus : b \in [1..n -> M]  BY DEF Buses, BoundedSeq, SeqOf
  <2>2. b \in Seq(M) /\ Len(b) = n  BY <2>1
  <2> QED  BY <2>1, <2>2
<1>2. ASSUME NEW b \in Seq(M), Len(b) <= MaxBus PROVE b \in Buses
  <2>1. Len(b) \in 0..MaxBus /\ b \in [1..Len(b) -> M]  BY <1>2
  <2> QED  BY <2>1 DEF Buses, BoundedSeq, SeqOf
<1>3. <<>> \in Seq(M) /\ Len(<<>>) <= MaxBus  OBVIOUS
<1> QED  BY <1>1, <1>2, <1>3

\* Requests to the driver.
LEMMA Stops ==
    ASSUME MaxBus \in Nat, NEW x, Sane(x), NEW y, y = DriverStop(x)
    PROVE  /\ Sane(y) /\ y.pipe = "null" /\ y.bus = <<>> /\ y.status = "STOPPED"
           /\ y.url = x.url /\ y.finished = x.finished /\ y.paused = x.paused
           /\ y.other = x.other /\ y.ctx = x.ctx
           /\ y.mp = IF x.status = "STOPPED" THEN x.mp ELSE "STOPPED"
           /\ y.focus = IF x.status # "STOPPED" /\ x.mp # "STOPPED" THEN "none" ELSE x.focus
<1> DEFINE p == [x EXCEPT !.pipe = "null", !.bus = <<>>, !.disc = FALSE]
<1>1. <<>> \in Buses  BY BusFacts
<1>2. /\ Sane(p) /\ p.pipe = "null" /\ p.bus = <<>>
      /\ p.status = x.status /\ p.mp = x.mp /\ p.focus = x.focus
      /\ p.url = x.url /\ p.finished = x.finished /\ p.paused = x.paused
      /\ p.other = x.other /\ p.ctx = x.ctx
  BY <1>1 DEF Sane, Agree, MediaStates, Buses
<1> HIDE DEF p
<1>3. y = NotifyStatus(p, "STOPPED")  BY DEF DriverStop, p
<1> QED  BY <1>2, <1>3, Notified DEF SameBelow, Statuses

Quieted(x) == DriverPause(x, TRUE)

LEMMA PauseNotified ==
    ASSUME NEW x, Sane(x), NEW y, y = NotifyStatus(x, "PAUSED")
    PROVE  /\ Sane(y) /\ SameBelow(x, y) /\ y.status = "PAUSED"
           /\ y.mp = IF x.status = "PAUSED" THEN x.mp ELSE "PAUSED"
           /\ y.focus = x.focus
  BY Notified DEF Statuses

LEMMA Pauses ==
    ASSUME NEW x, Sane(x), NEW y, y = Quieted(x)
    PROVE  /\ Sane(y) /\ y.bus = x.bus /\ y.disc = x.disc /\ y.url = x.url
           /\ y.finished = x.finished /\ y.paused = x.paused
           /\ y.other = x.other /\ y.ctx = x.ctx /\ y.focus = x.focus
           /\ ~x.url => y = x
           /\ x.url => /\ y.pipe = "paused" /\ y.status = "PAUSED"
                       /\ y.mp = IF x.status = "PAUSED" THEN x.mp ELSE "PAUSED"
<1>1. CASE ~x.url
  <2>1. y = x  BY <1>1 DEF Quieted, DriverPause
  <2> QED  BY <1>1, <2>1
<1>2. CASE x.url
  <2>0. PICK p : p = [x EXCEPT !.pipe = "paused"]  OBVIOUS
  <2>1. /\ Sane(p) /\ p.pipe = "paused" /\ p.status = x.status /\ p.mp = x.mp
        /\ p.focus = x.focus /\ p.bus = x.bus /\ p.disc = x.disc
        /\ p.url = x.url /\ p.finished = x.finished /\ p.paused = x.paused
        /\ p.other = x.other /\ p.ctx = x.ctx
    BY <2>0 DEF Sane, Agree, MediaStates
  <2>2. y = NotifyStatus(p, "PAUSED")  BY <1>2, <2>0 DEF Quieted, DriverPause
  <2>3. Sane(p)  BY <2>1
  <2>4. /\ Sane(y) /\ SameBelow(p, y) /\ y.status = "PAUSED"
        /\ y.mp = IF p.status = "PAUSED" THEN p.mp ELSE "PAUSED"
        /\ y.focus = p.focus
    BY <2>2, <2>3, PauseNotified, Zenon
  <2> QED  BY <1>2, <2>1, <2>4 DEF SameBelow
<1> QED  BY <1>1, <1>2

\* MediaPlayer::setSource() forgets the old media.
LEMMA Forgets ==
    ASSUME MaxBus \in Nat, NEW x, Sane(x), NEW y, y = SetSource(x)
    PROVE  /\ Sane(y) /\ y.pipe = "null" /\ y.bus = <<>> /\ y.status = "STOPPED" /\ y.mp = "STOPPED" /\ y.url
           /\ y.finished = x.finished /\ y.paused = x.paused
           /\ y.other = x.other /\ y.ctx = x.ctx
<1> DEFINE p == [[x EXCEPT !.mp = "STOPPED"] EXCEPT !.url = TRUE]
<1>1. /\ Sane(p) /\ p.mp = "STOPPED" /\ p.url
      /\ p.finished = x.finished /\ p.paused = x.paused
      /\ p.other = x.other /\ p.ctx = x.ctx
  BY DEF Sane, Agree, MediaStates, Statuses
<1> HIDE DEF p
<1>2. y = DriverStop(p)  BY DEF SetSource, PlayerSetSource, DriverSetSource, p
<1> QED  BY <1>1, <1>2, Stops

----------------------------------------------------------------------------
(***************************************************************************)
(* The focus.                                                              *)
(***************************************************************************)

LEMMA Focused ==
    ASSUME NEW x, Sane(x), ~x.paused, NEW ok \in BOOLEAN, NEW y, y = OnFocus(x, ok)
    PROVE  /\ Sane(y) /\ y.bus = x.bus /\ y.url = x.url /\ y.status = x.status
           /\ y.finished = x.finished /\ y.paused = x.paused
           /\ y.other = x.other /\ y.ctx = x.ctx /\ y.focus = x.focus
           /\ y.mp = "PREPARE"
           /\ ~ok => y.pipe = x.pipe
<1>1. PICK p : p = IF ok THEN ToPlaying(x.pipe) ELSE x.pipe  OBVIOUS
<1>2. y = [[x EXCEPT !.mp = "PREPARE"] EXCEPT !.disc = TRUE, !.pipe = p]
  BY <1>1 DEF OnFocus, MediaPlay, PlayerStart, DriverStart, Sane, MediaStates
<1>3. /\ p \in {"null", "ready", "paused", "starting", "playing"}
      /\ ~ok => p = x.pipe
  BY <1>1 DEF ToPlaying, Sane, MediaStates
<1>4. y \in MediaStates  BY <1>2, <1>3 DEF Sane, MediaStates
<1>5. /\ y.mp = "PREPARE" /\ y.pipe = p /\ y.bus = x.bus /\ y.url = x.url
      /\ y.status = x.status /\ y.pstatus = x.pstatus
      /\ y.finished = x.finished /\ y.paused = x.paused
      /\ y.other = x.other /\ y.ctx = x.ctx /\ y.focus = x.focus
  BY <1>2 DEF Sane, MediaStates
<1> QED  BY <1>3, <1>4, <1>5 DEF Sane, Agree

\* Who loses the speaker is silent and gives it up or waits with media that can go on.
LEMMA Unfocused ==
    ASSUME NEW x, Fits(x), NEW place \in {"waiting", "owner"}, NEW y, y = OnUnfocus(x, TRUE, place),
           x.focus = "owner"
    PROVE  /\ Fits(y) /\ ~Sounds(y)
           /\ y.bus = x.bus /\ y.other = x.other /\ y.ctx = x.ctx /\ y.paused = x.paused
           /\ y.focus # "none" => y.status = "PAUSED" /\ y.mp \notin NoMedium
<1>0. Sane(x) /\ x.mp \notin NoMedium /\ ~x.finished /\ x.url
      /\ x.mp \in Statuses \cup {"PREPARE"}
  BY DEF Fits, FocusFits, Sane, MediaStates, NoMedium
<1>1. CASE x.mp = "PAUSED"
  <2>1. y = [x EXCEPT !.focus = "none"]  BY <1>1 DEF OnUnfocus
  <2>2. /\ Sane(y) /\ y.focus = "none" /\ y.pipe = x.pipe /\ y.mp = x.mp /\ y.status = x.status
        /\ y.bus = x.bus /\ y.other = x.other /\ y.ctx = x.ctx /\ y.paused = x.paused
    BY <1>0, <2>1 DEF Sane, Agree, MediaStates
  <2> QED  BY <1>0, <1>1, <2>2 DEF Fits, FocusFits, Sounds, NoMedium
<1>2. CASE x.mp # "PAUSED"
  <2>1. PICK p : p = Quieted(x)  OBVIOUS
  <2>2. y = [p EXCEPT !.focus = place]
    BY <1>0, <1>2, <2>1 DEF OnUnfocus, MediaPause, PlayerPause, Quieted, NoMedium
  <2>3. /\ Sane(p) /\ p.pipe = "paused" /\ p.status = "PAUSED"
        /\ p.mp = IF x.status = "PAUSED" THEN x.mp ELSE "PAUSED"
        /\ p.url = x.url /\ p.finished = x.finished /\ p.paused = x.paused
        /\ p.bus = x.bus /\ p.other = x.other /\ p.ctx = x.ctx
    BY <1>0, <2>1, Pauses
  <2>4. /\ Sane(y) /\ y.focus = place /\ y.pipe = "paused" /\ y.mp = p.mp /\ y.status = "PAUSED"
        /\ y.finished = x.finished /\ y.url = x.url /\ y.paused = x.paused
        /\ y.bus = x.bus /\ y.other = x.other /\ y.ctx = x.ctx
    BY <2>2, <2>3 DEF Sane, Agree, MediaStates
  <2>5. p.mp \notin NoMedium  BY <1>0, <2>3 DEF NoMedium
  <2> QED  BY <1>0, <2>4, <2>5 DEF Fits, FocusFits, Sounds
<1> QED  BY <1>1, <1>2

LEMMA HandedOver ==
    ASSUME NEW x, Fits(x), NEW ok \in BOOLEAN, NEW y, y = HandOver(x, ok)
    PROVE  /\ Fits(y) /\ y.bus = x.bus /\ y.ctx = x.ctx
           /\ x.focus = "none" => y.focus = "none"
<1>1. CASE x.focus = "waiting"
  <2> DEFINE p == [x EXCEPT !.other = "none", !.focus = "owner"]
  <2>1. /\ Sane(p) /\ p.focus = "owner" /\ p.pipe = x.pipe /\ p.mp = x.mp /\ p.status = x.status
        /\ p.bus = x.bus /\ p.ctx = x.ctx /\ p.paused = x.paused /\ p.finished = x.finished
        /\ p.url = x.url
    BY DEF Fits, Sane, Agree, MediaStates
  <2> HIDE DEF p
  <2>2. y = OnFocus(p, ok)  BY <1>1 DEF HandOver, p
  <2>3. ~Sounds(x) /\ ~x.finished /\ x.url /\ (x.paused => x.mp \notin NoMedium)
    BY <1>1 DEF Fits, FocusFits
  <2>4. CASE x.paused
    <3>0. p.paused  BY <2>1, <2>4
    <3>1. y = p  BY <3>0, <2>2 DEF OnFocus
    <3> QED  BY <1>1, <2>1, <2>3, <2>4, <3>1 DEF Fits, FocusFits, Sounds
  <2>5. CASE ~x.paused
    <3>0. ~p.paused  BY <2>1, <2>5
    <3>1. /\ Sane(y) /\ y.bus = p.bus /\ y.url = p.url
          /\ y.finished = p.finished /\ y.paused = p.paused
          /\ y.ctx = p.ctx /\ y.focus = p.focus /\ y.mp = "PREPARE"
      BY <3>0, <2>1, <2>2, Focused
    <3> QED  BY <1>1, <2>1, <2>3, <2>5, <3>1 DEF Fits, FocusFits, Sounds, NoMedium
  <2> QED  BY <2>4, <2>5
<1>2. CASE x.focus # "waiting"
  <2>1. y = [x EXCEPT !.other = "none"]  BY <1>2 DEF HandOver
  <2>2. /\ Sane(y) /\ y.focus = x.focus /\ y.pipe = x.pipe /\ y.mp = x.mp /\ y.status = x.status
        /\ y.bus = x.bus /\ y.ctx = x.ctx /\ y.paused = x.paused /\ y.finished = x.finished
        /\ y.url = x.url
    BY <2>1 DEF Fits, Sane, Agree, MediaStates
  <2> QED  BY <2>2 DEF Fits, FocusFits, Sounds
<1> QED  BY <1>1, <1>2

LEMMA AsrReleased ==
    ASSUME NEW x, Fits(x), NEW ok \in BOOLEAN, NEW y, y = AsrReleases(x, ok)
    PROVE  /\ Fits(y) /\ y.bus = x.bus /\ y.ctx = x.ctx
           /\ x.focus = "none" => y.focus = "none"
<1>1. CASE x.other = "asr"
  <2>1. y = HandOver(x, ok)  BY <1>1 DEF AsrReleases
  <2> QED  BY <2>1, HandedOver
<1>2. CASE x.other # "asr"
  <2>1. y = x  BY <1>2 DEF AsrReleases
  <2> QED  BY <2>1
<1> QED  BY <1>1, <1>2

LEMMA Released ==
    ASSUME NEW x, Fits(x), NEW y, y = ReleaseFocus(x, TRUE)
    PROVE  /\ Fits(y) /\ y.bus = x.bus /\ y.ctx = x.ctx
           /\ x.focus = "none" => y.focus = "none"
           /\ y.focus # "none" => y.status = "PAUSED" /\ y.mp \notin NoMedium
<1>1. CASE x.focus = "owner"
  <2>1. y = OnUnfocus(x, TRUE, "owner")  BY <1>1 DEF ReleaseFocus
  <2> QED  BY <1>1, <2>1, Unfocused
<1>2. CASE x.focus # "owner"
  <2>1. y = [x EXCEPT !.focus = "none"]  BY <1>2 DEF ReleaseFocus
  <2>2. /\ Sane(y) /\ y.focus = "none" /\ y.pipe = x.pipe /\ y.mp = x.mp /\ y.status = x.status
        /\ y.bus = x.bus /\ y.ctx = x.ctx /\ y.paused = x.paused /\ y.finished = x.finished
        /\ y.url = x.url
    BY <2>1 DEF Fits, Sane, Agree, MediaStates
  <2> QED  BY <1>2, <2>2 DEF Fits, FocusFits, Sounds
<1> QED  BY <1>1, <1>2

\* nugu_focus_request() behind setSource()
LEMMA Requested ==
    ASSUME NEW x, Sane(x), NEW ok \in BOOLEAN, NEW y, y = RequestFocus(x, ok),
           x.pipe = "null", x.status = "STOPPED", x.mp = "STOPPED", x.url,
           ~x.finished, ~x.paused
    PROVE  Fits(y) /\ y.bus = x.bus /\ y.ctx = x.ctx
<1>1. CASE x.other = "tts"
  <2>1. y = [x EXCEPT !.focus = "waiting"]  BY <1>1 DEF RequestFocus
  <2>2. /\ Sane(y) /\ y.focus = "waiting" /\ y.pipe = x.pipe /\ y.mp = x.mp /\ y.status = x.status
        /\ y.bus = x.bus /\ y.ctx = x.ctx /\ y.paused = x.paused /\ y.finished = x.finished
        /\ y.url = x.url
    BY <2>1 DEF Sane, Agree, MediaStates
  <2> QED  BY <2>2 DEF Fits, FocusFits, Sounds
<1>2. CASE x.other # "tts"
  <2>1. PICK u : u = IF x.focus = "owner" THEN [x EXCEPT !.focus = "none"] ELSE x
    OBVIOUS
  <2>2. /\ u \in MediaStates /\ Agree(u) /\ u.pipe = "null" /\ u.status = "STOPPED"
        /\ u.mp = "STOPPED" /\ u.bus = x.bus /\ u.ctx = x.ctx /\ u.url
        /\ ~u.finished /\ ~u.paused
    BY <2>1 DEF Sane, Agree, MediaStates
  <2> DEFINE p == [u EXCEPT !.other = "none", !.focus = IF ok THEN "owner" ELSE "none"]
  <2>3. /\ Sane(p) /\ p.focus = (IF ok THEN "owner" ELSE "none")
        /\ p.pipe = "null" /\ p.status = "STOPPED"
        /\ p.bus = x.bus /\ p.ctx = x.ctx /\ p.url /\ ~p.finished /\ ~p.paused
    BY <2>2 DEF Sane, Agree, MediaStates
  <2>4. x.focus = "owner" => OnUnfocus(x, TRUE, "waiting") = u
    BY <2>1 DEF OnUnfocus
  <2>5. y = OnFocus(p, ok)
    BY <1>2, <2>1, <2>4 DEF RequestFocus, p
  <2> HIDE DEF p
  <2>7. ~p.paused /\ Sane(p)  BY <2>3
  <2>6. /\ Sane(y) /\ y.bus = p.bus /\ y.url = p.url /\ y.status = p.status
        /\ y.finished = p.finished /\ y.paused = p.paused
        /\ y.ctx = p.ctx /\ y.focus = p.focus /\ y.mp = "PREPARE"
        /\ ~ok => y.pipe = p.pipe
    BY <2>5, <2>7, Focused
  <2> QED  BY <2>3, <2>6 DEF Fits, FocusFits, Sounds, NoMedium
<1> QED  BY <1>1, <1>2

----------------------------------------------------------------------------
(***************************************************************************)
(* Directives.                                                             *)
(***************************************************************************)

LEMMA PlayKeeps ==
    ASSUME Benign, MediaInv, NEW ps \in PsIds, NEW continue \in BOOLEAN, NEW ok \in BOOLEAN,
           ParsingPlay(ps, continue, ok)
    PROVE  MediaInv'
<1>0. Sane(m) /\ MaxBus \in Nat /\ None \notin PsIds
  BY DEF Benign, MediaAssumption, MediaInv, Kept, Fits
<1>1. PICK x : x = [m EXCEPT !.paused = FALSE, !.finished = FALSE, !.ctx = ps]  OBVIOUS
<1>2. Sane(x) /\ x.ctx = ps /\ ~x.paused /\ ~x.finished
  BY <1>0, <1>1 DEF Sane, Agree, MediaStates
<1>3. PICK z : z = IF continue THEN x ELSE DriverStop(x)  OBVIOUS
<1>4. Sane(z) /\ z.ctx = ps /\ z.paused = x.paused /\ z.finished = x.finished
  <2>1. CASE continue  BY <1>2, <1>3, <2>1
  <2>2. CASE ~continue
    <3>1. z = DriverStop(x)  BY <1>3, <2>2
    <3> QED  BY <1>0, <1>2, <3>1, Stops
  <2> QED  BY <2>1, <2>2
<1>5. PICK w : w = SetSource(z)  OBVIOUS
<1>6. /\ Sane(w) /\ w.pipe = "null" /\ w.bus = <<>> /\ w.status = "STOPPED" /\ w.mp = "STOPPED"
      /\ w.url /\ w.finished = z.finished /\ w.paused = z.paused /\ w.ctx = ps
  BY <1>0, <1>4, <1>5, Forgets
<1>7. m' = RequestFocus(w, ok)
  BY <1>1, <1>3, <1>5 DEF ParsingPlay, MediaStop, PlayerStop
<1>8. ~w.finished /\ ~w.paused  BY <1>2, <1>4, <1>6
<1>9. Fits(m') /\ m'.bus = w.bus /\ m'.ctx = w.ctx
  <2>1. PICK y : y = RequestFocus(w, ok)  OBVIOUS
  <2>2. Fits(y) /\ y.bus = w.bus /\ y.ctx = w.ctx  BY <1>6, <1>8, <2>1, Requested
  <2> QED  BY <1>7, <2>1, <2>2
<1> QED  BY <1>0, <1>6, <1>9 DEF MediaInv, Kept, Known, NoClock

\* A state on the way to a pause: the speaker may be handed to media that was
\* never loaded.
Loose(x) ==
    /\ Sane(x)
    /\ Sounds(x) => x.focus = "owner"
    /\ x.mp \in NoMedium => x.status = "STOPPED"
    /\ x.finished => x.focus = "none"
    /\ x.focus # "none" => x.url

LEMMA PausedAnyway ==
    ASSUME NEW x, Loose(x), NEW y, y = Quieted(x)
    PROVE  Fits(y) /\ y.bus = x.bus /\ y.ctx = x.ctx /\ y.focus = x.focus
<1>1. Sane(x)  BY DEF Loose
<1>2. /\ Sane(y) /\ y.bus = x.bus /\ y.url = x.url
      /\ y.finished = x.finished /\ y.ctx = x.ctx /\ y.focus = x.focus
      /\ ~x.url => y = x
      /\ x.url => /\ y.pipe = "paused" /\ y.status = "PAUSED"
                  /\ y.mp = IF x.status = "PAUSED" THEN x.mp ELSE "PAUSED"
  BY <1>1, Pauses
<1>3. CASE x.url
  <2>1. y.mp \notin NoMedium  BY <1>2, <1>3 DEF Loose, NoMedium
  <2> QED  BY <1>2, <1>3, <2>1 DEF Loose, Fits, FocusFits, Sounds
<1>4. CASE ~x.url
  <2>1. y = x  BY <1>2, <1>4
  <2>2. x.focus = "none"  BY <1>4 DEF Loose
  <2> QED  BY <1>2, <2>1, <2>2 DEF Loose, Fits, FocusFits
<1> QED  BY <1>3, <1>4

LEMMA PauseKeeps ==
    ASSUME Benign, MediaInv, ParsingPause(TRUE)
    PROVE  MediaInv'
<1>0. Fits(m) /\ Sane(m) /\ Known(m) /\ NoClock(m)
  BY DEF MediaInv, Kept, Fits
<1>1. PICK x : x = [m EXCEPT !.paused = TRUE]  OBVIOUS
<1>2. /\ Loose(x) /\ x.paused /\ x.bus = m.bus /\ x.ctx = m.ctx /\ x.focus = m.focus
  <2>1. /\ Sane(x) /\ x.paused /\ x.bus = m.bus /\ x.ctx = m.ctx /\ x.focus = m.focus
        /\ x.pipe = m.pipe /\ x.mp = m.mp /\ x.status = m.status /\ x.finished = m.finished
        /\ x.url = m.url
    BY <1>0, <1>1 DEF Sane, Agree, MediaStates
  <2> QED  BY <1>0, <2>1 DEF Loose, Fits, FocusFits, Sounds
<1>3. PICK z : z = AsrReleases(x, TRUE)  OBVIOUS
<1>4. /\ Loose(z) /\ z.bus = m.bus /\ z.ctx = m.ctx /\ (x.focus = "none" => z.focus = "none")
  <2>1. CASE x.other = "asr" /\ x.focus = "waiting"
    <3>1. PICK p : p = [x EXCEPT !.other = "none", !.focus = "owner"]  OBVIOUS
    <3>2. /\ Sane(p) /\ p.focus = "owner" /\ p.pipe = x.pipe /\ p.mp = x.mp /\ p.status = x.status
          /\ p.bus = x.bus /\ p.ctx = x.ctx /\ p.paused = x.paused /\ p.finished = x.finished
          /\ p.url = x.url
      BY <1>2, <3>1 DEF Loose, Sane, Agree, MediaStates
    <3>3. z = OnFocus(p, TRUE)  BY <1>3, <2>1, <3>1 DEF AsrReleases, HandOver
    <3>4. p.paused  BY <1>2, <3>2
    <3>5. z = p  BY <3>3, <3>4 DEF OnFocus
    <3> QED  BY <1>2, <2>1, <3>2, <3>5 DEF Loose, Sounds
  <2>2. CASE x.other = "asr" /\ x.focus # "waiting"
    <3>1. z = [x EXCEPT !.other = "none"]  BY <1>3, <2>2 DEF AsrReleases, HandOver
    <3>2. /\ Sane(z) /\ z.focus = x.focus /\ z.pipe = x.pipe /\ z.mp = x.mp /\ z.status = x.status
          /\ z.bus = x.bus /\ z.ctx = x.ctx /\ z.finished = x.finished /\ z.url = x.url
      BY <1>2, <3>1 DEF Loose, Sane, Agree, MediaStates
    <3> QED  BY <1>2, <3>2 DEF Loose, Sounds
  <2>3. CASE x.other # "asr"
    <3>1. z = x  BY <1>3, <2>3 DEF AsrReleases
    <3> QED  BY <1>2, <3>1
  <2> QED  BY <2>1, <2>2, <2>3
<1>5. PICK p : p = Quieted(z)  OBVIOUS
<1>6. Fits(p) /\ p.bus = m.bus /\ p.ctx = m.ctx /\ p.focus = z.focus
  BY <1>4, <1>5, PausedAnyway
<1>7. PICK y : y = ReleaseFocus(p, TRUE)  OBVIOUS
<1>8. Fits(y) /\ y.bus = m.bus /\ y.ctx = m.ctx /\ (p.focus = "none" => y.focus = "none")
  BY <1>6, <1>7, Released
<1>9. m' = y  BY <1>1, <1>3, <1>5, <1>7 DEF ParsingPause, MediaPause, PlayerPause, Quieted
<1> QED  BY <1>0, <1>2, <1>4, <1>6, <1>8, <1>9 DEF MediaInv, Kept, Known, NoClock

LEMMA StopKeeps ==
    ASSUME Benign, MediaInv, NEW ps \in PsIds, NEW started \in BOOLEAN,
           ParsingStop(ps, started, TRUE)
    PROVE  MediaInv'
<1>0. Fits(m) /\ Sane(m) /\ Known(m) /\ NoClock(m) /\ MaxBus \in Nat
  BY DEF Benign, MediaAssumption, MediaInv, Kept, Fits
<1>1. PICK c : c = IF m.ctx = ps THEN None ELSE m.ctx  OBVIOUS
<1>2. PICK x : x = [m EXCEPT !.paused = FALSE, !.ctx = c]  OBVIOUS
<1>3. Fits(x) /\ x.bus = m.bus /\ x.ctx = c
  <2>0. c \in PsIds \cup {None}  BY <1>0, <1>1 DEF Sane, MediaStates
  <2>1. /\ Sane(x) /\ ~x.paused /\ x.bus = m.bus /\ x.ctx = c /\ x.focus = m.focus
        /\ x.pipe = m.pipe /\ x.mp = m.mp /\ x.status = m.status /\ x.finished = m.finished
        /\ x.url = m.url
    BY <1>0, <1>2, <2>0 DEF Sane, Agree, MediaStates
  <2> QED  BY <1>0, <2>1 DEF Fits, FocusFits, Sounds
<1>4. PICK y : y = AsrReleases(x, started)  OBVIOUS
<1>5. Fits(y) /\ y.bus = m.bus /\ y.ctx = c  BY <1>3, <1>4, AsrReleased
<1>6. PICK r : r = ReleaseFocus(y, TRUE)  OBVIOUS
<1>7. /\ Fits(r) /\ r.bus = m.bus /\ r.ctx = c
      /\ r.focus # "none" => r.status = "PAUSED" /\ r.mp \notin NoMedium
  BY <1>5, <1>6, Released
<1>8. PICK s : s = DriverStop(r)  OBVIOUS
<1>9. /\ Sane(s) /\ s.pipe = "null" /\ s.bus = <<>> /\ s.status = "STOPPED" /\ s.ctx = r.ctx
      /\ s.focus = IF r.status # "STOPPED" /\ r.mp # "STOPPED" THEN "none" ELSE r.focus
  <2>1. Sane(r)  BY <1>7 DEF Fits
  <2> QED  BY <1>0, <1>8, <2>1, Stops
<1>10. m' = IF c # None THEN y ELSE s
  <2>1. m' = IF x.ctx # None THEN y ELSE DriverStop(r)
    BY <1>1, <1>2, <1>4, <1>6, <1>0 DEF ParsingStop, MediaStop, PlayerStop, Sane, MediaStates
  <2> QED  BY <1>3, <1>8, <2>1
<1>11. CASE c # None
  BY <1>0, <1>5, <1>10, <1>11 DEF MediaInv, Kept, Known, NoClock
<1>12. CASE c = None
  <2>1. s.focus = "none"  BY <1>7, <1>9 DEF NoMedium
  <2>2. Fits(s)  BY <1>9, <2>1 DEF Fits, FocusFits, Sounds
  <2>3. m' = s  BY <1>10, <1>12
  <2>4. Known(s) /\ NoClock(s)  BY <1>9, <2>1 DEF Known, NoClock
  <2> QED  BY <2>2, <2>3, <2>4 DEF MediaInv, Kept
<1> QED  BY <1>11, <1>12

----------------------------------------------------------------------------
(***************************************************************************)
(* Other users of the speaker, and the messages of the pipeline.           *)
(***************************************************************************)

LEMMA TakeKeeps ==
    ASSUME MediaInv, NEW other \in {"tts", "asr"}, OtherTakes(other, TRUE)
    PROVE  MediaInv'
<1>0. Fits(m) /\ Known(m) /\ NoClock(m)  BY DEF MediaInv, Kept
<1>1. PICK x : x = IF m.focus = "owner" THEN OnUnfocus(m, TRUE, "waiting") ELSE m  OBVIOUS
<1>2. Fits(x) /\ x.bus = m.bus /\ x.ctx = m.ctx /\ (m.focus = "none" => x.focus = "none")
  <2>1. CASE m.focus = "owner"
    <3>1. x = OnUnfocus(m, TRUE, "waiting")  BY <1>1, <2>1
    <3> QED  BY <1>0, <2>1, <3>1, Unfocused
  <2>2. CASE m.focus # "owner"
    <3>1. x = m  BY <1>1, <2>2
    <3> QED  BY <1>0, <3>1
  <2> QED  BY <2>1, <2>2
<1>3. PICK y : y = [x EXCEPT !.other = other]  OBVIOUS
<1>4. m' = y  BY <1>1, <1>3 DEF OtherTakes
<1>5. /\ Sane(y) /\ y.focus = x.focus /\ y.pipe = x.pipe /\ y.mp = x.mp /\ y.status = x.status
      /\ y.bus = x.bus /\ y.ctx = x.ctx /\ y.paused = x.paused /\ y.finished = x.finished
      /\ y.url = x.url
  BY <1>2, <1>3 DEF Fits, Sane, Agree, MediaStates
<1>6. Fits(y)  BY <1>2, <1>5 DEF Fits, FocusFits, Sounds
<1> QED  BY <1>0, <1>2, <1>4, <1>5, <1>6 DEF MediaInv, Kept, Known, NoClock

LEMMA GiveKeeps ==
    ASSUME MediaInv, NEW ok \in BOOLEAN, OtherReleases(ok)
    PROVE  MediaInv'
<1>0. Fits(m) /\ Known(m) /\ NoClock(m)  BY DEF MediaInv, Kept
<1>1. PICK y : y = HandOver(m, ok)  OBVIOUS
<1>2. Fits(y) /\ y.bus = m.bus /\ y.ctx = m.ctx /\ (m.focus = "none" => y.focus = "none")
  BY <1>0, <1>1, HandedOver
<1>3. m' = y  BY <1>1 DEF OtherReleases
<1> QED  BY <1>0, <1>2, <1>3 DEF MediaInv, Kept, Known, NoClock

\* The bus keeps its kind: a message is appended while there is room, or taken.
LEMMA BusKept ==
    ASSUME MaxBus \in Nat, NEW b \in Buses, b \in Seq({"playing", "eos", "error"})
    PROVE  /\ \A msg \in {"playing", "eos", "error"} :
                Len(b) < MaxBus => /\ Append(b, msg) \in Buses
                                   /\ Append(b, msg) \in Seq({"playing", "eos", "error"})
           /\ b # <<>> => /\ Tail(b) \in Buses /\ Tail(b) \in Seq({"playing", "eos", "error"})
                          /\ Head(b) \in {"playing", "eos", "error"}
<1> DEFINE M == {"playing", "eos", "error", "clocklost"}
<1>1. b \in Seq(M) /\ Len(b) <= MaxBus  BY BusFacts
<1>2. ASSUME NEW msg \in {"playing", "eos", "error"}, Len(b) < MaxBus
      PROVE  /\ Append(b, msg) \in Buses
             /\ Append(b, msg) \in Seq({"playing", "eos", "error"})
  <2>1. Append(b, msg) \in Seq(M) /\ Append(b, msg) \in Seq({"playing", "eos", "error"})
    BY <1>1
  <2>2. Len(Append(b, msg)) <= MaxBus  BY <1>1, <1>2
  <2> QED  BY <2>1, <2>2, BusFacts
<1>3. ASSUME b # <<>>
      PROVE  /\ Tail(b) \in Buses /\ Tail(b) \in Seq({"playing", "eos", "error"})
             /\ Head(b) \in {"playing", "eos", "error"}
  <2>1. Tail(b) \in Seq(M) /\ Len(Tail(b)) <= MaxBus  BY <1>1, <1>3
  <2>2. Tail(b) \in Seq({"playing", "eos", "error"}) /\ Head(b) \in {"playing", "eos", "error"}
    BY <1>3
  <2> QED  BY <2>1, <2>2, BusFacts
<1> QED  BY <1>2, <1>3

\* What a step that only moves the pipeline and its bus leaves of m.
Moved(x, b, p) == [x EXCEPT !.bus = b, !.pipe = p]

LEMMA PipeMoved ==
    ASSUME NEW x, Fits(x), NEW b \in Buses,
           NEW p, p \in {"null", "ready", "paused", "starting", "playing"},
           NEW y, y = Moved(x, b, p)
    PROVE  /\ Sane(y) /\ y.pipe = p /\ y.bus = b /\ y.disc = x.disc /\ y.url = x.url
           /\ y.status = x.status /\ y.mp = x.mp /\ y.focus = x.focus
           /\ y.finished = x.finished /\ y.paused = x.paused
           /\ y.other = x.other /\ y.ctx = x.ctx
  BY DEF Fits, Sane, Agree, MediaStates, Buses, Moved

LEMMA PlaysKeeps ==
    ASSUME Benign, MediaInv, PipelinePlays
    PROVE  MediaInv'
<1>0. /\ Fits(m) /\ Known(m) /\ NoClock(m) /\ MaxBus \in Nat /\ m.bus \in Buses
      /\ m.pipe = "starting"
  BY DEF Benign, MediaAssumption, MediaInv, Kept, Fits, Sane, MediaStates, PipelinePlays, Buses
<1>1. PICK b : b = Append(m.bus, "playing")  OBVIOUS
<1>2. b \in Buses /\ b \in Seq({"playing", "eos", "error"})
  BY <1>0, <1>1, BusKept DEF PipelinePlays, Post, NoClock
<1>3. PICK y : y = Moved(m, b, "playing")  OBVIOUS
<1>4. m' = y  BY <1>1, <1>3 DEF PipelinePlays, Post, Moved
<1>5. /\ Sane(y) /\ y.pipe = "playing" /\ y.bus = b /\ y.url = m.url
      /\ y.status = m.status /\ y.mp = m.mp /\ y.focus = m.focus
      /\ y.finished = m.finished /\ y.paused = m.paused /\ y.ctx = m.ctx
  BY <1>0, <1>2, <1>3, PipeMoved
<1>6. Fits(y)  BY <1>0, <1>5 DEF Fits, FocusFits, Sounds
<1> QED  BY <1>0, <1>2, <1>4, <1>5, <1>6 DEF MediaInv, Kept, Known, NoClock

LEMMA ReportsKeeps ==
    ASSUME Benign, MediaInv, NEW msg \in {"eos", "error", "clocklost"}, PipelineReports(msg)
    PROVE  MediaInv'
<1>0. /\ Fits(m) /\ Known(m) /\ NoClock(m) /\ MaxBus \in Nat /\ m.bus \in Buses
      /\ m.pipe \in {"null", "ready", "paused", "starting", "playing"}
  BY DEF Benign, MediaAssumption, MediaInv, Kept, Fits, Sane, MediaStates, Buses
<1>1. msg \in {"playing", "eos", "error"} /\ msg # "playing"
  BY DEF PipelineReports, Benign
<1>2. PICK b : b = Append(m.bus, msg)  OBVIOUS
<1>3. b \in Buses /\ b \in Seq({"playing", "eos", "error"})
  BY <1>0, <1>1, <1>2, BusKept DEF PipelineReports, Post, NoClock
<1>4. PICK y : y = Moved(m, b, m.pipe)  OBVIOUS
<1>5. m' = y  BY <1>1, <1>2, <1>4 DEF PipelineReports, Post, Moved
<1>6. /\ Sane(y) /\ y.pipe = m.pipe /\ y.bus = b /\ y.url = m.url
      /\ y.status = m.status /\ y.mp = m.mp /\ y.focus = m.focus
      /\ y.finished = m.finished /\ y.paused = m.paused /\ y.ctx = m.ctx
  BY <1>0, <1>3, <1>4, PipeMoved
<1>7. Fits(y)  BY <1>0, <1>6 DEF Fits, FocusFits, Sounds
<1> QED  BY <1>0, <1>3, <1>5, <1>6, <1>7 DEF MediaInv, Kept, Known, NoClock

\* A message is taken from the bus and the pipeline may fall back to READY.
LEMMA BusPopped ==
    ASSUME Benign, MediaInv, NEW msg, Popped(msg), NEW p \in {m.pipe, "ready"},
           NEW x, x = Moved(m, Tail(m.bus), p)
    PROVE  /\ Sane(x) /\ x.pipe = p /\ NoClock(x) /\ x.url = m.url
           /\ x.status = m.status /\ x.mp = m.mp /\ x.focus = m.focus
           /\ x.finished = m.finished /\ x.paused = m.paused /\ x.ctx = m.ctx
           /\ msg \in {"playing", "eos", "error"}
<1>0. /\ Fits(m) /\ NoClock(m) /\ MaxBus \in Nat /\ m.bus \in Buses
      /\ m.pipe \in {"null", "ready", "paused", "starting", "playing"}
  BY DEF Benign, MediaAssumption, MediaInv, Kept, Fits, Sane, MediaStates, Buses
<1>1. PICK b : b = Tail(m.bus)  OBVIOUS
<1>2. /\ b \in Buses /\ b \in Seq({"playing", "eos", "error"})
      /\ msg \in {"playing", "eos", "error"}
  BY <1>0, <1>1, BusKept DEF Popped, NoClock
<1>3. x = Moved(m, b, p)  BY <1>1
<1>4. p \in {"null", "ready", "paused", "starting", "playing"}  BY <1>0
<1>5. /\ Sane(x) /\ x.pipe = p /\ x.bus = b /\ x.url = m.url
      /\ x.status = m.status /\ x.mp = m.mp /\ x.focus = m.focus
      /\ x.finished = m.finished /\ x.paused = m.paused /\ x.ctx = m.ctx
  <2>1. Fits(m) /\ b \in Buses  BY <1>0, <1>2
  <2> QED  BY <1>3, <1>4, <2>1, PipeMoved
<1> QED  BY <1>2, <1>5 DEF NoClock

LEMMA PlayingKeeps ==
    ASSUME Benign, MediaInv, CbStateChanged
    PROVE  MediaInv'
<1>0. Fits(m) /\ Known(m)  BY DEF MediaInv, Kept
<1>1. PICK x : x = Moved(m, Tail(m.bus), m.pipe)  OBVIOUS
<1>2. /\ Sane(x) /\ x.pipe = m.pipe /\ NoClock(x) /\ x.url = m.url
      /\ x.status = m.status /\ x.mp = m.mp /\ x.focus = m.focus
      /\ x.finished = m.finished /\ x.paused = m.paused /\ x.ctx = m.ctx
  BY <1>1, BusPopped DEF CbStateChanged
<1>3. x = [m EXCEPT !.bus = Tail(@)]
  BY <1>0, <1>1 DEF Fits, Sane, MediaStates, Moved
<1>4. PICK y : y = NotifyStatus(x, "PLAYING")  OBVIOUS
<1>5. Sane(y) /\ SameBelow(x, y) /\ y.status = "PLAYING"
  BY <1>2, <1>4, Notified DEF Statuses
<1>6. y.mp = IF x.status = "PLAYING" THEN x.mp ELSE "PLAYING"
  BY <1>2, <1>4, Notified DEF Statuses
<1>7. y.focus = x.focus  BY <1>2, <1>4, Notified DEF Statuses
<1>8. m' = y  BY <1>3, <1>4 DEF CbStateChanged
<1>9. y.mp \notin NoMedium  BY <1>0, <1>2, <1>6 DEF Fits, FocusFits, NoMedium
<1>10. /\ y.pipe = m.pipe /\ y.url = m.url /\ y.finished = m.finished /\ y.focus = m.focus
       /\ y.ctx = m.ctx /\ y.bus = x.bus
  BY <1>2, <1>5, <1>7 DEF SameBelow
<1>11. Fits(y)
  BY <1>0, <1>2, <1>5, <1>6, <1>9, <1>10 DEF Fits, FocusFits, Sounds
<1> QED  BY <1>0, <1>2, <1>8, <1>10, <1>11 DEF MediaInv, Kept, Known, NoClock

LEMMA ErrorKeeps ==
    ASSUME Benign, MediaInv, CbError
    PROVE  MediaInv'
<1>0. Fits(m) /\ Known(m)  BY DEF MediaInv, Kept
<1>1. PICK x : x = Moved(m, Tail(m.bus), "ready")  OBVIOUS
<1>2. /\ Sane(x) /\ x.pipe = "ready" /\ NoClock(x) /\ x.url = m.url
      /\ x.status = m.status /\ x.mp = m.mp /\ x.focus = m.focus
      /\ x.finished = m.finished /\ x.paused = m.paused /\ x.ctx = m.ctx
  BY <1>1, BusPopped DEF CbError
<1>3. PICK y : y = NotifyStatus(x, "STOPPED")  OBVIOUS
<1>4. Sane(y) /\ SameBelow(x, y) /\ y.status = "STOPPED"
  BY <1>2, <1>3, Notified DEF Statuses
<1>5. y.mp = IF x.status = "STOPPED" THEN x.mp ELSE "STOPPED"
  BY <1>2, <1>3, Notified DEF Statuses
<1>6. y.focus = IF x.status # "STOPPED" /\ x.mp # "STOPPED" THEN "none" ELSE x.focus
  BY <1>2, <1>3, Notified DEF Statuses
<1>7. m' = y  BY <1>1, <1>3 DEF CbError, Moved
<1>8. /\ y.pipe = "ready" /\ y.url = m.url /\ y.finished = m.finished /\ y.paused = m.paused
      /\ y.ctx = m.ctx /\ y.bus = x.bus
  BY <1>2, <1>4 DEF SameBelow
<1>9. CASE m.status = "STOPPED"
  <2>1. y.mp = m.mp /\ y.focus = m.focus  BY <1>2, <1>5, <1>6, <1>9
  <2>2. Fits(y)  BY <1>0, <1>4, <1>8, <2>1 DEF Fits, FocusFits, Sounds
  <2> QED  BY <1>0, <1>2, <1>7, <1>8, <2>1, <2>2 DEF MediaInv, Kept, Known, NoClock
<1>10. CASE m.status # "STOPPED"
  <2>1. m.mp # "STOPPED"  BY <1>0, <1>10 DEF Fits, FocusFits, NoMedium
  <2>2. y.mp = "STOPPED" /\ y.focus = "none"  BY <1>2, <1>5, <1>6, <1>10, <2>1
  <2>3. Fits(y)  BY <1>0, <1>4, <1>8, <2>2 DEF Fits, FocusFits, Sounds
  <2> QED  BY <1>0, <1>2, <1>7, <1>8, <2>2, <2>3 DEF MediaInv, Kept, Known, NoClock
<1> QED  BY <1>9, <1>10

LEMMA EosKeeps ==
    ASSUME Benign, MediaInv, CbEos
    PROVE  MediaInv'
<1>0. Fits(m) /\ Known(m)  BY DEF MediaInv, Kept
<1>1. PICK x : x = Moved(m, Tail(m.bus), "ready")  OBVIOUS
<1>2. /\ Sane(x) /\ x.pipe = "ready" /\ NoClock(x) /\ x.ctx = m.ctx
  BY <1>1, BusPopped DEF CbEos
<1>3. PICK q : q = [[[x EXCEPT !.pstatus = "STOPPED"] EXCEPT !.mp = "STOPPED"]
                        EXCEPT !.finished = TRUE]
  OBVIOUS
<1>4. /\ q \in MediaStates /\ q.pstatus = "STOPPED" /\ q.mp = "STOPPED"
      /\ q.pipe = x.pipe /\ q.bus = x.bus /\ q.ctx = x.ctx
  BY <1>2, <1>3 DEF Sane, MediaStates, Statuses
<1>5. PICK y : y = MediaStateChanged(q, "STOPPED")  OBVIOUS
<1>6. y \in MediaStates /\ SameBelow(q, y) /\ y.pstatus = q.pstatus /\ y.mp = q.mp
  BY <1>4, <1>5, MediaStateChangedFits DEF Statuses
<1>7. y.focus = "none"  BY <1>4, <1>5, MediaStateChangedFits DEF Statuses
<1>8. m' = NotifyStatus(y, "STOPPED")
  BY <1>1, <1>3, <1>5 DEF CbEos, EmitEndOfStream, EventCallback, MediaFinished, Moved
<1>9. m' = [y EXCEPT !.status = "STOPPED"]
  <2>1. CASE y.status = "STOPPED"
    BY <1>6, <1>8, <2>1 DEF NotifyStatus, MediaStates
  <2>2. CASE y.status # "STOPPED"
    BY <1>4, <1>6, <1>8, <2>2 DEF NotifyStatus, EmitStatus
  <2> QED  BY <2>1, <2>2
<1>10. PICK z : z = [y EXCEPT !.status = "STOPPED"]  OBVIOUS
<1>11. /\ z \in MediaStates /\ z.status = "STOPPED" /\ z.pstatus = "STOPPED" /\ z.mp = "STOPPED"
       /\ z.focus = "none" /\ z.pipe = "ready" /\ z.bus = x.bus /\ z.ctx = m.ctx
  BY <1>2, <1>4, <1>6, <1>7, <1>10 DEF SameBelow, MediaStates, Statuses
<1>12. Fits(z)  BY <1>11 DEF Fits, Sane, Agree, FocusFits, Sounds
<1> QED  BY <1>0, <1>2, <1>9, <1>10, <1>11, <1>12 DEF MediaInv, Kept, Known, NoClock

LEMMA DiscoveredKeeps ==
    ASSUME MediaInv, NEW ok \in BOOLEAN, Discovered(ok)
    PROVE  MediaInv'
<1>0. Fits(m) /\ Known(m) /\ NoClock(m)  BY DEF MediaInv, Kept
<1>1. PICK x : x = [m EXCEPT !.disc = FALSE]  OBVIOUS
<1>2. /\ Sane(x) /\ x.focus = m.focus /\ x.pipe = m.pipe /\ x.mp = m.mp /\ x.status = m.status
      /\ x.bus = m.bus /\ x.ctx = m.ctx /\ x.paused = m.paused /\ x.finished = m.finished
      /\ x.url = m.url
  BY <1>0, <1>1 DEF Fits, Sane, Agree, MediaStates
<1>3. CASE ok /\ m.status = "STOPPED"
  <2>1. PICK y : y = NotifyStatus(x, "READY")  OBVIOUS
  <2>2. Sane(y) /\ SameBelow(x, y) /\ y.status = "READY"
    BY <1>2, <2>1, Notified DEF Statuses
  <2>3. y.mp = IF x.status = "READY" THEN x.mp ELSE "READY"
    BY <1>2, <2>1, Notified DEF Statuses
  <2>4. y.focus = x.focus  BY <1>2, <2>1, Notified DEF Statuses
  <2>5. m' = y  BY <1>1, <1>3, <2>1 DEF Discovered
  <2>6. y.mp = "READY"  BY <1>2, <1>3, <2>3
  <2>7. /\ y.pipe = m.pipe /\ y.url = m.url /\ y.finished = m.finished /\ y.focus = m.focus
        /\ y.ctx = m.ctx /\ y.bus = m.bus
    BY <1>2, <2>2, <2>4 DEF SameBelow
  <2>8. Fits(y)  BY <1>0, <2>2, <2>6, <2>7 DEF Fits, FocusFits, Sounds, NoMedium
  <2> QED  BY <1>0, <2>5, <2>7, <2>8 DEF MediaInv, Kept, Known, NoClock
<1>4. CASE ~(ok /\ m.status = "STOPPED")
  <2>1. m' = x  BY <1>1, <1>4 DEF Discovered
  <2>2. Fits(x)  BY <1>0, <1>2 DEF Fits, FocusFits, Sounds
  <2> QED  BY <1>0, <1>2, <2>1, <2>2 DEF MediaInv, Kept, Known, NoClock
<1> QED  BY <1>3, <1>4

LEMMA MediaInvInit == ASSUME MediaAssumption, MediaInit PROVE MediaInv
<1>1. <<>> \in Buses  BY BusFacts DEF MediaAssumption
<1>3. 0 \in 0..2  OBVIOUS
<1>4. m \in MediaStates  BY <1>1, <1>3 DEF MediaInit, MediaStates, Statuses, Buses
<1>5. Fits(m)  BY <1>4 DEF MediaInit, Fits, Sane, Agree, FocusFits, Sounds
<1> QED  BY <1>5 DEF MediaInit, MediaInv, Kept, Known, NoClock

LEMMA MediaInvNext == ASSUME Benign, MediaInv, [MediaNext]_m PROVE MediaInv'
<1>0. CASE UNCHANGED m  BY <1>0 DEF MediaInv
<1>1. Outcomes("pausefail") = {TRUE} /\ \A input : Outcomes(input) \subseteq BOOLEAN
  BY DEF Outcomes, Benign
<1>2. CASE Directive
  <2>1. CASE \E ps \in PsIds, continue \in BOOLEAN, ok \in Outcomes("startfail") :
                ParsingPlay(ps, continue, ok)
    BY <1>1, <2>1, PlayKeeps
  <2>2. CASE \E ok \in Outcomes("pausefail") : ParsingPause(ok)
    BY <1>1, <2>2, PauseKeeps
  <2>3. CASE \E ps \in PsIds, started \in Outcomes("startfail"), ok \in Outcomes("pausefail") :
                ParsingStop(ps, started, ok)
    BY <1>1, <2>3, StopKeeps
  <2>4. ~ \E pause \in BOOLEAN : Malformed(pause)  BY DEF Malformed, Benign
  <2> QED  BY <1>2, <2>1, <2>2, <2>3, <2>4 DEF Directive
<1>3. CASE \E other \in {"tts", "asr"}, ok \in Outcomes("pausefail") : OtherTakes(other, ok)
  BY <1>1, <1>3, TakeKeeps
<1>4. CASE \E ok \in Outcomes("startfail") : OtherReleases(ok)
  BY <1>1, <1>4, GiveKeeps
<1>5. ~ \E method \in {"START", "STOP", "PAUSE", "RESUME", "SET_SOURCE"} : PlayerMethodCall(method)
  BY DEF PlayerMethodCall, Benign
<1>6. CASE PipelinePlays  BY <1>6, PlaysKeeps
<1>7. CASE \E msg \in {"eos", "error", "clocklost"} : PipelineReports(msg)
  BY <1>7, ReportsKeeps
<1>8. CASE CbMessage
  <2>1. ~ CbClockLost
    <3>1. SUFFICES ASSUME CbClockLost PROVE FALSE  OBVIOUS
    <3>2. PICK x : x = Moved(m, Tail(m.bus), "ready")  OBVIOUS
    <3>3. Popped("clocklost")  BY <3>1 DEF CbClockLost
    <3>4. "clocklost" \in {"playing", "eos", "error"}  BY <3>2, <3>3, BusPopped
    <3> QED  BY <3>4
  <2> QED  BY <1>8, <2>1, PlayingKeeps, ErrorKeeps, EosKeeps DEF CbMessage
<1>9. CASE \E ok \in Outcomes("loadfail") : Discovered(ok)
  BY <1>1, <1>9, DiscoveredKeeps
<1> QED  BY <1>0, <1>2, <1>3, <1>4, <1>5, <1>6, <1>7, <1>8, <1>9 DEF MediaNext

\* Where the pipeline only fails to load or to start and directives are well
\* formed, media that sounds has the speaker and a service that can stop it,
\* nobody holds the speaker without use, and the layers agree: however
\* directives, other users of the speaker and messages of the pipeline alternate
\* (AudioPlayerAgent::onUnfocus(), mediaStateChanged(), parsingStop(),
\* nugu_player_emit_status()).
THEOREM MediaIsSafe ==
    ASSUME Benign
    PROVE  MediaSpec => []MediaSafe
<1>1. MediaInit => MediaInv  BY MediaInvInit DEF Benign
<1>2. MediaInv /\ [MediaNext]_m => MediaInv'  BY MediaInvNext
<1>3. MediaInv => MediaSafe
  BY DEF MediaInv, Kept, Fits, Sane, Agree, FocusFits, Sounds, Known, NoMedium,
         MediaSafe, MediaTypeOK, LayersAgree, SoundNeedsFocus, Sounding, SoundIsStoppable,
         NoIdleOwner
<1> QED  BY <1>1, <1>2, <1>3, PTL DEF MediaSpec

----------------------------------------------------------------------------
(***************************************************************************)
(* Whatever fails and whoever calls the player, no report is lost on its   *)
(* way up: each request and each message keeps Sane.                       *)
(***************************************************************************)

LEMMA PausingIsSane ==
    ASSUME NEW x, Sane(x), NEW ok \in BOOLEAN
    PROVE  Sane(DriverPause(x, ok))
<1>1. CASE ok
  <2>1. PICK y : y = Quieted(x)  OBVIOUS
  <2>2. Sane(y)  BY <2>1, Pauses
  <2>3. DriverPause(x, ok) = y  BY <1>1, <2>1 DEF Quieted, DriverPause
  <2> QED  BY <2>2, <2>3
<1>2. CASE ~ok
  <2>1. DriverPause(x, ok) = x  BY <1>2 DEF DriverPause
  <2> QED  BY <2>1
<1> QED  BY <1>1, <1>2

LEMMA FocusSetIsSane ==
    ASSUME NEW x, Sane(x), NEW f \in {"none", "waiting", "owner"}
    PROVE  Sane([x EXCEPT !.focus = f])
  BY DEF Sane, Agree, MediaStates

LEMMA UnfocusIsSane ==
    ASSUME NEW x, Sane(x), NEW ok \in BOOLEAN, NEW place \in {"waiting", "owner"}
    PROVE  Sane(OnUnfocus(x, ok, place))
<1>1. CASE x.finished \/ x.mp \in {"STOPPED", "PAUSED"} \/ ~ok
  <2>1. OnUnfocus(x, ok, place) = [x EXCEPT !.focus = "none"]  BY <1>1 DEF OnUnfocus
  <2> QED  BY <2>1, FocusSetIsSane
<1>2. CASE ~(x.finished \/ x.mp \in {"STOPPED", "PAUSED"} \/ ~ok)
  <2>1. PICK y : y = DriverPause(x, ok)  OBVIOUS
  <2>2. Sane(y)  BY <2>1, PausingIsSane
  <2>3. OnUnfocus(x, ok, place) = [y EXCEPT !.focus = place]
    BY <1>2, <2>1 DEF OnUnfocus, MediaPause, PlayerPause
  <2> QED  BY <2>2, <2>3, FocusSetIsSane
<1> QED  BY <1>1, <1>2

LEMMA FocusIsSane ==
    ASSUME NEW x, Sane(x), NEW ok \in BOOLEAN
    PROVE  Sane(OnFocus(x, ok))
<1>1. CASE x.paused
  <2>1. OnFocus(x, ok) = x  BY <1>1 DEF OnFocus
  <2> QED  BY <2>1
<1>2. CASE ~x.paused  BY <1>2, Focused
<1> QED  BY <1>1, <1>2

\* The other owner changes, and with it perhaps the focus.
LEMMA OtherSetIsSane ==
    ASSUME NEW x, Sane(x), NEW other \in {"none", "tts", "asr"},
           NEW f \in {"none", "waiting", "owner"}
    PROVE  /\ Sane([x EXCEPT !.other = other])
           /\ Sane([x EXCEPT !.other = other, !.focus = f])
  BY DEF Sane, Agree, MediaStates

LEMMA RequestIsSane ==
    ASSUME NEW x, Sane(x), NEW ok \in BOOLEAN
    PROVE  Sane(RequestFocus(x, ok))
<1>1. CASE x.other = "tts"
  <2>1. RequestFocus(x, ok) = [x EXCEPT !.focus = "waiting"]  BY <1>1 DEF RequestFocus
  <2> QED  BY <2>1, FocusSetIsSane
<1>2. CASE x.other # "tts"
  <2>1. PICK y : y = IF x.focus = "owner" THEN OnUnfocus(x, TRUE, "waiting") ELSE x  OBVIOUS
  <2>2. Sane(y)  BY <2>1, UnfocusIsSane
  <2>3. PICK f : f = IF ok \/ x.paused THEN "owner" ELSE "none"  OBVIOUS
  <2>4. PICK z : z = [y EXCEPT !.other = "none", !.focus = f]  OBVIOUS
  <2>5. Sane(z)  BY <2>2, <2>3, <2>4, OtherSetIsSane
  <2>6. RequestFocus(x, ok) = OnFocus(z, ok)  BY <1>2, <2>1, <2>3, <2>4 DEF RequestFocus
  <2> QED  BY <2>5, <2>6, FocusIsSane
<1> QED  BY <1>1, <1>2

LEMMA ReleaseIsSane ==
    ASSUME NEW x, Sane(x), NEW ok \in BOOLEAN
    PROVE  Sane(ReleaseFocus(x, ok))
<1>1. CASE x.focus = "owner"
  <2>1. ReleaseFocus(x, ok) = OnUnfocus(x, ok, "owner")  BY <1>1 DEF ReleaseFocus
  <2> QED  BY <2>1, UnfocusIsSane
<1>2. CASE x.focus # "owner"
  <2>1. ReleaseFocus(x, ok) = [x EXCEPT !.focus = "none"]  BY <1>2 DEF ReleaseFocus
  <2> QED  BY <2>1, FocusSetIsSane
<1> QED  BY <1>1, <1>2

LEMMA HandOverIsSane ==
    ASSUME NEW x, Sane(x), NEW ok \in BOOLEAN
    PROVE  Sane(HandOver(x, ok)) /\ Sane(AsrReleases(x, ok))
<1>1. Sane(HandOver(x, ok))
  <2>1. CASE x.focus = "waiting"
    <3>1. PICK z : z = [x EXCEPT !.other = "none", !.focus = "owner"]  OBVIOUS
    <3>2. Sane(z)  BY <3>1, OtherSetIsSane
    <3>3. HandOver(x, ok) = OnFocus(z, ok)  BY <2>1, <3>1 DEF HandOver
    <3> QED  BY <3>2, <3>3, FocusIsSane
  <2>2. CASE x.focus # "waiting"
    <3>1. HandOver(x, ok) = [x EXCEPT !.other = "none"]  BY <2>2 DEF HandOver
    <3> QED  BY <3>1, OtherSetIsSane
  <2> QED  BY <2>1, <2>2
<1>2. CASE x.other = "asr"  BY <1>1, <1>2 DEF AsrReleases
<1>3. CASE x.other # "asr"  BY <1>1, <1>3 DEF AsrReleases
<1> QED  BY <1>1, <1>2, <1>3

LEMMA StoppingIsSane ==
    ASSUME MaxBus \in Nat, NEW x, Sane(x)
    PROVE  Sane(DriverStop(x)) /\ Sane(DriverSetSource(x)) /\ Sane(SetSource(x))
<1>1. PICK p : p = [x EXCEPT !.url = TRUE]  OBVIOUS
<1>2. Sane(p)  BY <1>1 DEF Sane, Agree, MediaStates
<1>3. DriverSetSource(x) = DriverStop(p)  BY <1>1 DEF DriverSetSource
<1> QED  BY <1>2, <1>3, Stops, Forgets

LEMMA DirectiveIsSane ==
    ASSUME MediaAssumption, Sane(m), Directive
    PROVE  Sane(m')
<1>0. MaxBus \in Nat /\ \A input : Outcomes(input) \subseteq BOOLEAN
  BY DEF MediaAssumption, Outcomes
<1>1. ASSUME NEW ps \in PsIds, NEW continue \in BOOLEAN, NEW ok \in BOOLEAN,
             ParsingPlay(ps, continue, ok)
      PROVE  Sane(m')
  <2>1. PICK x : x = [m EXCEPT !.paused = FALSE, !.finished = FALSE, !.ctx = ps]  OBVIOUS
  <2>2. Sane(x)  BY <2>1 DEF Sane, Agree, MediaStates
  <2>3. PICK z : z = IF continue THEN x ELSE DriverStop(x)  OBVIOUS
  <2>4. Sane(z)  BY <1>0, <2>2, <2>3, StoppingIsSane
  <2>5. PICK w : w = SetSource(z)  OBVIOUS
  <2>6. Sane(w)  BY <1>0, <2>4, <2>5, StoppingIsSane
  <2>7. m' = RequestFocus(w, ok)
    BY <1>1, <2>1, <2>3, <2>5 DEF ParsingPlay, MediaStop, PlayerStop
  <2> QED  BY <2>6, <2>7, RequestIsSane
<1>2. ASSUME NEW ok \in BOOLEAN, ParsingPause(ok)
      PROVE  Sane(m')
  <2>1. PICK x : x = [m EXCEPT !.paused = TRUE]  OBVIOUS
  <2>2. Sane(x)  BY <2>1 DEF Sane, Agree, MediaStates
  <2>3. PICK z : z = AsrReleases(x, TRUE)  OBVIOUS
  <2>4. Sane(z)  BY <2>2, <2>3, HandOverIsSane
  <2>5. PICK w : w = DriverPause(z, ok)  OBVIOUS
  <2>6. Sane(w)  BY <2>4, <2>5, PausingIsSane
  <2>7. m' = ReleaseFocus(w, ok)
    BY <1>2, <2>1, <2>3, <2>5 DEF ParsingPause, MediaPause, PlayerPause
  <2> QED  BY <2>6, <2>7, ReleaseIsSane
<1>3. ASSUME NEW ps \in PsIds, NEW started \in BOOLEAN, NEW ok \in BOOLEAN,
             ParsingStop(ps, started, ok)
      PROVE  Sane(m')
  <2>0. PICK c : c = IF m.ctx = ps THEN None ELSE m.ctx  OBVIOUS
  <2>1. PICK x : x = [m EXCEPT !.paused = FALSE, !.ctx = c]  OBVIOUS
  <2>2. c \in PsIds \cup {None}  BY <2>0 DEF Sane, MediaStates
  <2>3. Sane(x)  BY <2>1, <2>2 DEF Sane, Agree, MediaStates
  <2>4. PICK y : y = AsrReleases(x, started)  OBVIOUS
  <2>5. Sane(y)  BY <2>3, <2>4, HandOverIsSane
  <2>6. PICK r : r = ReleaseFocus(y, ok)  OBVIOUS
  <2>7. Sane(r)  BY <2>5, <2>6, ReleaseIsSane
  <2>8. Sane(DriverStop(r))  BY <1>0, <2>7, StoppingIsSane
  <2>9. m' = IF x.ctx # None THEN y ELSE DriverStop(r)
    BY <1>3, <2>0, <2>1, <2>4, <2>6 DEF ParsingStop, MediaStop, PlayerStop, Sane, MediaStates
  <2> QED  BY <2>5, <2>8, <2>9
<1>4. ASSUME NEW pause \in BOOLEAN, Malformed(pause)
      PROVE  Sane(m')
  BY <1>4 DEF Malformed, Sane, Agree, MediaStates
<1> QED  BY <1>0, <1>1, <1>2, <1>3, <1>4 DEF Directive

LEMMA CallIsSane ==
    ASSUME MediaAssumption, Sane(m),
           NEW method \in {"START", "STOP", "PAUSE", "RESUME", "SET_SOURCE"},
           PlayerMethodCall(method)
    PROVE  Sane(m')
<1>0. MaxBus \in Nat  BY DEF MediaAssumption
<1>1. CASE method = "START"
  <2>1. m' = DriverStart(m, TRUE)  BY <1>1 DEF PlayerMethodCall, PlayerStart
  <2>2. PICK p : p = ToPlaying(m.pipe)  OBVIOUS
  <2>3. m' = [m EXCEPT !.disc = TRUE, !.pipe = p]  BY <2>1, <2>2 DEF DriverStart
  <2>4. p \in {"starting", "playing"}  BY <2>2 DEF ToPlaying
  <2> QED  BY <2>3, <2>4 DEF Sane, Agree, MediaStates
<1>2. CASE method = "STOP"
  <2>1. m' = DriverStop(m)  BY <1>2 DEF PlayerMethodCall, PlayerStop
  <2> QED  BY <1>0, <2>1, StoppingIsSane
<1>3. CASE method = "PAUSE"
  <2>1. m' = DriverPause(m, TRUE)  BY <1>3 DEF PlayerMethodCall, PlayerPause
  <2> QED  BY <2>1, PausingIsSane
<1>4. CASE method = "RESUME"
  <2>1. m' = DriverResume(m)  BY <1>4 DEF PlayerMethodCall, PlayerResume
  <2>2. PICK p : p = ToPlaying(m.pipe)  OBVIOUS
  <2>3. PICK x : x = [m EXCEPT !.pipe = p]  OBVIOUS
  <2>4. p \in {"starting", "playing"}  BY <2>2 DEF ToPlaying
  <2>5. Sane(x)  BY <2>3, <2>4 DEF Sane, Agree, MediaStates
  <2>6. PICK y : y = NotifyStatus(x, "PLAYING")  OBVIOUS
  <2>7. Sane(y)  BY <2>5, <2>6, Notified DEF Statuses
  <2>8. m' = y  BY <2>1, <2>2, <2>3, <2>6 DEF DriverResume
  <2> QED  BY <2>7, <2>8
<1>5. CASE method = "SET_SOURCE"
  <2>1. m' = DriverSetSource(m)  BY <1>5 DEF PlayerMethodCall, PlayerSetSource
  <2> QED  BY <1>0, <2>1, StoppingIsSane
<1> QED  BY <1>1, <1>2, <1>3, <1>4, <1>5

LEMMA PostIsSane ==
    ASSUME MediaAssumption, Sane(m), NEW msg \in {"playing", "eos", "error", "clocklost"}, Post(msg)
    PROVE  Sane(m')
<1>0. /\ MaxBus \in Nat /\ m.bus \in Buses
      /\ m.pipe \in {"null", "ready", "paused", "starting", "playing"}
  BY DEF MediaAssumption, Sane, MediaStates, Buses
<1>1. PICK b : b = Append(m.bus, msg)  OBVIOUS
<1>2. b \in Buses
  <2>1. m.bus \in Seq({"playing", "eos", "error", "clocklost"})  BY <1>0, BusFacts
  <2>2. b \in Seq({"playing", "eos", "error", "clocklost"}) /\ Len(b) = Len(m.bus) + 1
    BY <1>1, <2>1
  <2>3. Len(b) <= MaxBus  BY <1>0, <2>1, <2>2 DEF Post
  <2> QED  BY <1>0, <2>2, <2>3, BusFacts
<1>3. PICK p : p = IF msg = "playing" THEN "playing" ELSE m.pipe  OBVIOUS
<1>4. m' = Moved(m, b, p)  BY <1>1, <1>3 DEF Post, Moved
<1>5. p \in {"null", "ready", "paused", "starting", "playing"}  BY <1>0, <1>3
<1> QED  BY <1>2, <1>4, <1>5 DEF Sane, Agree, MediaStates, Buses, Moved

LEMMA MessageIsSane ==
    ASSUME MediaAssumption, Sane(m), CbMessage
    PROVE  Sane(m')
<1>0. /\ MaxBus \in Nat /\ m.bus \in Buses /\ m.bus # <<>>
      /\ m.pipe \in {"null", "ready", "paused", "starting", "playing"}
  BY DEF MediaAssumption, Sane, MediaStates, Buses,
         CbMessage, CbStateChanged, CbError, CbEos, CbClockLost, Popped
<1>1. PICK b : b = Tail(m.bus)  OBVIOUS
<1>2. b \in Buses
  <2>1. m.bus \in Seq({"playing", "eos", "error", "clocklost"}) /\ Len(m.bus) <= MaxBus
    BY <1>0, BusFacts
  <2>2. b \in Seq({"playing", "eos", "error", "clocklost"}) /\ Len(b) <= MaxBus
    BY <1>0, <1>1, <2>1
  <2> QED  BY <1>0, <2>2, BusFacts
<1>3. ASSUME NEW p \in {m.pipe, "ready", "starting"}
      PROVE  Sane(Moved(m, b, p))
  <2>1. p \in {"null", "ready", "paused", "starting", "playing"}  BY <1>0, <1>3
  <2> QED  BY <1>2, <2>1 DEF Sane, Agree, MediaStates, Buses, Moved
<1>4. CASE CbStateChanged
  <2>1. PICK x : x = Moved(m, b, m.pipe)  OBVIOUS
  <2>2. Sane(x)  BY <1>3, <2>1
  <2>3. PICK y : y = NotifyStatus(x, "PLAYING")  OBVIOUS
  <2>4. Sane(y)  BY <2>2, <2>3, Notified DEF Statuses
  <2>5. x = [m EXCEPT !.bus = Tail(@)]  BY <1>1, <2>1 DEF Moved, Sane, MediaStates
  <2>6. m' = y  BY <1>4, <2>3, <2>5 DEF CbStateChanged
  <2> QED  BY <2>4, <2>6
<1>5. CASE CbError
  <2>1. PICK x : x = Moved(m, b, "ready")  OBVIOUS
  <2>2. Sane(x)  BY <1>3, <2>1
  <2>3. PICK y : y = NotifyStatus(x, "STOPPED")  OBVIOUS
  <2>4. Sane(y)  BY <2>2, <2>3, Notified DEF Statuses
  <2>5. m' = y  BY <1>1, <1>5, <2>1, <2>3 DEF CbError, Moved
  <2> QED  BY <2>4, <2>5
<1>6. CASE CbEos
  <2>1. PICK x : x = Moved(m, b, "ready")  OBVIOUS
  <2>2. Sane(x)  BY <1>3, <2>1
  <2>3. PICK q : q = [[[x EXCEPT !.pstatus = "STOPPED"] EXCEPT !.mp = "STOPPED"]
                          EXCEPT !.finished = TRUE]
    OBVIOUS
  <2>4. q \in MediaStates /\ q.pstatus = "STOPPED" /\ q.mp = "STOPPED"
    BY <2>2, <2>3 DEF Sane, MediaStates, Statuses
  <2>5. PICK y : y = MediaStateChanged(q, "STOPPED")  OBVIOUS
  <2>6. y \in MediaStates /\ y.pstatus = q.pstatus /\ y.mp = q.mp
    BY <2>4, <2>5, MediaStateChangedFits DEF Statuses
  <2>7. m' = NotifyStatus(y, "STOPPED")
    BY <1>1, <1>6, <2>1, <2>3, <2>5 DEF CbEos, EmitEndOfStream, EventCallback, MediaFinished, Moved
  <2>8. m' = [y EXCEPT !.status = "STOPPED"]
    <3>1. CASE y.status = "STOPPED"
      BY <2>6, <2>7, <3>1 DEF NotifyStatus, MediaStates
    <3>2. CASE y.status # "STOPPED"
      BY <2>4, <2>6, <2>7, <3>2 DEF NotifyStatus, EmitStatus
    <3> QED  BY <3>1, <3>2
  <2>9. PICK z : z = [y EXCEPT !.status = "STOPPED"]  OBVIOUS
  <2>10. Sane(z)  BY <2>4, <2>6, <2>9 DEF Sane, Agree, MediaStates, Statuses
  <2> QED  BY <2>8, <2>9, <2>10
<1>7. CASE CbClockLost
  <2>1. m' = Moved(m, b, "starting")  BY <1>1, <1>7 DEF CbClockLost, Moved
  <2> QED  BY <1>3, <2>1
<1> QED  BY <1>4, <1>5, <1>6, <1>7 DEF CbMessage

LEMMA DiscoveredIsSane ==
    ASSUME Sane(m), NEW ok \in BOOLEAN, Discovered(ok)
    PROVE  Sane(m')
<1>1. PICK x : x = [m EXCEPT !.disc = FALSE]  OBVIOUS
<1>2. Sane(x)  BY <1>1 DEF Sane, Agree, MediaStates
<1>3. PICK y : y = NotifyStatus(x, "READY")  OBVIOUS
<1>4. Sane(y)  BY <1>2, <1>3, Notified DEF Statuses
<1>5. m' = y \/ m' = x  BY <1>1, <1>3 DEF Discovered
<1> QED  BY <1>2, <1>4, <1>5

LEMMA SaneNext == ASSUME MediaAssumption, Sane(m), [MediaNext]_m PROVE Sane(m')
<1>0. \A input : Outcomes(input) \subseteq BOOLEAN  BY DEF Outcomes
<1>1. CASE UNCHANGED m  BY <1>1
<1>2. CASE \E other \in {"tts", "asr"}, ok \in Outcomes("pausefail") : OtherTakes(other, ok)
  <2>1. PICK other \in {"tts", "asr"}, ok \in Outcomes("pausefail") : OtherTakes(other, ok)
    BY <1>2
  <2>2. ok \in BOOLEAN  BY <1>0
  <2>3. PICK x : x = IF m.focus = "owner" THEN OnUnfocus(m, ok, "waiting") ELSE m  OBVIOUS
  <2>4. Sane(x)  BY <2>2, <2>3, UnfocusIsSane
  <2>5. m' = [x EXCEPT !.other = other]  BY <2>1, <2>3 DEF OtherTakes
  <2> QED  BY <2>4, <2>5, OtherSetIsSane
<1>3. CASE \E ok \in Outcomes("startfail") : OtherReleases(ok)
  <2>1. PICK ok \in BOOLEAN : OtherReleases(ok)  BY <1>0, <1>3
  <2> QED  BY <2>1, HandOverIsSane DEF OtherReleases
<1>4. CASE PipelinePlays  BY <1>4, PostIsSane DEF PipelinePlays
<1>5. CASE \E msg \in {"eos", "error", "clocklost"} : PipelineReports(msg)
  BY <1>5, PostIsSane DEF PipelineReports
<1>6. CASE \E ok \in Outcomes("loadfail") : Discovered(ok)
  BY <1>0, <1>6, DiscoveredIsSane
<1> QED  BY <1>1, <1>2, <1>3, <1>4, <1>5, <1>6, DirectiveIsSane, CallIsSane, MessageIsSane
         DEF MediaNext

\* The layers of media playback never disagree when the main loop is idle,
\* whatever fails and whoever calls the player past its agent: each report that
\* a layer does not pass on is one the layers above already have
\* (NOTIFY_STATUS_CHANGED, nugu_player_emit_status(), MediaPlayer::setState()).
THEOREM LayersNeverDisagree ==
    ASSUME MediaAssumption
    PROVE  MediaSpec => [](MediaTypeOK /\ LayersAgree)
<1>1. MediaInit => Sane(m)  BY MediaInvInit DEF MediaInv, Kept, Fits
<1>2. Sane(m) /\ [MediaNext]_m => Sane(m)'  BY SaneNext
<1>3. Sane(m) => MediaTypeOK /\ LayersAgree  BY DEF Sane, Agree, MediaTypeOK, LayersAgree
<1> QED  BY <1>1, <1>2, <1>3, PTL DEF MediaSpec
------------------------------------------------------------------------------
(***************************************************************************)
(* The text agent.                                                         *)
(***************************************************************************)

Outs == {"open", "answered", "timeout"}
Agents == [state : {"IDLE", "BUSY"}, dialog : 0 .. MaxRequests, armed : BOOLEAN]
Works == [a : Agents, told : Seq({"IDLE", "BUSY"}), sent : 0 .. MaxRequests,
          out : [Requests -> Outs]]

\* What holds of a handler's work whatever state the agent is in: the dialog is
\* one that was sent, and what was not sent has no outcome.
Plain(w) ==
    /\ w \in Works
    /\ Len(w.told) <= 2
    /\ w.a.dialog <= w.sent
    /\ \A d \in Requests : d > w.sent => w.out[d] = "open"

\* The work is such that the handler may end here, or call the listener.
Sound(w) ==
    /\ Plain(w)
    /\ w.a.armed <=> w.a.state = "BUSY"
    /\ w.a.state = "BUSY" => w.a.dialog = w.sent /\ w.sent > 0 /\ w.out[w.sent] = "open"
    /\ w.told # <<>> => w.told[Len(w.told)] = w.a.state

TextInv ==
    /\ Sound(Work)
    /\ initialized \in BOOLEAN /\ foreign \in 0 .. MaxForeign
    /\ ~initialized => sent = 0

LEMMA ToldLast ==
    ASSUME NEW w, Plain(w), NEW s \in {"IDLE", "BUSY"}, NEW y, y = Told(w, s)
    PROVE  /\ Plain(y) /\ y.a = w.a /\ y.sent = w.sent /\ y.out = w.out
           /\ y.told # <<>> /\ y.told[Len(y.told)] = s
<1>0. w \in Works /\ Len(w.told) <= 2 /\ w.told \in Seq({"IDLE", "BUSY"})
  BY DEF Plain, Works
<1>1. PICK l : l = IF Len(w.told) = 2 THEN <<w.told[2], s>> ELSE Append(w.told, s)  OBVIOUS
<1>2. l \in Seq({"IDLE", "BUSY"}) /\ Len(l) <= 2 /\ l # <<>> /\ l[Len(l)] = s
  <2>1. CASE Len(w.told) = 2
    <3>1. w.told[2] \in {"IDLE", "BUSY"}  BY <1>0, <2>1
    <3> QED  BY <1>1, <2>1, <3>1
  <2>2. CASE Len(w.told) # 2
    <3>1. l = Append(w.told, s)  BY <1>1, <2>2
    <3>2. l \in Seq({"IDLE", "BUSY"}) /\ Len(l) = Len(w.told) + 1 /\ l[Len(l)] = s
      BY <1>0, <3>1
    <3>3. Len(w.told) \in Nat /\ Len(w.told) \in {0, 1}
      <4>1. \A k \in Nat : k <= 2 /\ k # 2 => k \in {0, 1}  OBVIOUS
      <4>2. Len(w.told) \in Nat  BY <1>0
      <4> QED  BY <1>0, <2>2, <4>1, <4>2
    <3>4. Len(l) <= 2 /\ Len(l) # 0
      <4>1. Len(l) = Len(w.told) + 1  BY <3>2
      <4>2. CASE Len(w.told) = 0  BY <4>1, <4>2
      <4>3. CASE Len(w.told) = 1
        <5>1. Len(l) = 1 + 1  BY <4>1, <4>3
        <5> QED  BY <5>1
      <4> QED  BY <3>3, <4>2, <4>3
    <3>5. l # <<>>  BY <3>4
    <3> QED  BY <3>2, <3>4, <3>5
  <2> QED  BY <2>1, <2>2
<1>3. y = [w EXCEPT !.told = l]  BY <1>1 DEF Told
<1>4. y \in Works /\ y.told = l /\ y.a = w.a /\ y.sent = w.sent /\ y.out = w.out
  BY <1>0, <1>2, <1>3 DEF Works
<1> QED  BY <1>2, <1>4 DEF Plain

\* What Ask() does to its work when the agent is not busy.
LEMMA Asked ==
    ASSUME TextAssumption, initialized, NEW w, Sound(w), NEW y, y = Ask(w)
    PROVE  Sound(y)
<1>0. w \in Works /\ w.a \in Agents /\ w.sent \in 0 .. MaxRequests /\ MaxRequests \in Nat
      /\ w.out \in [Requests -> Outs]
  BY DEF TextAssumption, Sound, Plain, Works
<1>1. CASE w.a.state = "BUSY" \/ w.sent = MaxRequests
  <2>1. y = w  BY <1>1 DEF Ask
  <2> QED  BY <2>1
<1>2. CASE ~(w.a.state = "BUSY" \/ w.sent = MaxRequests)
  <2>1. PICK b : b = [[w.a EXCEPT !.armed = TRUE] EXCEPT !.state = "BUSY"]  OBVIOUS
  <2>2. b \in Agents /\ b.state = "BUSY" /\ b.armed /\ b.dialog = w.a.dialog
    BY <1>0, <2>1 DEF Agents
  <2>3. PICK u : u = [w EXCEPT !.a = b]  OBVIOUS
  <2>4. /\ u \in Works /\ u.a = b /\ u.told = w.told /\ u.sent = w.sent /\ u.out = w.out
    BY <1>0, <2>2, <2>3 DEF Works
  <2>5. Plain(u)  BY <2>2, <2>4 DEF Sound, Plain
  <2>6. PICK v : v = Told(u, "BUSY")  OBVIOUS
  <2>7. /\ Plain(v) /\ v.a = b /\ v.sent = w.sent /\ v.out = w.out
        /\ v.told # <<>> /\ v.told[Len(v.told)] = "BUSY"
    BY <2>4, <2>5, <2>6, ToldLast
  <2>8. PICK n : n = w.sent + 1  OBVIOUS
  <2>9. n \in Requests /\ n \in 0 .. MaxRequests /\ n > w.sent /\ n > 0
    BY <1>0, <1>2, <2>8 DEF Requests
  <2>10. PICK c : c = [b EXCEPT !.dialog = n]  OBVIOUS
  <2>11. c \in Agents /\ c.state = "BUSY" /\ c.armed /\ c.dialog = n
    BY <2>2, <2>9, <2>10 DEF Agents
  <2>12. y = [v EXCEPT !.sent = n, !.a = c]
    <3>1. [StartTimer(w) EXCEPT !.a.state = "BUSY"] = u
      <4>1. StartTimer(w) = [w EXCEPT !.a = [w.a EXCEPT !.armed = TRUE]]
        BY DEF StartTimer
      <4> QED  BY <1>0, <2>1, <2>3, <4>1 DEF Works
    <3>2. y = SendEventTextInput(v)  BY <1>2, <2>6, <3>1 DEF Ask
    <3> QED  BY <2>7, <2>8, <2>10, <3>2 DEF SendEventTextInput, Plain, Works
  <2>13. /\ y \in Works /\ y.a = c /\ y.sent = n /\ y.told = v.told /\ y.out = w.out
    BY <2>7, <2>9, <2>11, <2>12 DEF Plain, Works
  <2>14. y.out[n] = "open"  BY <2>9, <2>13 DEF Sound, Plain
  <2>15. Plain(y)
    <3>1. Len(y.told) <= 2  BY <2>7, <2>13 DEF Plain
    <3>2. \A d \in Requests : d > n => w.out[d] = "open"
      BY <1>0, <2>8 DEF Sound, Plain, Requests
    <3>3. y.a.dialog <= y.sent
      <4>1. y.a.dialog = n /\ y.sent = n  BY <2>11, <2>13
      <4>2. n <= n  BY <2>9
      <4> QED  BY <4>1, <4>2
    <3>4. \A d \in Requests : d > y.sent => y.out[d] = "open"
      BY <2>13, <3>2
    <3> QED  BY <2>13, <3>1, <3>3, <3>4 DEF Plain
  <2> QED  BY <2>7, <2>9, <2>11, <2>13, <2>14, <2>15 DEF Sound
<1> QED  BY <1>1, <1>2

\* The listener hears that the agent is idle, and may ask.
LEMMA IdleTold ==
    ASSUME TextAssumption, initialized, NEW w, Plain(w), ~w.a.armed, w.a.state = "IDLE",
           NEW again \in BOOLEAN, NEW y, y = ToldAndAsks(w, "IDLE", again)
    PROVE  Sound(y)
<1>1. PICK v : v = Told(w, "IDLE")  OBVIOUS
<1>2. /\ Plain(v) /\ v.a = w.a /\ v.told # <<>> /\ v.told[Len(v.told)] = "IDLE"
  BY <1>1, ToldLast
<1>3. Sound(v)  BY <1>2 DEF Sound
<1>4. y = IF again THEN Ask(v) ELSE v  BY <1>1 DEF ToldAndAsks
<1> QED  BY <1>3, <1>4, Asked

\* The dialog of a directive is announced: the request it answers ends.
LEMMA AnnouncedSound ==
    ASSUME TextAssumption, initialized, TextInv, NEW d, d \in 1 .. sent \/ d = Foreign,
           NEW again \in BOOLEAN, NEW y, y = Announced(d, again)
    PROVE  Sound(y)
<1>0. /\ Sound(Work) /\ MaxRequests \in Nat /\ sent \in 0 .. MaxRequests
      /\ outcome \in [Requests -> Outs] /\ agent \in Agents /\ agent.dialog <= sent
      /\ Work.a = agent /\ Work.sent = sent /\ Work.out = outcome /\ Work.told = told
      /\ told \in Seq({"IDLE", "BUSY"}) /\ Len(told) <= 2 /\ agent.dialog \in 0 .. MaxRequests
  BY DEF TextAssumption, TextInv, Sound, Plain, Works, Work, Agents
<1>1. PICK o : o = IF d \in Requests /\ outcome[d] = "open"
                   THEN [outcome EXCEPT ![d] = "answered"] ELSE outcome
  OBVIOUS
<1>2. PICK w : w = [Work EXCEPT !.out = o]  OBVIOUS
<1>3. y = ReceiveCommandAll(w, d, again)
  BY <1>1, <1>2 DEF Announced, Work
<1>4. /\ o \in [Requests -> Outs]
      /\ \A e \in Requests : e # d => o[e] = outcome[e]
  BY <1>0, <1>1 DEF Outs
<1>5. w \in Works /\ w.a = agent /\ w.sent = sent /\ w.told = told /\ w.out = o
  BY <1>0, <1>2, <1>4 DEF Work, Works
<1>6. Plain(w)
  <2>1. \A e \in Requests : e > sent => outcome[e] = "open"
    BY <1>0 DEF Sound, Plain
  <2>2. \A e \in Requests : e > sent => e # d \/ o[e] = outcome[e]
    BY <1>0, <1>1 DEF Requests, Foreign
  <2> QED  BY <1>0, <1>4, <1>5, <2>1, <2>2 DEF Plain
<1>7. CASE d # agent.dialog
  <2>1. y = w  BY <1>3, <1>5, <1>7 DEF ReceiveCommandAll
  <2>2. agent.state = "BUSY" => agent.dialog = sent /\ sent > 0 /\ o[sent] = "open"
    <3>1. SUFFICES ASSUME agent.state = "BUSY"
                   PROVE  agent.dialog = sent /\ sent > 0 /\ o[sent] = "open"
      OBVIOUS
    <3>2. agent.dialog = sent /\ sent > 0 /\ outcome[sent] = "open"
      BY <1>0, <3>1 DEF Sound
    <3>3. sent \in Requests /\ sent # d  BY <1>0, <1>7, <3>2 DEF Requests
    <3> QED  BY <1>4, <3>2, <3>3
  <2>3. /\ agent.armed <=> agent.state = "BUSY"
        /\ told # <<>> => told[Len(told)] = agent.state
    BY <1>0 DEF Sound
  <2> QED  BY <1>5, <1>6, <2>1, <2>2, <2>3 DEF Sound
<1>8. CASE d = agent.dialog
  <2>1. PICK b : b = [[[agent EXCEPT !.armed = FALSE] EXCEPT !.dialog = NoDialog]
                          EXCEPT !.state = "IDLE"]
    OBVIOUS
  <2>2. b \in Agents /\ b.state = "IDLE" /\ ~b.armed /\ b.dialog = 0
    <3>1. 0 \in 0 .. MaxRequests  BY <1>0
    <3>2. b = [agent EXCEPT !.armed = FALSE, !.dialog = 0, !.state = "IDLE"]
      BY <2>1 DEF NoDialog
    <3> QED  BY <1>0, <3>1, <3>2 DEF Agents
  <2>3. PICK v : v = [w EXCEPT !.a = b]  OBVIOUS
  <2>4. v \in Works /\ v.a = b /\ v.sent = sent /\ v.told = told /\ v.out = o
    BY <1>5, <2>2, <2>3 DEF Works
  <2>5. Plain(v)  BY <1>0, <1>5, <1>6, <2>2, <2>4 DEF Plain
  <2>6. [StopTimer(w) EXCEPT !.a.dialog = NoDialog, !.a.state = "IDLE"] = v
    <3>1. StopTimer(w) = [w EXCEPT !.a = [agent EXCEPT !.armed = FALSE]]
      BY <1>5 DEF StopTimer, Works
    <3> QED  BY <1>5, <2>1, <2>3, <3>1 DEF Works
  <2>7. y = ToldAndAsks(v, "IDLE", again)
    BY <1>3, <1>5, <1>8, <2>6 DEF ReceiveCommandAll
  <2> QED  BY <2>2, <2>4, <2>5, <2>7, IdleTold
<1> QED  BY <1>7, <1>8

LEMMA WorkedSound ==
    ASSUME NEW y, Sound(y), Worked(y)
    PROVE  Sound(Work')
<1>1. y = [a |-> y.a, told |-> y.told, sent |-> y.sent, out |-> y.out]
  BY DEF Sound, Plain, Works
<1>2. Work' = y  BY <1>1 DEF Work, Worked
<1> QED  BY <1>2

LEMMA TimeoutKeeps ==
    ASSUME TextAssumption, TextInv, NEW again \in BOOLEAN, NotifyResponseTimeout(again)
    PROVE  TextInv'
<1>0. /\ Sound(Work) /\ MaxRequests \in Nat /\ sent \in 0 .. MaxRequests
      /\ outcome \in [Requests -> Outs] /\ agent \in Agents /\ agent.dialog <= sent
      /\ Work.a = agent /\ Work.sent = sent /\ Work.out = outcome /\ Work.told = told
      /\ Work \in Works /\ Len(told) <= 2
  BY DEF TextAssumption, TextInv, Sound, Plain, Works, Work, Agents
<1>1. agent.state = "BUSY" /\ sent > 0 /\ initialized /\ initialized \in BOOLEAN
      /\ foreign \in 0 .. MaxForeign
  <2>1. agent.armed  BY DEF NotifyResponseTimeout
  <2>2. agent.state = "BUSY"
    <3>1. Work.a.armed <=> Work.a.state = "BUSY"  BY DEF TextInv, Sound
    <3> QED  BY <1>0, <2>1, <3>1
  <2>3. sent > 0  BY <1>0, <2>2 DEF Sound
  <2>4. sent # 0  BY <1>0, <2>3
  <2> QED  BY <2>2, <2>3, <2>4 DEF TextInv
<1>2. PICK o : o = [d \in Requests |-> IF d = agent.dialog /\ outcome[d] = "open" THEN "timeout"
                                       ELSE outcome[d]]
  OBVIOUS
<1>3. o \in [Requests -> Outs] /\ \A d \in Requests : d # agent.dialog => o[d] = outcome[d]
  BY <1>0, <1>2 DEF Outs
<1>4. PICK b : b = [agent EXCEPT !.armed = FALSE]  OBVIOUS
<1>5. b \in Agents /\ b.state = "BUSY" /\ ~b.armed /\ b.dialog = agent.dialog
  BY <1>0, <1>1, <1>4 DEF Agents
<1>6. PICK w : w = [Work EXCEPT !.a = b, !.out = o]  OBVIOUS
<1>7. w \in Works /\ w.a = b /\ w.out = o /\ w.sent = sent /\ w.told = told
  BY <1>0, <1>3, <1>5, <1>6 DEF Works
<1>8. PICK c : c = [b EXCEPT !.state = "IDLE"]  OBVIOUS
<1>9. c \in Agents /\ c.state = "IDLE" /\ ~c.armed /\ c.dialog = agent.dialog
  BY <1>5, <1>8 DEF Agents
<1>10. PICK v : v = [w EXCEPT !.a = c]  OBVIOUS
<1>11. v \in Works /\ v.a = c /\ v.out = o /\ v.sent = sent /\ v.told = told
  BY <1>7, <1>9, <1>10 DEF Works
<1>12. Plain(v)
  <2>1. \A d \in Requests : d > sent => outcome[d] = "open" /\ d # agent.dialog
    BY <1>0 DEF Sound, Plain, Requests, Agents
  <2> QED  BY <1>0, <1>3, <1>9, <1>11, <2>1 DEF Plain
<1>13. Ask(w) = w  BY <1>5, <1>7 DEF Ask
<1>14. [w EXCEPT !.a.state = "IDLE"] = v  BY <1>7, <1>8, <1>10 DEF Works
<1>15. PICK y : y = ToldAndAsks(v, "IDLE", again)  OBVIOUS
<1>16. Sound(y)  BY <1>1, <1>9, <1>11, <1>12, <1>15, IdleTold
<1>17. [Work EXCEPT !.a.armed = FALSE,
                    !.out = [d \in Requests |->
                        IF d = agent.dialog /\ @[d] = "open" THEN "timeout" ELSE @[d]]] = w
  BY <1>0, <1>2, <1>4, <1>6 DEF Work
<1>18. Worked(y)
  BY <1>13, <1>14, <1>15, <1>17 DEF NotifyResponseTimeout
<1>19. initialized' = initialized /\ foreign' = foreign  BY DEF NotifyResponseTimeout
<1> QED  BY <1>1, <1>16, <1>18, <1>19, WorkedSound DEF TextInv

LEMMA TextInvInit == ASSUME TextAssumption, TextInit PROVE TextInv
<1>0. MaxRequests \in Nat /\ MaxForeign \in Nat  BY DEF TextAssumption
<1>1. agent \in Agents /\ agent.dialog = 0 /\ ~agent.armed /\ agent.state = "IDLE"
  BY <1>0 DEF TextInit, Agents, NoDialog
<1>2. outcome \in [Requests -> Outs] /\ \A d \in Requests : outcome[d] = "open"
  BY DEF TextInit, Outs
<1>3. told = <<>> /\ told \in Seq({"IDLE", "BUSY"}) /\ Len(told) <= 2 /\ sent = 0
      /\ sent \in 0 .. MaxRequests
  BY <1>0 DEF TextInit
<1>4. Work \in Works /\ Work.a = agent /\ Work.told = told /\ Work.out = outcome /\ Work.sent = sent
  BY <1>1, <1>2, <1>3 DEF Work, Works
<1>5. Sound(Work)  BY <1>1, <1>2, <1>3, <1>4 DEF Sound, Plain
<1>6. initialized = FALSE /\ foreign = 0  BY DEF TextInit
<1>7. initialized \in BOOLEAN  BY <1>6
<1>8. foreign \in 0 .. MaxForeign  BY <1>0, <1>6
<1> QED  BY <1>3, <1>5, <1>7, <1>8 DEF TextInv

LEMMA TextInvNext ==
    ASSUME TextAssumption, ~Early, TextInv, [TextNext]_textVars
    PROVE  TextInv'
<1>0. initialized \in BOOLEAN /\ foreign \in 0 .. MaxForeign /\ MaxForeign \in Nat /\ Sound(Work)
  BY DEF TextInv, TextAssumption
<1>1. CASE UNCHANGED textVars
  <2>1. Work' = Work /\ initialized' = initialized /\ foreign' = foreign /\ sent' = sent
    BY <1>1 DEF textVars, Work
  <2> QED  BY <2>1 DEF TextInv
<1>2. CASE Initialize
  <2>1. Work' = Work /\ initialized' /\ foreign' = foreign  BY <1>2 DEF Initialize, Work
  <2> QED  BY <1>0, <2>1 DEF TextInv, Initialize
<1>3. CASE RequestTextInput
  <2>1. initialized /\ initialized' = initialized /\ foreign' = foreign
    BY <1>3 DEF RequestTextInput
  <2>2. PICK y : y = Ask(Work)  OBVIOUS
  <2>3. Sound(y)  BY <1>0, <2>1, <2>2, Asked
  <2>4. Worked(y)  BY <1>3, <2>2 DEF RequestTextInput
  <2> QED  BY <1>0, <2>1, <2>3, <2>4, WorkedSound DEF TextInv
<1>4. CASE \E again \in BOOLEAN : NotifyResponseTimeout(again)
  BY <1>4, TimeoutKeeps
<1>5. ASSUME NEW d \in Requests, NEW again \in BOOLEAN, OtherDirective(d, again)
      PROVE  TextInv'
  <2>1. d \in 1 .. sent /\ initialized' = initialized /\ foreign' = foreign
    BY <1>5 DEF OtherDirective
  <2>2. initialized  BY <2>1 DEF TextInv
  <2>3. PICK y : y = Announced(d, again)  OBVIOUS
  <2>4. Sound(y)  BY <2>1, <2>2, <2>3, AnnouncedSound
  <2>5. Worked(y)  BY <1>5, <2>3 DEF OtherDirective
  <2> QED  BY <1>0, <2>1, <2>2, <2>4, <2>5, WorkedSound DEF TextInv
<1>6. ASSUME NEW d \in Requests \cup {Foreign}, NEW again \in BOOLEAN, TextSource(d, again)
      PROVE  TextInv'
  <2>1. /\ d \in 1 .. sent \/ d = Foreign
        /\ initialized /\ initialized' = initialized /\ foreign' = foreign + 1
        /\ foreign < MaxForeign
    BY <1>6 DEF TextSource
  <2>2. PICK u : u = Announced(d, again)  OBVIOUS
  <2>3. Sound(u)  BY <2>1, <2>2, AnnouncedSound
  <2>4. PICK y : y = Ask(u)  OBVIOUS
  <2>5. Sound(y)  BY <2>1, <2>3, <2>4, Asked
  <2>6. Worked(y)  BY <1>6, <2>2, <2>4 DEF TextSource
  <2>7. foreign' \in 0 .. MaxForeign  BY <1>0, <2>1
  <2> QED  BY <1>0, <2>1, <2>5, <2>6, <2>7, WorkedSound DEF TextInv
<1> QED  BY <1>1, <1>2, <1>3, <1>4, <1>5, <1>6 DEF TextNext

\* No request goes without a running timer, no timer runs without an open
\* request, and the listener knows the agent's state, whatever it asks for
\* inside the calls that tell it (requestTextInput(), notifyResponseTimeout(),
\* receiveCommandAll(), parsingTextSource()); requests come after initialize().
THEOREM TextIsSafe ==
    ASSUME TextAssumption, ~Early
    PROVE  TextSpec => []TextSafe
<1>1. TextInit => TextInv  BY TextInvInit
<1>2. TextInv /\ [TextNext]_textVars => TextInv'  BY TextInvNext
<1>3. TextInv => TextSafe
  <2>1. SUFFICES ASSUME TextInv PROVE TextSafe  OBVIOUS
  <2>2. /\ agent \in Agents /\ told \in Seq({"IDLE", "BUSY"}) /\ outcome \in [Requests -> Outs]
        /\ sent \in 0 .. MaxRequests /\ initialized \in BOOLEAN /\ foreign \in 0 .. MaxForeign
        /\ Work.a = agent /\ Work.told = told /\ Work.out = outcome /\ Work.sent = sent
    BY <2>1 DEF TextInv, Sound, Plain, Works, Work
  <2>3. TextTypeOK  BY <2>2 DEF TextTypeOK, Agents, Outs
  <2>4. BusyIsTimed /\ ListenerKnows
    BY <2>1, <2>2 DEF TextInv, Sound, BusyIsTimed, ListenerKnows
  <2> QED  BY <2>3, <2>4 DEF TextSafe
<1> QED  BY <1>1, <1>2, <1>3, PTL DEF TextSpec

----------------------------------------------------------------------------
(***************************************************************************)
(* Volume and position of a media player.                                  *)
(***************************************************************************)

CONSTANTS Length, Offsets, Seeks, Volumes
VARIABLES status, pipe, reached, gpos, gh, position, duration, volume, mute, pvolume,
          wanted, passed, touched

Controls == INSTANCE MediaControls

LEMMA Clamped ==
    ASSUME NEW v \in Int, NEW low \in Int, NEW high \in Int, low <= high
    PROVE  /\ Controls!Clamp(v, low, high)
                = IF v < low THEN low ELSE IF v > high THEN high ELSE v
           /\ Controls!Clamp(v, low, high) \in low..high
<1>1. PICK k \in Int : k = IF v < high THEN v ELSE high  OBVIOUS
<1>2. Controls!Min({v, high}) = k
  <2>1. k \in {v, high} /\ \A i \in {v, high} : k <= i  BY <1>1
  <2>2. \A j \in {v, high} : (\A i \in {v, high} : j <= i) => j = k  BY <2>1
  <2> QED  BY <2>1, <2>2 DEF Controls!Min
<1>3. PICK l \in Int : l = IF k > low THEN k ELSE low  BY <1>1
<1>4. Controls!Max({low, k}) = l
  <2>1. l \in {low, k} /\ \A i \in {low, k} : l >= i  BY <1>3
  <2>2. \A j \in {low, k} : (\A i \in {low, k} : j >= i) => j = l  BY <2>1
  <2> QED  BY <2>1, <2>2 DEF Controls!Max
<1>5. Controls!Clamp(v, low, high) = l  BY <1>2, <1>4 DEF Controls!Clamp
<1> QED  BY <1>1, <1>3, <1>5

LEMMA VolumeClamped ==
    ASSUME NEW v \in Int
    PROVE  /\ Controls!Clamp(v, 0, 100) = IF v < 0 THEN 0 ELSE IF v > 100 THEN 100 ELSE v
           /\ Controls!Clamp(v, 0, 100) \in 0..100
<1>1. PICK low \in Int, high \in Int : low = 0 /\ high = 100  OBVIOUS
<1>2. /\ Controls!Clamp(v, low, high) = IF v < low THEN low ELSE IF v > high THEN high ELSE v
      /\ Controls!Clamp(v, low, high) \in low..high
  <2>1. low \in Int /\ high \in Int /\ low <= high  BY <1>1
  <2> QED  BY <2>1, Clamped
<1> QED  BY <1>1, <1>2

\* The offset is still reserved, or the media has been sent there or it failed.
Reserved ==
    \/ gh.seek_reserve = wanted
    \/ gh.seek_reserve = 0 /\ (passed \/ gpos >= wanted)

\* What the driver was asked to play from is in its reserve until it plays.
ControlsInv ==
    /\ volume \in Controls!VolumeMin..Controls!VolumeMax /\ mute \in BOOLEAN
    /\ Controls!VolumeFollows /\ (mute => touched) /\ touched \in BOOLEAN
    /\ gpos \in Nat /\ wanted \in Int /\ passed \in BOOLEAN
    /\ gh \in [duration : {-1, Length}, seekable : BOOLEAN, seek_reserve : Int]
    /\ (wanted >= 0 => wanted <= Length /\ Reserved)
    /\ Controls!SeeksToOffset
    /\ position \in Int /\ duration \in Int

LEMMA ControlsStep ==
    ASSUME Controls!ControlsAssumption, ControlsInv, [Controls!Next]_(Controls!vars)
    PROVE  ControlsInv'
<1> USE DEF Controls!VolumeMin, Controls!VolumeMax, Reserved
<1>0. /\ Length \in Nat \ {0} /\ Offsets \subseteq 0..Length /\ Seeks \subseteq Int
      /\ Volumes \subseteq Int
  BY DEF Controls!ControlsAssumption
<1>a. /\ volume \in 0..100 /\ gpos \in Nat /\ wanted \in Int /\ passed \in BOOLEAN
      /\ position \in Int /\ duration \in Int /\ gh.seek_reserve \in Int
      /\ gh \in [duration : {-1, Length}, seekable : BOOLEAN, seek_reserve : Int]
  BY DEF ControlsInv
<1>m. ASSUME UNCHANGED Controls!volumeVars,
             gpos' \in Nat, wanted' \in Int, position' \in Int, duration' \in Int,
             gh' \in [duration : {-1, Length}, seekable : BOOLEAN, seek_reserve : Int],
             wanted' >= 0 => wanted' <= Length /\ Reserved',
             passed' \in BOOLEAN,
             status' = "PLAYING" /\ wanted' >= 0 /\ ~passed' => gpos' >= wanted'
      PROVE  ControlsInv'
  BY <1>m DEF ControlsInv, Controls!VolumeFollows, Controls!SeeksToOffset, Controls!volumeVars
<1>1. ASSUME NEW offset \in Offsets, Controls!Load(offset) PROVE ControlsInv'
  <2>1. offset \in 0..Length  BY <1>0
  <2>2. Controls!SeekTarget(0, 0, offset) = offset  BY DEF Controls!SeekTarget
  <2>3. gh' = [duration |-> -1, seekable |-> FALSE, seek_reserve |-> offset]
    BY <1>1, <2>2 DEF Controls!Load, Controls!NoMedia
  <2>4. /\ gh' \in [duration : {-1, Length}, seekable : BOOLEAN, seek_reserve : Int]
        /\ gh'.seek_reserve = offset
    BY <2>1, <2>3, <1>0
  <2>5. /\ gpos' = 0 /\ position' = 0 /\ duration' = 0 /\ wanted' = offset
        /\ status' = "STOPPED" /\ passed' = FALSE /\ UNCHANGED Controls!volumeVars
    BY <1>1 DEF Controls!Load
  <2>6. wanted' \in Int /\ wanted' <= Length /\ gpos' \in Nat /\ position' \in Int /\ duration' \in Int
    BY <2>1, <2>5, <1>0
  <2>7. wanted' >= 0 => wanted' <= Length /\ Reserved'
    BY <2>4, <2>5, <2>6 DEF Reserved
  <2>8. status' = "PLAYING" /\ wanted' >= 0 /\ ~passed' => gpos' >= wanted'  BY <2>5
  <2>9. UNCHANGED Controls!volumeVars /\ passed' \in BOOLEAN  BY <2>5
  <2> QED  BY <2>4, <2>6, <2>7, <2>8, <2>9, <1>m
<1>2. ASSUME NEW seekable \in BOOLEAN, Controls!Discovered(seekable) PROVE ControlsInv'
  <2>1. gh' = [gh EXCEPT !.duration = Length, !.seekable = seekable]
    BY <1>2 DEF Controls!Discovered
  <2>2. /\ gh' \in [duration : {-1, Length}, seekable : BOOLEAN, seek_reserve : Int]
        /\ gh'.seek_reserve = gh.seek_reserve
    BY <2>1, <1>a
  <2>3. /\ UNCHANGED <<gpos, position, wanted, passed, Controls!volumeVars>> /\ duration' = Length
        /\ status' = "PLAYING" => status = "PLAYING"
    BY <1>2 DEF Controls!Discovered
  <2>4. duration' \in Int  BY <2>3, <1>0
  <2>5. status' = "PLAYING" /\ wanted' >= 0 /\ ~passed' => gpos' >= wanted'
    BY <2>3 DEF ControlsInv, Controls!SeeksToOffset
  <2>6. wanted' >= 0 => wanted' <= Length /\ Reserved'
    BY <2>2, <2>3 DEF ControlsInv, Reserved
  <2>7. gpos' \in Nat /\ position' \in Int /\ wanted' \in Int /\ passed' \in BOOLEAN
    BY <2>3, <1>a
  <2>8. UNCHANGED Controls!volumeVars  BY <2>3
  <2> QED  BY <2>2, <2>4, <2>5, <2>6, <2>7, <2>8, <1>m
<1>3. ASSUME NEW ok \in BOOLEAN, Controls!CbPlaying(ok) PROVE ControlsInv'
  <2>1. UNCHANGED <<position, duration, wanted, Controls!volumeVars>>
    BY <1>3 DEF Controls!CbPlaying
  <2>2. CASE UNCHANGED <<gpos, gh, passed>> /\ (status = "PLAYING" \/ gh.seek_reserve = 0)
    <3>1. wanted >= 0 /\ ~passed => gpos >= wanted
      BY <2>2, <1>a DEF ControlsInv, Reserved, Controls!SeeksToOffset
    <3> QED  BY <2>1, <2>2, <3>1, <1>a, <1>m DEF ControlsInv
  <2>3. CASE /\ gpos' = IF ok THEN Controls!Clamp(gh.seek_reserve, 0, Length) ELSE gpos
             /\ gh' = [gh EXCEPT !.seek_reserve = 0]
             /\ passed' = (passed \/ ~ok)
             /\ gh.seek_reserve # 0
    <3>1. /\ gh' \in [duration : {-1, Length}, seekable : BOOLEAN, seek_reserve : Int]
          /\ gh'.seek_reserve = 0
      BY <2>3, <1>a
    <3>2. ok => gpos' = IF gh.seek_reserve < 0 THEN 0
                        ELSE IF gh.seek_reserve > Length THEN Length ELSE gh.seek_reserve
      BY <2>3, <1>0, <1>a, Clamped
    <3>3. gpos' \in Nat  BY <2>3, <3>2, <1>0, <1>a
    <3>4. ASSUME wanted >= 0 PROVE wanted <= Length /\ gh.seek_reserve = wanted
      BY <3>4, <2>3 DEF ControlsInv, Reserved
    <3>5. wanted >= 0 /\ ok => gpos' >= wanted  BY <3>2, <3>4, <1>0, <1>a
    <3>6. wanted' >= 0 => wanted' <= Length /\ Reserved'
      BY <2>1, <2>3, <3>1, <3>4, <3>5
    <3>7. passed' \in BOOLEAN  BY <2>3, <1>a
    <3> QED  BY <2>1, <2>3, <3>1, <3>3, <3>5, <3>6, <3>7, <1>a, <1>m
  <2> QED  BY <1>3, <2>2, <2>3 DEF Controls!CbPlaying
<1>4. CASE Controls!Pause
  BY <1>4, <1>a, <1>m DEF Controls!Pause, ControlsInv
<1>5. CASE Controls!Advance
  <2>1. /\ gpos' = gpos + 1
        /\ UNCHANGED <<status, gh, position, duration, wanted, passed, Controls!volumeVars>>
    BY <1>5 DEF Controls!Advance
  <2> QED  BY <2>1, <1>a, <1>m DEF ControlsInv, Controls!SeeksToOffset
<1>6. CASE Controls!Poll
  <2>1. position' \in Int  BY <1>6, <1>a DEF Controls!Poll, Controls!SetPosition
  <2> QED  BY <1>6, <2>1, <1>a, <1>m DEF Controls!Poll, ControlsInv, Controls!SeeksToOffset
<1>11. CASE Controls!Start \/ Controls!PipelinePlays
  <2>1. UNCHANGED <<status, gpos, gh, position, duration, wanted, passed, Controls!volumeVars>>
    BY <1>11 DEF Controls!Start, Controls!PipelinePlays
  <2> QED  BY <2>1, <1>a, <1>m DEF ControlsInv, Controls!SeeksToOffset
<1>12. CASE Controls!Resume
  <2>1. /\ passed' = (passed \/ gh.seek_reserve # 0)
        /\ UNCHANGED <<gpos, gh, position, duration, wanted, Controls!volumeVars>>
    BY <1>12 DEF Controls!Resume
  <2>2. ASSUME wanted >= 0, ~passed' PROVE gpos >= wanted
    <3>1. ~passed /\ gh.seek_reserve = 0  BY <2>1, <2>2
    <3>2. Reserved  BY <2>2 DEF ControlsInv
    <3> QED  BY <2>2, <3>1, <3>2, <1>a DEF Reserved
  <2>3. wanted' >= 0 => wanted' <= Length /\ Reserved'
    BY <2>1, <1>a DEF ControlsInv, Reserved
  <2>4. passed' \in BOOLEAN  BY <2>1, <1>a
  <2> QED  BY <2>1, <2>2, <2>3, <2>4, <1>a, <1>m
<1>13. ASSUME NEW kept \in BOOLEAN, Controls!Stop(kept) PROVE ControlsInv'
  <2>1. /\ status' = "STOPPED" /\ gpos' = 0 /\ passed' = FALSE
        /\ wanted' = IF gh.seek_reserve = 0 THEN -1 ELSE wanted
        /\ UNCHANGED <<gh, position, duration, Controls!volumeVars>>
    BY <1>13 DEF Controls!Stop
  <2>2. wanted' >= 0 => wanted' <= Length /\ Reserved'
    BY <2>1, <1>a DEF ControlsInv, Reserved
  <2>3. wanted' \in Int  BY <2>1, <1>a
  <2> QED  BY <2>1, <2>2, <2>3, <1>a, <1>m
<1>7. ASSUME NEW sec \in Seeks, Controls!Seek(sec) PROVE ControlsInv'
  <2>0. Controls!SeekTarget(position, duration, sec) \in Int
    <3>1. sec \in Int  BY <1>0
    <3> QED  BY <3>1, <1>a DEF Controls!SeekTarget
  <2>1. PICK target \in Int : target = Controls!SeekTarget(position, duration, sec)
    BY <2>0
  <2>2. wanted' = -1 /\ UNCHANGED <<position, duration, passed, Controls!volumeVars>>
    BY <1>7 DEF Controls!Seek
  <2>3. CASE gh' = [gh EXCEPT !.seek_reserve = target] /\ UNCHANGED gpos
    <3>1. gh' \in [duration : {-1, Length}, seekable : BOOLEAN, seek_reserve : Int]
      BY <2>3, <1>a
    <3> QED  BY <2>2, <2>3, <3>1, <1>a, <1>m
  <2>4. CASE gpos' = Controls!Clamp(target, 0, Length) /\ UNCHANGED gh
    <3>1. gpos' \in 0..Length  BY <2>4, <1>0, Clamped
    <3> QED  BY <2>2, <2>4, <3>1, <1>0, <1>a, <1>m
  <2> QED  BY <2>1, <2>3, <2>4, <1>7 DEF Controls!Seek
<1>v. ASSUME UNCHANGED Controls!mediaVars, volume' \in 0..100, mute' \in BOOLEAN,
             touched', touched' \in BOOLEAN,
             pvolume' = IF mute' THEN 0 ELSE volume'
      PROVE  ControlsInv'
  BY <1>v DEF ControlsInv, Controls!mediaVars, Controls!SeeksToOffset, Controls!VolumeFollows
<1>8. ASSUME NEW vol \in Volumes, Controls!SetVolume(vol) PROVE ControlsInv'
  <2>1. vol \in Int  BY <1>0
  <2>2. volume' = Controls!Clamp(vol, 0, 100)  BY <1>8 DEF Controls!SetVolume
  <2>3. volume' \in 0..100  BY <2>1, <2>2, VolumeClamped
  <2>4. UNCHANGED <<Controls!mediaVars, mute>> /\ touched' = TRUE  BY <1>8 DEF Controls!SetVolume
  <2>5. CASE mute
    <3>1. UNCHANGED pvolume  BY <1>8, <2>5 DEF Controls!SetVolume
    <3>2. pvolume = 0  BY <2>5 DEF ControlsInv, Controls!VolumeFollows
    <3> QED  BY <3>1, <3>2, <2>3, <2>4, <2>5, <1>v
  <2>6. CASE ~mute
    <3>1. pvolume' = Controls!Clamp(volume', 0, 100)
      BY <1>8, <2>6 DEF Controls!SetVolume, Controls!PlayerSetVolume
    <3>2. PICK w \in 0..100 : w = volume'  BY <2>3
    <3>3. Controls!Clamp(w, 0, 100) = w  BY VolumeClamped
    <3>4. ~mute' /\ mute' \in BOOLEAN  BY <2>4, <2>6 DEF ControlsInv
    <3> QED  BY <3>1, <3>2, <3>3, <3>4, <2>3, <2>4, <1>v
  <2> QED  BY <2>5, <2>6
<1>9. ASSUME NEW on \in BOOLEAN, Controls!SetMute(on) PROVE ControlsInv'
  <2>1. /\ mute' = on /\ UNCHANGED <<Controls!mediaVars, volume>>
        /\ pvolume' = Controls!Clamp(IF on THEN -10 ELSE volume, 0, 100)
    BY <1>9 DEF Controls!SetMute, Controls!PlayerSetVolume, Controls!MuteSetting
  <2>2. PICK w \in Int : w = IF on THEN -10 ELSE volume  BY <1>a
  <2>3. Controls!Clamp(w, 0, 100) = IF w < 0 THEN 0 ELSE IF w > 100 THEN 100 ELSE w
    BY VolumeClamped
  <2>4. pvolume' = IF on THEN 0 ELSE volume  BY <2>1, <2>2, <2>3, <1>a
  <2>5. touched' = TRUE  BY <1>9 DEF Controls!SetMute
  <2> QED  BY <2>1, <2>4, <2>5, <1>a, <1>v
<1>10. CASE UNCHANGED Controls!vars
  BY <1>10 DEF Controls!vars, Controls!mediaVars, Controls!volumeVars, ControlsInv,
               Controls!VolumeFollows, Controls!SeeksToOffset
<1> QED  BY <1>1, <1>2, <1>3, <1>4, <1>5, <1>6, <1>7, <1>8, <1>9, <1>10, <1>11, <1>12,
             <1>13 DEF Controls!Next

\* What is heard has the volume that MediaPlayer says, however volume and mute
\* changes alternate (MediaPlayer::setVolume(), setMute()), and media that is
\* reported to play has been moved to the offset of its Play directive, unless
\* that seek failed or RESUME over D-Bus passed over it (gstreamer.c,
\* _cb_message(), _seek()): for media of every length, every offset, every seek
\* and every volume asked for.
THEOREM ControlsFollow ==
    ASSUME Controls!ControlsAssumption
    PROVE  Controls!Spec => [](Controls!VolumeFollows /\ Controls!SeeksToOffset)
<1>1. Controls!Init => ControlsInv
  <2> SUFFICES ASSUME Controls!Init PROVE ControlsInv  OBVIOUS
  <2>1. gh \in [duration : {-1, Length}, seekable : BOOLEAN, seek_reserve : Int]
    BY DEF Controls!Init, Controls!NoMedia
  <2>2. /\ status = "STOPPED" /\ gpos = 0 /\ position = 0 /\ duration = 0 /\ wanted = -2
        /\ passed = FALSE /\ volume = 100 /\ mute = FALSE /\ touched = FALSE
    BY DEF Controls!Init, Controls!VolumeMax
  <2>3. Controls!VolumeFollows /\ Controls!SeeksToOffset
    BY <2>2 DEF Controls!VolumeFollows, Controls!SeeksToOffset
  <2>4. volume \in Controls!VolumeMin..Controls!VolumeMax
    BY <2>2 DEF Controls!VolumeMin, Controls!VolumeMax
  <2>5. gpos \in Nat /\ wanted \in Int /\ position \in Int /\ duration \in Int
    BY <2>2
  <2>7. ~(wanted >= 0)  BY <2>2
  <2>8. passed \in BOOLEAN  BY <2>2
  <2>6. mute \in BOOLEAN /\ touched \in BOOLEAN /\ (mute => touched)  BY <2>2
  <2> QED  BY <2>1, <2>3, <2>4, <2>5, <2>6, <2>7, <2>8 DEF ControlsInv
<1>2. ControlsInv => Controls!VolumeFollows /\ Controls!SeeksToOffset  BY DEF ControlsInv
<1> QED  BY <1>1, <1>2, ControlsStep, PTL DEF Controls!Spec

----------------------------------------------------------------------------
(***************************************************************************)
(* The progress reports of the audio player.                               *)
(***************************************************************************)

CONSTANTS Delays, Intervals, MaxUnread, MaxAt, MaxPlays
VARIABLES state, at, unread, second, report, settings, begin, reported, seen, late, plays

Progress == INSTANCE ProgressReport WITH position <- second, asked <- settings,
                                       sent <- reported

Due(n, S) == {k \in S \ {0} : k % n = 0}

\* The reports s were sent for the settings r when the polls read the seconds S.
ReportsSent(r, S, s) ==
    /\ r.interval > 0 => s.interval = Cardinality(Due(Progress!Seconds(r.interval), S))
    /\ r.delay > 1 => s.delay = IF Progress!Seconds(r.delay) \in S THEN 1 ELSE 0

\* The instance has a copy of Cardinality.
LEMMA SameCardinality == \A S : Progress!Cardinality(S) = Cardinality(S)
  BY Zenon DEF Progress!Cardinality, Cardinality

LEMMA SentIsReportedOnce ==
    ASSUME ReportsSent(settings, seen, reported), ~late => (begin + 1)..second \subseteq seen
    PROVE  Progress!ReportedOnce
<1>1. \A n : Progress!Multiples(n, seen \ {0}) = Due(n, seen)  BY DEF Progress!Multiples, Due
<1>2. settings.interval > 0 =>
        reported.interval
            = Progress!Cardinality(Progress!Multiples(Progress!Seconds(settings.interval), seen \ {0}))
  BY <1>1, SameCardinality DEF ReportsSent
<1> QED  BY <1>2 DEF ReportsSent, Progress!ReportedOnce

LEMMA Settings ==
    ASSUME Progress!ProgressAssumption, NEW r \in Progress!Reports
    PROVE  r.delay \in Nat /\ r.interval \in Nat /\ (r.interval > 0 => r.interval >= 2)
<1>1. CASE r = Progress!NoReport  BY <1>1 DEF Progress!NoReport
<1>2. CASE r \in [delay : Delays, interval : Intervals]
  <2>1. r.delay \in Delays /\ r.interval \in Intervals  BY <1>2
  <2>2. r.delay \in Nat /\ r.interval \in Nat /\ r.interval # 1
    BY <2>1 DEF Progress!ProgressAssumption
  <2> QED  BY <2>2
<1> QED  BY <1>1, <1>2 DEF Progress!Reports

\* Before the first poll the position is 0, after it the last second read.
Polled ==
    /\ seen \subseteq 0..second
    /\ IF seen = {} THEN second = 0 /\ at - unread = 2 * begin
       ELSE second \in seen /\ second = Progress!Seconds(at - unread)

\* The settings of the last directive count unless it had none; as long as no poll
\* is late it finds the position at most one second on.
ProgressInv ==
    /\ at \in Nat /\ unread \in Nat /\ unread <= at
    /\ begin \in Nat /\ second \in Nat /\ late \in BOOLEAN
    /\ Polled
    /\ settings \in Progress!Reports /\ report \in Progress!Reports
    /\ settings = Progress!NoReport \/ settings = report
    /\ reported \in [delay : Nat, interval : Nat]
    /\ ReportsSent(settings, seen, reported)
    /\ ~late => (begin + 1)..second \subseteq seen

LEMMA OneMoreDue ==
    ASSUME NEW n \in Nat, NEW S, IsFiniteSet(S), NEW k \in Nat, k \notin S, k # 0
    PROVE  /\ Cardinality(Due(n, S)) \in Nat
           /\ Cardinality(Due(n, S \cup {k})) = Cardinality(Due(n, S)) + IF k % n = 0 THEN 1 ELSE 0
<1>1. Due(n, S) \subseteq S  BY DEF Due
<1>2. IsFiniteSet(Due(n, S))  BY <1>1, FS_Subset, Zenon
<1>3. Cardinality(Due(n, S)) \in Nat  BY <1>2, FS_CardinalityType
<1>4. k \notin S /\ k # 0  OBVIOUS
<1>5. CASE k % n = 0
  <2>1. Due(n, S \cup {k}) = Due(n, S) \cup {k} /\ k \notin Due(n, S)
    BY <1>4, <1>5 DEF Due
  <2>2. Cardinality(Due(n, S) \cup {k}) = Cardinality(Due(n, S)) + 1
    BY <2>1, <1>2, FS_AddElement, Zenon
  <2> QED  BY <2>1, <2>2, <1>3, <1>5
<1>6. CASE k % n # 0
  <2>1. Due(n, S \cup {k}) = Due(n, S)  BY <1>4, <1>6 DEF Due
  <2> QED  BY <2>1, <1>3, <1>6
<1> QED  BY <1>5, <1>6

LEMMA PollInv ==
    ASSUME Progress!ProgressAssumption, ProgressInv, Progress!Poll
    PROVE  ProgressInv'
<1>0. /\ at \in Nat /\ unread \in Nat /\ unread <= at /\ begin \in Nat /\ second \in Nat
      /\ late \in BOOLEAN
      /\ reported.delay \in Nat /\ reported.interval \in Nat
      /\ settings \in Progress!Reports /\ report \in Progress!Reports
      /\ settings = Progress!NoReport \/ settings = report
      /\ UNCHANGED <<at, report, settings, begin>> /\ unread' = 0
      /\ seen' = seen \cup {Progress!Seconds(at)} /\ late' = (late \/ unread > 2)
  BY DEF ProgressInv, Progress!Poll
<1>1. PICK s \in Nat : s = Progress!Seconds(at)  BY <1>0 DEF Progress!Seconds
<1>2. second' = s
  BY <1>1 DEF Progress!Poll, Progress!SetPosition
<1>3. s >= second
  <2>1. CASE seen = {}  BY <2>1, <1>1 DEF ProgressInv, Polled
  <2>2. CASE seen # {}
    <3>1. second = Progress!Seconds(at - unread)  BY <2>2 DEF ProgressInv, Polled
    <3> QED  BY <3>1, <1>0, <1>1 DEF Progress!Seconds
  <2> QED  BY <2>1, <2>2
<1>t. settings.delay \in Nat /\ settings.interval \in Nat /\ (settings.interval > 0 => settings.interval >= 2)
  BY <1>0, Settings
<1>5. Polled'
  <2>1. seen' # {} /\ second' \in seen'  BY <1>0, <1>1, <1>2
  <2>2. seen' \subseteq 0..second'
    <3>1. seen \subseteq 0..second  BY DEF ProgressInv, Polled
    <3>2. s \in 0..s /\ 0..second \subseteq 0..s  BY <1>0, <1>1, <1>3
    <3>3. seen' = seen \cup {s}  BY <1>0, <1>1
    <3> QED  BY <3>1, <3>2, <3>3, <1>2, Zenon
  <2>3. at' - unread' = at  BY <1>0
  <2> QED  BY <2>1, <2>2, <2>3, <1>1, <1>2 DEF Polled
<1>6. ~late' => (begin' + 1)..second' \subseteq seen'
  <2> SUFFICES ASSUME ~late' PROVE (begin + 1)..s \subseteq seen \cup {s}
    BY <1>0, <1>1, <1>2
  <2>1. ~late /\ unread <= 2
    <3>1. ~late /\ ~(unread > 2)  BY <1>0
    <3>2. unread \in Nat  BY <1>0
    <3> QED  BY <3>1, <3>2
  <2>2. CASE seen = {}
    <3>1. at = 2 * begin + unread  BY <2>2, <1>0 DEF ProgressInv, Polled
    <3>2. s <= begin + 1  BY <3>1, <2>1, <1>0, <1>1 DEF Progress!Seconds
    <3> QED  BY <3>2, <1>0
  <2>3. CASE seen # {}
    <3>1. second = Progress!Seconds(at - unread)  BY <2>3 DEF ProgressInv, Polled
    <3>2. s <= second + 1  BY <3>1, <2>1, <1>0, <1>1 DEF Progress!Seconds
    <3>3. (begin + 1)..second \subseteq seen  BY <2>1 DEF ProgressInv
    <3> QED  BY <3>2, <3>3, <1>0, <1>3
  <2> QED  BY <2>2, <2>3
<1>7. CASE s = second
  <2>1. UNCHANGED reported  BY <1>7, <1>1 DEF Progress!Poll, Progress!SetPosition
  <2>2. s = 0 \/ s \in seen  BY <1>7 DEF ProgressInv, Polled
  <2>3. \A n : Due(n, seen') = Due(n, seen)  BY <2>2, <1>0, <1>1 DEF Due
  <2>4. settings.delay > 1 => Progress!Seconds(settings.delay) # 0  BY <1>t DEF Progress!Seconds
  <2>5. ReportsSent(settings, seen', reported)
    BY <2>2, <2>3, <2>4, <1>0, <1>1 DEF ProgressInv, ReportsSent
  <2> QED  BY <1>0, <1>2, <1>1, <1>5, <1>6, <2>1, <2>5 DEF ProgressInv
<1>8. CASE s > second
  <2>1. reported' = [delay |-> reported.delay
               + IF report.delay > 0 /\ Progress!Seconds(report.delay) = s THEN 1 ELSE 0,
             interval |-> reported.interval
               + IF report.interval > 0 /\ s % Progress!Seconds(report.interval) = 0
                   THEN 1 ELSE 0]
    <3>1. s # second  BY <1>0, <1>8
    <3> QED  BY <1>1, <3>1 DEF Progress!Poll, Progress!SetPosition, Progress!PositionChanged
  <2>2. reported' \in [delay : Nat, interval : Nat]  BY <2>1, <1>0
  <2>3. seen \subseteq 0..second /\ s \notin seen  BY <1>0, <1>8 DEF ProgressInv, Polled
  <2>4. ASSUME settings.interval > 0
        PROVE  reported'.interval = Cardinality(Due(Progress!Seconds(settings.interval), seen'))
    <3>1. report = settings /\ settings.interval >= 2
      BY <2>4, <1>t, <1>0 DEF Progress!NoReport
    <3>2. PICK n \in Nat : n = Progress!Seconds(settings.interval)
      BY <1>t DEF Progress!Seconds
    <3>3. reported.interval = Cardinality(Due(n, seen))
      BY <2>4, <3>2 DEF ProgressInv, ReportsSent
    <3>4. reported'.interval = reported.interval + IF s % n = 0 THEN 1 ELSE 0
      BY <2>1, <2>4, <3>1, <3>2
    <3>5. Cardinality(Due(n, seen \cup {s}))
              = Cardinality(Due(n, seen)) + IF s % n = 0 THEN 1 ELSE 0
      <4>1. IsFiniteSet(seen)
        <5>1. IsFiniteSet(0..second)  BY <1>0, FS_Interval
        <5> QED  BY <5>1, <2>3, FS_Subset, Zenon
      <4>2. s # 0  BY <1>0, <1>8
      <4> QED  BY <4>1, <4>2, <2>3, <1>1, <3>2, OneMoreDue, ZenonT(30)
    <3>6. reported'.interval = Cardinality(Due(n, seen'))  BY <3>3, <3>4, <3>5, <1>0, <1>1
    <3> QED  BY <3>2, <3>6
  <2>5. ASSUME settings.delay > 1
        PROVE  reported'.delay = IF Progress!Seconds(settings.delay) \in seen' THEN 1 ELSE 0
    <3>1. report = settings  BY <2>5, <1>t, <1>0 DEF Progress!NoReport
    <3>2. PICK d \in Nat : d = Progress!Seconds(settings.delay)  BY <1>t DEF Progress!Seconds
    <3>3. reported.delay = IF d \in seen THEN 1 ELSE 0
      BY <2>5, <3>2 DEF ProgressInv, ReportsSent
    <3>4. reported'.delay = reported.delay + IF d = s THEN 1 ELSE 0
      BY <2>1, <2>5, <3>1, <3>2, <1>t
    <3> QED  BY <3>2, <3>3, <3>4, <2>3, <1>0, <1>1
  <2>6. ReportsSent(settings', seen', reported')  BY <2>4, <2>5, <1>0 DEF ReportsSent
  <2> QED  BY <1>0, <1>1, <1>2, <1>5, <1>6, <2>2, <2>6 DEF ProgressInv
<1> QED  BY <1>0, <1>1, <1>3, <1>7, <1>8

LEMMA ProgressStep ==
    ASSUME Progress!ProgressAssumption, ProgressInv, [Progress!Next]_(Progress!vars)
    PROVE  ProgressInv'
<1>1. ASSUME NEW r \in Progress!Reports, NEW offset \in Offsets, Progress!Play(r, offset)
      PROVE  ProgressInv'
  <2>1. /\ at' = 2 * offset /\ unread' = 0 /\ second' = 0 /\ settings' = r
        /\ begin' = offset /\ seen' = {} /\ late' = FALSE
        /\ report' = IF r = Progress!NoReport THEN report ELSE r
        /\ reported' = [delay |-> 0, interval |-> 0]
    BY <1>1 DEF Progress!Play
  <2>2. offset \in Nat  BY DEF Progress!ProgressAssumption
  <2>3. Cardinality(Due(Progress!Seconds(r.interval), {})) = 0
    <3>1. Due(Progress!Seconds(r.interval), {}) = {}  BY DEF Due
    <3> QED  BY <3>1, FS_EmptySet
  <2>4. ReportsSent(r, {}, [delay |-> 0, interval |-> 0])  BY <2>3 DEF ReportsSent
  <2>5. Polled'  BY <2>1, <2>2 DEF Polled
  <2>6. (begin' + 1)..second' = {}  BY <2>1, <2>2
  <2>7. settings' \in Progress!Reports /\ report' \in Progress!Reports
    BY <2>1 DEF ProgressInv
  <2>8. settings' = Progress!NoReport \/ settings' = report'  BY <2>1
  <2>9. /\ at' \in Nat /\ unread' \in Nat /\ unread' <= at'
        /\ begin' \in Nat /\ second' \in Nat
    BY <2>1, <2>2
  <2>12. late' \in BOOLEAN  BY <2>1, Zenon
  <2>13. reported' \in [delay : Nat, interval : Nat]  BY <2>1
  <2>10. ReportsSent(settings', seen', reported')  BY <2>1, <2>4
  <2>11. (begin' + 1)..second' \subseteq seen'  BY <2>6
  <2> QED  BY <2>5, <2>7, <2>8, <2>9, <2>10, <2>11, <2>12, <2>13 DEF ProgressInv
<1>2. CASE Progress!Pause \/ Progress!Resume \/ UNCHANGED Progress!vars
  <2>1. UNCHANGED <<at, unread, second, report, settings, begin, reported, seen, late>>
    BY <1>2 DEF Progress!Pause, Progress!Resume, Progress!vars
  <2> QED  BY <2>1 DEF ProgressInv, Polled
<1>3. CASE Progress!Advance
  <2>1. /\ at' = at + 1 /\ unread' = unread + 1
        /\ UNCHANGED <<second, report, settings, begin, reported, seen, late>>
    BY <1>3 DEF Progress!Advance
  <2>2. at \in Nat /\ unread \in Nat
    BY DEF ProgressInv
  <2>3. at' - unread' = at - unread  BY <2>1, <2>2
  <2>4. at' \in Nat /\ unread' \in Nat /\ (unread <= at => unread' <= at')
    BY <2>1, <2>2
  <2>5. Polled'  BY <2>1, <2>3 DEF ProgressInv, Polled
  <2> QED  BY <2>1, <2>4, <2>5 DEF ProgressInv
<1>4. CASE Progress!Poll  BY <1>4, PollInv
<1> QED  BY <1>1, <1>2, <1>3, <1>4 DEF Progress!Next

\* Every interval that a poll hit is reported exactly once, and so is the delay,
\* and as long as no poll is late none is missed
\* (AudioPlayerAgent::positionChanged()), for all delays, intervals and offsets,
\* any length of the media and any plays, pauses and stalls.
THEOREM ProgressReportedOnce ==
    ASSUME Progress!ProgressAssumption
    PROVE  Progress!Spec => []Progress!ReportedOnce
<1>1. Progress!Init => ProgressInv
  <2> SUFFICES ASSUME Progress!Init PROVE ProgressInv  OBVIOUS
  <2>1. /\ at = 0 /\ unread = 0 /\ second = 0 /\ report = Progress!NoReport
        /\ begin = 0 /\ seen = {} /\ late = FALSE
        /\ settings = Progress!NoReport /\ reported = [delay |-> 0, interval |-> 0]
    BY DEF Progress!Init
  <2>2. settings.delay = 0 /\ settings.interval = 0  BY <2>1 DEF Progress!NoReport
  <2>3. ReportsSent(settings, seen, reported)  BY <2>2 DEF ReportsSent
  <2>4. settings \in Progress!Reports  BY <2>1 DEF Progress!Reports
  <2>5. Polled  BY <2>1 DEF Polled
  <2>6. (begin + 1)..second \subseteq seen  BY <2>1
  <2>7. at \in Nat /\ unread \in Nat /\ unread <= at /\ begin \in Nat /\ second \in Nat
    BY <2>1
  <2>9. late \in BOOLEAN  BY <2>1, Zenon
  <2>10. reported \in [delay : Nat, interval : Nat]  BY <2>1
  <2>8. report \in Progress!Reports /\ settings = Progress!NoReport  BY <2>1, <2>4
  <2> QED  BY <2>3, <2>4, <2>5, <2>6, <2>7, <2>8, <2>9, <2>10 DEF ProgressInv
<1>2. ProgressInv => Progress!ReportedOnce  BY SentIsReportedOnce DEF ProgressInv
<1> QED  BY <1>1, <1>2, ProgressStep, PTL DEF Progress!Spec

=============================================================================
