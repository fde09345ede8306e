------------------------- MODULE VoiceSessionProofs -------------------------
(***************************************************************************)
(* Proofs about VoiceSession, for every choice of inputs and of the        *)
(* listeners that fail or pause: how deep the focus callbacks nest on the  *)
(* main thread, what that leaves of the two lists, and that a thread has   *)
(* one event under way at a time.                                          *)
(***************************************************************************)
EXTENDS VoiceSession, FocusListProofs, FiniteSetTheorems

(***************************************************************************)
(* Types.  The wakeup handler uses the microphone only, speech recognition *)
(* both resources, the others the speaker only.                            *)
(***************************************************************************)

Users(r) == IF r = "MIC" THEN {"kwd", "asr"} ELSE Focus \ {"kwd"}

AsrStates == {"LISTENING", "SPEECH_START", "SPEECH_END", "TIMEOUT", "FAILED", "DONE"}
KwdStates == {"DETECTED", "FAIL", "DONE"}

Event == ({"asr"} \X AsrStates) \cup ({"kwd"} \X KwdStates)

FocusCall(r) ==
    ({"request", "release", "unfocus", "released"} \X Users(r) \X {r})
    \cup ({"stolen"} \X Users(r) \X {r} \X Users(r))
    \cup ({"focus"} \X Users(r) \X {r} \X {"request", "release"})

EventCall ==
    ({"handle", "resume"} \X {"asr"} \X AsrStates)
    \cup ({"handle", "resume"} \X {"kwd"} \X KwdStates)

AgentCall ==
    {<<"reset_expect">>, <<"start_timer">>, <<"user_stopped">>}
    \cup ({"prev_state"} \X AsrStates)

Call == FocusCall("MIC") \cup FocusCall("SPK") \cup EventCall \cup AgentCall

Types ==
    /\ calls \in Seq(Call)
    /\ queue \in Seq(Event)
    /\ focused \in [Resource -> SUBSET Focus]
    /\ asr_is_running \in BOOLEAN /\ kwd_is_running \in BOOLEAN
    /\ asrThread \in {"check", "wait", "woken", "loop", "frame", "speech",
                      "utter", "sent", "leave", "exited"}
    /\ kwdThread \in {"check", "wait", "woken", "loop", "frame", "sent",
                      "clear", "leave", "exited"}
    /\ is_handle \in BOOLEAN
    /\ prev_listening_state \in States \cup {"READY"}
    /\ timer \in BOOLEAN

(***************************************************************************)
(* The lists.  Nobody refuses the speaker to asr, so asr is on the top of  *)
(* the speaker's list or not on it at all.                                 *)
(***************************************************************************)

List(s, r) == s \in Seq(Users(r)) /\ Distinct(s)

AsrFirst(l, r) == r = "SPK" /\ On("asr", l) => Head(l) = "asr"

Lists(s) ==
    /\ s \in [Resource -> Seq(Focus)]
    /\ \A r \in Resource : List(s[r], r)
    /\ On("asr", s["SPK"]) => Head(s["SPK"]) = "asr"

(***************************************************************************)
(* The nesting of the main thread's calls c over lists s, where o owns the *)
(* speaker.  Only one hand-over is ever under way: the unfocus callback of *)
(* asr, told that it lost the speaker, makes the only nested request, and  *)
(* nobody gives the microphone to kwd in exchange for a callback.          *)
(***************************************************************************)

Nested == {"focus", "unfocus", "stolen", "released"}

\* The calls behind the first n make no callback until they are reached.
Below(c, n) == n <= Len(c) /\ \A i \in (n + 1)..Len(c) : c[i][1] \notin Nested

\* Who was told is on the top.
Owned(s, o) == \A f \in o : s["SPK"] # <<>> /\ Head(s["SPK"]) = f

\* The request or release that waits for an unfocus callback to return.
HandOver(h) == h[1] \in {"stolen", "released"}
Loser(h) == IF h[1] = "stolen" THEN h[4] ELSE h[2]

\* The link taken before the callback is still the top; an item taken off by a
\* release has not come back.
Waiting(h, s) ==
    /\ HandOver(h)
    /\ h[1] = "stolen" => s[h[3]] # <<>> /\ Head(s[h[3]]) = h[4]
    /\ h[1] = "released" =>
          ~On(h[2], s[h[3]]) /\ (h[3] = "SPK" => ~On("asr", s["SPK"]))

\* asr lost the speaker and tells the application.
AsrLoses(h, s, o) ==
    Waiting(h, s) /\ h[3] = "SPK" /\ Loser(h) = "asr" /\ o = {}

NoCallback(c, s, o) == Below(c, 0) /\ Owned(s, o)

InFocus(c, s, o) ==
    /\ Below(c, 1) /\ c[1][1] = "focus"
    /\ IF c[1][3] = "SPK" THEN o = {} /\ s["SPK"] # <<>> /\ Head(s["SPK"]) = c[1][2]
                          ELSE Owned(s, o)

InHandOver(c, s, o) ==
    /\ Below(c, 1) /\ Waiting(c[1], s)
    /\ IF c[1][3] = "SPK" THEN o = {} ELSE Owned(s, o)

InUnfocus(c, s, o) ==
    /\ Below(c, 2) /\ Waiting(c[2], s)
    /\ c[1] = <<"unfocus", Loser(c[2]), c[2][3]>>
    /\ IF c[2][3] = "SPK" THEN o \subseteq {Loser(c[2])} ELSE Owned(s, o)

InReset(c, s, o) ==
    Below(c, 2) /\ c[1] = <<"reset_expect">> /\ AsrLoses(c[2], s, o)

InIdle(c, s, o) ==
    /\ Below(c, 3) /\ c[2] = <<"reset_expect">> /\ AsrLoses(c[3], s, o)
    /\ c[1] \in {Request("kwd", "MIC"), <<"focus", "kwd", "MIC", "request">>}

Nesting(c, s, o) ==
    \/ NoCallback(c, s, o) \/ InFocus(c, s, o) \/ InHandOver(c, s, o)
    \/ InUnfocus(c, s, o) \/ InReset(c, s, o) \/ InIdle(c, s, o)

(***************************************************************************)
(* The events.  "resume" is the last of the pending calls; a thread has at *)
(* most one event, queued or being handled, and sleeps exactly then.       *)
(***************************************************************************)

QueuedFor(q, t) == \E i \in 1..Len(q) : q[i][1] = t
HandledFor(c, t) == \E i \in 1..Len(c) : c[i][1] = "resume" /\ c[i][2] = t

Events(c, q, asr, kwd) ==
    /\ \A i \in 1..Len(c) : c[i][1] = "resume" => i = Len(c)
    /\ \A i, j \in 1..Len(q) : q[i][1] = q[j][1] => i = j
    /\ \A t \in {"asr", "kwd"} : ~(QueuedFor(q, t) /\ HandledFor(c, t))
    /\ asr = "sent" <=> QueuedFor(q, "asr") \/ HandledFor(c, "asr")
    /\ kwd = "sent" <=> QueuedFor(q, "kwd") \/ HandledFor(c, "kwd")

IndInv ==
    /\ Types
    /\ Lists(stack)
    /\ Nesting(calls, stack, focused["SPK"])
    /\ Events(calls, queue, asrThread, kwdThread)

----------------------------------------------------------------------------
(***************************************************************************)
(* The policy, the calls and the effect of a return.                       *)
(***************************************************************************)

\* The addFocus() types, and who refuses what: kwd refuses the microphone to
\* itself and asr to everybody; on the speaker only cap_tts refuses, and never
\* asr.
LEMMA PolicyFacts ==
    /\ Users("MIC") \subseteq Focus /\ Users("SPK") \subseteq Focus
    /\ "MIC" \in Resource /\ "SPK" \in Resource /\ "MIC" # "SPK"
    /\ \A f \in Users("MIC") : <<f, "MIC", "kwd">> \in Rejects
    /\ \A h, f \in Users("SPK") :
          <<h, "SPK", f>> \in Rejects => h = "cap_tts" /\ f # "asr"
    /\ Type["cap_tts"] = 3
    /\ \A f \in Users("SPK") : f # "asr" => Type[f] >= 3
    /\ \A f \in Users("SPK") : f \notin {"asr", "cap_tts"} => Type[f] > 3
<1>1. Focus \subseteq {"kwd", "asr", "expect", "cap_tts", "cap_audio"}
  BY VoiceAssumption DEF Priority
<1>2. /\ Users("MIC") \subseteq Focus /\ Users("SPK") \subseteq Focus
      /\ "MIC" \in Resource /\ "SPK" \in Resource /\ "MIC" # "SPK"
  BY VoiceAssumption DEF Users
<1>3. /\ Priority["kwd"] = 0 /\ Priority["asr"] = 1 /\ Priority["cap_tts"] = 3
      /\ Priority["expect"] = 4 /\ Priority["cap_audio"] = 5
  BY DEF Priority
<1>4. \A f \in Focus : Type[f] = Priority[f]
  BY VoiceAssumption
<1>5. ASSUME NEW f \in Users("MIC") PROVE <<f, "MIC", "kwd">> \in Rejects
  <2>1. RefusesSteal(f, "MIC", "kwd")
    BY <1>5 DEF Users, RefusesSteal, KwdRefuses, AsrRefuses
  <2> QED  BY <1>2, <2>1, VoiceAssumption DEF PolicyRejects
<1>6. ASSUME NEW h \in Users("SPK"), NEW f \in Users("SPK"), <<h, "SPK", f>> \in Rejects
      PROVE  h = "cap_tts" /\ f # "asr"
  <2>1. RefusesSteal(h, "SPK", f)  BY <1>6, VoiceAssumption DEF PolicyRejects
  <2> QED  BY <2>1 DEF RefusesSteal, AsrRefuses, TtsRefuses, Users
<1>7. "cap_tts" \in Focus  BY VoiceAssumption
<1>8. \A f \in Users("SPK") : f \in Focus /\ f \in {"asr", "expect", "cap_tts", "cap_audio"}
  BY <1>1 DEF Users
<1>9. ASSUME NEW f \in Users("SPK")
      PROVE  /\ f # "asr" => Type[f] >= 3
             /\ f \notin {"asr", "cap_tts"} => Type[f] > 3
  <2>1. CASE f = "asr"  BY <2>1
  <2>2. CASE f = "cap_tts"
    <3>1. Type[f] = 3  BY <1>3, <1>4, <1>7, <2>2
    <3> QED  BY <2>2, <3>1
  <2>3. CASE f = "expect"
    <3>1. Type[f] = 4  BY <1>3, <1>4, <1>8, <2>3
    <3> QED  BY <3>1
  <2>4. CASE f = "cap_audio"
    <3>1. Type[f] = 5  BY <1>3, <1>4, <1>8, <2>4
    <3> QED  BY <3>1
  <2> QED  BY <1>8, <2>1, <2>2, <2>3, <2>4
<1> QED  BY <1>2, <1>3, <1>4, <1>5, <1>6, <1>7, <1>9

\* What a pending call is about.
LEMMA CallFacts ==
    ASSUME NEW c \in Call
    PROVE  /\ c[1] \in Ops
           /\ c[1] \in {"request", "release", "unfocus", "released", "focus", "stolen"} =>
                 c[3] \in {"MIC", "SPK"} /\ c[2] \in Users(c[3])
           /\ c[1] = "stolen" => c[4] \in Users(c[3])
           /\ c[1] \in {"request", "release", "unfocus", "released"} =>
                 c = <<c[1], c[2], c[3]>>
           /\ c[1] \in {"handle", "resume"} =>
                 \/ c[2] = "asr" /\ c[3] \in AsrStates
                 \/ c[2] = "kwd" /\ c[3] \in KwdStates
           /\ c[1] = "prev_state" => c[2] \in AsrStates
<1>1. ASSUME NEW r \in {"MIC", "SPK"}, c \in FocusCall(r)
      PROVE  /\ c[1] \in {"request", "release", "unfocus", "released", "focus", "stolen"}
             /\ c[3] = r /\ c[2] \in Users(c[3])
             /\ c[1] = "stolen" => c[4] \in Users(c[3])
             /\ c[1] \in {"request", "release", "unfocus", "released"} =>
                   c = <<c[1], c[2], c[3]>>
  <2> DEFINE U == Users(r)
  <2>1. \/ c \in {"request", "release", "unfocus", "released"} \X U \X {r}
        \/ c \in {"stolen"} \X U \X {r} \X U
        \/ c \in {"focus"} \X U \X {r} \X {"request", "release"}
    BY <1>1 DEF FocusCall
  <2> HIDE DEF U
  <2>2. /\ c[1] \in {"request", "release", "unfocus", "released", "focus", "stolen"}
        /\ c[3] = r /\ c[2] \in U
        /\ c[1] = "stolen" => c[4] \in U
        /\ c[1] \in {"request", "release", "unfocus", "released"} =>
              c = <<c[1], c[2], c[3]>>
    BY <2>1
  <2> QED  BY <2>2 DEF U
<1>2. ASSUME c \in EventCall
      PROVE  /\ c[1] \in {"handle", "resume"}
             /\ \/ c[2] = "asr" /\ c[3] \in AsrStates
                \/ c[2] = "kwd" /\ c[3] \in KwdStates
  BY <1>2 DEF EventCall
<1>3. ASSUME c \in AgentCall
      PROVE  /\ c[1] \in {"reset_expect", "start_timer", "user_stopped", "prev_state"}
             /\ c[1] = "prev_state" => c[2] \in AsrStates
  BY <1>3 DEF AgentCall
<1>4. \/ c \in FocusCall("MIC") \/ c \in FocusCall("SPK")
      \/ c \in EventCall \/ c \in AgentCall
  BY DEF Call
<1> QED  BY <1>1, <1>2, <1>3, <1>4 DEF Ops

\* The calls the handlers make.
LEMMA CallsMade ==
    /\ \A r \in {"MIC", "SPK"} : \A f \in Users(r) :
          /\ <<"request", f, r>> \in Call /\ <<"release", f, r>> \in Call
          /\ <<"unfocus", f, r>> \in Call /\ <<"released", f, r>> \in Call
          /\ <<"focus", f, r, "request">> \in Call
          /\ <<"focus", f, r, "release">> \in Call
          /\ \A g \in Users(r) : <<"stolen", f, r, g>> \in Call
    /\ \A s \in AsrStates :
          /\ <<"handle", "asr", s>> \in Call /\ <<"resume", "asr", s>> \in Call
          /\ <<"prev_state", s>> \in Call
    /\ \A s \in KwdStates :
          <<"handle", "kwd", s>> \in Call /\ <<"resume", "kwd", s>> \in Call
    /\ <<"reset_expect">> \in Call /\ <<"start_timer">> \in Call
    /\ <<"user_stopped">> \in Call
<1>1. ASSUME NEW r \in {"MIC", "SPK"}, NEW f \in Users(r)
      PROVE  /\ <<"request", f, r>> \in Call /\ <<"release", f, r>> \in Call
             /\ <<"unfocus", f, r>> \in Call /\ <<"released", f, r>> \in Call
             /\ <<"focus", f, r, "request">> \in Call
             /\ <<"focus", f, r, "release">> \in Call
             /\ \A g \in Users(r) : <<"stolen", f, r, g>> \in Call
  BY <1>1 DEF Call, FocusCall
<1>2. ASSUME NEW s \in AsrStates
      PROVE  /\ <<"handle", "asr", s>> \in Call /\ <<"resume", "asr", s>> \in Call
             /\ <<"prev_state", s>> \in Call
  BY DEF Call, EventCall, AgentCall
<1>3. ASSUME NEW s \in KwdStates
      PROVE  <<"handle", "kwd", s>> \in Call /\ <<"resume", "kwd", s>> \in Call
  BY DEF Call, EventCall
<1>4. /\ <<"reset_expect">> \in Call /\ <<"start_timer">> \in Call
      /\ <<"user_stopped">> \in Call
  BY DEF Call, AgentCall
<1> QED  BY <1>1, <1>2, <1>3, <1>4

\* Return(cs): the topmost call is replaced by cs.
LEMMA ReturnFacts ==
    ASSUME NEW c \in Seq(Call), c # <<>>, NEW cs \in Seq(Call)
    PROVE  /\ cs \o Tail(c) \in Seq(Call)
           /\ Len(c) \in Nat \ {0} /\ Len(cs) \in Nat
           /\ Len(cs \o Tail(c)) = Len(cs) + Len(c) - 1
           /\ \A i \in 1..Len(cs) : (cs \o Tail(c))[i] = cs[i]
           /\ \A i \in 2..Len(c) : (cs \o Tail(c))[Len(cs) + i - 1] = c[i]
           /\ \A i \in (Len(cs) + 1)..(Len(cs) + Len(c) - 1) :
                 /\ i - Len(cs) + 1 \in 2..Len(c)
                 /\ (cs \o Tail(c))[i] = c[i - Len(cs) + 1]
<1> DEFINE t == Tail(c)
           d == cs \o t
<1>1. /\ t \in Seq(Call) /\ Len(t) = Len(c) - 1 /\ Len(c) \in Nat \ {0}
      /\ \A i \in 1..Len(t) : t[i] = c[i + 1]
  BY HeadTailProperties, LenProperties, EmptySeq
<1>2. Len(cs) \in Nat  BY LenProperties
<1> HIDE DEF t
<1>3. /\ d \in Seq(Call) /\ Len(d) = Len(cs) + Len(t)
      /\ \A i \in 1..(Len(cs) + Len(t)) :
            d[i] = IF i <= Len(cs) THEN cs[i] ELSE t[i - Len(cs)]
  BY <1>1, ConcatProperties
<1> HIDE DEF d
<1>4. ASSUME NEW i \in 2..Len(c) PROVE d[Len(cs) + i - 1] = c[i]
  <2>1. /\ Len(cs) + i - 1 \in 1..(Len(cs) + Len(t)) /\ ~(Len(cs) + i - 1 <= Len(cs))
        /\ (Len(cs) + i - 1) - Len(cs) = i - 1
        /\ i - 1 \in 1..Len(t) /\ (i - 1) + 1 = i
    BY <1>1, <1>2
  <2> QED  BY <1>1, <1>3, <2>1
<1>5. ASSUME NEW i \in (Len(cs) + 1)..(Len(cs) + Len(c) - 1)
      PROVE  i - Len(cs) + 1 \in 2..Len(c) /\ d[i] = c[i - Len(cs) + 1]
  <2>1. /\ i \in 1..(Len(cs) + Len(t)) /\ ~(i <= Len(cs))
        /\ i - Len(cs) \in 1..Len(t)
        /\ i - Len(cs) + 1 \in 2..Len(c)
    BY <1>1, <1>2
  <2> QED  BY <1>1, <1>3, <2>1
<1>6. \A i \in 1..Len(cs) : d[i] = cs[i]
  <2>1. \A i \in 1..Len(cs) : i \in 1..(Len(cs) + Len(t)) /\ i <= Len(cs)
    BY <1>1, <1>2
  <2> QED  BY <1>3, <2>1
<1> QED  BY <1>1, <1>2, <1>3, <1>4, <1>5, <1>6 DEF d, t

----------------------------------------------------------------------------
(***************************************************************************)
(* Calls that are only pending: neither callbacks nor a thread's resume.   *)
(***************************************************************************)

PlainCalls ==
    {cs \in Seq(Call) :
        \A i \in 1..Len(cs) : cs[i][1] \notin Nested /\ cs[i][1] # "resume"}

\* No call, one call, and calls after calls.
LEMMA PlainFacts ==
    /\ <<>> \in PlainCalls
    /\ \A x \in Call : x[1] \notin Nested /\ x[1] # "resume" => <<x>> \in PlainCalls
    /\ \A x, y \in Call :
          /\ x[1] \notin Nested /\ x[1] # "resume"
          /\ y[1] \notin Nested /\ y[1] # "resume"
          => <<x, y>> \in PlainCalls
    /\ \A a, b \in PlainCalls : a \o b \in PlainCalls
<1>1. <<>> \in PlainCalls
  BY EmptySeq DEF PlainCalls
<1>2. ASSUME NEW x \in Call, x[1] \notin Nested, x[1] # "resume"
      PROVE  <<x>> \in PlainCalls
  <2>1. <<x>> \in Seq(Call) /\ Len(<<x>>) = 1 /\ <<x>>[1] = x
    OBVIOUS
  <2> QED  BY <1>2, <2>1 DEF PlainCalls
<1>3. ASSUME NEW a \in PlainCalls, NEW b \in PlainCalls PROVE a \o b \in PlainCalls
  <2> DEFINE d == a \o b
  <2>1. a \in Seq(Call) /\ b \in Seq(Call) /\ Len(a) \in Nat /\ Len(b) \in Nat
    BY LenProperties DEF PlainCalls
  <2>2. /\ d \in Seq(Call) /\ Len(d) = Len(a) + Len(b)
        /\ \A i \in 1..(Len(a) + Len(b)) :
              d[i] = IF i <= Len(a) THEN a[i] ELSE b[i - Len(a)]
    BY <2>1, ConcatProperties
  <2> HIDE DEF d
  <2>3. ASSUME NEW i \in 1..Len(d) PROVE d[i][1] \notin Nested /\ d[i][1] # "resume"
    <3>1. CASE i <= Len(a)
      <4>1. i \in 1..Len(a) /\ d[i] = a[i]  BY <2>1, <2>2, <3>1
      <4> QED  BY <4>1 DEF PlainCalls
    <3>2. CASE ~(i <= Len(a))
      <4>1. i - Len(a) \in 1..Len(b) /\ d[i] = b[i - Len(a)]  BY <2>1, <2>2, <3>2
      <4> QED  BY <4>1 DEF PlainCalls
    <3> QED  BY <3>1, <3>2
  <2>4. d \in PlainCalls  BY <2>2, <2>3 DEF PlainCalls
  <2> QED  BY <2>4 DEF d
<1>4. ASSUME NEW x \in Call, NEW y \in Call,
             x[1] \notin Nested, x[1] # "resume", y[1] \notin Nested, y[1] # "resume"
      PROVE  <<x, y>> \in PlainCalls
  <2>1. <<x, y>> \in Seq(Call) /\ Len(<<x, y>>) = 2
        /\ <<x, y>>[1] = x /\ <<x, y>>[2] = y
    OBVIOUS
  <2> QED  BY <1>4, <2>1 DEF PlainCalls
<1> QED  BY <1>1, <1>2, <1>3, <1>4

\* The handlers' call sequences.
LEMMA PlainHandlers ==
    /\ StartRecognition \in PlainCalls /\ StopRecognition \in PlainCalls
    /\ ReleaseASRSpeakFocus \in PlainCalls /\ StartWakeup \in PlainCalls
    /\ ReceiveReleaseFocus \in PlainCalls /\ ReceiveWakeupDetected \in PlainCalls
    /\ \A x \in {Request("asr", "SPK"), Request("expect", "SPK"), Request("cap_tts", "SPK"),
                 Release("expect", "SPK"), Release("cap_tts", "SPK"),
                 Release("kwd", "MIC"), Release("asr", "SPK"), Release("asr", "MIC"),
                 <<"reset_expect">>, <<"start_timer">>, <<"user_stopped">>} :
          <<x>> \in PlainCalls
    /\ "cap_audio" \in Focus =>
          <<Request("cap_audio", "SPK")>> \in PlainCalls
          /\ <<Release("cap_audio", "SPK")>> \in PlainCalls
    /\ \A s \in AsrStates : << <<"prev_state", s>> >> \in PlainCalls
<1>1. \A r \in {"MIC", "SPK"} : \A f \in Users(r) :
         <<Request(f, r)>> \in PlainCalls /\ <<Release(f, r)>> \in PlainCalls
  <2> SUFFICES ASSUME NEW r \in {"MIC", "SPK"}, NEW f \in Users(r)
               PROVE  <<Request(f, r)>> \in PlainCalls /\ <<Release(f, r)>> \in PlainCalls
    OBVIOUS
  <2>1. /\ Request(f, r) \in Call /\ Release(f, r) \in Call
        /\ Request(f, r)[1] = "request" /\ Release(f, r)[1] = "release"
    BY CallsMade DEF Request, Release
  <2> QED  BY <2>1, PlainFacts DEF Nested
<1>2. /\ "kwd" \in Users("MIC") /\ "asr" \in Users("MIC") /\ "asr" \in Users("SPK")
      /\ "expect" \in Users("SPK") /\ "cap_tts" \in Users("SPK")
      /\ "cap_audio" \in Focus => "cap_audio" \in Users("SPK")
  BY VoiceAssumption DEF Users
<1>3. ASSUME NEW x \in {<<"reset_expect">>, <<"start_timer">>, <<"user_stopped">>}
      PROVE  <<x>> \in PlainCalls
  <2>1. x \in Call /\ x[1] \in {"reset_expect", "start_timer", "user_stopped"}
    BY CallsMade
  <2> QED  BY <2>1, PlainFacts DEF Nested
<1>4. ASSUME NEW s \in AsrStates PROVE << <<"prev_state", s>> >> \in PlainCalls
  <2>1. <<"prev_state", s>> \in Call /\ <<"prev_state", s>>[1] = "prev_state"
    BY CallsMade
  <2> QED  BY <2>1, PlainFacts DEF Nested
<1>5. /\ StartRecognition \in PlainCalls /\ StopRecognition \in PlainCalls
      /\ ReleaseASRSpeakFocus \in PlainCalls /\ StartWakeup \in PlainCalls
      /\ ReceiveReleaseFocus \in PlainCalls
  BY <1>1, <1>2 DEF StartRecognition, StopRecognition, ReleaseASRSpeakFocus,
     StartWakeup, ReceiveReleaseFocus
<1>6. ReceiveWakeupDetected \in PlainCalls
  <2>1. /\ Release("expect", "SPK") \in Call /\ <<"reset_expect">> \in Call
        /\ Release("expect", "SPK")[1] = "release"
        /\ <<"reset_expect">>[1] = "reset_expect"
    BY <1>2, CallsMade DEF Release
  <2>3. <<Release("expect", "SPK"), <<"reset_expect">> >> \in PlainCalls
    BY <2>1, PlainFacts DEF Nested
  <2> QED  BY <2>3, PlainFacts DEF ReceiveWakeupDetected
<1> QED  BY <1>1, <1>2, <1>3, <1>4, <1>5, <1>6

\* Two calls, one after the other.
LEMMA PairConcat == \A x, y : <<x>> \o <<y>> = <<x, y>>
<1> SUFFICES ASSUME NEW x, NEW y PROVE <<x>> \o <<y>> = <<x, y>>  OBVIOUS
<1> DEFINE a == <<x>>
           b == <<y>>
           d == a \o b
           e == <<x, y>>
<1>1. /\ a \in Seq({x, y}) /\ b \in Seq({x, y}) /\ e \in Seq({x, y})
      /\ Len(a) = 1 /\ Len(b) = 1 /\ a[1] = x /\ b[1] = y
      /\ Len(e) = 2 /\ e[1] = x /\ e[2] = y
  OBVIOUS
<1> HIDE DEF a, b, e
<1>2. /\ d \in Seq({x, y}) /\ Len(d) = Len(a) + Len(b)
      /\ \A i \in 1..(Len(a) + Len(b)) :
            d[i] = IF i <= Len(a) THEN a[i] ELSE b[i - Len(a)]
  BY <1>1, ConcatProperties
<1> HIDE DEF d
<1>3. Len(d) = 2 /\ d[1] = x /\ d[2] = y  BY <1>1, <1>2
<1>4. \A i \in 1..Len(d) : i = 1 \/ i = 2  BY <1>3
<1>5. d = e  BY <1>1, <1>2, <1>3, <1>4, SeqEqual
<1> QED  BY <1>5 DEF a, b, d, e

(***************************************************************************)
(* What the handlers and the inputs call.  They never ask for the speaker  *)
(* for asr, which only asr's onFocus(MIC) does, and they give the          *)
(* microphone back for kwd only to ask for it for asr at once.             *)
(***************************************************************************)

\* asr is about to be told that it owns the speaker.
Coming(x) == x[1] \in {"request", "stolen", "focus"} /\ x[2] = "asr" /\ x[3] = "SPK"

Tidy(c) ==
    \A i \in 1..Len(c) :
       /\ c[i] = Release("kwd", "MIC") =>
             i + 1 <= Len(c) /\ c[i + 1] = Request("asr", "MIC")
       /\ c[i][1] = "stolen" /\ c[i][3] = "MIC" => c[i][2] = "asr" /\ c[i][4] = "kwd"

TameCalls ==
    {cs \in PlainCalls : Tidy(cs) /\ \A i \in 1..Len(cs) : ~Coming(cs[i])}

TameOne(x) ==
    x \in Call /\ x[1] \notin Nested /\ x[1] # "resume"
    /\ ~Coming(x) /\ x # Release("kwd", "MIC")

\* No call, one call, and calls after calls.
LEMMA TameFacts ==
    /\ TameCalls \subseteq PlainCalls
    /\ <<>> \in TameCalls
    /\ \A x : TameOne(x) => <<x>> \in TameCalls
    /\ \A x, y : TameOne(x) /\ TameOne(y) => <<x, y>> \in TameCalls
    /\ <<Release("kwd", "MIC"), Request("asr", "MIC")>> \in TameCalls
    /\ \A a, b \in TameCalls : a \o b \in TameCalls
<1>1. TameCalls \subseteq PlainCalls  BY DEF TameCalls
<1>2. <<>> \in TameCalls
  BY PlainFacts DEF TameCalls, Tidy
<1>3. ASSUME NEW x, TameOne(x) PROVE <<x>> \in TameCalls
  <2>1. <<x>> \in PlainCalls /\ Len(<<x>>) = 1 /\ <<x>>[1] = x
    BY <1>3, PlainFacts DEF TameOne
  <2>2. x[1] # "stolen" /\ x # Release("kwd", "MIC") /\ ~Coming(x)
    BY <1>3 DEF TameOne, Nested
  <2> QED  BY <2>1, <2>2 DEF TameCalls, Tidy
<1>4. ASSUME NEW x, NEW y, TameOne(x), TameOne(y) PROVE <<x, y>> \in TameCalls
  <2>1. /\ <<x, y>> \in PlainCalls /\ Len(<<x, y>>) = 2
        /\ <<x, y>>[1] = x /\ <<x, y>>[2] = y
    BY <1>4, PlainFacts DEF TameOne
  <2>2. /\ x[1] # "stolen" /\ x # Release("kwd", "MIC") /\ ~Coming(x)
        /\ y[1] # "stolen" /\ y # Release("kwd", "MIC") /\ ~Coming(y)
    BY <1>4 DEF TameOne, Nested
  <2> QED  BY <2>1, <2>2 DEF TameCalls, Tidy
<1>5. <<Release("kwd", "MIC"), Request("asr", "MIC")>> \in TameCalls
  <2>0. PICK x, y : x = Release("kwd", "MIC") /\ y = Request("asr", "MIC")  OBVIOUS
  <2>1. x \in Call /\ y \in Call
    <3>1. "kwd" \in Users("MIC") /\ "asr" \in Users("MIC")  BY DEF Users
    <3> QED  BY <2>0, <3>1, CallsMade DEF Release, Request
  <2>2. /\ x[1] = "release" /\ y[1] = "request" /\ y[3] = "MIC"
        /\ y # Release("kwd", "MIC")
    BY <2>0 DEF Release, Request
  <2>3. /\ <<x, y>> \in PlainCalls /\ Len(<<x, y>>) = 2
        /\ <<x, y>>[1] = x /\ <<x, y>>[2] = y
    BY <2>1, <2>2, PlainFacts DEF Nested
  <2>4. ~Coming(x) /\ ~Coming(y)  BY <2>2 DEF Coming
  <2>5. <<x, y>> \in TameCalls
    <3>1. PICK d : d = <<x, y>>  OBVIOUS
    <3>2. d \in PlainCalls /\ Len(d) = 2 /\ d[1] = x /\ d[2] = y  BY <2>3, <3>1
    <3>3. ASSUME NEW i \in 1..Len(d)
          PROVE  /\ d[i] = Release("kwd", "MIC") =>
                       i + 1 <= Len(d) /\ d[i + 1] = Request("asr", "MIC")
                 /\ d[i][1] # "stolen" /\ ~Coming(d[i])
      <4>1. i = 1 \/ i = 2  BY <3>2
      <4>2. CASE i = 1  BY <2>0, <2>2, <2>4, <3>2, <4>2
      <4>3. CASE i = 2  BY <2>0, <2>2, <2>4, <3>2, <4>3
      <4> QED  BY <4>1, <4>2, <4>3
    <3> QED  BY <3>1, <3>2, <3>3 DEF TameCalls, Tidy
  <2> QED  BY <2>0, <2>5
<1>6. ASSUME NEW a \in TameCalls, NEW b \in TameCalls PROVE a \o b \in TameCalls
  <2>0. PICK d : d = a \o b  OBVIOUS
  <2>1. /\ a \in PlainCalls /\ b \in PlainCalls /\ a \in Seq(Call) /\ b \in Seq(Call)
        /\ Len(a) \in Nat /\ Len(b) \in Nat
    BY LenProperties DEF TameCalls, PlainCalls
  <2>2. /\ Len(d) = Len(a) + Len(b)
        /\ \A i \in 1..(Len(a) + Len(b)) :
              d[i] = IF i <= Len(a) THEN a[i] ELSE b[i - Len(a)]
    BY <2>0, <2>1, ConcatProperties
  <2>3. d \in PlainCalls  BY <2>0, <2>1, PlainFacts
  <2>4. ASSUME NEW i \in 1..Len(d)
        PROVE  /\ d[i] = Release("kwd", "MIC") =>
                     i + 1 <= Len(d) /\ d[i + 1] = Request("asr", "MIC")
               /\ d[i][1] = "stolen" /\ d[i][3] = "MIC" =>
                     d[i][2] = "asr" /\ d[i][4] = "kwd"
               /\ ~Coming(d[i])
    <3>1. CASE i <= Len(a)
      <4>1. i \in 1..Len(a) /\ d[i] = a[i]  BY <2>1, <2>2, <3>1
      <4>2. i + 1 <= Len(a) => i + 1 <= Len(d) /\ d[i + 1] = a[i + 1]
        <5>1. i + 1 <= Len(a) => i + 1 \in 1..(Len(a) + Len(b))  BY <2>1, <4>1
        <5> QED  BY <2>1, <2>2, <4>1, <5>1
      <4> QED  BY <4>1, <4>2 DEF TameCalls, Tidy
    <3>2. CASE ~(i <= Len(a))
      <4>0. PICK k : k = i - Len(a)  OBVIOUS
      <4>1. k \in 1..Len(b) /\ d[i] = b[k]  BY <2>1, <2>2, <3>2, <4>0
      <4>2. k + 1 <= Len(b) => i + 1 <= Len(d) /\ d[i + 1] = b[k + 1]
        <5>1. k + 1 <= Len(b) =>
                 /\ i + 1 \in 1..(Len(a) + Len(b)) /\ ~(i + 1 <= Len(a))
                 /\ (i + 1) - Len(a) = k + 1
          BY <2>1, <2>2, <3>2, <4>0
        <5> QED  BY <2>1, <2>2, <5>1
      <4> QED  BY <4>1, <4>2 DEF TameCalls, Tidy
    <3> QED  BY <3>1, <3>2
  <2>5. d \in TameCalls  BY <2>3, <2>4 DEF TameCalls, Tidy
  <2> QED  BY <2>0, <2>5
<1> QED  BY <1>1, <1>2, <1>3, <1>4, <1>5, <1>6

\* The handlers' call sequences, in these words.
LEMMA TameHandlers ==
    /\ StartRecognition \in TameCalls /\ StopRecognition \in TameCalls
    /\ ReleaseASRSpeakFocus \in TameCalls /\ StartWakeup \in TameCalls
    /\ ReceiveReleaseFocus \in TameCalls /\ ReceiveWakeupDetected \in TameCalls
    /\ \A x \in {Request("expect", "SPK"), Request("cap_tts", "SPK"),
                 Release("cap_tts", "SPK"), Release("asr", "SPK"), Release("asr", "MIC"),
                 <<"start_timer">>, <<"user_stopped">>} :
          TameOne(x) /\ <<x>> \in TameCalls
    /\ "cap_audio" \in Focus =>
          <<Request("cap_audio", "SPK")>> \in TameCalls
          /\ <<Release("cap_audio", "SPK")>> \in TameCalls
    /\ \A s \in AsrStates : << <<"prev_state", s>> >> \in TameCalls
<1>1. ASSUME NEW r \in {"MIC", "SPK"}, NEW f \in Users(r)
      PROVE  /\ f # "asr" \/ r = "MIC" => TameOne(Request(f, r))
             /\ f # "kwd" => TameOne(Release(f, r))
  <2>1. /\ Request(f, r) \in Call /\ Release(f, r) \in Call
        /\ Request(f, r)[1] = "request" /\ Release(f, r)[1] = "release"
        /\ Request(f, r)[2] = f /\ Release(f, r)[2] = f
        /\ Request(f, r)[3] = r /\ Release("kwd", "MIC")[2] = "kwd"
        /\ Release("kwd", "MIC")[1] = "release"
    BY CallsMade DEF Request, Release
  <2> HIDE DEF Request, Release
  <2> QED  BY <2>1 DEF TameOne, Nested, Coming
<1>2. /\ "kwd" \in Users("MIC") /\ "asr" \in Users("MIC") /\ "asr" \in Users("SPK")
      /\ "expect" \in Users("SPK") /\ "cap_tts" \in Users("SPK")
      /\ "cap_audio" \in Focus => "cap_audio" \in Users("SPK")
  BY VoiceAssumption DEF Users
<1>3. ASSUME NEW x \in {<<"reset_expect">>, <<"start_timer">>, <<"user_stopped">>}
      PROVE  TameOne(x)
  <2>1. x \in Call /\ x[1] \in {"reset_expect", "start_timer", "user_stopped"}
    BY CallsMade
  <2> QED  BY <2>1 DEF TameOne, Nested, Coming, Release
<1>4. ASSUME NEW s \in AsrStates PROVE << <<"prev_state", s>> >> \in TameCalls
  <2>1. <<"prev_state", s>> \in Call /\ <<"prev_state", s>>[1] = "prev_state"
    BY CallsMade
  <2>2. TameOne(<<"prev_state", s>>)  BY <2>1 DEF TameOne, Nested, Coming, Release
  <2> QED  BY <2>2, TameFacts
<1>5. \A x \in {Request("expect", "SPK"), Request("cap_tts", "SPK"),
                Release("cap_tts", "SPK"), Release("asr", "SPK"), Release("asr", "MIC"),
                <<"start_timer">>, <<"user_stopped">>,
                Request("asr", "MIC"), Request("kwd", "MIC"), Release("expect", "SPK")} :
         TameOne(x)
  BY <1>1, <1>2, <1>3
<1>6. /\ StartRecognition \in TameCalls /\ StopRecognition \in TameCalls
      /\ ReleaseASRSpeakFocus \in TameCalls /\ StartWakeup \in TameCalls
      /\ ReceiveReleaseFocus \in TameCalls
  BY <1>5, TameFacts DEF StartRecognition, StopRecognition, ReleaseASRSpeakFocus,
     StartWakeup, ReceiveReleaseFocus
<1>7. ReceiveWakeupDetected \in TameCalls
  <2>1. TameOne(Release("expect", "SPK")) /\ TameOne(<<"reset_expect">>)
    BY <1>3, <1>5
  <2>2. <<Release("expect", "SPK"), <<"reset_expect">> >> \in TameCalls
    BY <2>1, TameFacts
  <2> QED  BY <2>2, TameFacts DEF ReceiveWakeupDetected
<1>8. ASSUME "cap_audio" \in Focus
      PROVE  <<Request("cap_audio", "SPK")>> \in TameCalls
             /\ <<Release("cap_audio", "SPK")>> \in TameCalls
  <2>1. TameOne(Request("cap_audio", "SPK")) /\ TameOne(Release("cap_audio", "SPK"))
    BY <1>1, <1>2, <1>8
  <2> QED  BY <2>1, TameFacts
<1> QED  BY <1>4, <1>5, <1>6, <1>7, <1>8, TameFacts

\* A return leaves what is below alone; with plain calls it leaves no callback
\* under way.
LEMMA BelowKept ==
    ASSUME NEW c \in Seq(Call), c # <<>>, NEW cs \in Seq(Call),
           NEW n \in 1..3, Below(c, n)
    PROVE  /\ cs \o Tail(c) \in Seq(Call)
           /\ Below(cs \o Tail(c), Len(cs) + n - 1)
           /\ n = 1 /\ cs \in PlainCalls => Below(cs \o Tail(c), 0)
<1> DEFINE d == cs \o Tail(c)
<1>1. /\ d \in Seq(Call)
      /\ Len(c) \in Nat \ {0} /\ Len(cs) \in Nat
      /\ Len(d) = Len(cs) + Len(c) - 1
      /\ \A i \in 1..Len(cs) : d[i] = cs[i]
      /\ \A i \in (Len(cs) + 1)..(Len(cs) + Len(c) - 1) :
            i - Len(cs) + 1 \in 2..Len(c) /\ d[i] = c[i - Len(cs) + 1]
  BY ReturnFacts
<1> HIDE DEF d
<1>2. Below(d, Len(cs) + n - 1)
  <2>1. Len(cs) + n - 1 <= Len(d)  BY <1>1 DEF Below
  <2>2. ASSUME NEW i \in (Len(cs) + n - 1 + 1)..Len(d) PROVE d[i][1] \notin Nested
    <3>1. /\ i \in (Len(cs) + 1)..(Len(cs) + Len(c) - 1)
          /\ i - Len(cs) + 1 \in (n + 1)..Len(c)
      BY <1>1
    <3>2. d[i] = c[i - Len(cs) + 1]  BY <1>1, <3>1
    <3> QED  BY <3>1, <3>2 DEF Below
  <2> QED  BY <2>1, <2>2 DEF Below
<1>3. ASSUME n = 1, cs \in PlainCalls PROVE Below(d, 0)
  <2>1. ASSUME NEW i \in (0 + 1)..Len(d) PROVE d[i][1] \notin Nested
    <3>1. CASE i <= Len(cs)
      <4>1. i \in 1..Len(cs) /\ d[i] = cs[i]  BY <1>1, <3>1
      <4> QED  BY <1>3, <4>1 DEF PlainCalls
    <3>2. CASE ~(i <= Len(cs))
      <4>1. i \in (Len(cs) + n - 1 + 1)..Len(d)  BY <1>1, <1>3, <3>2
      <4> QED  BY <1>2, <4>1 DEF Below
    <3> QED  BY <3>1, <3>2
  <2>2. 0 <= Len(d)  BY <1>1
  <2> QED  BY <2>1, <2>2 DEF Below
<1> QED  BY <1>1, <1>2, <1>3 DEF d

\* Calls without a resume leave what is being handled alone.
LEMMA EventsKept ==
    ASSUME NEW c \in Seq(Call), c # <<>>, c[1][1] # "resume", NEW cs \in Seq(Call),
           \A i \in 1..Len(cs) : cs[i][1] # "resume",
           NEW q, NEW asr, NEW kwd, Events(c, q, asr, kwd)
    PROVE  Events(cs \o Tail(c), q, asr, kwd)
<1> DEFINE d == cs \o Tail(c)
<1>1. /\ Len(c) \in Nat \ {0} /\ Len(cs) \in Nat
      /\ Len(d) = Len(cs) + Len(c) - 1
      /\ \A i \in 1..Len(cs) : d[i] = cs[i]
      /\ \A i \in 2..Len(c) : d[Len(cs) + i - 1] = c[i]
      /\ \A i \in (Len(cs) + 1)..(Len(cs) + Len(c) - 1) :
            i - Len(cs) + 1 \in 2..Len(c) /\ d[i] = c[i - Len(cs) + 1]
  BY ReturnFacts
<1> HIDE DEF d
<1>2. ASSUME NEW i \in 1..Len(d), d[i][1] = "resume"
      PROVE  i = Len(d) /\ i - Len(cs) + 1 \in 2..Len(c) /\ d[i] = c[i - Len(cs) + 1]
  <2>1. ~(i <= Len(cs))
    <3>1. ASSUME i <= Len(cs) PROVE FALSE
      <4>1. i \in 1..Len(cs)  BY <1>1, <3>1
      <4> QED  BY <1>1, <1>2, <4>1
    <3> QED  BY <3>1
  <2>2. i \in (Len(cs) + 1)..(Len(cs) + Len(c) - 1)  BY <1>1, <2>1
  <2>3. i - Len(cs) + 1 \in 2..Len(c) /\ d[i] = c[i - Len(cs) + 1]  BY <1>1, <2>2
  <2>4. i - Len(cs) + 1 \in 1..Len(c)  BY <2>3
  <2>5. i - Len(cs) + 1 = Len(c)  BY <1>2, <2>3, <2>4 DEF Events
  <2> QED  BY <1>1, <2>3, <2>5
<1>3. ASSUME NEW t PROVE HandledFor(d, t) <=> HandledFor(c, t)
  <2>1. ASSUME HandledFor(d, t) PROVE HandledFor(c, t)
    <3>1. PICK i \in 1..Len(d) : d[i][1] = "resume" /\ d[i][2] = t
      BY <2>1 DEF HandledFor
    <3>2. i - Len(cs) + 1 \in 1..Len(c) /\ d[i] = c[i - Len(cs) + 1]
      BY <1>2, <3>1
    <3> QED  BY <3>1, <3>2 DEF HandledFor
  <2>2. ASSUME HandledFor(c, t) PROVE HandledFor(d, t)
    <3>1. PICK i \in 1..Len(c) : c[i][1] = "resume" /\ c[i][2] = t
      BY <2>2 DEF HandledFor
    <3>2. i \in 2..Len(c)
      <4>1. i # 1  BY <3>1
      <4> QED  BY <1>1, <4>1
    <3>3. Len(cs) + i - 1 \in 1..Len(d) /\ d[Len(cs) + i - 1] = c[i]
      BY <1>1, <3>2
    <3> QED  BY <3>1, <3>3 DEF HandledFor
  <2> QED  BY <2>1, <2>2
<1>4. Events(d, q, asr, kwd)  BY <1>2, <1>3 DEF Events
<1> QED  BY <1>4 DEF d

\* The pending calls after Return(cs), with no, one or two calls or any plain
\* ones.
Pop(c) == <<>> \o Tail(c)
PushOne(c, x) == <<x>> \o Tail(c)
PushTwo(c, x, y) == <<x, y>> \o Tail(c)
Push(c, cs) == cs \o Tail(c)

\* A return.
LEMMA ReturnNone ==
    ASSUME NEW c \in Seq(Call), c # <<>>
    PROVE  /\ Pop(c) \in Seq(Call)
           /\ Below(c, 1) => Below(Pop(c), 0)
           /\ Below(c, 2) => Below(Pop(c), 1) /\ Pop(c)[1] = c[2]
           /\ Below(c, 3) => Below(Pop(c), 2) /\ Pop(c)[1] = c[2] /\ Pop(c)[2] = c[3]
           /\ \A q, asr, kwd :
                 Events(c, q, asr, kwd) /\ c[1][1] # "resume"
                    => Events(Pop(c), q, asr, kwd)
<1> DEFINE e == <<>>
           d == Pop(c)
<1>0. Len(c) \in Nat /\ e \in Seq(Call) /\ Len(e) = 0
  BY LenProperties, EmptySeq
<1>d. d = e \o Tail(c)  BY DEF Pop
<1> HIDE DEF e, d
<1>1. /\ d \in Seq(Call)
      /\ \A i \in 2..Len(c) : d[Len(e) + i - 1] = c[i]
      /\ \A i \in 1..Len(e) : d[i] = e[i]
  BY <1>0, <1>d, ReturnFacts
<1>2. ASSUME NEW n \in 1..3, Below(c, n)
      PROVE  Below(d, n - 1) /\ \A i \in 2..n : d[i - 1] = c[i]
  <2>1. Below(d, Len(e) + n - 1)  BY <1>0, <1>d, <1>2, BelowKept
  <2>2. Len(e) + n - 1 = n - 1 /\ \A i \in 2..n : Len(e) + i - 1 = i - 1
    BY <1>0
  <2>3. n <= Len(c)  BY <1>2 DEF Below
  <2> QED  BY <1>0, <1>1, <2>1, <2>2, <2>3
<1>3. ASSUME NEW q, NEW asr, NEW kwd, Events(c, q, asr, kwd),
             c[1][1] # "resume"
      PROVE  Events(d, q, asr, kwd)
  <2>1. \A i \in 1..Len(e) : e[i][1] # "resume"  BY <1>0, <1>3
  <2> QED  BY <1>0, <1>3, <1>d, <2>1, EventsKept
<1>5. Below(c, 1) => Below(d, 0)
  <2>1. 1 \in 1..3 /\ 1 - 1 = 0  OBVIOUS
  <2> QED  BY <1>2, <2>1
<1>6. Below(c, 2) => Below(d, 1) /\ d[1] = c[2]
  <2>1. 2 \in 1..3 /\ 2 - 1 = 1 /\ 2 \in 2..2  OBVIOUS
  <2> QED  BY <1>2, <2>1
<1>7. Below(c, 3) => Below(d, 2) /\ d[1] = c[2] /\ d[2] = c[3]
  <2>1. 3 \in 1..3 /\ 3 - 1 = 2 /\ 2 \in 2..3 /\ 3 \in 2..3 /\ 2 - 1 = 1  OBVIOUS
  <2> QED  BY <1>2, <2>1
<1> QED  BY <1>0, <1>1, <1>3, <1>5, <1>6, <1>7 DEF d

\* A return that makes one call.
LEMMA ReturnOne ==
    ASSUME NEW c \in Seq(Call), c # <<>>, NEW x \in Call
    PROVE  /\ PushOne(c, x) \in Seq(Call) /\ PushOne(c, x)[1] = x
           /\ Below(c, 1) => Below(PushOne(c, x), 1)
           /\ Below(c, 2) => Below(PushOne(c, x), 2) /\ PushOne(c, x)[2] = c[2]
           /\ Below(c, 3) => Below(PushOne(c, x), 3) /\ PushOne(c, x)[2] = c[2] /\ PushOne(c, x)[3] = c[3]
           /\ \A q, asr, kwd :
                 Events(c, q, asr, kwd) /\ c[1][1] # "resume" /\ x[1] # "resume"
                    => Events(PushOne(c, x), q, asr, kwd)
<1> DEFINE e == <<x>>
           d == PushOne(c, x)
<1>0. Len(c) \in Nat /\ e \in Seq(Call) /\ Len(e) = 1 /\ e[1] = x
  BY LenProperties
<1>d. d = e \o Tail(c)  BY DEF PushOne
<1> HIDE DEF e, d
<1>1. /\ d \in Seq(Call)
      /\ \A i \in 2..Len(c) : d[Len(e) + i - 1] = c[i]
      /\ \A i \in 1..Len(e) : d[i] = e[i]
  BY <1>0, <1>d, ReturnFacts
<1>2. ASSUME NEW n \in 1..3, Below(c, n)
      PROVE  Below(d, n) /\ \A i \in 2..n : d[i] = c[i]
  <2>1. Below(d, Len(e) + n - 1)  BY <1>0, <1>d, <1>2, BelowKept
  <2>2. Len(e) + n - 1 = n /\ \A i \in 2..n : Len(e) + i - 1 = i
    BY <1>0
  <2>3. n <= Len(c)  BY <1>2 DEF Below
  <2> QED  BY <1>0, <1>1, <2>1, <2>2, <2>3
<1>3. ASSUME NEW q, NEW asr, NEW kwd, Events(c, q, asr, kwd),
             c[1][1] # "resume", x[1] # "resume"
      PROVE  Events(d, q, asr, kwd)
  <2>1. \A i \in 1..Len(e) : e[i][1] # "resume"  BY <1>0, <1>3
  <2> QED  BY <1>0, <1>3, <1>d, <2>1, EventsKept
<1>4. 1 \in 1..Len(e)  BY <1>0
<1>5. Below(c, 1) => Below(d, 1)
  <2>1. 1 \in 1..3  OBVIOUS
  <2> QED  BY <1>2, <2>1
<1>6. Below(c, 2) => Below(d, 2) /\ d[2] = c[2]
  <2>1. 2 \in 1..3 /\ 2 \in 2..2  OBVIOUS
  <2> QED  BY <1>2, <2>1
<1>7. Below(c, 3) => Below(d, 3) /\ d[2] = c[2] /\ d[3] = c[3]
  <2>1. 3 \in 1..3 /\ 2 \in 2..3 /\ 3 \in 2..3  OBVIOUS
  <2> QED  BY <1>2, <2>1
<1> QED  BY <1>0, <1>1, <1>3, <1>4, <1>5, <1>6, <1>7 DEF d

\* A return that makes two calls.
LEMMA ReturnTwo ==
    ASSUME NEW c \in Seq(Call), c # <<>>, NEW x \in Call, NEW y \in Call
    PROVE  /\ PushTwo(c, x, y) \in Seq(Call) /\ PushTwo(c, x, y)[1] = x /\ PushTwo(c, x, y)[2] = y
           /\ Below(c, 1) => Below(PushTwo(c, x, y), 2)
           /\ Below(c, 2) => Below(PushTwo(c, x, y), 3) /\ PushTwo(c, x, y)[3] = c[2]
           /\ \A q, asr, kwd :
                 Events(c, q, asr, kwd) /\ c[1][1] # "resume" /\ x[1] # "resume" /\ y[1] # "resume"
                    => Events(PushTwo(c, x, y), q, asr, kwd)
<1> DEFINE e == <<x, y>>
           d == PushTwo(c, x, y)
<1>0. Len(c) \in Nat /\ e \in Seq(Call) /\ Len(e) = 2 /\ e[1] = x /\ e[2] = y
  BY LenProperties
<1>d. d = e \o Tail(c)  BY DEF PushTwo
<1> HIDE DEF e, d
<1>1. /\ d \in Seq(Call)
      /\ \A i \in 2..Len(c) : d[Len(e) + i - 1] = c[i]
      /\ \A i \in 1..Len(e) : d[i] = e[i]
  BY <1>0, <1>d, ReturnFacts
<1>2. ASSUME NEW n \in 1..3, Below(c, n)
      PROVE  Below(d, n + 1) /\ \A i \in 2..n : d[i + 1] = c[i]
  <2>1. Below(d, Len(e) + n - 1)  BY <1>0, <1>d, <1>2, BelowKept
  <2>2. Len(e) + n - 1 = n + 1 /\ \A i \in 2..n : Len(e) + i - 1 = i + 1
    BY <1>0
  <2>3. n <= Len(c)  BY <1>2 DEF Below
  <2> QED  BY <1>0, <1>1, <2>1, <2>2, <2>3
<1>3. ASSUME NEW q, NEW asr, NEW kwd, Events(c, q, asr, kwd),
             c[1][1] # "resume", x[1] # "resume", y[1] # "resume"
      PROVE  Events(d, q, asr, kwd)
  <2>1. \A i \in 1..Len(e) : e[i][1] # "resume"  BY <1>0, <1>3
  <2> QED  BY <1>0, <1>3, <1>d, <2>1, EventsKept
<1>4. 1 \in 1..Len(e) /\ 2 \in 1..Len(e)  BY <1>0
<1>5. Below(c, 1) => Below(d, 2)
  <2>1. 1 \in 1..3 /\ 1 + 1 = 2  OBVIOUS
  <2> QED  BY <1>2, <2>1
<1>6. Below(c, 2) => Below(d, 3) /\ d[3] = c[2]
  <2>1. 2 \in 1..3 /\ 2 + 1 = 3 /\ 2 \in 2..2  OBVIOUS
  <2> QED  BY <1>2, <2>1
<1> QED  BY <1>0, <1>1, <1>3, <1>4, <1>5, <1>6 DEF d

\* A return that makes plain calls, above a single call.
LEMMA ReturnPlain ==
    ASSUME NEW c \in Seq(Call), c # <<>>, c[1][1] # "resume", Below(c, 1),
           NEW cs \in PlainCalls
    PROVE  /\ Push(c, cs) \in Seq(Call) /\ Below(Push(c, cs), 0)
           /\ \A q, asr, kwd : Events(c, q, asr, kwd) => Events(Push(c, cs), q, asr, kwd)
<1>1. cs \in Seq(Call) /\ \A i \in 1..Len(cs) : cs[i][1] # "resume"
  BY DEF PlainCalls
<1>2. cs \o Tail(c) \in Seq(Call) /\ Below(cs \o Tail(c), 0)
  BY <1>1, BelowKept
<1>3. ASSUME NEW q, NEW asr, NEW kwd, Events(c, q, asr, kwd)
      PROVE  Events(cs \o Tail(c), q, asr, kwd)
  BY <1>1, <1>3, EventsKept
<1> QED  BY <1>2, <1>3 DEF Push

\* The topmost call tells how deep the callbacks are nested.
LEMMA TopCall ==
    ASSUME NEW c \in Seq(Call), c # <<>>, NEW s, NEW o, Nesting(c, s, o)
    PROVE  /\ c[1] \in Call
           /\ NoCallback(c, s, o) => Below(c, 1)
           /\ c[1][1] = "request" =>
                 \/ NoCallback(c, s, o)
                 \/ InIdle(c, s, o) /\ c[1] = Request("kwd", "MIC")
           /\ c[1][1] = "focus" =>
                 \/ InFocus(c, s, o)
                 \/ InIdle(c, s, o) /\ c[1] = <<"focus", "kwd", "MIC", "request">>
           /\ c[1][1] \in {"stolen", "released"} => InHandOver(c, s, o)
           /\ c[1][1] = "unfocus" => InUnfocus(c, s, o)
           /\ c[1][1] = "reset_expect" => NoCallback(c, s, o) \/ InReset(c, s, o)
           /\ c[1][1] \notin Nested \cup {"request", "reset_expect"} => NoCallback(c, s, o)
<1>0. Len(c) \in Nat \ {0} /\ 1 \in 1..Len(c) /\ c[1] \in Call
  BY LenProperties, EmptySeq, ElementOfSeq
<1>1. ASSUME NoCallback(c, s, o) PROVE Below(c, 1) /\ c[1][1] \notin Nested
  BY <1>0, <1>1 DEF NoCallback, Below
<1>2. ASSUME InFocus(c, s, o) PROVE c[1][1] = "focus"
  BY <1>2 DEF InFocus
<1>3. ASSUME InHandOver(c, s, o) PROVE c[1][1] \in {"stolen", "released"}
  BY <1>3 DEF InHandOver, Waiting, HandOver
<1>4. ASSUME InUnfocus(c, s, o) PROVE c[1][1] = "unfocus"
  BY <1>4 DEF InUnfocus
<1>5. ASSUME InReset(c, s, o) PROVE c[1][1] = "reset_expect"
  BY <1>5 DEF InReset
<1>6. ASSUME InIdle(c, s, o)
      PROVE  \/ c[1][1] = "request" /\ c[1] = Request("kwd", "MIC")
             \/ c[1][1] = "focus" /\ c[1] = <<"focus", "kwd", "MIC", "request">>
  BY <1>6 DEF InIdle, Request
<1>7. \/ NoCallback(c, s, o) \/ InFocus(c, s, o) \/ InHandOver(c, s, o)
      \/ InUnfocus(c, s, o) \/ InReset(c, s, o) \/ InIdle(c, s, o)
  BY DEF Nesting
<1> QED  BY <1>0, <1>1, <1>2, <1>3, <1>4, <1>5, <1>6, <1>7 DEF Nested

----------------------------------------------------------------------------
(***************************************************************************)
(* What the focus manager does to a list.                                  *)
(***************************************************************************)

Updated(s, r, t) == [s EXCEPT ![r] = t]

\* One list changes.
LEMMA ListsUpdated ==
    ASSUME NEW s, Lists(s), NEW r \in Resource, NEW t, List(t, r), AsrFirst(t, r)
    PROVE  /\ Lists(Updated(s, r, t)) /\ Updated(s, r, t)[r] = t
           /\ \A q \in Resource : q # r => Updated(s, r, t)[q] = s[q]
<1> DEFINE w == Updated(s, r, t)
<1>1. r \in {"MIC", "SPK"} /\ Resource = {"MIC", "SPK"}  BY VoiceAssumption
<1>2. t \in Seq(Focus)
  <2>1. Users(r) \subseteq Focus  BY <1>1, PolicyFacts
  <2> QED  BY <2>1, SeqMonotonic DEF List
<1>3. /\ w \in [Resource -> Seq(Focus)] /\ w[r] = t
      /\ \A q \in Resource : q # r => w[q] = s[q]
  BY <1>2 DEF Lists, Updated
<1> HIDE DEF w
<1>4. \A q \in Resource : List(w[q], q)  BY <1>3 DEF Lists
<1>5. On("asr", w["SPK"]) => Head(w["SPK"]) = "asr"
  <2>1. CASE r = "SPK"  BY <1>3, <2>1 DEF AsrFirst
  <2>2. CASE r # "SPK"
    <3>1. w["SPK"] = s["SPK"]  BY <1>1, <1>3, <2>2
    <3> QED  BY <3>1 DEF Lists
  <2> QED  BY <2>1, <2>2
<1> QED  BY <1>3, <1>4, <1>5 DEF Lists, w

\* Only cap_audio comes back by priority.
LEMMA UnfocusAnswer ==
    ASSUME NEW f, NEW answer \in UnfocusAnswers(f)
    PROVE  answer = "REMOVE" \/ (answer = "PAUSE" /\ f = "cap_audio")
BY VoiceAssumption DEF UnfocusAnswers

Refused(h, r, f) == <<h, r, f>> \in Rejects
Reserved(l, f) == InsertByPriority(RemoveItems(l, f), f)

\* A refused request is reserved; on the speaker the top stays the top.
LEMMA ListReserved ==
    ASSUME NEW r \in {"MIC", "SPK"}, NEW f \in Users(r), NEW l, List(l, r),
           r = "SPK" => (On("asr", l) => Head(l) = "asr"),
           l # <<>>, Refused(Head(l), r, f),
           NEW t, t = Reserved(l, f)
    PROVE  /\ List(t, r) /\ t # <<>>
           /\ r = "SPK" => Head(t) = Head(l) /\ f # "asr"
           /\ \A g : On(g, t) <=> On(g, l) \/ g = f
<1> DEFINE U == Users(r)
           u == RemoveItems(l, f)
<1>0. U \subseteq Focus /\ r \in Resource  BY PolicyFacts
<1>1. l \in Seq(U) /\ Distinct(l) /\ l # <<>> /\ f \in U  BY DEF List
<1>a. t = InsertByPriority(u, f)  BY DEF Reserved
<1> HIDE DEF U
<1>2. /\ u \in Seq(U) /\ Distinct(u)
      /\ \A g : On(g, u) <=> On(g, l) /\ g # f
      /\ Head(l) # f => u # <<>> /\ Head(u) = Head(l)
  BY <1>1, ListRemoved
<1>3. Head(l) \in U /\ On(Head(l), l)  BY <1>1, ListTail
<1> HIDE DEF u
<1>4. /\ t \in Seq(U) /\ t # <<>> /\ Distinct(t)
      /\ \A g : On(g, t) <=> On(g, u) \/ g = f
      /\ u # <<>> /\ Type[Head(u)] < Type[f] => Head(t) = Head(u)
      /\ (\A g : On(g, u) => Type[f] <= Type[g]) => Head(t) = f
  BY <1>0, <1>1, <1>2, <1>a, ListInserted
<1>5. ASSUME r = "SPK" PROVE Head(t) = Head(l) /\ f # "asr"
  <2>1. Head(l) = "cap_tts" /\ f # "asr"
    BY <1>1, <1>3, <1>5, PolicyFacts DEF U, Refused
  <2>2. CASE f = "cap_tts"
    <3>1. ASSUME NEW g, On(g, u) PROVE Type[f] <= Type[g]
      <4>1. g \in Users("SPK")
        BY <1>2, <1>5, <3>1, ElementOfSeq DEF On, U
      <4>2. g # "asr"
        <5>1. On("asr", l) => Head(l) = "asr"  BY <1>5
        <5> QED  BY <1>2, <2>1, <3>1, <5>1
      <4> QED  BY <2>2, <4>1, <4>2, PolicyFacts
    <3> QED  BY <1>4, <2>1, <2>2, <3>1
  <2>3. CASE f # "cap_tts"
    <3>1. u # <<>> /\ Head(u) = "cap_tts"  BY <1>2, <2>1, <2>3
    <3>2. Type[f] > 3 /\ Type["cap_tts"] = 3  BY <1>1, <1>5, <2>1, <2>3, PolicyFacts DEF U
    <3>3. Type[Head(u)] < Type[f]
      <4>1. Type[f] \in Nat  BY <1>0, <1>1, FocusAssumption
      <4> QED  BY <3>1, <3>2, <4>1
    <3> QED  BY <1>4, <2>1, <3>1, <3>3
  <2> QED  BY <2>1, <2>2, <2>3
<1>6. List(t, r)  BY <1>4 DEF List, U
<1>7. \A g : On(g, t) <=> On(g, l) \/ g = f  BY <1>2, <1>4
<1> QED  BY <1>4, <1>5, <1>6, <1>7

Taken(l, top, answer, f) ==
    Prepend(RemoveItems(Unfocused(RemoveItems(l, top), top, answer), f), f)

TopIs(l, f) == l # <<>> /\ Head(l) = f

\* The requester takes the top over.
LEMMA ListTaken ==
    ASSUME NEW r \in {"MIC", "SPK"}, NEW l, List(l, r), AsrFirst(l, r),
           NEW f \in Users(r), l # <<>>, NEW top, top = Head(l),
           NEW answer \in UnfocusAnswers(top), NEW t, t = Taken(l, top, answer, f)
    PROVE  List(t, r) /\ AsrFirst(t, r) /\ TopIs(t, f)
<1> DEFINE U == Users(r)
           u == RemoveItems(l, top)
           v == Unfocused(u, top, answer)
           w == RemoveItems(v, f)
<1>0. U \subseteq Focus /\ r \in Resource  BY PolicyFacts
<1>1. l \in Seq(U) /\ Distinct(l) /\ l # <<>> /\ f \in U  BY DEF List
<1>a. t = Prepend(w, f)  BY DEF Taken
<1>b. answer = "REMOVE" \/ (answer = "PAUSE" /\ top = "cap_audio")
  BY UnfocusAnswer
<1>c. r = "SPK" => (On("asr", l) => top = "asr")  BY DEF AsrFirst
<1>d. top = Head(l)  OBVIOUS
<1> HIDE DEF U
<1>2. top \in U  BY <1>1, <1>d, ListTail
<1>3. /\ u \in Seq(U) /\ Distinct(u)
      /\ \A g : On(g, u) <=> On(g, l) /\ g # top
  BY <1>1, ListRemoved
<1> HIDE DEF u
<1>4. /\ v \in Seq(U) /\ Distinct(v)
      /\ \A g : On(g, v) => On(g, u) \/ (g = top /\ answer = "PAUSE")
      /\ \A g : On(g, u) => On(g, v)
  <2>1. CASE answer = "PAUSE"
    <3>1. v = InsertByPriority(u, top)  BY <2>1 DEF Unfocused
    <3> HIDE DEF v
    <3>2. /\ v \in Seq(U) /\ Distinct(v)
          /\ \A g : On(g, v) <=> On(g, u) \/ g = top
      BY <1>0, <1>2, <1>3, <3>1, ListInserted
    <3> QED  BY <2>1, <3>2
  <2>2. CASE answer # "PAUSE"
    <3>1. v = u  BY <2>2 DEF Unfocused
    <3> QED  BY <1>3, <3>1
  <2> QED  BY <2>1, <2>2
<1> HIDE DEF v
<1>5. /\ w \in Seq(U) /\ Distinct(w)
      /\ \A g : On(g, w) <=> On(g, v) /\ g # f
  BY <1>4, ListRemoved
<1> HIDE DEF w
<1>6. /\ t \in Seq(U) /\ t # <<>> /\ Distinct(t) /\ Head(t) = f
      /\ \A g : On(g, t) <=> On(g, w) \/ g = f
  BY <1>1, <1>5, <1>a, ListPrepended
<1>7. r = "SPK" => (On("asr", t) => f = "asr")
  BY <1>3, <1>4, <1>5, <1>6, <1>b, <1>c
<1> QED  BY <1>6, <1>7 DEF List, AsrFirst, TopIs, U

\* A released item is dropped, or put back when its listener pauses.
LEMMA ListReleased ==
    ASSUME NEW r \in {"MIC", "SPK"}, NEW l, List(l, r), NEW f \in Users(r),
           NEW answer \in UnfocusAnswers(f), ~On(f, l),
           NEW t, t = Unfocused(l, f, answer)
    PROVE  /\ List(t, r)
           /\ t # <<>> => Head(t) \in Users(r)
           /\ \A g : On(g, t) => On(g, l) \/ (g = f /\ f = "cap_audio")
           /\ f # "cap_audio" => t = l
<1> DEFINE U == Users(r)
<1>0. U \subseteq Focus /\ r \in Resource  BY PolicyFacts
<1>1. l \in Seq(U) /\ Distinct(l) /\ f \in U  BY DEF List
<1>b. answer = "REMOVE" \/ (answer = "PAUSE" /\ f = "cap_audio")
  BY UnfocusAnswer
<1>c. ~On(f, l) /\ t = Unfocused(l, f, answer)  OBVIOUS
<1> HIDE DEF U
<1>2. /\ t \in Seq(U) /\ Distinct(t)
      /\ \A g : On(g, t) => On(g, l) \/ (g = f /\ f = "cap_audio")
  <2>1. CASE answer = "PAUSE"
    <3>1. t = InsertByPriority(l, f)  BY <1>c, <2>1 DEF Unfocused
    <3>2. /\ t \in Seq(U) /\ Distinct(t)
          /\ \A g : On(g, t) <=> On(g, l) \/ g = f
      BY <1>0, <1>1, <1>c, <3>1, ListInserted
    <3> QED  BY <1>b, <2>1, <3>2
  <2>2. CASE answer # "PAUSE"
    <3>1. t = l  BY <1>c, <2>2 DEF Unfocused
    <3> QED  BY <1>1, <3>1
  <2> QED  BY <2>1, <2>2
<1>3. t # <<>> => Head(t) \in U  BY <1>2, ListTail
<1>4. f # "cap_audio" => t = l  BY <1>b, <1>c DEF Unfocused
<1> QED  BY <1>2, <1>3, <1>4 DEF List, U

\* A release of an item that is not the top, and of the top.
LEMMA ListWithdrawn ==
    ASSUME NEW r \in {"MIC", "SPK"}, NEW l, List(l, r), AsrFirst(l, r), NEW f,
           NEW t, t = RemoveItems(l, f)
    PROVE  /\ l = <<>> => t = <<>>
           /\ l = <<>> \/ Head(l) # f => List(t, r) /\ AsrFirst(t, r)
           /\ l # <<>> /\ Head(l) # f => t # <<>> /\ Head(t) = Head(l)
<1> DEFINE U == Users(r)
<1>1. l \in Seq(U) /\ Distinct(l)  BY DEF List
<1> HIDE DEF U
<1>2. ASSUME l = <<>> PROVE t = <<>>
  <2>1. Len(l) = 0  BY <1>2
  <2>2. Occurrences(l, f) = {}  BY <2>1 DEF Occurrences
  <2> QED  BY <1>2, <2>2 DEF RemoveItems
<1>3. /\ t \in Seq(U) /\ Distinct(t)
      /\ \A g : On(g, t) <=> On(g, l) /\ g # f
      /\ l # <<>> /\ Head(l) # f => t # <<>> /\ Head(t) = Head(l)
  BY <1>1, ListRemoved
<1>4. ASSUME l = <<>> \/ Head(l) # f PROVE AsrFirst(t, r)
  <2>1. ASSUME r = "SPK", On("asr", t) PROVE Head(t) = "asr"
    <3>1. On("asr", l)  BY <1>3, <2>1
    <3>2. l # <<>>  BY <3>1 DEF On
    <3> QED  BY <1>3, <1>4, <2>1, <3>1, <3>2 DEF AsrFirst
  <2> QED  BY <2>1 DEF AsrFirst
<1> QED  BY <1>2, <1>3, <1>4 DEF List, U

\* The top of a list, and the list behind it.
LEMMA ListTop ==
    ASSUME NEW r \in {"MIC", "SPK"}, NEW l, List(l, r), AsrFirst(l, r), l # <<>>,
           NEW t, t = Tail(l)
    PROVE  /\ Head(l) \in Users(r) /\ On(Head(l), l)
           /\ List(t, r) /\ ~On(Head(l), t) /\ (r = "SPK" => ~On("asr", t))
<1> DEFINE U == Users(r)
<1>1. l \in Seq(U) /\ Distinct(l)  BY DEF List
<1> HIDE DEF U
<1>2. /\ t \in Seq(U) /\ Distinct(t) /\ Head(l) \in U /\ On(Head(l), l)
      /\ \A g : On(g, t) <=> On(g, l) /\ g # Head(l)
  BY <1>1, ListTail
<1>3. r = "SPK" => ~On("asr", t)  BY <1>2 DEF AsrFirst
<1> QED  BY <1>2, <1>3 DEF List, U

\* Each of the two lists.
LEMMA ListsFacts ==
    ASSUME NEW s, Lists(s), NEW r \in {"MIC", "SPK"}, NEW l, l = s[r]
    PROVE  List(l, r) /\ AsrFirst(l, r)
BY PolicyFacts DEF Lists, AsrFirst

----------------------------------------------------------------------------
(***************************************************************************)
(* The invariant is inductive.                                             *)
(***************************************************************************)

\* A hand-over of the speaker does not see the microphone's list.
LEMMA WaitingSpeaker ==
    ASSUME NEW h, NEW s, NEW t, NEW o, t["SPK"] = s["SPK"]
    PROVE  /\ Waiting(h, s) /\ h[3] = "SPK" => Waiting(h, t)
           /\ AsrLoses(h, s, o) => AsrLoses(h, t, o)
           /\ Owned(s, o) <=> Owned(t, o)
<1>1. Waiting(h, s) /\ h[3] = "SPK" => Waiting(h, t)  BY DEF Waiting
<1>2. Owned(s, o) <=> Owned(t, o)  BY DEF Owned
<1> QED  BY <1>1, <1>2 DEF AsrLoses

\* The four parts of the invariant after a step.
LEMMA Reassemble ==
    ASSUME Types', Lists(stack'), Nesting(calls', stack', focused'["SPK"]),
           Events(calls', queue', asrThread', kwdThread')
    PROVE  IndInv'
BY DEF IndInv

\* At first no call is pending and both lists are empty.
LEMMA VoiceInit == Init => IndInv
<1> SUFFICES ASSUME Init PROVE IndInv  OBVIOUS
<1>1. Types
  <2>1. calls \in Seq(Call) /\ queue \in Seq(Event)  BY EmptySeq DEF Init
  <2>2. focused \in [Resource -> SUBSET Focus]  BY DEF Init
  <2>3. prev_listening_state \in States \cup {"READY"}
    BY DEF Init, States, ResumeAt
  <2> QED  BY <2>1, <2>2, <2>3 DEF Init, Types
<1>2. Lists(stack)
  <2>1. \A r \in Resource : stack[r] = <<>>  BY DEF Init
  <2>2. \A S : <<>> \in Seq(S)  BY EmptySeq
  <2>3. Distinct(<<>>) /\ ~On("asr", <<>>)  BY DEF Distinct, On
  <2>4. stack \in [Resource -> Seq(Focus)]  BY <2>2 DEF Init
  <2> QED  BY <2>1, <2>2, <2>3, <2>4, PolicyFacts DEF Lists, List
<1>3. NoCallback(calls, stack, focused["SPK"])
  <2>1. calls = <<>> /\ focused["SPK"] = {}  BY PolicyFacts DEF Init
  <2>2. Below(<<>>, 0)  BY DEF Below
  <2> QED  BY <2>1, <2>2 DEF NoCallback, Owned
<1>4. Events(calls, queue, asrThread, kwdThread)
  BY DEF Init, Events, QueuedFor, HandledFor
<1> QED  BY <1>1, <1>2, <1>3, <1>4 DEF IndInv, Nesting

\* nugu_focus_request() up to its first callback.
LEMMA RequestInv == ASSUME IndInv, RequestStep PROVE IndInv'
<1>0. PICK f, r, o : f = calls[1][2] /\ r = calls[1][3] /\ o = focused["SPK"]
  OBVIOUS
<1>1. /\ Types /\ Lists(stack) /\ Nesting(calls, stack, o)
      /\ Events(calls, queue, asrThread, kwdThread)
      /\ calls \in Seq(Call) /\ calls # <<>> /\ calls[1][1] = "request"
  BY <1>0 DEF IndInv, RequestStep, Running, Types
<1>2. UNCHANGED <<focused, queue, asrVars, kwdVars, agentVars>>
  BY DEF RequestStep
<1>3. /\ calls[1] \in Call
      /\ NoCallback(calls, stack, o) => Below(calls, 1)
      /\ NoCallback(calls, stack, o)
            \/ (InIdle(calls, stack, o) /\ calls[1] = Request("kwd", "MIC"))
  BY <1>1, TopCall
<1>4. r \in {"MIC", "SPK"} /\ r \in Resource /\ f \in Users(r)
  BY <1>0, <1>1, <1>3, CallFacts, VoiceAssumption
<1>5. \/ /\ stack[r] = <<>>
         /\ stack' = Updated(stack, r, <<f>>)
         /\ calls' = PushOne(calls, <<"focus", f, r, "request">>)
      \/ /\ stack[r] # <<>> /\ <<Head(stack[r]), r, f>> \notin Rejects
         /\ calls' = PushTwo(calls, <<"unfocus", Head(stack[r]), r>>,
                                    <<"stolen", f, r, Head(stack[r])>>)
         /\ stack' = stack
      \/ /\ stack[r] # <<>> /\ Refused(Head(stack[r]), r, f)
         /\ stack' = Updated(stack, r, Reserved(stack[r], f))
         /\ calls' = Pop(calls)
  BY <1>0 DEF RequestStep, Return, Updated, Refused, Reserved, PushOne, PushTwo, Pop
<1>6. focused'["SPK"] = o  BY <1>0, <1>2
<1>7. ASSUME calls' \in Seq(Call), Lists(stack'), Nesting(calls', stack', o),
             Events(calls', queue, asrThread, kwdThread)
      PROVE  IndInv'
  <2>1. Types'  BY <1>1, <1>2, <1>7 DEF Types, asrVars, kwdVars, agentVars
  <2>2. queue' = queue /\ asrThread' = asrThread /\ kwdThread' = kwdThread
    BY <1>2 DEF asrVars, kwdVars
  <2> QED  BY <1>6, <1>7, <2>1, <2>2, Reassemble
<1>8. ASSUME InIdle(calls, stack, o)
      PROVE  /\ r = "MIC" /\ f = "kwd" /\ Below(calls, 3)
             /\ calls[2] = <<"reset_expect">> /\ AsrLoses(calls[3], stack, o)
  <2>1. ~NoCallback(calls, stack, o)
    <3>1. Len(calls) \in Nat /\ 3 <= Len(calls) /\ calls[3][1] \in Nested
      BY <1>1, <1>8, LenProperties
      DEF InIdle, Below, AsrLoses, Waiting, HandOver, Nested
    <3>2. 3 \in (0 + 1)..Len(calls)  BY <3>1
    <3> QED  BY <3>1, <3>2 DEF NoCallback, Below
  <2>2. calls[1] = Request("kwd", "MIC")  BY <1>3, <2>1
  <2> QED  BY <1>0, <1>8, <2>2 DEF InIdle, Request
<1>10. CASE /\ stack[r] = <<>>
            /\ stack' = Updated(stack, r, <<f>>)
            /\ calls' = PushOne(calls, <<"focus", f, r, "request">>)
  <2>0. PICK x, l : x = <<"focus", f, r, "request">> /\ l = <<f>>  OBVIOUS
  <2>1. x \in Call /\ x[1] = "focus" /\ x[2] = f /\ x[3] = r  BY <1>4, <2>0, CallsMade
  <2>2. List(l, r) /\ l # <<>> /\ Head(l) = f /\ (On("asr", l) => f = "asr")
    <3>1. l \in Seq(Users(r)) /\ Len(l) = 1 /\ l[1] = f  BY <1>4, <2>0
    <3> QED  BY <2>0, <3>1 DEF List, Distinct, On
  <2>3. /\ Lists(stack') /\ stack'[r] = l
        /\ \A q \in Resource : q # r => stack'[q] = stack[q]
    BY <1>1, <1>4, <1>10, <2>0, <2>2, ListsUpdated DEF AsrFirst
  <2>a. calls' = PushOne(calls, x)  BY <1>10, <2>0
  <2>e. Events(calls', queue, asrThread, kwdThread)
    BY <1>1, <2>1, <2>a, ReturnOne
  <2>4. CASE NoCallback(calls, stack, o)
    <3>1. calls' \in Seq(Call) /\ Below(calls', 1) /\ calls'[1] = x
      BY <1>1, <1>3, <2>1, <2>4, <2>a, ReturnOne
    <3>2. ASSUME r = "SPK" PROVE o = {} /\ stack'["SPK"] # <<>> /\ Head(stack'["SPK"]) = f
      BY <1>10, <2>2, <2>3, <2>4, <3>2 DEF NoCallback, Owned
    <3>3. ASSUME r # "SPK" PROVE Owned(stack', o)
      <4>1. stack'["SPK"] = stack["SPK"]  BY <2>3, <3>3, PolicyFacts
      <4> QED  BY <2>4, <4>1, WaitingSpeaker DEF NoCallback
    <3>4. InFocus(calls', stack', o)  BY <2>1, <3>1, <3>2, <3>3 DEF InFocus
    <3> QED  BY <1>7, <2>3, <2>e, <3>1, <3>4 DEF Nesting
  <2>5. CASE InIdle(calls, stack, o)
    <3>1. /\ calls' \in Seq(Call) /\ Below(calls', 3) /\ calls'[1] = x
          /\ calls'[2] = calls[2] /\ calls'[3] = calls[3]
      BY <1>1, <1>8, <2>1, <2>5, <2>a, ReturnOne
    <3>2. stack'["SPK"] = stack["SPK"]  BY <1>8, <2>3, <2>5, PolicyFacts
    <3>3. AsrLoses(calls'[3], stack', o)  BY <1>8, <2>5, <3>1, <3>2, WaitingSpeaker
    <3>4. InIdle(calls', stack', o)  BY <1>8, <2>0, <2>5, <3>1, <3>3 DEF InIdle
    <3> QED  BY <1>7, <2>3, <2>e, <3>1, <3>4 DEF Nesting
  <2> QED  BY <1>3, <2>4, <2>5
<1>11. CASE /\ stack[r] # <<>> /\ <<Head(stack[r]), r, f>> \notin Rejects
            /\ calls' = PushTwo(calls, <<"unfocus", Head(stack[r]), r>>,
                                       <<"stolen", f, r, Head(stack[r])>>)
            /\ stack' = stack
  <2>0. PICK top, x, y : /\ top = Head(stack[r]) /\ x = <<"unfocus", top, r>>
                         /\ y = <<"stolen", f, r, top>>
    OBVIOUS
  <2>1. top \in Users(r)
    <3>0. PICK l, t : l = stack[r] /\ t = Tail(l)  OBVIOUS
    <3>1. List(l, r) /\ AsrFirst(l, r)  BY <1>1, <1>4, <3>0, ListsFacts
    <3>2. l # <<>>  BY <1>11, <3>0
    <3>3. Head(l) \in Users(r)  BY <1>4, <3>0, <3>1, <3>2, ListTop
    <3> QED  BY <2>0, <3>0, <3>3
  <2>2. /\ x \in Call /\ y \in Call /\ x[1] = "unfocus" /\ y[1] = "stolen"
        /\ y[3] = r /\ y[4] = top
    BY <1>4, <2>0, <2>1, CallsMade
  <2>3. NoCallback(calls, stack, o)
    <3>1. ASSUME InIdle(calls, stack, o) PROVE FALSE
      BY <1>8, <1>11, <2>0, <2>1, <3>1, PolicyFacts
    <3> QED  BY <1>3, <3>1
  <2>a. calls' = PushTwo(calls, x, y)  BY <1>11, <2>0
  <2>e. Events(calls', queue, asrThread, kwdThread)
    BY <1>1, <2>2, <2>a, ReturnTwo
  <2>4. calls' \in Seq(Call) /\ Below(calls', 2) /\ calls'[1] = x /\ calls'[2] = y
    <3>1. calls \in Seq(Call) /\ calls # <<>> /\ Below(calls, 1)  BY <1>1, <1>3, <2>3
    <3>2. x \in Call /\ y \in Call  BY <2>2
    <3> QED  BY <2>a, <3>1, <3>2, ReturnTwo
  <2>5. Waiting(y, stack)  BY <1>11, <2>0, <2>2 DEF Waiting, HandOver
  <2>6. Loser(y) = top  BY <2>2 DEF Loser
  <2>7. Owned(stack, o)  BY <2>3 DEF NoCallback
  <2>8. r = "SPK" => o \subseteq {top}  BY <2>0, <2>7 DEF Owned
  <2>9. InUnfocus(calls', stack', o)
    BY <1>11, <2>0, <2>2, <2>4, <2>5, <2>6, <2>7, <2>8 DEF InUnfocus
  <2> QED  BY <1>1, <1>7, <1>11, <2>e, <2>4, <2>9 DEF Nesting
<1>12. CASE /\ stack[r] # <<>> /\ Refused(Head(stack[r]), r, f)
            /\ stack' = Updated(stack, r, Reserved(stack[r], f))
            /\ calls' = Pop(calls)
  <2>0. PICK t : t = Reserved(stack[r], f)  OBVIOUS
  <2>1. /\ List(t, r) /\ t # <<>>
        /\ r = "SPK" => Head(t) = Head(stack[r]) /\ f # "asr"
        /\ \A g : On(g, t) <=> On(g, stack[r]) \/ g = f
    <3>0. PICK l : l = stack[r]  OBVIOUS
    <3>1. r \in {"MIC", "SPK"} /\ f \in Users(r)  BY <1>4
    <3>2. l # <<>> /\ Refused(Head(l), r, f) /\ t = Reserved(l, f)
      BY <1>12, <2>0, <3>0
    <3>3. List(l, r)  BY <1>1, <3>0, <3>1, PolicyFacts DEF Lists
    <3>4. r = "SPK" => (On("asr", l) => Head(l) = "asr")
      BY <1>1, <3>0 DEF Lists
    <3>5. /\ List(t, r) /\ t # <<>>
          /\ r = "SPK" => Head(t) = Head(l) /\ f # "asr"
          /\ \A g : On(g, t) <=> On(g, l) \/ g = f
      <4>1. List(t, r) /\ t # <<>>  BY <3>1, <3>2, <3>3, <3>4, ListReserved
      <4>2. r = "SPK" => Head(t) = Head(l) /\ f # "asr"
        BY <3>1, <3>2, <3>3, <3>4, ListReserved
      <4>3. \A g : On(g, t) <=> On(g, l) \/ g = f
        BY <3>1, <3>2, <3>3, <3>4, ListReserved
      <4> QED  BY <4>1, <4>2, <4>3
    <3> QED  BY <3>0, <3>5
  <2>3. AsrFirst(t, r)  BY <1>1, <2>1 DEF Lists, AsrFirst
  <2>4. /\ Lists(stack') /\ stack'[r] = t
        /\ \A q \in Resource : q # r => stack'[q] = stack[q]
    BY <1>1, <1>4, <1>12, <2>0, <2>1, <2>3, ListsUpdated
  <2>e. Events(calls', queue, asrThread, kwdThread)
    BY <1>1, <1>12, ReturnNone
  <2>5. CASE NoCallback(calls, stack, o)
    <3>1. calls' \in Seq(Call) /\ Below(calls', 0)
      BY <1>1, <1>3, <1>12, <2>5, ReturnNone
    <3>2. Owned(stack', o)
      <4>1. CASE r = "SPK"  BY <1>12, <2>1, <2>4, <2>5, <4>1 DEF NoCallback, Owned
      <4>2. CASE r # "SPK"
        <5>1. stack'["SPK"] = stack["SPK"]  BY <2>4, <4>2, PolicyFacts
        <5> QED  BY <2>5, <5>1, WaitingSpeaker DEF NoCallback
      <4> QED  BY <4>1, <4>2
    <3>3. NoCallback(calls', stack', o)  BY <3>1, <3>2 DEF NoCallback
    <3> QED  BY <1>7, <2>4, <2>e, <3>1, <3>3 DEF Nesting
  <2>6. CASE InIdle(calls, stack, o)
    <3>1. /\ calls' \in Seq(Call) /\ Below(calls', 2)
          /\ calls'[1] = calls[2] /\ calls'[2] = calls[3]
      BY <1>1, <1>8, <1>12, <2>6, ReturnNone
    <3>2. stack'["SPK"] = stack["SPK"]  BY <1>8, <2>4, <2>6, PolicyFacts
    <3>3. AsrLoses(calls'[2], stack', o)  BY <1>8, <2>6, <3>1, <3>2, WaitingSpeaker
    <3>4. InReset(calls', stack', o)  BY <1>8, <2>6, <3>1, <3>3 DEF InReset
    <3> QED  BY <1>7, <2>4, <2>e, <3>1, <3>4 DEF Nesting
  <2> QED  BY <1>3, <2>5, <2>6
<1> QED  BY <1>5, <1>10, <1>11, <1>12

\* A step of the main thread that leaves the agent and the threads alone.
LEMMA FocusStep ==
    ASSUME IndInv, UNCHANGED <<queue, asrVars, kwdVars, agentVars>>,
           NEW o, focused'["SPK"] = o, focused' \in [Resource -> SUBSET Focus],
           calls' \in Seq(Call), Lists(stack'), Nesting(calls', stack', o),
           Events(calls', queue, asrThread, kwdThread)
    PROVE  IndInv'
<1>1. Types'  BY DEF IndInv, Types, asrVars, kwdVars, agentVars
<1>2. queue' = queue /\ asrThread' = asrThread /\ kwdThread' = kwdThread
  BY DEF asrVars, kwdVars
<1> QED  BY <1>1, <1>2, Reassemble

\* The parts of the invariant that every step of the main thread uses.
LEMMA MainFacts ==
    ASSUME IndInv, calls # <<>>
    PROVE  /\ Lists(stack) /\ calls \in Seq(Call) /\ calls[1] \in Call
           /\ focused \in [Resource -> SUBSET Focus]
           /\ Nesting(calls, stack, focused["SPK"])
           /\ Events(calls, queue, asrThread, kwdThread)
BY TopCall DEF IndInv, Types

\* nugu_focus_request() after unfocus_cb of the former top.
LEMMA StolenInv == ASSUME IndInv, StolenStep PROVE IndInv'
<1>0. PICK f, r, top, o :
         f = calls[1][2] /\ r = calls[1][3] /\ top = calls[1][4] /\ o = focused["SPK"]
  OBVIOUS
<1>1. calls # <<>> /\ calls[1][1] = "stolen"  BY DEF StolenStep, Running
<1>2. UNCHANGED <<focused, queue, asrVars, kwdVars, agentVars>>  BY DEF StolenStep
<1>3. /\ Lists(stack) /\ calls \in Seq(Call) /\ calls[1] \in Call
      /\ focused \in [Resource -> SUBSET Focus]
      /\ Nesting(calls, stack, o)
      /\ Events(calls, queue, asrThread, kwdThread)
  BY <1>0, <1>1, MainFacts
<1>4. InHandOver(calls, stack, o)  BY <1>1, <1>3, TopCall
<1>5. r \in {"MIC", "SPK"} /\ r \in Resource /\ f \in Users(r)
  BY <1>0, <1>1, <1>3, CallFacts, VoiceAssumption
<1>6. /\ Below(calls, 1) /\ stack[r] # <<>> /\ top = Head(stack[r])
      /\ IF r = "SPK" THEN o = {} ELSE Owned(stack, o)
  BY <1>0, <1>1, <1>4 DEF InHandOver, Waiting
<1>7. PICK answer \in UnfocusAnswers(top) :
         /\ stack' = Updated(stack, r, Taken(stack[r], top, answer, f))
         /\ calls' = PushOne(calls, <<"focus", f, r, "request">>)
  BY <1>0 DEF StolenStep, Return, Updated, Taken, PushOne
<1>8. PICK t, x : t = Taken(stack[r], top, answer, f) /\ x = <<"focus", f, r, "request">>
  OBVIOUS
<1>9. List(t, r) /\ AsrFirst(t, r) /\ t # <<>> /\ Head(t) = f
  <2>0. PICK l : l = stack[r]  OBVIOUS
  <2>1. List(l, r) /\ AsrFirst(l, r)  BY <1>3, <1>5, <2>0, ListsFacts
  <2>2. r \in {"MIC", "SPK"} /\ f \in Users(r)  BY <1>5
  <2>3. l # <<>> /\ top = Head(l)  BY <1>6, <2>0
  <2>4. answer \in UnfocusAnswers(top)  BY <1>7
  <2>5. t = Taken(l, top, answer, f)  BY <1>8, <2>0
  <2>6. List(t, r) /\ AsrFirst(t, r)  BY <2>1, <2>2, <2>3, <2>4, <2>5, ListTaken, Zenon
  <2>7. TopIs(t, f)  BY <2>1, <2>2, <2>3, <2>4, <2>5, ListTaken, Zenon
  <2> QED  BY <2>6, <2>7 DEF TopIs
<1>10. /\ Lists(stack') /\ stack'[r] = t
       /\ \A q \in Resource : q # r => stack'[q] = stack[q]
  BY <1>3, <1>5, <1>7, <1>8, <1>9, ListsUpdated
<1>11. x \in Call /\ x[1] = "focus" /\ x[2] = f /\ x[3] = r  BY <1>5, <1>8, CallsMade
<1>12. calls' = PushOne(calls, x)  BY <1>7, <1>8
<1>13. calls' \in Seq(Call) /\ Below(calls', 1) /\ calls'[1] = x
  BY <1>1, <1>3, <1>6, <1>11, <1>12, ReturnOne
<1>14. Events(calls', queue, asrThread, kwdThread)
  BY <1>1, <1>3, <1>11, <1>12, ReturnOne
<1>15. ASSUME r # "SPK" PROVE Owned(stack', o)
  <2>1. stack'["SPK"] = stack["SPK"]  BY <1>10, <1>15, PolicyFacts
  <2> QED  BY <1>6, <1>15, <2>1, WaitingSpeaker
<1>16. InFocus(calls', stack', o)
  BY <1>6, <1>9, <1>10, <1>11, <1>13, <1>15 DEF InFocus
<1> QED  BY <1>0, <1>2, <1>3, <1>10, <1>13, <1>14, <1>16, FocusStep DEF Nesting

\* nugu_focus_release() up to unfocus_cb.
LEMMA ReleaseInv == ASSUME IndInv, ReleaseStep PROVE IndInv'
<1>0. PICK f, r, o : f = calls[1][2] /\ r = calls[1][3] /\ o = focused["SPK"]
  OBVIOUS
<1>1. calls # <<>> /\ calls[1][1] = "release"  BY DEF ReleaseStep, Running
<1>2. UNCHANGED <<focused, queue, asrVars, kwdVars, agentVars>>  BY DEF ReleaseStep
<1>3. /\ Lists(stack) /\ calls \in Seq(Call) /\ calls[1] \in Call
      /\ focused \in [Resource -> SUBSET Focus]
      /\ Nesting(calls, stack, o)
      /\ Events(calls, queue, asrThread, kwdThread)
  BY <1>0, <1>1, MainFacts
<1>4. NoCallback(calls, stack, o) /\ Below(calls, 1)
  BY <1>1, <1>3, TopCall DEF Nested
<1>5. r \in {"MIC", "SPK"} /\ r \in Resource /\ f \in Users(r)
  BY <1>0, <1>1, <1>3, CallFacts, VoiceAssumption
<1>6. Owned(stack, o)  BY <1>4 DEF NoCallback
<1>7. \/ /\ stack[r] = <<>> \/ Head(stack[r]) # f
         /\ stack' = Updated(stack, r, RemoveItems(stack[r], f))
         /\ calls' = Pop(calls)
      \/ /\ stack[r] # <<>> /\ Head(stack[r]) = f
         /\ stack' = Updated(stack, r, Tail(stack[r]))
         /\ calls' = PushTwo(calls, <<"unfocus", f, r>>, <<"released", f, r>>)
  BY <1>0 DEF ReleaseStep, Return, Updated, Pop, PushTwo
<1>8. PICK l : l = stack[r]  OBVIOUS
<1>9. List(l, r) /\ AsrFirst(l, r)  BY <1>3, <1>5, <1>8, ListsFacts
<1>10. CASE /\ stack[r] = <<>> \/ Head(stack[r]) # f
            /\ stack' = Updated(stack, r, RemoveItems(stack[r], f))
            /\ calls' = Pop(calls)
  <2>0. PICK t : t = RemoveItems(l, f)  OBVIOUS
  <2>a. l = <<>> \/ Head(l) # f  BY <1>8, <1>10
  <2>1. /\ l = <<>> => t = <<>>
        /\ List(t, r) /\ AsrFirst(t, r)
        /\ l # <<>> => t # <<>> /\ Head(t) = Head(l)
    BY <1>5, <1>9, <2>0, <2>a, ListWithdrawn
  <2>b. stack' = Updated(stack, r, t)  BY <1>8, <1>10, <2>0
  <2>2. /\ Lists(stack') /\ stack'[r] = t
        /\ \A q \in Resource : q # r => stack'[q] = stack[q]
    BY <1>3, <1>5, <2>1, <2>b, ListsUpdated
  <2>3. Owned(stack', o)
    <3>1. CASE r = "SPK"  BY <1>6, <1>8, <2>1, <2>2, <3>1 DEF Owned
    <3>2. CASE r # "SPK"
      <4>1. stack'["SPK"] = stack["SPK"]  BY <2>2, <3>2, PolicyFacts
      <4> QED  BY <1>6, <4>1, WaitingSpeaker
    <3> QED  BY <3>1, <3>2
  <2>4. calls' \in Seq(Call) /\ Below(calls', 0)  BY <1>1, <1>3, <1>4, <1>10, ReturnNone
  <2>5. Events(calls', queue, asrThread, kwdThread)  BY <1>1, <1>3, <1>10, ReturnNone
  <2>6. NoCallback(calls', stack', o)  BY <2>3, <2>4 DEF NoCallback
  <2> QED  BY <1>0, <1>2, <1>3, <2>2, <2>4, <2>5, <2>6, FocusStep DEF Nesting
<1>11. CASE /\ stack[r] # <<>> /\ Head(stack[r]) = f
            /\ stack' = Updated(stack, r, Tail(stack[r]))
            /\ calls' = PushTwo(calls, <<"unfocus", f, r>>, <<"released", f, r>>)
  <2>0. PICK t, x, y :
           t = Tail(l) /\ x = <<"unfocus", f, r>> /\ y = <<"released", f, r>>
    OBVIOUS
  <2>a. l # <<>> /\ Head(l) = f /\ t = Tail(l)  BY <1>8, <1>11, <2>0
  <2>1. List(t, r) /\ ~On(f, t) /\ (r = "SPK" => ~On("asr", t))
    BY <1>5, <1>9, <2>a, ListTop
  <2>b. AsrFirst(t, r) /\ stack' = Updated(stack, r, t)
    BY <1>8, <1>11, <2>0, <2>1 DEF AsrFirst
  <2>2. /\ Lists(stack') /\ stack'[r] = t
        /\ \A q \in Resource : q # r => stack'[q] = stack[q]
    BY <1>3, <1>5, <2>1, <2>b, ListsUpdated
  <2>3. x \in Call /\ y \in Call  BY <1>5, <2>0, CallsMade
  <2>4. /\ x[1] = "unfocus" /\ y[1] = "released" /\ y[2] = f /\ y[3] = r
        /\ calls' = PushTwo(calls, x, y)
    BY <1>11, <2>0
  <2>5. calls' \in Seq(Call) /\ Below(calls', 2) /\ calls'[1] = x /\ calls'[2] = y
    <3>1. calls \in Seq(Call) /\ calls # <<>> /\ Below(calls, 1)  BY <1>1, <1>3, <1>4
    <3> QED  BY <2>3, <2>4, <3>1, ReturnTwo
  <2>6. Events(calls', queue, asrThread, kwdThread)
    BY <1>1, <1>3, <2>3, <2>4, ReturnTwo
  <2>7. Waiting(y, stack')  BY <2>1, <2>2, <2>4 DEF Waiting, HandOver
  <2>8. Loser(y) = f  BY <2>4 DEF Loser
  <2>9. r = "SPK" => o \subseteq {f}  BY <1>6, <1>11 DEF Owned
  <2>10. ASSUME r # "SPK" PROVE Owned(stack', o)
    <3>1. stack'["SPK"] = stack["SPK"]  BY <2>2, <2>10, PolicyFacts
    <3> QED  BY <1>6, <3>1, WaitingSpeaker
  <2>11. InUnfocus(calls', stack', o)
    BY <2>0, <2>4, <2>5, <2>7, <2>8, <2>9, <2>10 DEF InUnfocus
  <2> QED  BY <1>0, <1>2, <1>3, <2>2, <2>5, <2>6, <2>11, FocusStep DEF Nesting
<1> QED  BY <1>7, <1>10, <1>11

\* nugu_focus_release() after unfocus_cb returned.
LEMMA ReleasedInv == ASSUME IndInv, ReleasedStep PROVE IndInv'
<1>0. PICK f, r, o : f = calls[1][2] /\ r = calls[1][3] /\ o = focused["SPK"]
  OBVIOUS
<1>1. calls # <<>> /\ calls[1][1] = "released"  BY DEF ReleasedStep, Running
<1>2. UNCHANGED <<focused, queue, asrVars, kwdVars, agentVars>>  BY DEF ReleasedStep
<1>3. /\ Lists(stack) /\ calls \in Seq(Call) /\ calls[1] \in Call
      /\ focused \in [Resource -> SUBSET Focus]
      /\ Nesting(calls, stack, o)
      /\ Events(calls, queue, asrThread, kwdThread)
  BY <1>0, <1>1, MainFacts
<1>4. InHandOver(calls, stack, o)  BY <1>1, <1>3, TopCall
<1>5. r \in {"MIC", "SPK"} /\ r \in Resource /\ f \in Users(r)
  BY <1>0, <1>1, <1>3, CallFacts, VoiceAssumption
<1>6. /\ Below(calls, 1) /\ ~On(f, stack[r]) /\ (r = "SPK" => ~On("asr", stack["SPK"]))
      /\ IF r = "SPK" THEN o = {} ELSE Owned(stack, o)
  BY <1>0, <1>1, <1>4 DEF InHandOver, Waiting
<1>7. PICK answer \in UnfocusAnswers(f) : \E t :
         /\ t = Unfocused(stack[r], f, answer)
         /\ stack' = Updated(stack, r, t)
         /\ \/ /\ t # <<>> /\ Head(t) # f
               /\ calls' = PushOne(calls, <<"focus", Head(t), r, "release">>)
            \/ calls' = Pop(calls)
  BY <1>0 DEF ReleasedStep, Return, Updated, Pop, PushOne
<1>t. PICK t :
         /\ t = Unfocused(stack[r], f, answer)
         /\ stack' = Updated(stack, r, t)
         /\ \/ /\ t # <<>> /\ Head(t) # f
               /\ calls' = PushOne(calls, <<"focus", Head(t), r, "release">>)
            \/ calls' = Pop(calls)
  BY <1>7
<1>8. /\ List(t, r)
      /\ t # <<>> => Head(t) \in Users(r)
      /\ \A g : On(g, t) => On(g, stack[r]) \/ (g = f /\ f = "cap_audio")
  <2>0. PICK l : l = stack[r]  OBVIOUS
  <2>1. List(l, r)  BY <1>3, <1>5, <2>0, ListsFacts
  <2>2. r \in {"MIC", "SPK"} /\ f \in Users(r)  BY <1>5
  <2>3. ~On(f, l)  BY <1>6, <2>0
  <2>4. answer \in UnfocusAnswers(f)  BY <1>7
  <2>5. t = Unfocused(l, f, answer)  BY <1>t, <2>0
  <2>6. /\ List(t, r)
        /\ t # <<>> => Head(t) \in Users(r)
        /\ \A g : On(g, t) => On(g, l) \/ (g = f /\ f = "cap_audio")
    BY <2>1, <2>2, <2>3, <2>4, <2>5, ListReleased
  <2> QED  BY <2>0, <2>6
<1>9. r = "SPK" => ~On("asr", t)  BY <1>6, <1>8
<1>a. AsrFirst(t, r)  BY <1>9 DEF AsrFirst
<1>b. stack' = Updated(stack, r, t)  BY <1>t
<1>10. /\ Lists(stack') /\ stack'[r] = t
       /\ \A q \in Resource : q # r => stack'[q] = stack[q]
  <2>1. Lists(stack)  BY <1>3
  <2>2. r \in Resource  BY <1>5
  <2>3. List(t, r)  BY <1>8
  <2> QED  BY <1>a, <1>b, <2>1, <2>2, <2>3, ListsUpdated
<1>11. ASSUME r # "SPK" PROVE Owned(stack', o)
  <2>1. stack'["SPK"] = stack["SPK"]  BY <1>10, <1>11, PolicyFacts
  <2> QED  BY <1>6, <1>11, <2>1, WaitingSpeaker
<1>12. CASE /\ t # <<>> /\ Head(t) # f
            /\ calls' = PushOne(calls, <<"focus", Head(t), r, "release">>)
  <2>0. PICK x : x = <<"focus", Head(t), r, "release">>  OBVIOUS
  <2>1. x \in Call /\ x[1] = "focus" /\ x[2] = Head(t) /\ x[3] = r
    BY <1>5, <1>8, <1>12, <2>0, CallsMade
  <2>2. calls' = PushOne(calls, x)  BY <1>12, <2>0
  <2>3. calls' \in Seq(Call) /\ Below(calls', 1) /\ calls'[1] = x
    BY <1>1, <1>3, <1>6, <2>1, <2>2, ReturnOne
  <2>4. Events(calls', queue, asrThread, kwdThread)
    BY <1>1, <1>3, <2>1, <2>2, ReturnOne
  <2>5. InFocus(calls', stack', o)
    BY <1>6, <1>10, <1>11, <1>12, <2>1, <2>3 DEF InFocus
  <2> QED  BY <1>0, <1>2, <1>3, <1>10, <2>3, <2>4, <2>5, FocusStep DEF Nesting
<1>13. CASE calls' = Pop(calls)
  <2>1. calls' \in Seq(Call) /\ Below(calls', 0)  BY <1>1, <1>3, <1>6, <1>13, ReturnNone
  <2>2. Events(calls', queue, asrThread, kwdThread)  BY <1>1, <1>3, <1>13, ReturnNone
  <2>3. Owned(stack', o)  BY <1>6, <1>11 DEF Owned
  <2>4. NoCallback(calls', stack', o)  BY <2>1, <2>3 DEF NoCallback
  <2> QED  BY <1>0, <1>2, <1>3, <1>10, <2>1, <2>2, <2>4, FocusStep DEF Nesting
<1> QED  BY <1>t, <1>12, <1>13

----------------------------------------------------------------------------
(***************************************************************************)
(* The listeners and the agents.                                           *)
(***************************************************************************)

\* A step of the main thread that posts no event and lets no thread continue
\* from one.
LEMMA MainStep ==
    ASSUME IndInv, queue' = queue,
           asr_is_running' \in BOOLEAN, kwd_is_running' \in BOOLEAN,
           asrThread' = asrThread \/ (asrThread = "wait" /\ asrThread' = "woken"),
           kwdThread' = kwdThread \/ (kwdThread = "wait" /\ kwdThread' = "woken"),
           is_handle' \in BOOLEAN, timer' \in BOOLEAN,
           prev_listening_state' \in States \cup {"READY"},
           focused' \in [Resource -> SUBSET Focus],
           calls' \in Seq(Call), Lists(stack'),
           Nesting(calls', stack', focused'["SPK"]),
           Events(calls', queue, asrThread, kwdThread)
    PROVE  IndInv'
<1>1. /\ asrThread' \in {"check", "wait", "woken", "loop", "frame", "speech",
                         "utter", "sent", "leave", "exited"}
      /\ kwdThread' \in {"check", "wait", "woken", "loop", "frame", "sent",
                         "clear", "leave", "exited"}
      /\ queue' \in Seq(Event)
  BY DEF IndInv, Types
<1>2. Types'  BY <1>1 DEF Types
<1>3. (asrThread' = "sent" <=> asrThread = "sent") /\ (kwdThread' = "sent" <=> kwdThread = "sent")
  OBVIOUS
<1>4. Events(calls', queue', asrThread', kwdThread')  BY <1>3 DEF Events
<1> QED  BY <1>2, <1>4, Reassemble

\* A callback that leaves the threads and the agent alone.
LEMMA SameScalars ==
    ASSUME IndInv
    PROVE  /\ asr_is_running \in BOOLEAN /\ kwd_is_running \in BOOLEAN
           /\ is_handle \in BOOLEAN /\ timer \in BOOLEAN
           /\ prev_listening_state \in States \cup {"READY"}
BY DEF IndInv, Types

\* The listeners of the other resource are not concerned.
LEMMA OwnersTold ==
    ASSUME focused \in [Resource -> SUBSET Focus],
           NEW r \in {"MIC", "SPK"}, NEW f \in Users(r)
    PROVE  /\ Told(f, r) =>
                 /\ focused' \in [Resource -> SUBSET Focus]
                 /\ focused'["SPK"] = IF r = "SPK" THEN focused["SPK"] \cup {f}
                                                   ELSE focused["SPK"]
           /\ Lost(f, r) =>
                 /\ focused' \in [Resource -> SUBSET Focus]
                 /\ focused'["SPK"] = IF r = "SPK" THEN focused["SPK"] \ {f}
                                                   ELSE focused["SPK"]
<1>1. f \in Focus /\ r \in Resource /\ "SPK" \in Resource  BY PolicyFacts
<1>2. ASSUME Told(f, r)
      PROVE  /\ focused' \in [Resource -> SUBSET Focus]
             /\ focused'["SPK"] = IF r = "SPK" THEN focused["SPK"] \cup {f}
                                               ELSE focused["SPK"]
  BY <1>1, <1>2 DEF Told
<1>3. ASSUME Lost(f, r)
      PROVE  /\ focused' \in [Resource -> SUBSET Focus]
             /\ focused'["SPK"] = IF r = "SPK" THEN focused["SPK"] \ {f}
                                               ELSE focused["SPK"]
  BY <1>1, <1>3 DEF Lost
<1> QED  BY <1>2, <1>3

\* onFocus() has run: nothing but plain calls is pending.
LEMMA FocusReturns ==
    ASSUME IndInv, calls # <<>>, InFocus(calls, stack, focused["SPK"]),
           Told(calls[1][2], calls[1][3]), stack' = stack,
           NEW cs \in PlainCalls, calls' = Push(calls, cs)
    PROVE  /\ focused' \in [Resource -> SUBSET Focus]
           /\ calls' \in Seq(Call) /\ Lists(stack')
           /\ Nesting(calls', stack', focused'["SPK"])
           /\ Events(calls', queue, asrThread, kwdThread)
<1>0. PICK f, r, o : f = calls[1][2] /\ r = calls[1][3] /\ o = focused["SPK"]
  OBVIOUS
<1>1. /\ Lists(stack) /\ calls \in Seq(Call) /\ calls[1] \in Call
      /\ focused \in [Resource -> SUBSET Focus]
      /\ Events(calls, queue, asrThread, kwdThread)
  BY MainFacts
<1>2. /\ Below(calls, 1) /\ calls[1][1] = "focus"
      /\ IF r = "SPK" THEN o = {} /\ stack["SPK"] # <<>> /\ Head(stack["SPK"]) = f
                      ELSE Owned(stack, o)
  BY <1>0 DEF InFocus
<1>3. r \in {"MIC", "SPK"} /\ f \in Users(r)  BY <1>0, <1>1, <1>2, CallFacts
<1>4. /\ focused' \in [Resource -> SUBSET Focus]
      /\ focused'["SPK"] = IF r = "SPK" THEN o \cup {f} ELSE o
  BY <1>0, <1>1, <1>3, OwnersTold
<1>5. Owned(stack, focused'["SPK"])  BY <1>2, <1>4 DEF Owned
<1>6. /\ calls' \in Seq(Call) /\ Below(calls', 0)
      /\ Events(calls', queue, asrThread, kwdThread)
  BY <1>1, <1>2, ReturnPlain
<1>7. NoCallback(calls', stack', focused'["SPK"])  BY <1>5, <1>6 DEF NoCallback
<1> QED  BY <1>1, <1>4, <1>6, <1>7 DEF Nesting

\* onUnfocus() has returned to the request or the release that called it.
LEMMA UnfocusReturns ==
    ASSUME IndInv, calls # <<>>, calls[1][1] = "unfocus",
           Lost(calls[1][2], calls[1][3]), stack' = stack, calls' = Pop(calls)
    PROVE  /\ focused' \in [Resource -> SUBSET Focus]
           /\ calls' \in Seq(Call) /\ Lists(stack')
           /\ Nesting(calls', stack', focused'["SPK"])
           /\ Events(calls', queue, asrThread, kwdThread)
<1>0. PICK f, r, o, h : f = calls[1][2] /\ r = calls[1][3] /\ o = focused["SPK"] /\ h = calls[2]
  OBVIOUS
<1>1. /\ Lists(stack) /\ calls \in Seq(Call) /\ calls[1] \in Call
      /\ focused \in [Resource -> SUBSET Focus]
      /\ Nesting(calls, stack, o)
      /\ Events(calls, queue, asrThread, kwdThread)
  BY <1>0, MainFacts
<1>2. InUnfocus(calls, stack, o)  BY <1>1, TopCall
<1>3. /\ Below(calls, 2) /\ Waiting(h, stack) /\ f = Loser(h) /\ r = h[3]
      /\ IF r = "SPK" THEN o \subseteq {f} ELSE Owned(stack, o)
  BY <1>0, <1>2 DEF InUnfocus
<1>4. r \in {"MIC", "SPK"} /\ f \in Users(r)  BY <1>0, <1>1, CallFacts
<1>5. /\ focused' \in [Resource -> SUBSET Focus]
      /\ focused'["SPK"] = IF r = "SPK" THEN o \ {f} ELSE o
  BY <1>0, <1>1, <1>4, OwnersTold
<1>6. calls' \in Seq(Call) /\ Below(calls', 1) /\ calls'[1] = h
  BY <1>0, <1>1, <1>3, ReturnNone
<1>7. Events(calls', queue, asrThread, kwdThread)  BY <1>1, ReturnNone
<1>8. IF h[3] = "SPK" THEN focused'["SPK"] = {} ELSE Owned(stack, focused'["SPK"])
  BY <1>3, <1>5
<1>9. InHandOver(calls', stack', focused'["SPK"])
  BY <1>3, <1>6, <1>8 DEF InHandOver
<1> QED  BY <1>1, <1>5, <1>6, <1>7, <1>9 DEF Nesting

\* A handler that makes plain calls.
LEMMA HandlerReturns ==
    ASSUME IndInv, calls # <<>>, calls[1][1] \notin Nested \cup {"request", "reset_expect", "resume"},
           UNCHANGED focusVars, NEW cs \in PlainCalls, calls' = Push(calls, cs)
    PROVE  /\ focused' \in [Resource -> SUBSET Focus]
           /\ calls' \in Seq(Call) /\ Lists(stack')
           /\ Nesting(calls', stack', focused'["SPK"])
           /\ Events(calls', queue, asrThread, kwdThread)
<1>0. stack' = stack /\ focused' = focused  BY DEF focusVars
<1>1. /\ Lists(stack) /\ calls \in Seq(Call)
      /\ focused \in [Resource -> SUBSET Focus]
      /\ Nesting(calls, stack, focused["SPK"])
      /\ Events(calls, queue, asrThread, kwdThread)
  BY MainFacts
<1>2. NoCallback(calls, stack, focused["SPK"])  BY <1>1, TopCall
<1>3. Below(calls, 1)  BY <1>1, <1>2, TopCall
<1>4. /\ calls' \in Seq(Call) /\ Below(calls', 0)
      /\ Events(calls', queue, asrThread, kwdThread)
  BY <1>1, <1>3, ReturnPlain
<1>5. NoCallback(calls', stack', focused'["SPK"])
  BY <1>0, <1>2, <1>4 DEF NoCallback
<1> QED  BY <1>0, <1>1, <1>4, <1>5 DEF Nesting

\* What ASRFocusListener::onFocus() calls.
LEMMA AsrFocusCalls ==
    ASSUME AsrFocusMic \/ AsrFocusSpk
    PROVE  \E cs \in PlainCalls : calls' = Push(calls, cs)
<1>1. CASE AsrFocusMic
  <2>1. calls' = Push(calls, (IF is_handle THEN <<Release("expect", "SPK")>> ELSE <<>>)
                             \o <<Request("asr", "SPK")>>)
    BY <1>1 DEF AsrFocusMic, Return, Push
  <2>2. /\ <<Release("expect", "SPK")>> \in PlainCalls /\ <<>> \in PlainCalls
        /\ <<Request("asr", "SPK")>> \in PlainCalls
    BY PlainHandlers, PlainFacts
  <2>3. (IF is_handle THEN <<Release("expect", "SPK")>> ELSE <<>>) \in PlainCalls
    BY <2>2
  <2>4. \A a, b \in PlainCalls : a \o b \in PlainCalls  BY PlainFacts
  <2>5. (IF is_handle THEN <<Release("expect", "SPK")>> ELSE <<>>)
           \o <<Request("asr", "SPK")>> \in PlainCalls
    BY <2>2, <2>3, <2>4, Zenon
  <2> QED  BY <2>1, <2>5, Zenon
<1>2. CASE AsrFocusSpk
  BY <1>2, PlainFacts DEF AsrFocusSpk, Return, Push
<1> QED  BY <1>1, <1>2

\* ASRFocusListener::onFocus().
LEMMA AsrFocusInv ==
    ASSUME IndInv, AsrFocusMic \/ AsrFocusSpk
    PROVE  IndInv'
<1>1. calls # <<>> /\ calls[1][1] = "focus" /\ calls[1][2] = "asr"
  BY DEF AsrFocusMic, AsrFocusSpk, Running
<1>2. InFocus(calls, stack, focused["SPK"])
  <2>1. calls \in Seq(Call) /\ Nesting(calls, stack, focused["SPK"])  BY <1>1, MainFacts
  <2>2. calls[1] # <<"focus", "kwd", "MIC", "request">>  BY <1>1
  <2> QED  BY <1>1, <2>1, <2>2, TopCall
<1>3. Told(calls[1][2], calls[1][3]) /\ stack' = stack /\ queue' = queue
  BY DEF AsrFocusMic, AsrFocusSpk, Running
<1>4. PICK cs \in PlainCalls : calls' = Push(calls, cs)  BY AsrFocusCalls
<1>5. /\ focused' \in [Resource -> SUBSET Focus]
      /\ calls' \in Seq(Call) /\ Lists(stack')
      /\ Nesting(calls', stack', focused'["SPK"])
      /\ Events(calls', queue, asrThread, kwdThread)
  BY <1>1, <1>2, <1>3, <1>4, FocusReturns
<1>6. /\ asr_is_running' \in BOOLEAN /\ kwd_is_running' \in BOOLEAN
      /\ is_handle' \in BOOLEAN /\ timer' \in BOOLEAN
      /\ prev_listening_state' \in States \cup {"READY"}
  BY SameScalars
  DEF AsrFocusMic, AsrFocusSpk, StartListening, OnReady, asrVars, kwdVars
<1>7. /\ asrThread' = asrThread \/ (asrThread = "wait" /\ asrThread' = "woken")
      /\ kwdThread' = kwdThread
  BY DEF AsrFocusMic, AsrFocusSpk, StartListening, OnReady, asrVars, kwdVars
<1> QED  BY <1>3, <1>5, <1>6, <1>7, MainStep

\* WakeupHandler::onFocus(), for the application or within asr's hand-over.
LEMMA KwdFocusInv ==
    ASSUME IndInv, KwdFocus
    PROVE  IndInv'
<1>1. /\ calls # <<>> /\ calls[1][1] = "focus" /\ calls[1][2] = "kwd"
      /\ Told(calls[1][2], calls[1][3]) /\ stack' = stack /\ queue' = queue
      /\ calls' = Pop(calls)
  BY DEF KwdFocus, Running, Return, Pop
<1>2. /\ Lists(stack) /\ calls \in Seq(Call) /\ calls[1] \in Call
      /\ focused \in [Resource -> SUBSET Focus]
      /\ Nesting(calls, stack, focused["SPK"])
      /\ Events(calls, queue, asrThread, kwdThread)
  BY <1>1, MainFacts
<1>3. /\ focused' \in [Resource -> SUBSET Focus]
      /\ calls' \in Seq(Call) /\ Lists(stack')
      /\ Nesting(calls', stack', focused'["SPK"])
      /\ Events(calls', queue, asrThread, kwdThread)
  <2>1. CASE InFocus(calls, stack, focused["SPK"])
    <3>1. <<>> \in PlainCalls /\ calls' = Push(calls, <<>>)
      BY <1>1, PlainFacts DEF Pop, Push
    <3> QED  BY <1>1, <2>1, <3>1, FocusReturns
  <2>2. CASE InIdle(calls, stack, focused["SPK"])
    <3>0. PICK o : o = focused["SPK"]  OBVIOUS
    <3>1. /\ Below(calls, 3) /\ calls[2] = <<"reset_expect">>
          /\ AsrLoses(calls[3], stack, o)
      BY <2>2, <3>0 DEF InIdle
    <3>2. calls[1][3] \in {"MIC", "SPK"} /\ calls[1][2] \in Users(calls[1][3])
      BY <1>1, <1>2, CallFacts
    <3>3. calls[1][3] = "MIC"  BY <1>1, <3>2 DEF Users
    <3>4. focused' \in [Resource -> SUBSET Focus] /\ focused'["SPK"] = o
      BY <1>1, <1>2, <3>0, <3>2, <3>3, OwnersTold
    <3>5. /\ calls' \in Seq(Call) /\ Below(calls', 2)
          /\ calls'[1] = calls[2] /\ calls'[2] = calls[3]
      BY <1>1, <1>2, <3>1, ReturnNone
    <3>6. Events(calls', queue, asrThread, kwdThread)  BY <1>1, <1>2, ReturnNone
    <3>7. InReset(calls', stack', o)  BY <1>1, <3>1, <3>5 DEF InReset
    <3> QED  BY <1>1, <1>2, <3>4, <3>5, <3>6, <3>7 DEF Nesting
  <2> QED  BY <1>1, <1>2, <2>1, <2>2, TopCall
<1>4. /\ asr_is_running' \in BOOLEAN /\ kwd_is_running' \in BOOLEAN
      /\ is_handle' \in BOOLEAN /\ timer' \in BOOLEAN
      /\ prev_listening_state' \in States \cup {"READY"}
  BY SameScalars DEF KwdFocus, asrVars, agentVars
<1>5. /\ asrThread' = asrThread
      /\ kwdThread' = kwdThread \/ (kwdThread = "wait" /\ kwdThread' = "woken")
  BY DEF KwdFocus, asrVars
<1> QED  BY <1>1, <1>3, <1>4, <1>5, MainStep

\* ExpectFocusListener::onFocus() and TTSAgent::onFocus().
LEMMA ExpectTtsFocusInv ==
    ASSUME IndInv, ExpectFocus \/ TtsFocus
    PROVE  IndInv'
<1>1. /\ calls # <<>> /\ calls[1][1] = "focus" /\ calls[1][2] \in {"expect", "cap_tts"}
      /\ Told(calls[1][2], calls[1][3]) /\ stack' = stack
      /\ UNCHANGED <<queue, asrVars, kwdVars, agentVars>>
  BY DEF ExpectFocus, TtsFocus, Running
<1>2. InFocus(calls, stack, focused["SPK"])
  <2>1. calls \in Seq(Call) /\ Nesting(calls, stack, focused["SPK"])  BY <1>1, MainFacts
  <2>2. calls[1] # <<"focus", "kwd", "MIC", "request">>  BY <1>1
  <2> QED  BY <1>1, <2>1, <2>2, TopCall
<1>3. PICK cs \in PlainCalls : calls' = Push(calls, cs)
  BY PlainFacts, PlainHandlers DEF ExpectFocus, TtsFocus, Return, Push
<1>4. /\ focused' \in [Resource -> SUBSET Focus]
      /\ calls' \in Seq(Call) /\ Lists(stack')
      /\ Nesting(calls', stack', focused'["SPK"])
      /\ Events(calls', queue, asrThread, kwdThread)
  BY <1>1, <1>2, <1>3, FocusReturns
<1> QED  BY <1>1, <1>4, FocusStep

\* AudioPlayerAgent::onFocus(); when it fails nobody owns the speaker.
LEMMA AudioFocusInv ==
    ASSUME IndInv, AudioFocus
    PROVE  IndInv'
<1>0. PICK r, o : r = calls[1][3] /\ o = focused["SPK"]  OBVIOUS
<1>1. /\ calls # <<>> /\ calls[1][1] = "focus" /\ calls[1][2] = "cap_audio"
      /\ UNCHANGED <<queue, asrVars, kwdVars, agentVars>>
      /\ calls' = Pop(calls) /\ calls' = Push(calls, <<>>)
  BY DEF AudioFocus, Running, Return, Pop, Push
<1>2. /\ Lists(stack) /\ calls \in Seq(Call) /\ calls[1] \in Call
      /\ focused \in [Resource -> SUBSET Focus]
      /\ Nesting(calls, stack, o)
      /\ Events(calls, queue, asrThread, kwdThread)
  BY <1>0, <1>1, MainFacts
<1>3. InFocus(calls, stack, o)
  <2>1. calls[1] # <<"focus", "kwd", "MIC", "request">>  BY <1>1
  <2> QED  BY <1>1, <1>2, <2>1, TopCall
<1>4. r = "SPK"
  <2>1. r \in {"MIC", "SPK"} /\ "cap_audio" \in Users(r)
    BY <1>0, <1>1, <1>2, CallFacts
  <2> QED  BY <2>1 DEF Users
<1>5. /\ Below(calls, 1) /\ o = {}
      /\ stack["SPK"] # <<>> /\ Head(stack["SPK"]) = "cap_audio"
  BY <1>0, <1>1, <1>3, <1>4 DEF InFocus
<1>6. \/ Told(calls[1][2], calls[1][3]) /\ stack' = stack
      \/ /\ focused' = focused
         /\ stack' = stack \/ stack' = Updated(stack, "SPK", RemoveItems(stack["SPK"], "cap_audio"))
  BY <1>0, <1>1, <1>4 DEF AudioFocus, Updated
<1>7. CASE Told(calls[1][2], calls[1][3]) /\ stack' = stack
  <2>1. /\ focused' \in [Resource -> SUBSET Focus]
        /\ calls' \in Seq(Call) /\ Lists(stack')
        /\ Nesting(calls', stack', focused'["SPK"])
        /\ Events(calls', queue, asrThread, kwdThread)
    BY <1>0, <1>1, <1>3, <1>7, FocusReturns, PlainFacts
  <2> QED  BY <1>1, <2>1, FocusStep
<1>8. CASE /\ focused' = focused
           /\ stack' = stack \/ stack' = Updated(stack, "SPK", RemoveItems(stack["SPK"], "cap_audio"))
  <2>1. calls' \in Seq(Call) /\ Below(calls', 0)  BY <1>1, <1>2, <1>5, ReturnNone
  <2>2. Events(calls', queue, asrThread, kwdThread)  BY <1>1, <1>2, ReturnNone
  <2>3. NoCallback(calls', stack', o)  BY <1>5, <2>1 DEF NoCallback, Owned
  <2>4. Lists(stack')
    <3>0. PICK l, t : l = stack["SPK"] /\ t = RemoveItems(l, "cap_audio")  OBVIOUS
    <3>1. "SPK" \in {"MIC", "SPK"} /\ "SPK" \in Resource /\ Lists(stack)
      BY <1>2, PolicyFacts
    <3>2. l \in Seq(Users("SPK")) /\ Distinct(l) /\ ~On("asr", l)
      BY <1>5, <3>0, <3>1 DEF Lists, List
    <3>3. /\ t \in Seq(Users("SPK")) /\ Distinct(t)
          /\ \A g : On(g, t) <=> On(g, l) /\ g # "cap_audio"
      BY <3>0, <3>2, ListRemoved
    <3>4. List(t, "SPK") /\ AsrFirst(t, "SPK")  BY <3>2, <3>3 DEF List, AsrFirst
    <3>5. Lists(Updated(stack, "SPK", t))  BY <3>1, <3>4, ListsUpdated
    <3> QED  BY <1>8, <3>0, <3>1, <3>5
  <2>5. focused' \in [Resource -> SUBSET Focus] /\ focused'["SPK"] = o
    BY <1>0, <1>2, <1>8
  <2> QED  BY <1>1, <2>1, <2>2, <2>3, <2>4, <2>5, FocusStep DEF Nesting
<1> QED  BY <1>6, <1>7, <1>8

\* The unfocus callbacks that make no call.
LEMMA UnfocusInv ==
    ASSUME IndInv, AsrUnfocusMic \/ KwdUnfocus \/ SpeakerUnfocus
    PROVE  IndInv'
<1>1. /\ calls # <<>> /\ calls[1][1] = "unfocus"
      /\ Lost(calls[1][2], calls[1][3]) /\ stack' = stack /\ queue' = queue
      /\ calls' = Pop(calls)
  BY DEF AsrUnfocusMic, KwdUnfocus, SpeakerUnfocus, Running, Return, Pop
<1>2. /\ focused' \in [Resource -> SUBSET Focus]
      /\ calls' \in Seq(Call) /\ Lists(stack')
      /\ Nesting(calls', stack', focused'["SPK"])
      /\ Events(calls', queue, asrThread, kwdThread)
  BY <1>1, UnfocusReturns
<1>3. /\ asr_is_running' \in BOOLEAN /\ kwd_is_running' \in BOOLEAN
      /\ is_handle' \in BOOLEAN /\ timer' \in BOOLEAN
      /\ prev_listening_state' \in States \cup {"READY"}
  BY SameScalars
  DEF AsrUnfocusMic, KwdUnfocus, SpeakerUnfocus, asrVars, kwdVars, agentVars
<1>4. asrThread' = asrThread /\ kwdThread' = kwdThread
  BY DEF AsrUnfocusMic, KwdUnfocus, SpeakerUnfocus, asrVars, kwdVars
<1> QED  BY <1>1, <1>2, <1>3, <1>4, MainStep

\* What ASRFocusListener::onUnfocus(SPK) calls: the application, which starts
\* the wakeup detector, and resetExpectSpeechState().
LEMMA AsrUnfocusCalls ==
    ASSUME AsrUnfocusSpk
    PROVE  calls' = PushTwo(calls, Request("kwd", "MIC"), <<"reset_expect">>)
<1>0. PICK x, y : x = Request("kwd", "MIC") /\ y = <<"reset_expect">>  OBVIOUS
<1>1. OnIdle = <<x>> /\ << <<"reset_expect">> >> = <<y>>
  BY <1>0 DEF OnIdle, StartWakeup
<1>2. <<x>> \o <<y>> = <<x, y>>  BY PairConcat
<1>3. OnIdle \o << <<"reset_expect">> >> = <<x, y>>  BY <1>1, <1>2
<1> QED  BY <1>0, <1>3 DEF AsrUnfocusSpk, Return, PushTwo

\* ASRFocusListener::onUnfocus(SPK): the one callback that makes a request
\* while another request or release waits for it.
LEMMA AsrUnfocusSpkInv ==
    ASSUME IndInv, AsrUnfocusSpk
    PROVE  IndInv'
<1>0. PICK o, h, x, y : /\ o = focused["SPK"] /\ h = calls[2]
                        /\ x = Request("kwd", "MIC") /\ y = <<"reset_expect">>
  OBVIOUS
<1>1. /\ calls # <<>> /\ calls[1][1] = "unfocus"
      /\ calls[1][2] = "asr" /\ calls[1][3] = "SPK"
      /\ Lost("asr", "SPK") /\ stack' = stack
      /\ UNCHANGED <<queue, asrVars, kwdVars, agentVars>>
  BY DEF AsrUnfocusSpk, Running
<1>2. calls' = PushTwo(calls, x, y)  BY <1>0, AsrUnfocusCalls
<1>3. /\ Lists(stack) /\ calls \in Seq(Call) /\ calls[1] \in Call
      /\ focused \in [Resource -> SUBSET Focus]
      /\ Nesting(calls, stack, o)
      /\ Events(calls, queue, asrThread, kwdThread)
  BY <1>0, <1>1, MainFacts
<1>4. InUnfocus(calls, stack, o)  BY <1>1, <1>3, TopCall
<1>5. /\ Below(calls, 2) /\ Waiting(h, stack) /\ Loser(h) = "asr" /\ h[3] = "SPK"
      /\ o \subseteq {"asr"}
  BY <1>0, <1>1, <1>4 DEF InUnfocus
<1>6. focused' \in [Resource -> SUBSET Focus] /\ focused'["SPK"] = {}
  <2>1. "asr" \in Users("SPK")  BY VoiceAssumption DEF Users
  <2> QED  BY <1>0, <1>1, <1>3, <1>5, <2>1, OwnersTold
<1>7. /\ x \in Call /\ y \in Call /\ x[1] = "request" /\ y[1] = "reset_expect"
  <2>1. "kwd" \in Users("MIC")  BY DEF Users
  <2> QED  BY <1>0, <2>1, CallsMade DEF Request
<1>8. /\ calls' \in Seq(Call) /\ Below(calls', 3)
      /\ calls'[1] = x /\ calls'[2] = y /\ calls'[3] = h
  <2>1. calls \in Seq(Call) /\ calls # <<>> /\ Below(calls, 2)  BY <1>1, <1>3, <1>5
  <2>2. x \in Call /\ y \in Call  BY <1>7
  <2>3. calls' \in Seq(Call) /\ calls'[1] = x /\ calls'[2] = y
    BY <1>2, <2>1, <2>2, ReturnTwo
  <2>4. PICK c : c = calls  OBVIOUS
  <2>5. c \in Seq(Call) /\ c # <<>> /\ Below(c, 2)  BY <2>1, <2>4
  <2>6. Below(PushTwo(c, x, y), 3)  BY <2>2, <2>5, ReturnTwo
  <2>7. PushTwo(c, x, y)[3] = c[2]  BY <2>2, <2>5, ReturnTwo
  <2> QED  BY <1>0, <1>2, <2>3, <2>4, <2>6, <2>7
<1>9. Events(calls', queue, asrThread, kwdThread)
  BY <1>1, <1>2, <1>3, <1>7, ReturnTwo
<1>10. AsrLoses(h, stack', {})  BY <1>1, <1>5 DEF AsrLoses
<1>11. InIdle(calls', stack', {})  BY <1>0, <1>8, <1>10 DEF InIdle
<1> QED  BY <1>1, <1>3, <1>6, <1>8, <1>9, <1>11, FocusStep DEF Nesting

\* ASRAgent::resetExpectSpeechState(), called by a handler or by asr's
\* onUnfocus(SPK).
LEMMA ResetExpectInv ==
    ASSUME IndInv, ResetExpectStep
    PROVE  IndInv'
<1>0. PICK o : o = focused["SPK"]  OBVIOUS
<1>1. /\ calls # <<>> /\ calls[1][1] = "reset_expect" /\ calls' = Pop(calls)
      /\ stack' = stack /\ focused' = focused /\ queue' = queue
  BY DEF ResetExpectStep, Running, Return, Pop, focusVars
<1>2. /\ Lists(stack) /\ calls \in Seq(Call)
      /\ focused \in [Resource -> SUBSET Focus]
      /\ Nesting(calls, stack, o)
      /\ Events(calls, queue, asrThread, kwdThread)
  BY <1>0, <1>1, MainFacts
<1>3. calls' \in Seq(Call) /\ Events(calls', queue, asrThread, kwdThread)
  BY <1>1, <1>2, ReturnNone
<1>4. ASSUME NoCallback(calls, stack, o) PROVE NoCallback(calls', stack', o)
  <2>1. Below(calls, 1)  BY <1>1, <1>2, <1>4, TopCall
  <2>2. Below(calls', 0)  BY <1>1, <1>2, <2>1, ReturnNone
  <2> QED  BY <1>1, <1>4, <2>2 DEF NoCallback
<1>5. ASSUME InReset(calls, stack, o) PROVE InHandOver(calls', stack', o)
  <2>1. Below(calls, 2) /\ AsrLoses(calls[2], stack, o)  BY <1>5 DEF InReset
  <2>2. Below(calls', 1) /\ calls'[1] = calls[2]  BY <1>1, <1>2, <2>1, ReturnNone
  <2> QED  BY <1>1, <2>1, <2>2 DEF InHandOver, AsrLoses
<1>6. Nesting(calls', stack', focused'["SPK"])
  <2>1. NoCallback(calls, stack, o) \/ InReset(calls, stack, o)  BY <1>1, <1>2, TopCall
  <2> QED  BY <1>0, <1>1, <1>4, <1>5, <2>1 DEF Nesting
<1>7. /\ asr_is_running' \in BOOLEAN /\ kwd_is_running' \in BOOLEAN
      /\ is_handle' \in BOOLEAN /\ timer' \in BOOLEAN
      /\ prev_listening_state' \in States \cup {"READY"}
      /\ asrThread' = asrThread /\ kwdThread' = kwdThread
  BY SameScalars DEF ResetExpectStep, asrVars, kwdVars
<1> QED  BY <1>1, <1>2, <1>3, <1>6, <1>7, MainStep

\* What the handlers of the threads' events call.
LEMMA HandlerCalls ==
    ASSUME IndInv, OnListeningState \/ OnWakeupState \/ AgentStep \/ UserStopped
    PROVE  /\ calls # <<>>
           /\ calls[1][1] \in {"handle", "prev_state", "start_timer", "user_stopped"}
           /\ UNCHANGED focusVars /\ queue' = queue
           /\ \E cs \in TameCalls : calls' = Push(calls, cs)
<1>1. /\ calls # <<>>
      /\ calls[1][1] \in {"handle", "prev_state", "start_timer", "user_stopped"}
      /\ UNCHANGED focusVars /\ queue' = queue
  BY DEF OnListeningState, OnWakeupState, AgentStep, UserStopped, Running
<1>2. calls[1] \in Call  BY <1>1, MainFacts
<1>3. \E cs \in TameCalls : calls' = Push(calls, cs)
  <2>1. \A a, b \in TameCalls : a \o b \in TameCalls  BY TameFacts
  <2>2. CASE OnListeningState
    <3>0. PICK st : st = calls[1][3]  OBVIOUS
    <3>1. st \in AsrStates
      BY <1>2, <2>2, <3>0, CallFacts DEF OnListeningState, Running
    <3>2. << <<"prev_state", st>> >> \in TameCalls  BY <3>1, TameHandlers
    <3>3. ListeningCalls(st) \in TameCalls
      <4>1. /\ StopRecognition \in TameCalls /\ ReleaseASRSpeakFocus \in TameCalls
            /\ << <<"start_timer">> >> \in TameCalls /\ <<>> \in TameCalls
        BY TameHandlers, TameFacts
      <4>2. /\ StopRecognition \o << <<"start_timer">> >> \in TameCalls
            /\ StopRecognition \o ReleaseASRSpeakFocus \in TameCalls
        BY <2>1, <4>1, Zenon
      <4> HIDE DEF StopRecognition, ReleaseASRSpeakFocus
      <4> QED  BY <4>1, <4>2 DEF ListeningCalls
    <3>4. ListeningCalls(st) \o << <<"prev_state", st>> >> \in TameCalls
      BY <2>1, <3>2, <3>3, Zenon
    <3>5. calls' = Push(calls, ListeningCalls(st) \o << <<"prev_state", st>> >>)
      BY <2>2, <3>0 DEF OnListeningState, Return, Push
    <3> QED  BY <3>4, <3>5, Zenon
  <2>3. CASE OnWakeupState
    <3>0. PICK w, x, y : w = ReceiveWakeupDetected /\ x = Release("kwd", "MIC")
                         /\ y = Request("asr", "MIC")
      OBVIOUS
    <3>1. w \in TameCalls /\ <<x, y>> \in TameCalls /\ <<>> \in TameCalls
      BY <3>0, TameHandlers, TameFacts
    <3>2. (w \o <<x>>) \o <<y>> = w \o <<x, y>>
      <4>1. "kwd" \in Users("MIC") /\ "asr" \in Users("MIC")  BY DEF Users
      <4>2. x \in Call /\ y \in Call  BY <3>0, <4>1, CallsMade DEF Request, Release
      <4>3. w \in Seq(Call)  BY <3>1 DEF TameCalls, PlainCalls
      <4>4. <<x>> \in Seq(Call) /\ <<y>> \in Seq(Call)  BY <4>2
      <4>5. (w \o <<x>>) \o <<y>> = w \o (<<x>> \o <<y>>)
        BY <4>3, <4>4, ConcatAssociative
      <4> QED  BY <4>5, PairConcat
    <3>3. \/ calls' = Push(calls, (w \o <<x>>) \o <<y>>)
          \/ calls' = Push(calls, <<>>)
      BY <2>3, <3>0 DEF OnWakeupState, Return, Push, OnDetected, StartRecognition
    <3>4. w \o <<x, y>> \in TameCalls  BY <2>1, <3>1, Zenon
    <3> QED  BY <3>1, <3>2, <3>3, <3>4, Zenon
  <2>4. CASE AgentStep \/ UserStopped
    <3>1. calls' = Push(calls, <<>>)  BY <2>4 DEF AgentStep, UserStopped, Return, Push
    <3> QED  BY <3>1, TameFacts
  <2> QED  BY <2>2, <2>3, <2>4
<1> QED  BY <1>1, <1>3

\* The handlers of the threads' events, the tail of onListeningState(), and the
\* return of stopRecognition() to the application.
LEMMA HandlerInv ==
    ASSUME IndInv, OnListeningState \/ OnWakeupState \/ AgentStep \/ UserStopped
    PROVE  IndInv'
<1>1. /\ calls # <<>>
      /\ calls[1][1] \in {"handle", "prev_state", "start_timer", "user_stopped"}
      /\ UNCHANGED focusVars /\ queue' = queue
  BY DEF OnListeningState, OnWakeupState, AgentStep, UserStopped, Running
<1>2. calls[1] \in Call  BY <1>1, MainFacts
<1>3. PICK cs \in PlainCalls : calls' = Push(calls, cs)  BY HandlerCalls, TameFacts
<1>4. calls[1][1] \notin Nested \cup {"request", "reset_expect", "resume"}
  BY <1>1 DEF Nested
<1>5. /\ focused' \in [Resource -> SUBSET Focus]
      /\ calls' \in Seq(Call) /\ Lists(stack')
      /\ Nesting(calls', stack', focused'["SPK"])
      /\ Events(calls', queue, asrThread, kwdThread)
  BY <1>1, <1>3, <1>4, HandlerReturns
<1>6. prev_listening_state' \in States \cup {"READY"}
  <2>1. CASE AgentStep
    <3>1. calls[1][1] = "prev_state" => calls[1][2] \in States
      BY <1>2, CallFacts DEF AsrStates, States, ResumeAt
    <3> QED  BY <2>1, <3>1, SameScalars DEF AgentStep, Running
  <2>2. CASE OnListeningState \/ OnWakeupState \/ UserStopped
    BY <2>2, SameScalars DEF OnListeningState, OnWakeupState, UserStopped, agentVars
  <2> QED  BY <2>1, <2>2
<1>7. /\ asr_is_running' \in BOOLEAN /\ kwd_is_running' \in BOOLEAN
      /\ is_handle' \in BOOLEAN /\ timer' \in BOOLEAN
      /\ asrThread' = asrThread /\ kwdThread' = kwdThread
  BY SameScalars
  DEF OnListeningState, OnWakeupState, AgentStep, UserStopped, asrVars, kwdVars, agentVars
<1> QED  BY <1>1, <1>5, <1>6, <1>7, MainStep

----------------------------------------------------------------------------
(***************************************************************************)
(* The events.                                                             *)
(***************************************************************************)

\* Whose event it is.
LEMMA EventFacts ==
    ASSUME NEW x \in Event
    PROVE  \/ x[1] = "asr" /\ x[2] \in AsrStates
           \/ x[1] = "kwd" /\ x[2] \in KwdStates
BY DEF Event

\* The event that a thread posts is its only one.
LEMMA EventPosted ==
    ASSUME NEW c, NEW q \in Seq(Event), NEW x \in Event, NEW asr, NEW kwd,
           Events(c, q, asr, kwd)
    PROVE  /\ Append(q, x) \in Seq(Event)
           /\ x[1] = "asr" /\ asr # "sent" => Events(c, Append(q, x), "sent", kwd)
           /\ x[1] = "kwd" /\ kwd # "sent" => Events(c, Append(q, x), asr, "sent")
<1> DEFINE p == Append(q, x)
<1>1. /\ p \in Seq(Event) /\ Len(p) = Len(q) + 1 /\ Len(q) \in Nat
      /\ p[Len(q) + 1] = x /\ \A i \in 1..Len(q) : p[i] = q[i]
  BY AppendProperties, LenProperties
<1> HIDE DEF p
<1>2. ASSUME NEW i \in 1..Len(p) PROVE i = Len(q) + 1 \/ (i \in 1..Len(q) /\ p[i] = q[i])
  BY <1>1
<1>3. Len(q) + 1 \in 1..Len(p) /\ \A i \in 1..Len(q) : i \in 1..Len(p)
  BY <1>1
<1>4. ASSUME NEW t PROVE QueuedFor(p, t) <=> QueuedFor(q, t) \/ t = x[1]
  BY <1>1, <1>2, <1>3 DEF QueuedFor
<1>5. ASSUME ~QueuedFor(q, x[1])
      PROVE  \A i, j \in 1..Len(p) : p[i][1] = p[j][1] => i = j
  <2> SUFFICES ASSUME NEW i \in 1..Len(p), NEW j \in 1..Len(p), p[i][1] = p[j][1]
               PROVE  i = j
    OBVIOUS
  <2>1. \A k \in 1..Len(q) : q[k][1] # x[1]  BY <1>5 DEF QueuedFor
  <2>2. CASE i = Len(q) + 1 /\ j = Len(q) + 1  BY <2>2
  <2>3. CASE i = Len(q) + 1 /\ j \in 1..Len(q)  BY <1>1, <2>1, <2>3
  <2>4. CASE j = Len(q) + 1 /\ i \in 1..Len(q)  BY <1>1, <2>1, <2>4
  <2>5. CASE i \in 1..Len(q) /\ j \in 1..Len(q)  BY <1>1, <2>5 DEF Events
  <2> QED  BY <1>2, <2>2, <2>3, <2>4, <2>5
<1>6. x[1] = "asr" /\ asr # "sent" => Events(c, p, "sent", kwd)
  BY <1>4, <1>5 DEF Events
<1>7. x[1] = "kwd" /\ kwd # "sent" => Events(c, p, asr, "sent")
  BY <1>4, <1>5 DEF Events
<1> QED  BY <1>1, <1>6, <1>7 DEF p

Handling(x) == << <<"handle", x[1], x[2]>>, <<"resume", x[1], x[2]>> >>

\* The main loop takes the next event.
LEMMA EventTaken ==
    ASSUME NEW q \in Seq(Event), q # <<>>, NEW x, x = Head(q), NEW asr, NEW kwd,
           Events(<<>>, q, asr, kwd), NEW d, d = Handling(x)
    PROVE  /\ Tail(q) \in Seq(Event)
           /\ d \in Seq(Call) /\ Below(d, 0)
           /\ Events(d, Tail(q), asr, kwd)
<1> DEFINE p == Tail(q)
<1>1. /\ p \in Seq(Event) /\ Len(p) = Len(q) - 1 /\ Len(q) \in Nat \ {0}
      /\ \A i \in 1..Len(p) : p[i] = q[i + 1]
      /\ x = q[1] /\ x \in Event
  BY HeadTailProperties, LenProperties, EmptySeq
<1> HIDE DEF p
<1>2. \/ x[1] = "asr" /\ x[2] \in AsrStates
      \/ x[1] = "kwd" /\ x[2] \in KwdStates
  BY <1>1, EventFacts
<1>3. PICK a, b : a = <<"handle", x[1], x[2]>> /\ b = <<"resume", x[1], x[2]>>
  OBVIOUS
<1>4. a \in Call /\ b \in Call  BY <1>2, <1>3, CallsMade
<1>5. a[1] = "handle" /\ b[1] = "resume" /\ b[2] = x[1]  BY <1>3
<1>6. d \in Seq(Call) /\ Len(d) = 2 /\ d[1] = a /\ d[2] = b
  <2>1. d = <<a, b>>  BY <1>3 DEF Handling
  <2>2. <<a, b>> \in Seq(Call) /\ Len(<<a, b>>) = 2 /\ <<a, b>>[1] = a /\ <<a, b>>[2] = b
    BY <1>4
  <2> QED  BY <2>1, <2>2, Zenon
<1>7. \A i \in 1..Len(d) : i = 1 \/ i = 2
  <2>1. Len(d) = 2  BY <1>6
  <2>2. \A i \in 1..2 : i = 1 \/ i = 2  OBVIOUS
  <2> QED  BY <2>1, <2>2, Zenon
<1>8. Below(d, 0)
  <2>1. ASSUME NEW i \in (0 + 1)..Len(d) PROVE d[i][1] \notin Nested
    BY <1>5, <1>6, <1>7, <2>1 DEF Nested
  <2> QED  BY <1>6, <2>1 DEF Below
<1>9. \A t : ~HandledFor(<<>>, t)  BY DEF HandledFor
<1>10. \A t : HandledFor(d, t) <=> t = x[1]
  <2>1. 1 \in 1..Len(d) /\ 2 \in 1..Len(d)  BY <1>6
  <2> QED  BY <1>5, <1>6, <1>7, <2>1 DEF HandledFor
<1>11. \A i \in 1..Len(q) : i = 1 \/ (i - 1 \in 1..Len(p) /\ p[i - 1] = q[i])
  <2> SUFFICES ASSUME NEW i \in 1..Len(q), i # 1
               PROVE  i - 1 \in 1..Len(p) /\ p[i - 1] = q[i]
    OBVIOUS
  <2>1. i - 1 \in 1..Len(p) /\ (i - 1) + 1 = i  BY <1>1
  <2> QED  BY <1>1, <2>1
<1>12. \A i \in 1..Len(p) : i + 1 \in 1..Len(q) /\ i + 1 # 1 /\ p[i] = q[i + 1]
  BY <1>1
<1>13. \A i, j \in 1..Len(q) : q[i][1] = q[j][1] => i = j  BY DEF Events
<1>14. \A i, j \in 1..Len(p) : p[i][1] = p[j][1] => i = j
  <2> SUFFICES ASSUME NEW i \in 1..Len(p), NEW j \in 1..Len(p), p[i][1] = p[j][1]
               PROVE  i = j
    OBVIOUS
  <2>1. i + 1 \in 1..Len(q) /\ j + 1 \in 1..Len(q) /\ q[i + 1][1] = q[j + 1][1]
    BY <1>12
  <2>2. i + 1 = j + 1  BY <1>13, <2>1
  <2> QED  BY <2>2
<1>15. 1 \in 1..Len(q)  BY <1>1
<1>16. ~QueuedFor(p, x[1])
  <2>1. ASSUME NEW i \in 1..Len(p), p[i][1] = x[1] PROVE FALSE
    <3>1. i + 1 \in 1..Len(q) /\ i + 1 # 1 /\ q[i + 1][1] = q[1][1]  BY <1>1, <1>12, <2>1
    <3> QED  BY <1>13, <1>15, <3>1
  <2> QED  BY <2>1 DEF QueuedFor
<1>17. ASSUME NEW t PROVE QueuedFor(q, t) <=> QueuedFor(p, t) \/ t = x[1]
  <2>1. ASSUME QueuedFor(q, t) PROVE QueuedFor(p, t) \/ t = x[1]
    <3>1. PICK i \in 1..Len(q) : q[i][1] = t  BY <2>1 DEF QueuedFor
    <3> QED  BY <1>1, <1>11, <3>1 DEF QueuedFor
  <2>2. ASSUME QueuedFor(p, t) PROVE QueuedFor(q, t)
    <3>1. PICK i \in 1..Len(p) : p[i][1] = t  BY <2>2 DEF QueuedFor
    <3>2. i + 1 \in 1..Len(q) /\ q[i + 1][1] = t  BY <1>12, <3>1
    <3> QED  BY <3>2 DEF QueuedFor
  <2>3. QueuedFor(q, x[1])  BY <1>1, <1>15 DEF QueuedFor
  <2> QED  BY <2>1, <2>2, <2>3
<1>18. \A i \in 1..Len(d) : d[i][1] = "resume" => i = Len(d)  BY <1>5, <1>6, <1>7
<1>19. Events(d, p, asr, kwd)
  BY <1>9, <1>10, <1>14, <1>16, <1>17, <1>18 DEF Events
<1> QED  BY <1>1, <1>6, <1>8, <1>19 DEF p

\* invoke_sync_event(), the handler.
LEMMA DispatchInv ==
    ASSUME IndInv, Dispatch
    PROVE  IndInv'
<1>0. PICK x, d : x = Head(queue) /\ d = Handling(x)  OBVIOUS
<1>1. /\ calls = <<>> /\ queue # <<>> /\ queue' = Tail(queue) /\ calls' = d
      /\ UNCHANGED <<focusVars, asrVars, kwdVars, agentVars>>
  BY <1>0 DEF Dispatch, Handling
<1>2. queue \in Seq(Event) /\ Events(<<>>, queue, asrThread, kwdThread)
  BY <1>1 DEF IndInv, Types
<1>3. /\ queue' \in Seq(Event) /\ calls' \in Seq(Call) /\ Below(calls', 0)
      /\ Events(calls', queue', asrThread, kwdThread)
  BY <1>0, <1>1, <1>2, EventTaken
<1>4. Owned(stack, focused["SPK"])
  <2>1. calls = <<>>  BY <1>1
  <2>2. ~Below(<<>>, 1) /\ ~Below(<<>>, 2) /\ ~Below(<<>>, 3)  BY DEF Below
  <2> QED
    BY <2>1, <2>2
    DEF IndInv, Nesting, NoCallback, InFocus, InHandOver, InUnfocus, InReset, InIdle
<1>5. Types'  BY <1>1, <1>3 DEF IndInv, Types, focusVars, asrVars, kwdVars, agentVars
<1>6. stack' = stack /\ focused' = focused /\ asrThread' = asrThread /\ kwdThread' = kwdThread
  BY <1>1 DEF focusVars, asrVars, kwdVars
<1>7. Lists(stack')  BY <1>6 DEF IndInv
<1>8. NoCallback(calls', stack', focused'["SPK"])
  BY <1>3, <1>4, <1>6 DEF NoCallback
<1> QED  BY <1>3, <1>5, <1>6, <1>7, <1>8, Reassemble DEF Nesting

\* invoke_sync_event(), last: the thread goes on, and has no event left.
LEMMA ResumeInv ==
    ASSUME IndInv, ResumeStep
    PROVE  IndInv'
<1>0. PICK x : x = calls[1]  OBVIOUS
<1>1. /\ calls # <<>> /\ x[1] = "resume" /\ calls' = Pop(calls)
      /\ UNCHANGED <<focusVars, queue, agentVars>>
  BY <1>0 DEF ResumeStep, Running, Return, Pop
<1>2. /\ Lists(stack) /\ calls \in Seq(Call) /\ x \in Call
      /\ focused \in [Resource -> SUBSET Focus]
      /\ Nesting(calls, stack, focused["SPK"])
      /\ Events(calls, queue, asrThread, kwdThread)
  BY <1>0, <1>1, MainFacts
<1>3. Len(calls) = 1 /\ 1 \in 1..Len(calls)
  <2>1. Len(calls) \in Nat \ {0}  BY <1>1, <1>2, LenProperties, EmptySeq
  <2>2. 1 \in 1..Len(calls)  BY <2>1
  <2>3. 1 = Len(calls)  BY <1>0, <1>1, <1>2, <2>2 DEF Events
  <2> QED  BY <2>2, <2>3
<1>4. NoCallback(calls, stack, focused["SPK"])
  <2>1. calls[1][1] \notin Nested \cup {"request", "reset_expect"}  BY <1>0, <1>1 DEF Nested
  <2> QED  BY <1>1, <1>2, <2>1, TopCall
<1>5. Below(calls, 1)  BY <1>1, <1>2, <1>4, TopCall
<1>6. calls' \in Seq(Call) /\ Below(calls', 0)  BY <1>1, <1>2, <1>5, ReturnNone
<1>7. Len(calls') = 0
  <2>1. Tail(calls) \in Seq(Call) /\ Len(Tail(calls)) = 0
    BY <1>1, <1>2, <1>3, HeadTailProperties
  <2>2. Len(<<>> \o Tail(calls)) = Len(Tail(calls))  BY <2>1, EmptySeq, ConcatProperties
  <2> QED  BY <1>1, <2>1, <2>2 DEF Pop
<1>8. \A t : ~HandledFor(calls', t)  BY <1>7 DEF HandledFor
<1>9. \A i \in 1..Len(calls') : calls'[i][1] = "resume" => i = Len(calls')
  BY <1>7
<1>10. \A t : HandledFor(calls, t) <=> t = x[2]
  <2>1. \A i \in 1..Len(calls) : i = 1  BY <1>3
  <2> QED  BY <1>0, <1>1, <1>3, <2>1 DEF HandledFor
<1>11. \/ x[2] = "asr" /\ x[3] \in AsrStates
       \/ x[2] = "kwd" /\ x[3] \in KwdStates
  BY <1>1, <1>2, CallFacts
<1>12. \/ /\ x[2] = "asr" /\ x[3] \in AsrStates /\ asrThread' = ResumeAt[x[3]]
          /\ asr_is_running' = asr_is_running
          /\ kwd_is_running' = kwd_is_running /\ kwdThread' = kwdThread
       \/ /\ x[2] = "kwd" /\ x[3] \in KwdStates /\ kwdThread' = ResumeAt[x[3]]
          /\ kwd_is_running' = kwd_is_running
          /\ asr_is_running' = asr_is_running /\ asrThread' = asrThread
  BY <1>0, <1>11 DEF ResumeStep, asrVars, kwdVars
<1>13. /\ \A s \in AsrStates : ResumeAt[s] \in {"loop", "speech", "leave", "check"}
       /\ \A s \in KwdStates : ResumeAt[s] \in {"leave", "clear", "check"}
  BY DEF AsrStates, KwdStates, ResumeAt
<1>14. Events(calls', queue', asrThread', kwdThread')
  <2>1. queue' = queue  BY <1>1
  <2>2. \A i, j \in 1..Len(queue) : queue[i][1] = queue[j][1] => i = j  BY <1>2 DEF Events
  <2>3. CASE x[2] = "asr" /\ asrThread' = ResumeAt[x[3]] /\ x[3] \in AsrStates /\ kwdThread' = kwdThread
    <3>1. asrThread' # "sent"  BY <1>13, <2>3
    <3>2. ~QueuedFor(queue, "asr")  BY <1>2, <1>10, <2>3 DEF Events
    <3>3. kwdThread = "sent" <=> QueuedFor(queue, "kwd")  BY <1>2, <1>10, <2>3 DEF Events
    <3> QED  BY <1>8, <1>9, <2>1, <2>2, <2>3, <3>1, <3>2, <3>3 DEF Events
  <2>4. CASE x[2] = "kwd" /\ kwdThread' = ResumeAt[x[3]] /\ x[3] \in KwdStates /\ asrThread' = asrThread
    <3>1. kwdThread' # "sent"  BY <1>13, <2>4
    <3>2. ~QueuedFor(queue, "kwd")  BY <1>2, <1>10, <2>4 DEF Events
    <3>3. asrThread = "sent" <=> QueuedFor(queue, "asr")  BY <1>2, <1>10, <2>4 DEF Events
    <3> QED  BY <1>8, <1>9, <2>1, <2>2, <2>4, <3>1, <3>2, <3>3 DEF Events
  <2> QED  BY <1>12, <2>3, <2>4
<1>15. /\ asrThread' \in {"check", "wait", "woken", "loop", "frame", "speech",
                          "utter", "sent", "leave", "exited"}
       /\ kwdThread' \in {"check", "wait", "woken", "loop", "frame", "sent",
                          "clear", "leave", "exited"}
       /\ asr_is_running' = asr_is_running /\ kwd_is_running' = kwd_is_running
  BY <1>12, <1>13 DEF IndInv, Types
<1>16. Types'
  BY <1>1, <1>6, <1>15 DEF IndInv, Types, focusVars, agentVars
<1>17. Lists(stack') /\ NoCallback(calls', stack', focused'["SPK"])
  BY <1>1, <1>2, <1>4, <1>6 DEF NoCallback, focusVars
<1> QED  BY <1>14, <1>16, <1>17, Reassemble DEF Nesting

\* A thread moves on, or posts an event and sleeps.
LEMMA ThreadStep ==
    ASSUME IndInv, UNCHANGED <<focusVars, calls, agentVars>>,
           asr_is_running' \in BOOLEAN, kwd_is_running' \in BOOLEAN,
           asrThread' \in {"check", "wait", "woken", "loop", "frame", "speech",
                           "utter", "sent", "leave", "exited"},
           kwdThread' \in {"check", "wait", "woken", "loop", "frame", "sent",
                           "clear", "leave", "exited"},
           queue' \in Seq(Event),
           Events(calls, queue', asrThread', kwdThread')
    PROVE  IndInv'
<1>1. Types'  BY DEF IndInv, Types, focusVars, agentVars
<1>2. stack' = stack /\ focused' = focused /\ calls' = calls  BY DEF focusVars
<1> QED  BY <1>1, <1>2, Reassemble DEF IndInv

\* SpeechRecognizer::loopListening() touches no call; it posts one event and
\* then sleeps.
LEMMA AsrInv ==
    ASSUME IndInv, Asr
    PROVE  IndInv'
<1>1. /\ queue \in Seq(Event) /\ Events(calls, queue, asrThread, kwdThread)
      /\ asr_is_running \in BOOLEAN /\ kwd_is_running \in BOOLEAN
      /\ kwdThread \in {"check", "wait", "woken", "loop", "frame", "sent",
                        "clear", "leave", "exited"}
  BY DEF IndInv, Types
<1>2. \/ \E from, to \in {"check", "wait", "woken", "loop", "frame", "speech",
                          "utter", "leave", "exited"} : AsrGoto(from, to)
      \/ \E from \in {"woken", "frame", "utter", "leave"}, s \in AsrStates : AsrSend(from, s)
  BY DEF Asr, AsrStep, AsrWait, AsrWoken, AsrLoop, AsrStopped, AsrDone, AsrSpurious,
         AsrBreak, AsrFrame, AsrEndPoint, AsrStates
<1>3. ASSUME NEW from \in {"check", "wait", "woken", "loop", "frame", "speech",
                           "utter", "leave", "exited"},
             NEW to \in {"check", "wait", "woken", "loop", "frame", "speech",
                         "utter", "leave", "exited"}, AsrGoto(from, to)
      PROVE  IndInv'
  <2>1. /\ asrThread = from /\ asrThread' = to /\ queue' = queue
        /\ UNCHANGED <<focusVars, calls, agentVars>>
        /\ asr_is_running' = asr_is_running
        /\ kwd_is_running' = kwd_is_running /\ kwdThread' = kwdThread
    BY <1>3 DEF AsrGoto, AsrAt, kwdVars
  <2>2. from # "sent" /\ to # "sent"  BY <1>3
  <2>3. Events(calls, queue', asrThread', kwdThread')
    BY <1>1, <2>1, <2>2 DEF Events
  <2>4. asrThread' \in {"check", "wait", "woken", "loop", "frame", "speech",
                        "utter", "sent", "leave", "exited"}
    BY <1>3, <2>1
  <2> QED  BY <1>1, <2>1, <2>3, <2>4, ThreadStep
<1>4. ASSUME NEW from \in {"woken", "frame", "utter", "leave"}, NEW s \in AsrStates,
             AsrSend(from, s)
      PROVE  IndInv'
  <2>0. PICK x : x = <<"asr", s>>  OBVIOUS
  <2>1. /\ asrThread = from /\ asrThread' = "sent" /\ queue' = Append(queue, x)
        /\ UNCHANGED <<focusVars, calls, agentVars>>
        /\ asr_is_running' = asr_is_running
        /\ kwd_is_running' = kwd_is_running /\ kwdThread' = kwdThread
    BY <1>4, <2>0 DEF AsrSend, AsrAt, Post, kwdVars
  <2>2. asrThread # "sent" /\ x \in Event /\ x[1] = "asr"  BY <1>4, <2>0, <2>1 DEF Event
  <2>3. queue' \in Seq(Event) /\ Events(calls, queue', asrThread', kwdThread')
    BY <1>1, <2>1, <2>2, EventPosted
  <2> QED  BY <1>1, <2>1, <2>3, ThreadStep
<1> QED  BY <1>2, <1>3, <1>4

\* WakeupDetector::loopWakeup(), the same.
LEMMA KwdInv ==
    ASSUME IndInv, Kwd
    PROVE  IndInv'
<1>1. /\ queue \in Seq(Event) /\ Events(calls, queue, asrThread, kwdThread)
      /\ asr_is_running \in BOOLEAN /\ kwd_is_running \in BOOLEAN
      /\ asrThread \in {"check", "wait", "woken", "loop", "frame", "speech",
                        "utter", "sent", "leave", "exited"}
  BY DEF IndInv, Types
<1>2. \/ \E from, to \in {"check", "wait", "woken", "loop", "frame", "clear",
                          "leave", "exited"} :
            KwdAt(from, to) /\ queue' = queue /\ kwd_is_running' \in {FALSE, kwd_is_running}
      \/ \E from \in {"frame", "leave"}, s \in KwdStates : KwdSend(from, s)
  BY DEF Kwd, KwdStep, KwdWait, KwdWoken, KwdLoop, KwdStopped, KwdClear, KwdDone,
         KwdSpurious, KwdBreak, KwdFrame, KwdGoto, KwdStates
<1>3. ASSUME NEW from \in {"check", "wait", "woken", "loop", "frame", "clear",
                           "leave", "exited"},
             NEW to \in {"check", "wait", "woken", "loop", "frame", "clear",
                         "leave", "exited"},
             KwdAt(from, to), queue' = queue, kwd_is_running' \in {FALSE, kwd_is_running}
      PROVE  IndInv'
  <2>1. /\ kwdThread = from /\ kwdThread' = to
        /\ UNCHANGED <<focusVars, calls, agentVars>>
        /\ asr_is_running' = asr_is_running /\ asrThread' = asrThread
    BY <1>3 DEF KwdAt, asrVars
  <2>2. from # "sent" /\ to # "sent"  BY <1>3
  <2>3. Events(calls, queue', asrThread', kwdThread')
    BY <1>1, <1>3, <2>1, <2>2 DEF Events
  <2>4. kwdThread' \in {"check", "wait", "woken", "loop", "frame", "sent",
                        "clear", "leave", "exited"}
    BY <1>3, <2>1
  <2>5. kwd_is_running' \in BOOLEAN  BY <1>1, <1>3
  <2> QED  BY <1>1, <1>3, <2>1, <2>3, <2>4, <2>5, ThreadStep
<1>4. ASSUME NEW from \in {"frame", "leave"}, NEW s \in KwdStates, KwdSend(from, s)
      PROVE  IndInv'
  <2>0. PICK x : x = <<"kwd", s>>  OBVIOUS
  <2>1. /\ kwdThread = from /\ kwdThread' = "sent" /\ queue' = Append(queue, x)
        /\ UNCHANGED <<focusVars, calls, agentVars>>
        /\ kwd_is_running' = kwd_is_running
        /\ asr_is_running' = asr_is_running /\ asrThread' = asrThread
    BY <1>4, <2>0 DEF KwdSend, KwdAt, Post, asrVars
  <2>2. kwdThread # "sent" /\ x \in Event /\ x[1] = "kwd"  BY <1>4, <2>0, <2>1 DEF Event
  <2>3. queue' \in Seq(Event) /\ Events(calls, queue', asrThread', kwdThread')
    BY <1>1, <2>1, <2>2, EventPosted
  <2> QED  BY <1>1, <2>1, <2>3, ThreadStep
<1> QED  BY <1>2, <1>3, <1>4

----------------------------------------------------------------------------
(***************************************************************************)
(* The environment.                                                        *)
(***************************************************************************)

\* The main loop serves an input only when no call is pending.
LEMMA IdleFacts ==
    ASSUME IndInv, calls = <<>>
    PROVE  Owned(stack, focused["SPK"])
<1>1. ~Below(<<>>, 1) /\ ~Below(<<>>, 2) /\ ~Below(<<>>, 3)  BY DEF Below
<1> QED
  BY <1>1
  DEF IndInv, Nesting, NoCallback, InFocus, InHandOver, InUnfocus, InReset, InIdle

\* An input makes plain calls.
LEMMA InputStep ==
    ASSUME IndInv, calls = <<>>, calls' \in PlainCalls,
           UNCHANGED <<focusVars, queue, asrVars, kwdVars, prev_listening_state>>,
           is_handle' \in BOOLEAN, timer' \in BOOLEAN
    PROVE  IndInv'
<1>0. PICK cs : cs = calls'  OBVIOUS
<1>1. cs \in Seq(Call) /\ Len(cs) \in Nat
      /\ \A i \in 1..Len(cs) : cs[i][1] \notin Nested /\ cs[i][1] # "resume"
  BY <1>0, LenProperties DEF PlainCalls
<1>2. Below(cs, 0)
  <2>1. ASSUME NEW i \in (0 + 1)..Len(cs) PROVE cs[i][1] \notin Nested  BY <1>1
  <2> QED  BY <1>1, <2>1 DEF Below
<1>3. /\ stack' = stack /\ focused' = focused /\ queue' = queue
      /\ asrThread' = asrThread /\ kwdThread' = kwdThread
      /\ asr_is_running' = asr_is_running /\ kwd_is_running' = kwd_is_running
  BY DEF focusVars, asrVars, kwdVars
<1>4. NoCallback(cs, stack, focused["SPK"])  BY <1>2, IdleFacts DEF NoCallback
<1>5. Events(cs, queue, asrThread, kwdThread)
  <2>1. \A t : ~HandledFor(cs, t)  BY <1>1 DEF HandledFor
  <2>2. \A t : ~HandledFor(<<>>, t)  BY DEF HandledFor
  <2>3. Events(<<>>, queue, asrThread, kwdThread)  BY DEF IndInv
  <2> QED  BY <1>1, <2>1, <2>2, <2>3 DEF Events
<1>6. Types'  BY <1>0, <1>1, <1>3 DEF IndInv, Types
<1>7. Lists(stack')  BY <1>3 DEF IndInv
<1> QED  BY <1>0, <1>3, <1>4, <1>5, <1>6, <1>7, Reassemble DEF Nesting

\* What the user, the server and the timer make the agents call.
LEMMA InputCalls ==
    ASSUME Environment, ~UserStopped
    PROVE  /\ calls = <<>> /\ calls' \in TameCalls
           /\ UNCHANGED <<focusVars, queue, asrVars, kwdVars, prev_listening_state>>
           /\ is_handle' \in {TRUE, is_handle} /\ timer' \in {FALSE, timer}
<1>1. \A a, b \in TameCalls : a \o b \in TameCalls  BY TameFacts
<1>2. <<>> \in TameCalls  BY TameFacts
<1>3. /\ StartRecognition \in TameCalls /\ StopRecognition \in TameCalls
      /\ ReleaseASRSpeakFocus \in TameCalls /\ StartWakeup \in TameCalls
      /\ ReceiveReleaseFocus \in TameCalls
  BY TameHandlers
<1>4. /\ <<Request("expect", "SPK")>> \in TameCalls
      /\ <<Request("cap_tts", "SPK")>> \in TameCalls
      /\ <<Release("cap_tts", "SPK")>> \in TameCalls
      /\ << <<"user_stopped">> >> \in TameCalls
  BY TameHandlers
<1>5. ASSUME "play" \in Inputs
      PROVE  /\ <<Request("cap_audio", "SPK")>> \in TameCalls
             /\ <<Release("cap_audio", "SPK")>> \in TameCalls
  BY <1>5, TameHandlers, VoiceAssumption
<1>6. CASE UserListen \/ UserWakeup \/ ExpectSpeech \/ NotifyResult \/ Speak \/ NoDirectives
  <2>1. calls' \in {StartRecognition, StartWakeup, <<Request("expect", "SPK")>>, <<>>,
                    <<Request("cap_tts", "SPK")>>, ReceiveReleaseFocus}
    BY <1>6
    DEF UserListen, UserWakeup, ExpectSpeech, NotifyResult, Speak, NoDirectives, Input
  <2>2. calls' \in TameCalls  BY <1>2, <1>3, <1>4, <2>1, Zenon
  <2>3. /\ calls = <<>>
        /\ UNCHANGED <<focusVars, queue, asrVars, kwdVars, prev_listening_state>>
        /\ is_handle' \in {TRUE, is_handle} /\ timer' \in {FALSE, timer}
    BY <1>6
    DEF UserListen, UserWakeup, ExpectSpeech, NotifyResult, Speak, NoDirectives, Input,
        agentVars
  <2> QED  BY <2>2, <2>3
<1>7. CASE UserStop \/ SpeechFinished \/ ResponseTimeout
  <2>1. StopRecognition \o << <<"user_stopped">> >> \in TameCalls
    BY <1>1, <1>3, <1>4, Zenon
  <2>2. calls' \in {StopRecognition \o << <<"user_stopped">> >>,
                    <<Release("cap_tts", "SPK")>>, ReleaseASRSpeakFocus}
    BY <1>7 DEF UserStop, SpeechFinished, ResponseTimeout
  <2>3. calls' \in TameCalls  BY <1>3, <1>4, <2>1, <2>2, Zenon
  <2>4. /\ calls = <<>>
        /\ UNCHANGED <<focusVars, queue, asrVars, kwdVars, prev_listening_state>>
        /\ is_handle' \in {TRUE, is_handle} /\ timer' \in {FALSE, timer}
    BY <1>7 DEF UserStop, SpeechFinished, ResponseTimeout, agentVars
  <2> QED  BY <2>3, <2>4
<1>8. CASE Play \/ PauseMedia \/ StopMedia \/ MediaStopped
  <2>1. "play" \in Inputs  BY <1>8 DEF Play, PauseMedia, StopMedia, MediaStopped, Input
  <2>2. PICK a, b : /\ a = <<Release("cap_audio", "SPK")>>
                    /\ b = <<Request("cap_audio", "SPK")>>
    OBVIOUS
  <2>3. a \in TameCalls /\ b \in TameCalls  BY <1>5, <2>1, <2>2
  <2>4. /\ \A x, y \in {<<>>, a, b} : x \o y \in TameCalls
        /\ \A y \in {<<>>, a} : ReceiveReleaseFocus \o y \in TameCalls
    BY <1>1, <1>2, <1>3, <2>3, Zenon
  <2>5. \/ \E x, y \in {<<>>, a, b} : calls' = x \o y
        \/ \E y \in {<<>>, a} : calls' = ReceiveReleaseFocus \o y
        \/ calls' = a
    <3>1. CASE Play
      <4>1. PICK stop \in BOOLEAN, fails \in BOOLEAN :
               calls' = (IF stop THEN a ELSE <<>>) \o (IF fails THEN <<>> ELSE b)
        BY <2>2, <3>1 DEF Play, Input
      <4>2. PICK x, y : /\ x = IF stop THEN a ELSE <<>>
                        /\ y = IF fails THEN <<>> ELSE b
        OBVIOUS
      <4>3. x \in {<<>>, a, b} /\ y \in {<<>>, a, b}  BY <4>2
      <4>4. calls' = x \o y  BY <4>1, <4>2
      <4> QED  BY <4>3, <4>4, Zenon
    <3>2. CASE PauseMedia \/ MediaStopped
      BY <2>2, <3>2 DEF PauseMedia, MediaStopped, Input
    <3>3. CASE StopMedia
      <4>1. PICK mine \in BOOLEAN :
               calls' = ReceiveReleaseFocus \o (IF mine THEN a ELSE <<>>)
        BY <2>2, <3>3 DEF StopMedia, Input
      <4>2. PICK y : y = IF mine THEN a ELSE <<>>  OBVIOUS
      <4>3. y \in {<<>>, a} /\ calls' = ReceiveReleaseFocus \o y  BY <4>1, <4>2
      <4> QED  BY <4>3, Zenon
    <3> QED  BY <1>8, <3>1, <3>2, <3>3
  <2>6. calls' \in TameCalls  BY <2>3, <2>4, <2>5, Zenon
  <2>7. /\ calls = <<>>
        /\ UNCHANGED <<focusVars, queue, asrVars, kwdVars, prev_listening_state>>
        /\ is_handle' = is_handle /\ timer' = timer
    BY <1>8 DEF Play, PauseMedia, StopMedia, MediaStopped, Input, agentVars
  <2> QED  BY <2>6, <2>7
<1>9. CASE Exception
  <2>1. calls' = <<Release("asr", "SPK"), Release("asr", "MIC")>>
    BY <1>9 DEF Exception, Input
  <2>2. <<Release("asr", "SPK"), Release("asr", "MIC")>> \in TameCalls
    <3>1. PICK x, y : x = Release("asr", "SPK") /\ y = Release("asr", "MIC")  OBVIOUS
    <3>2. TameOne(x) /\ TameOne(y)  BY <3>1, TameHandlers
    <3> QED  BY <3>1, <3>2, TameFacts
  <2>3. /\ calls = <<>>
        /\ UNCHANGED <<focusVars, queue, asrVars, kwdVars, prev_listening_state>>
        /\ is_handle' = is_handle /\ timer' = timer
    BY <1>9 DEF Exception, Input, agentVars
  <2> QED  BY <2>1, <2>2, <2>3
<1> QED  BY <1>6, <1>7, <1>8, <1>9 DEF Environment

\* The user, the server and the timer.
LEMMA EnvironmentInv ==
    ASSUME IndInv, Environment
    PROVE  IndInv'
<1>1. CASE UserStopped  BY <1>1, HandlerInv
<1>2. CASE ~UserStopped
  <2>1. /\ calls = <<>> /\ calls' \in PlainCalls
        /\ UNCHANGED <<focusVars, queue, asrVars, kwdVars, prev_listening_state>>
        /\ is_handle' \in {TRUE, is_handle} /\ timer' \in {FALSE, timer}
    BY <1>2, InputCalls, TameFacts
  <2>2. is_handle' \in BOOLEAN /\ timer' \in BOOLEAN  BY <2>1, SameScalars
  <2> QED  BY <2>1, <2>2, InputStep
<1> QED  BY <1>1, <1>2

----------------------------------------------------------------------------
(***************************************************************************)
(* The invariant, and what follows from it.                                *)
(***************************************************************************)

\* Every step keeps the invariant.
LEMMA VoiceStep == IndInv /\ [Next]_vars => IndInv'
<1> SUFFICES ASSUME IndInv, [Next]_vars PROVE IndInv'  OBVIOUS
<1>1. CASE Main
  BY <1>1, RequestInv, StolenInv, ReleaseInv, ReleasedInv, AsrFocusInv, KwdFocusInv,
     ExpectTtsFocusInv, AudioFocusInv, UnfocusInv, AsrUnfocusSpkInv, ResetExpectInv,
     HandlerInv, DispatchInv, ResumeInv
  DEF Main
<1>2. CASE Asr  BY <1>2, AsrInv
<1>3. CASE Kwd  BY <1>3, KwdInv
<1>4. CASE Environment  BY <1>4, EnvironmentInv
<1>5. CASE UNCHANGED vars
  <2>1. /\ stack' = stack /\ focused' = focused /\ calls' = calls /\ queue' = queue
        /\ asrThread' = asrThread /\ kwdThread' = kwdThread
    BY <1>5 DEF vars, focusVars, asrVars, kwdVars
  <2>2. Types'
    BY <1>5 DEF IndInv, Types, vars, focusVars, asrVars, kwdVars, agentVars
  <2> QED  BY <2>1, <2>2, Reassemble DEF IndInv
<1> QED  BY <1>1, <1>2, <1>3, <1>4, <1>5 DEF Next

\* The calls nest as Nesting says in every reachable state.
THEOREM VoiceInv == Spec => []IndInv
BY VoiceInit, VoiceStep, PTL DEF Spec

\* Only the callers of an unfocus callback wait for it.
LEMMA StolenWaits ==
    ASSUME NEW c \in Seq(Call), NEW s, NEW o, Nesting(c, s, o),
           NEW i \in 1..Len(c), c[i][1] = "stolen"
    PROVE  Waiting(c[i], s)
<1>0. c[i][1] \in Nested /\ Len(c) \in Nat  BY LenProperties DEF Nested
<1>1. ASSUME NEW n \in 0..3, Below(c, n) PROVE i <= n
  <2>1. ~(i \in (n + 1)..Len(c))  BY <1>0, <1>1 DEF Below
  <2> QED  BY <1>0, <2>1
<1>2. CASE NoCallback(c, s, o)
  <2>1. 0 \in 0..3 /\ Below(c, 0)  BY <1>2 DEF NoCallback
  <2> QED  BY <1>1, <2>1
<1>3. CASE InFocus(c, s, o)
  <2>1. 1 \in 0..3 /\ Below(c, 1) /\ c[1][1] = "focus"  BY <1>3 DEF InFocus
  <2>2. i = 1  BY <1>1, <2>1
  <2> QED  BY <2>1, <2>2
<1>4. CASE InHandOver(c, s, o)
  <2>1. 1 \in 0..3 /\ Below(c, 1) /\ Waiting(c[1], s)  BY <1>4 DEF InHandOver
  <2>2. i = 1  BY <1>1, <2>1
  <2> QED  BY <2>1, <2>2
<1>5. CASE InUnfocus(c, s, o)
  <2>1. 2 \in 0..3 /\ Below(c, 2) /\ Waiting(c[2], s) /\ c[1][1] = "unfocus"
    BY <1>5 DEF InUnfocus
  <2>2. i = 1 \/ i = 2  BY <1>1, <2>1
  <2> QED  BY <2>1, <2>2
<1>6. CASE InReset(c, s, o)
  <2>1. 2 \in 0..3 /\ Below(c, 2) /\ Waiting(c[2], s) /\ c[1][1] = "reset_expect"
    BY <1>6 DEF InReset, AsrLoses
  <2>2. i = 1 \/ i = 2  BY <1>1, <2>1
  <2> QED  BY <2>1, <2>2
<1>7. CASE InIdle(c, s, o)
  <2>1. /\ 3 \in 0..3 /\ Below(c, 3) /\ Waiting(c[3], s) /\ c[2][1] = "reset_expect"
        /\ c[1][1] \in {"request", "focus"}
    BY <1>7 DEF InIdle, AsrLoses, Request
  <2>2. i = 1 \/ i = 2 \/ i = 3  BY <1>1, <2>1
  <2> QED  BY <2>1, <2>2
<1> QED  BY <1>2, <1>3, <1>4, <1>5, <1>6, <1>7 DEF Nesting

\* Type correctness of the voice session.
THEOREM VoiceTypeOK == Spec => []TypeOK
<1>1. IndInv => TypeOK
  <2> SUFFICES ASSUME IndInv PROVE TypeOK  OBVIOUS
  <2>1. stack \in [Resource -> Seq(Focus)]  BY DEF IndInv, Lists
  <2>2. \A i \in 1..Len(calls) : calls[i][1] \in Ops
    <3>1. \A i \in 1..Len(calls) : calls[i] \in Call  BY ElementOfSeq DEF IndInv, Types
    <3> QED  BY <3>1, CallFacts
  <2>3. ASSUME NEW i \in 1..Len(queue) PROVE queue[i] \in {"asr", "kwd"} \X States
    <3>1. queue[i] \in Event  BY ElementOfSeq DEF IndInv, Types
    <3>2. AsrStates \subseteq States /\ KwdStates \subseteq States
      BY DEF AsrStates, KwdStates, States, ResumeAt
    <3> QED  BY <3>1, <3>2 DEF Event
  <2> QED  BY <2>1, <2>2, <2>3 DEF IndInv, Types, TypeOK
<1> QED  BY <1>1, VoiceInv, PTL

\* Callbacks nest into requests and releases, yet the link that a request took
\* before its unfocus callback is still on the list when it deletes it, and no
\* focus ever has two items.
THEOREM VoiceLinkValid == Spec => []LinkValid
<1>1. IndInv => LinkValid
  <2> SUFFICES ASSUME IndInv PROVE LinkValid  OBVIOUS
  <2>0. /\ calls \in Seq(Call) /\ Lists(stack)
        /\ Nesting(calls, stack, focused["SPK"])
    BY DEF IndInv, Types
  <2>1. ASSUME NEW i \in 1..Len(calls), calls[i][1] = "stolen"
        PROVE  Contains(stack[calls[i][3]], calls[i][4])
    <3>0. PICK h, l : h = calls[i] /\ l = stack[h[3]]  OBVIOUS
    <3>1. Waiting(h, stack) /\ h[1] = "stolen"  BY <2>0, <2>1, <3>0, StolenWaits
    <3>2. l # <<>> /\ Head(l) = h[4]  BY <3>0, <3>1 DEF Waiting
    <3>3. h[3] \in {"MIC", "SPK"}
      <4>1. h \in Call  BY <2>0, <3>0, ElementOfSeq
      <4> QED  BY <3>1, <4>1, CallFacts
    <3>4. l \in Seq(Users(h[3]))
      <4>1. List(l, h[3])  BY <2>0, <3>0, <3>3, ListsFacts
      <4> QED  BY <4>1 DEF List
    <3>5. Len(l) \in Nat \ {0} /\ Head(l) = l[1]
      BY <3>2, <3>4, LenProperties, EmptySeq, HeadTailProperties
    <3>6. 1 \in 1..Len(l) /\ l[1] = h[4]  BY <3>2, <3>5
    <3> QED  BY <3>0, <3>6 DEF Contains
  <2>2. ASSUME NEW r \in Resource PROVE IsInjective(stack[r])
    <3>0. PICK l : l = stack[r]  OBVIOUS
    <3>1. l \in Seq(Users(r)) /\ Distinct(l)  BY <2>0, <3>0 DEF Lists, List
    <3>2. DOMAIN l = 1..Len(l)  BY <3>1, LenProperties
    <3>3. IsInjective(l)  BY <3>1, <3>2 DEF IsInjective, Distinct
    <3> QED  BY <3>0, <3>3
  <2> QED  BY <2>1, <2>2 DEF LinkValid
<1> QED  BY <1>1, VoiceInv, PTL

\* Two listeners are never both told that they own the speaker, and an idle main
\* loop leaves the owner on the top of the list.
THEOREM VoiceSpeakerExclusive == Spec => []SpeakerExclusive
<1>1. IndInv => SpeakerExclusive
  <2> SUFFICES ASSUME IndInv PROVE SpeakerExclusive  OBVIOUS
  <2>0. PICK o : o = focused["SPK"]  OBVIOUS
  <2>1. Nesting(calls, stack, o)  BY <2>0 DEF IndInv
  <2>2. Owned(stack, o) \/ o = {} \/ \E f : o \subseteq {f}
    BY <2>1
    DEF Nesting, NoCallback, InFocus, InHandOver, InUnfocus, InReset, InIdle, AsrLoses
  <2>3. \A f, g \in o : f = g  BY <2>2 DEF Owned
  <2>4. ASSUME calls = <<>>
        PROVE  \A f \in o : stack["SPK"] # <<>> /\ Head(stack["SPK"]) = f
    BY <2>0, <2>4, IdleFacts DEF Owned
  <2> QED  BY <2>0, <2>3, <2>4 DEF SpeakerExclusive
<1> QED  BY <1>1, VoiceInv, PTL

\* A thread that sleeps in a sync event has exactly one event, queued or being
\* handled; a thread that does not has none.
THEOREM VoiceOneEventPerThread == Spec => []OneEventPerThread
<1>1. ASSUME IndInv, NEW t \in {"asr", "kwd"}, NEW sleeps \in BOOLEAN,
             sleeps <=> QueuedFor(queue, t) \/ HandledFor(calls, t)
      PROVE  Cardinality(Pending(t)) = IF sleeps THEN 1 ELSE 0
  <2>1. Events(calls, queue, asrThread, kwdThread)  BY <1>1 DEF IndInv
  <2>2. \A i, j \in 1..Len(queue) : queue[i][1] = queue[j][1] => i = j
    BY <2>1 DEF Events
  <2>3. \A i \in 1..Len(calls) : calls[i][1] = "resume" => i = Len(calls)
    BY <2>1 DEF Events
  <2>4. ~(QueuedFor(queue, t) /\ HandledFor(calls, t))  BY <1>1, <2>1 DEF Events
  <2>5. CASE QueuedFor(queue, t)
    <3>1. PICK k \in 1..Len(queue) : queue[k][1] = t  BY <2>5 DEF QueuedFor
    <3>2. {i \in 1..Len(queue) : queue[i][1] = t} = {k}  BY <2>2, <3>1
    <3>3. {j \in 1..Len(calls) : calls[j][1] = "resume" /\ calls[j][2] = t} = {}
      BY <2>4, <2>5 DEF HandledFor
    <3>4. Pending(t) = {k}  BY <3>2, <3>3 DEF Pending
    <3> QED  BY <1>1, <2>5, <3>4, FS_Singleton
  <2>6. CASE HandledFor(calls, t)
    <3>1. PICK k \in 1..Len(calls) : calls[k][1] = "resume" /\ calls[k][2] = t
      BY <2>6 DEF HandledFor
    <3>2. {i \in 1..Len(queue) : queue[i][1] = t} = {}  BY <2>4, <2>6 DEF QueuedFor
    <3>3. {j \in 1..Len(calls) : calls[j][1] = "resume" /\ calls[j][2] = t} = {k}
      BY <2>3, <3>1
    <3>4. Pending(t) = {-k}  BY <3>2, <3>3 DEF Pending
    <3> QED  BY <1>1, <2>6, <3>4, FS_Singleton
  <2>7. CASE ~QueuedFor(queue, t) /\ ~HandledFor(calls, t)
    <3>1. {i \in 1..Len(queue) : queue[i][1] = t} = {}  BY <2>7 DEF QueuedFor
    <3>2. {j \in 1..Len(calls) : calls[j][1] = "resume" /\ calls[j][2] = t} = {}
      BY <2>7 DEF HandledFor
    <3>3. Pending(t) = {}  BY <3>1, <3>2 DEF Pending
    <3> QED  BY <1>1, <2>7, <3>3, FS_EmptySet
  <2> QED  BY <2>5, <2>6, <2>7
<1>2. IndInv => OneEventPerThread
  <2> SUFFICES ASSUME IndInv PROVE OneEventPerThread  OBVIOUS
  <2>1. /\ asrThread = "sent" <=> QueuedFor(queue, "asr") \/ HandledFor(calls, "asr")
        /\ kwdThread = "sent" <=> QueuedFor(queue, "kwd") \/ HandledFor(calls, "kwd")
    BY DEF IndInv, Events
  <2>2. PICK a, k : a = (asrThread = "sent") /\ k = (kwdThread = "sent")  OBVIOUS
  <2>3. a \in BOOLEAN /\ k \in BOOLEAN  BY <2>2
  <2>4. /\ a <=> QueuedFor(queue, "asr") \/ HandledFor(calls, "asr")
        /\ k <=> QueuedFor(queue, "kwd") \/ HandledFor(calls, "kwd")
    BY <2>1, <2>2
  <2>5. Cardinality(Pending("asr")) = IF a THEN 1 ELSE 0  BY <1>1, <2>3, <2>4
  <2>6. Cardinality(Pending("kwd")) = IF k THEN 1 ELSE 0  BY <1>1, <2>3, <2>4
  <2> QED  BY <2>2, <2>5, <2>6 DEF OneEventPerThread
<1> QED  BY <1>2, VoiceInv, PTL

----------------------------------------------------------------------------
(***************************************************************************)
(* No hand-over of the speaker is lost: unless a callback about the        *)
(* speaker is under way, somebody owns it when somebody is on its list.    *)
(* This holds where no listener fails or pauses.                           *)
(***************************************************************************)

SpkQuiet(c) == \A i \in 1..Len(c) : c[i][1] \in Nested => c[i][3] # "SPK"

Served(c, s, o) == SpkQuiet(c) /\ s["SPK"] # <<>> => o # {}

\* What a step of the main thread makes of the calls c.
Returned(c, d) ==
    \/ d = Pop(c) \/ (\E x : d = PushOne(c, x)) \/ (\E x, y : d = PushTwo(c, x, y))
    \/ \E cs \in PlainCalls : d = Push(c, cs)

\* A quiet state was quiet before, unless a callback about the speaker returned.
LEMMA QuietReturn ==
    ASSUME NEW c \in Seq(Call), c # <<>>, NEW d, Returned(c, d), SpkQuiet(d),
           c[1][1] \in Nested => c[1][3] # "SPK"
    PROVE  SpkQuiet(c)
<1>1. PICK S, cs : c \in Seq(S) /\ cs \in Seq(S) /\ d = cs \o Tail(c)
  <2>1. CASE d = Pop(c)
    <3>1. <<>> \in Seq(Call)  BY EmptySeq
    <3> QED  BY <2>1, <3>1 DEF Pop
  <2>2. CASE \E x : d = PushOne(c, x)
    <3>1. PICK x : d = PushOne(c, x)  BY <2>2
    <3>2. Call \subseteq Call \cup {x}  OBVIOUS
    <3>3. c \in Seq(Call \cup {x})  BY <3>2, SeqMonotonic
    <3>4. <<x>> \in Seq(Call \cup {x})  OBVIOUS
    <3> QED  BY <3>1, <3>3, <3>4 DEF PushOne
  <2>3. CASE \E x, y : d = PushTwo(c, x, y)
    <3>1. PICK x, y : d = PushTwo(c, x, y)  BY <2>3
    <3>2. Call \subseteq Call \cup {x, y}  OBVIOUS
    <3>3. c \in Seq(Call \cup {x, y})  BY <3>2, SeqMonotonic
    <3>4. <<x, y>> \in Seq(Call \cup {x, y})  OBVIOUS
    <3> QED  BY <3>1, <3>3, <3>4 DEF PushTwo
  <2>4. CASE \E cs \in PlainCalls : d = Push(c, cs)
    BY <2>4 DEF Push, PlainCalls
  <2> QED  BY <2>1, <2>2, <2>3, <2>4 DEF Returned
<1>2. PICK t : t = Tail(c)  OBVIOUS
<1>3. /\ t \in Seq(S) /\ Len(t) = Len(c) - 1 /\ Len(c) \in Nat \ {0}
      /\ \A i \in 1..Len(t) : t[i] = c[i + 1]
  BY <1>1, <1>2, HeadTailProperties, LenProperties, EmptySeq
<1>4. /\ Len(d) = Len(cs) + Len(t) /\ Len(cs) \in Nat
      /\ \A i \in 1..(Len(cs) + Len(t)) :
            d[i] = IF i <= Len(cs) THEN cs[i] ELSE t[i - Len(cs)]
  BY <1>1, <1>2, <1>3, ConcatProperties, LenProperties
<1>5. ASSUME NEW i \in 1..Len(c), c[i][1] \in Nested PROVE c[i][3] # "SPK"
  <2>1. CASE i = 1  BY <1>5, <2>1
  <2>2. CASE i # 1
    <3>1. /\ i - 1 \in 1..Len(t) /\ (i - 1) + 1 = i
          /\ Len(cs) + (i - 1) \in 1..(Len(cs) + Len(t)) /\ ~(Len(cs) + (i - 1) <= Len(cs))
          /\ (Len(cs) + (i - 1)) - Len(cs) = i - 1
      BY <1>3, <1>4, <2>2
    <3>2. t[i - 1] = c[i]  BY <1>3, <3>1
    <3>3. d[Len(cs) + (i - 1)] = c[i]  BY <1>4, <3>1, <3>2
    <3>4. Len(cs) + (i - 1) \in 1..Len(d)  BY <1>4, <3>1
    <3> QED  BY <1>5, <3>3, <3>4 DEF SpkQuiet
  <2> QED  BY <2>1, <2>2
<1> QED  BY <1>5 DEF SpkQuiet

\* Nothing happens to the speaker.
LEMMA ServedSame ==
    ASSUME IndInv, Served(calls, stack, focused["SPK"]),
           stack'["SPK"] = stack["SPK"], focused'["SPK"] = focused["SPK"],
           \/ calls' = calls
           \/ calls = <<>>
           \/ /\ calls # <<>> /\ (calls[1][1] \in Nested => calls[1][3] # "SPK")
              /\ Returned(calls, calls')
    PROVE  Served(calls', stack', focused'["SPK"])
<1>1. calls \in Seq(Call)  BY DEF IndInv, Types
<1>2. SpkQuiet(calls') => SpkQuiet(calls)
  <2>1. CASE calls' = calls  BY <2>1
  <2>2. CASE calls = <<>>  BY <2>2 DEF SpkQuiet
  <2>3. CASE /\ calls # <<>> /\ (calls[1][1] \in Nested => calls[1][3] # "SPK")
             /\ Returned(calls, calls')
    BY <1>1, <2>3, QuietReturn
  <2> QED  BY <2>1, <2>2, <2>3
<1> QED  BY <1>2 DEF Served

\* A callback about the speaker is under way.
LEMMA NotQuiet ==
    ASSUME NEW c \in Seq(Call), NEW i \in {1, 3}, Below(c, i),
           c[i][1] \in Nested, c[i][3] = "SPK"
    PROVE  ~SpkQuiet(c)
<1>1. Len(c) \in Nat  BY LenProperties
<1>2. i \in 1..Len(c)  BY <1>1 DEF Below
<1> QED  BY <1>2 DEF SpkQuiet

\* The focus manager works on one list at a time.
LEMMA StepCalls ==
    ASSUME IndInv, RequestStep \/ StolenStep \/ ReleaseStep \/ ReleasedStep,
           NEW r, r = calls[1][3]
    PROVE  /\ calls # <<>> /\ Returned(calls, calls')
           /\ r \in {"MIC", "SPK"} /\ focused' = focused
           /\ r # "SPK" => stack'["SPK"] = stack["SPK"]
<1>0. calls # <<>>  BY DEF RequestStep, StolenStep, ReleaseStep, ReleasedStep, Running
<1>1. calls \in Seq(Call) /\ calls[1] \in Call /\ Lists(stack)  BY <1>0, MainFacts
<1>2. calls[1][1] \in {"request", "stolen", "release", "released"}
  BY DEF RequestStep, StolenStep, ReleaseStep, ReleasedStep, Running
<1>3. r \in {"MIC", "SPK"} /\ r \in Resource /\ calls[1][2] \in Users(r)
  BY <1>1, <1>2, CallFacts, VoiceAssumption
<1>4. focused' = focused
  BY DEF RequestStep, StolenStep, ReleaseStep, ReleasedStep
<1>5. r # "SPK" => stack'["SPK"] = stack["SPK"]
  <2>1. stack' = stack \/ \E t : stack' = Updated(stack, r, t)
    BY DEF RequestStep, StolenStep, ReleaseStep, ReleasedStep, Updated
  <2>2. stack \in [Resource -> Seq(Focus)] /\ "SPK" \in Resource
    BY <1>1, PolicyFacts DEF Lists
  <2> QED  BY <1>3, <2>1, <2>2 DEF Updated
<1>6. \/ calls' = Pop(calls) \/ (\E x : calls' = PushOne(calls, x))
      \/ (\E x, y : calls' = PushTwo(calls, x, y))
  BY DEF RequestStep, StolenStep, ReleaseStep, ReleasedStep, Return, Pop, PushOne, PushTwo
<1> QED  BY <1>0, <1>3, <1>4, <1>5, <1>6 DEF Returned

\* The call that a step makes first.
LEMMA FirstCall ==
    ASSUME NEW c \in Seq(Call), c # <<>>, NEW d, NEW x,
           d = PushOne(c, x) \/ \E y : d = PushTwo(c, x, y)
    PROVE  1 \in 1..Len(d) /\ d[1] = x
<1>1. PICK S, cs : /\ c \in Seq(S) /\ cs \in Seq(S) /\ d = cs \o Tail(c)
                   /\ 1 <= Len(cs) /\ cs[1] = x
  <2>1. CASE d = PushOne(c, x)
    <3>1. PICK S : S = Call \cup {x}  OBVIOUS
    <3>2. c \in Seq(S)  BY <3>1, SeqMonotonic
    <3>3. <<x>> \in Seq(S) /\ 1 <= Len(<<x>>) /\ <<x>>[1] = x  BY <3>1
    <3> QED  BY <2>1, <3>2, <3>3 DEF PushOne
  <2>2. CASE \E y : d = PushTwo(c, x, y)
    <3>0. PICK y : d = PushTwo(c, x, y)  BY <2>2
    <3>1. PICK S : S = Call \cup {x, y}  OBVIOUS
    <3>2. c \in Seq(S)  BY <3>1, SeqMonotonic
    <3>3. <<x, y>> \in Seq(S) /\ 1 <= Len(<<x, y>>) /\ <<x, y>>[1] = x  BY <3>1
    <3> QED  BY <3>0, <3>2, <3>3 DEF PushTwo
  <2> QED  BY <2>1, <2>2
<1>2. PICK t : t = Tail(c)  OBVIOUS
<1>3. t \in Seq(S) /\ Len(t) \in Nat /\ Len(cs) \in Nat
  BY <1>1, <1>2, HeadTailProperties, LenProperties
<1>4. /\ Len(d) = Len(cs) + Len(t)
      /\ \A i \in 1..(Len(cs) + Len(t)) :
            d[i] = IF i <= Len(cs) THEN cs[i] ELSE t[i - Len(cs)]
  BY <1>1, <1>2, <1>3, ConcatProperties
<1>5. 1 \in 1..(Len(cs) + Len(t))  BY <1>1, <1>3
<1> QED  BY <1>1, <1>4, <1>5

\* The focus manager works on the speaker's list.
LEMMA SpeakerServedStep ==
    ASSUME IndInv, IndInv', CanPause = {},
           Served(calls, stack, focused["SPK"]),
           RequestStep \/ StolenStep \/ ReleaseStep \/ ReleasedStep
    PROVE  Served(calls', stack', focused'["SPK"])
<1>0. PICK r, f : r = calls[1][3] /\ f = calls[1][2]  OBVIOUS
<1>1. /\ calls # <<>> /\ Returned(calls, calls')
      /\ r \in {"MIC", "SPK"} /\ focused' = focused
      /\ r # "SPK" => stack'["SPK"] = stack["SPK"]
  BY <1>0, StepCalls
<1>2. CASE r # "SPK"  BY <1>0, <1>1, <1>2, ServedSame
<1>3. CASE r = "SPK"
  <2> SUFFICES ASSUME SpkQuiet(calls'), stack'["SPK"] # <<>> PROVE focused["SPK"] # {}
    BY <1>1 DEF Served
  <2>1. calls \in Seq(Call) /\ calls' \in Seq(Call) /\ Lists(stack)
    BY DEF IndInv, Types
  <2>2. ASSUME NEW x, calls' = PushOne(calls, x) \/ \E y : calls' = PushTwo(calls, x, y),
               x[1] \in Nested, x[3] = "SPK"
        PROVE  FALSE
    <3>1. 1 \in 1..Len(calls') /\ calls'[1] = x  BY <1>1, <2>1, <2>2, FirstCall
    <3> QED  BY <2>2, <3>1 DEF SpkQuiet
  <2>3. ASSUME calls[1][1] \notin Nested, stack["SPK"] # <<>> PROVE focused["SPK"] # {}
    <3>1. SpkQuiet(calls)  BY <1>1, <2>1, <2>3, QuietReturn
    <3> QED  BY <2>3, <3>1 DEF Served
  <2>4. CASE RequestStep
    <3>1. calls[1][1] = "request"  BY <2>4 DEF RequestStep, Running
    <3>2. \/ calls' = PushOne(calls, <<"focus", f, "SPK", "request">>)
          \/ \E y : calls' = PushTwo(calls, <<"unfocus", Head(stack["SPK"]), "SPK">>, y)
          \/ stack["SPK"] # <<>>
      BY <1>0, <1>3, <2>4 DEF RequestStep, Return, PushOne, PushTwo
    <3>3. ~\E y : calls' = PushTwo(calls, <<"unfocus", Head(stack["SPK"]), "SPK">>, y)
      <4>1. PICK x : x = <<"unfocus", Head(stack["SPK"]), "SPK">>  OBVIOUS
      <4>2. x[1] \in Nested /\ x[3] = "SPK"  BY <4>1 DEF Nested
      <4> QED  BY <2>2, <4>1, <4>2
    <3>4. calls' # PushOne(calls, <<"focus", f, "SPK", "request">>)
      <4>1. PICK x : x = <<"focus", f, "SPK", "request">>  OBVIOUS
      <4>2. x[1] \in Nested /\ x[3] = "SPK"  BY <4>1 DEF Nested
      <4> QED  BY <2>2, <4>1, <4>2
    <3> QED  BY <2>3, <3>1, <3>2, <3>3, <3>4 DEF Nested
  <2>5. CASE StolenStep
    <3>0. PICK x : x = <<"focus", f, "SPK", "request">>  OBVIOUS
    <3>1. x[1] \in Nested /\ x[3] = "SPK"  BY <3>0 DEF Nested
    <3>2. calls' = PushOne(calls, x)
      BY <1>0, <1>3, <2>5, <3>0 DEF StolenStep, Return, PushOne
    <3> QED  BY <2>2, <3>1, <3>2
  <2>6. CASE ReleaseStep
    <3>0. PICK x, l : x = <<"unfocus", f, "SPK">> /\ l = stack["SPK"]  OBVIOUS
    <3>1. calls[1][1] = "release"  BY <2>6 DEF ReleaseStep, Running
    <3>2. x[1] \in Nested /\ x[3] = "SPK"  BY <3>0 DEF Nested
    <3>3. \/ \E y : calls' = PushTwo(calls, x, y)
          \/ stack' = Updated(stack, "SPK", RemoveItems(l, f))
      BY <1>0, <1>3, <2>6, <3>0 DEF ReleaseStep, Return, PushTwo, Updated
    <3>4. stack' = Updated(stack, "SPK", RemoveItems(l, f))  BY <2>2, <3>2, <3>3
    <3>5. stack \in [Resource -> Seq(Focus)] /\ "SPK" \in Resource
      BY <2>1, PolicyFacts DEF Lists
    <3>6. RemoveItems(l, f) # <<>>  BY <3>4, <3>5 DEF Updated
    <3>7. List(l, "SPK") /\ AsrFirst(l, "SPK")  BY <2>1, <3>0, ListsFacts
    <3>8. l # <<>>  BY <3>6, <3>7, ListWithdrawn
    <3> QED  BY <2>3, <3>0, <3>1, <3>8 DEF Nested
  <2>7. CASE ReleasedStep
    <3>0. PICK l : l = stack["SPK"]  OBVIOUS
    <3>1. calls[1][1] = "released"  BY <2>7 DEF ReleasedStep, Running
    <3>2. Waiting(calls[1], stack)
      <4>1. Nesting(calls, stack, focused["SPK"])  BY DEF IndInv
      <4> QED  BY <1>1, <2>1, <3>1, <4>1, TopCall DEF InHandOver
    <3>3. ~On(f, l)  BY <1>0, <1>3, <3>0, <3>1, <3>2 DEF Waiting
    <3>4. UnfocusAnswers(f) = {"REMOVE"}  BY DEF UnfocusAnswers
    <3>5. /\ stack' = Updated(stack, "SPK", l)
          /\ l # <<>> /\ Head(l) # f =>
                calls' = PushOne(calls, <<"focus", Head(l), "SPK", "release">>)
      BY <1>0, <1>3, <2>7, <3>0, <3>4 DEF ReleasedStep, Return, PushOne, Unfocused, Updated
    <3>6. stack \in [Resource -> Seq(Focus)] /\ "SPK" \in Resource
      BY <2>1, PolicyFacts DEF Lists
    <3>7. l # <<>>  BY <3>5, <3>6 DEF Updated
    <3>8. List(l, "SPK") /\ AsrFirst(l, "SPK")  BY <2>1, <3>0, ListsFacts
    <3>9. Head(l) # f
      <4>1. On(Head(l), l)  BY <3>7, <3>8, ListTop
      <4> QED  BY <3>3, <4>1
    <3>10. PICK x : x = <<"focus", Head(l), "SPK", "release">>  OBVIOUS
    <3>11. x[1] \in Nested /\ x[3] = "SPK"  BY <3>10 DEF Nested
    <3>12. calls' = PushOne(calls, x)  BY <3>5, <3>7, <3>9, <3>10
    <3> QED  BY <2>2, <3>11, <3>12
  <2> QED  BY <2>4, <2>5, <2>6, <2>7
<1> QED  BY <1>2, <1>3

\* An onFocus() callback tells its listener, whom nobody makes fail.
LEMMA FocusServed ==
    ASSUME IndInv, CanFail = {},
           Served(calls, stack, focused["SPK"]),
           \/ AsrFocusMic \/ AsrFocusSpk \/ KwdFocus \/ ExpectFocus \/ TtsFocus \/ AudioFocus
    PROVE  Served(calls', stack', focused'["SPK"])
<1>0. PICK f, r, o : f = calls[1][2] /\ r = calls[1][3] /\ o = focused["SPK"]
  OBVIOUS
<1>1. calls # <<>> /\ calls[1][1] = "focus"
  BY DEF AsrFocusMic, AsrFocusSpk, KwdFocus, ExpectFocus, TtsFocus, AudioFocus, Running
<1>2. /\ calls[1] \in Call /\ calls \in Seq(Call)
      /\ focused \in [Resource -> SUBSET Focus]
  BY <1>1, MainFacts
<1>3. r \in {"MIC", "SPK"} /\ f \in Users(r)  BY <1>0, <1>1, <1>2, CallFacts
<1>4. Told(f, r) /\ stack' = stack
  <2>1. CASE AsrFocusMic \/ AsrFocusSpk \/ KwdFocus \/ ExpectFocus \/ TtsFocus
    BY <1>0, <2>1 DEF AsrFocusMic, AsrFocusSpk, KwdFocus, ExpectFocus, TtsFocus
  <2>2. CASE AudioFocus
    <3>1. FocusAnswers("cap_audio") = {"OK"}  BY DEF FocusAnswers
    <3> QED  BY <1>0, <2>2, <3>1 DEF AudioFocus
  <2> QED  BY <2>1, <2>2
<1>5. focused'["SPK"] = IF r = "SPK" THEN o \cup {f} ELSE o
  BY <1>0, <1>2, <1>3, <1>4, OwnersTold
<1>6. CASE r = "SPK"  BY <1>5, <1>6 DEF Served
<1>7. CASE r # "SPK"
  <2>1. Returned(calls, calls')
    <3>1. CASE AsrFocusMic
      <4>1. PICK cs \in PlainCalls : calls' = Push(calls, cs)  BY <3>1, AsrFocusCalls
      <4> QED  BY <4>1 DEF Returned
    <3>2. CASE AsrFocusSpk \/ KwdFocus \/ TtsFocus \/ AudioFocus
      BY <3>2 DEF AsrFocusSpk, KwdFocus, TtsFocus, AudioFocus, Return, Pop, Returned
    <3>3. CASE ExpectFocus
      <4>1. calls' = PushOne(calls, Request("asr", "MIC"))
        BY <3>3 DEF ExpectFocus, Return, StartRecognition, PushOne
      <4> QED  BY <4>1 DEF Returned
    <3> QED  BY <3>1, <3>2, <3>3
  <2> QED  BY <1>0, <1>1, <1>4, <1>5, <1>7, <2>1, ServedSame
<1> QED  BY <1>6, <1>7

\* An onUnfocus() callback returns to the request or release that called it.
LEMMA UnfocusServed ==
    ASSUME IndInv, IndInv', Served(calls, stack, focused["SPK"]),
           AsrUnfocusMic \/ AsrUnfocusSpk \/ KwdUnfocus \/ SpeakerUnfocus
    PROVE  Served(calls', stack', focused'["SPK"])
<1>0. PICK f, r, o, h : /\ f = calls[1][2] /\ r = calls[1][3]
                        /\ o = focused["SPK"] /\ h = calls[2]
  OBVIOUS
<1>1. /\ calls # <<>> /\ calls[1][1] = "unfocus"
      /\ Lost(f, r) /\ stack' = stack
  BY <1>0 DEF AsrUnfocusMic, AsrUnfocusSpk, KwdUnfocus, SpeakerUnfocus, Running
<1>2. /\ calls[1] \in Call /\ calls \in Seq(Call) /\ Nesting(calls, stack, o)
      /\ focused \in [Resource -> SUBSET Focus]
  BY <1>0, <1>1, MainFacts
<1>3. r \in {"MIC", "SPK"} /\ f \in Users(r)  BY <1>0, <1>1, <1>2, CallFacts
<1>4. Below(calls, 2) /\ Waiting(h, stack) /\ r = h[3]
  <2>1. InUnfocus(calls, stack, o)  BY <1>1, <1>2, TopCall
  <2> QED  BY <1>0, <2>1 DEF InUnfocus
<1>5. h[1] \in Nested  BY <1>4 DEF Waiting, HandOver, Nested
<1>6. calls' \in Seq(Call)  BY DEF IndInv, Types
<1>7. CASE AsrUnfocusSpk
  <2>0. PICK c, x, y : c = calls /\ x = Request("kwd", "MIC") /\ y = <<"reset_expect">>
    OBVIOUS
  <2>1. calls' = PushTwo(c, x, y)  BY <1>7, <2>0, AsrUnfocusCalls
  <2>2. x \in Call /\ y \in Call
    <3>1. "kwd" \in Users("MIC")  BY DEF Users
    <3> QED  BY <2>0, <3>1, CallsMade DEF Request
  <2>3. c \in Seq(Call) /\ c # <<>> /\ Below(c, 2)  BY <1>1, <1>2, <1>4, <2>0
  <2>4. Below(PushTwo(c, x, y), 3)  BY <2>2, <2>3, ReturnTwo
  <2>5. PushTwo(c, x, y)[3] = c[2]  BY <2>2, <2>3, ReturnTwo
  <2>6. r = "SPK"  BY <1>0, <1>7 DEF AsrUnfocusSpk
  <2>7. Below(calls', 3) /\ calls'[3] = h  BY <1>0, <2>0, <2>1, <2>4, <2>5
  <2>8. ~SpkQuiet(calls')  BY <1>4, <1>5, <1>6, <2>6, <2>7, NotQuiet
  <2> QED  BY <2>8 DEF Served
<1>8. CASE AsrUnfocusMic \/ KwdUnfocus \/ SpeakerUnfocus
  <2>1. calls' = Pop(calls)
    BY <1>8 DEF AsrUnfocusMic, KwdUnfocus, SpeakerUnfocus, Return, Pop
  <2>2. CASE r = "SPK"
    <3>1. Below(calls', 1) /\ calls'[1] = h  BY <1>0, <1>1, <1>2, <1>4, <2>1, ReturnNone
    <3>2. ~SpkQuiet(calls')  BY <1>4, <1>5, <1>6, <2>2, <3>1, NotQuiet
    <3> QED  BY <3>2 DEF Served
  <2>3. CASE r # "SPK"
    <3>1. focused'["SPK"] = o  BY <1>0, <1>1, <1>2, <1>3, <2>3, OwnersTold
    <3>2. Returned(calls, calls')  BY <2>1 DEF Returned
    <3> QED  BY <1>0, <1>1, <2>3, <3>1, <3>2, ServedSame
  <2> QED  BY <2>2, <2>3
<1> QED  BY <1>7, <1>8

\* The steps that neither ask nor tell a listener.
LEMMA OtherServed ==
    ASSUME IndInv, Served(calls, stack, focused["SPK"]),
           \/ ResetExpectStep \/ OnListeningState \/ OnWakeupState \/ AgentStep
           \/ ResumeStep \/ Dispatch \/ Asr \/ Kwd \/ Environment \/ UNCHANGED vars
    PROVE  Served(calls', stack', focused'["SPK"])
<1>1. CASE ResetExpectStep \/ ResumeStep
  <2>1. /\ calls # <<>> /\ calls[1][1] \in {"reset_expect", "resume"}
        /\ calls' = Pop(calls) /\ stack' = stack /\ focused' = focused
    BY <1>1 DEF ResetExpectStep, ResumeStep, Running, Return, Pop, focusVars
  <2>2. Returned(calls, calls')  BY <2>1 DEF Returned
  <2>3. calls[1][1] \notin Nested  BY <2>1 DEF Nested
  <2> QED  BY <2>1, <2>2, <2>3, ServedSame
<1>2. CASE OnListeningState \/ OnWakeupState \/ AgentStep \/ UserStopped
  <2>1. /\ calls # <<>>
        /\ calls[1][1] \in {"handle", "prev_state", "start_timer", "user_stopped"}
        /\ stack' = stack /\ focused' = focused
        /\ \E cs \in PlainCalls : calls' = Push(calls, cs)
    BY <1>2, HandlerCalls, TameFacts DEF focusVars
  <2>2. Returned(calls, calls')  BY <2>1 DEF Returned
  <2>3. calls[1][1] \notin Nested  BY <2>1 DEF Nested
  <2> QED  BY <2>1, <2>2, <2>3, ServedSame
<1>3. CASE Dispatch
  <2>1. calls = <<>> /\ stack' = stack /\ focused' = focused
    BY <1>3 DEF Dispatch, focusVars
  <2> QED  BY <2>1, ServedSame
<1>4. CASE Environment /\ ~UserStopped
  <2>1. calls = <<>> /\ stack' = stack /\ focused' = focused
    BY <1>4, InputCalls DEF focusVars
  <2> QED  BY <2>1, ServedSame
<1>5. CASE Asr
  <2>1. calls' = calls /\ stack' = stack /\ focused' = focused
    BY <1>5
    DEF Asr, AsrStep, AsrWait, AsrWoken, AsrLoop, AsrStopped, AsrDone, AsrSpurious,
        AsrBreak, AsrFrame, AsrEndPoint, AsrGoto, AsrSend, AsrAt, focusVars
  <2> QED  BY <2>1, ServedSame
<1>6. CASE Kwd
  <2>1. calls' = calls /\ stack' = stack /\ focused' = focused
    BY <1>6
    DEF Kwd, KwdStep, KwdWait, KwdWoken, KwdLoop, KwdStopped, KwdClear, KwdDone,
        KwdSpurious, KwdBreak, KwdFrame, KwdGoto, KwdSend, KwdAt, focusVars
  <2> QED  BY <2>1, ServedSame
<1>7. CASE UNCHANGED vars
  <2>1. calls' = calls /\ stack' = stack /\ focused' = focused
    BY <1>7 DEF vars, focusVars
  <2> QED  BY <2>1, ServedSame
<1> QED  BY <1>1, <1>2, <1>3, <1>4, <1>5, <1>6, <1>7

\* However the callbacks of asr, kwd, expect, cap_tts and cap_audio nest, a
\* speaker that nobody fails to take or pauses is never left without an owner
\* while somebody is on its list.
THEOREM VoiceSpeakerServed ==
    ASSUME CanFail = {}, CanPause = {}
    PROVE  Spec => []SpeakerServed
<1> DEFINE Inv == IndInv /\ Served(calls, stack, focused["SPK"])
<1>1. Init => Inv
  <2>1. Init => Served(calls, stack, focused["SPK"])
    BY PolicyFacts DEF Init, Served
  <2> QED  BY <2>1, VoiceInit
<1>2. Inv /\ [Next]_vars => Inv'
  <2> SUFFICES ASSUME IndInv, Served(calls, stack, focused["SPK"]), [Next]_vars
               PROVE  IndInv' /\ Served(calls', stack', focused'["SPK"])
    OBVIOUS
  <2>1. IndInv'  BY VoiceStep
  <2>2. CASE RequestStep \/ StolenStep \/ ReleaseStep \/ ReleasedStep
    BY <2>1, <2>2, SpeakerServedStep
  <2>3. CASE \/ AsrFocusMic \/ AsrFocusSpk \/ KwdFocus \/ ExpectFocus \/ TtsFocus
             \/ AudioFocus
    BY <2>1, <2>3, FocusServed
  <2>4. CASE AsrUnfocusMic \/ AsrUnfocusSpk \/ KwdUnfocus \/ SpeakerUnfocus
    BY <2>1, <2>4, UnfocusServed
  <2>5. CASE \/ ResetExpectStep \/ OnListeningState \/ OnWakeupState \/ AgentStep
             \/ ResumeStep \/ Dispatch \/ Asr \/ Kwd \/ Environment \/ UNCHANGED vars
    BY <2>1, <2>5, OtherServed
  <2> QED  BY <2>2, <2>3, <2>4, <2>5 DEF Next, Main
<1>3. Inv => SpeakerServed
  BY DEF SpeakerServed, Served, SpkQuiet
<1> QED  BY <1>1, <1>2, <1>3, PTL DEF Spec

============================================================================
