----------------------- MODULE VoiceRecognizerProofs -----------------------
(***************************************************************************)
(* Proofs of what the nested focus callbacks keep true of the speech       *)
(* recognizer.                                                             *)
(*                                                                         *)
(* First, the wakeup detector and the recognizer are never both switched   *)
(* on.  Each is started by a focus callback and stopped by an unfocus      *)
(* callback, and asr is started by the callback for the speaker but        *)
(* stopped by the one for the microphone, so the argument follows the      *)
(* microphone's list l, the pending calls c and the two flags through the  *)
(* nested callbacks.                                                       *)
(*                                                                         *)
(* Second, is_handle and the item of "expect" on the speaker's list agree  *)
(* whenever the main loop is idle.  That needs the first result: because   *)
(* asr does not keep the microphone without the speaker (Holds), a speech  *)
(* that is expected goes through the phases of Track, each of which is one *)
(* shape of the pending calls and of the top of the speaker's list l.      *)
(***************************************************************************)
EXTENDS VoiceSessionProofs

\* kwd, the most urgent focus, is on the top of the microphone's list or not
\* on it at all.
KwdFirst(l) == On("kwd", l) => Head(l) = "kwd"

\* What may lie above the request that asr makes for the speaker when it was
\* told that it owns the microphone: nothing that gives the microphone back.
Above(x) ==
    \/ x[1] \in {"request", "stolen", "focus", "unfocus", "reset_expect"}
    \/ x[1] \in {"release", "released"} /\ x[2] = "expect"

\* While asr is about to be told that it owns the speaker, it is on the
\* microphone's list.
AsrComes(c, l) ==
    \A i \in 1..Len(c) :
       Coming(c[i]) => On("asr", l) /\ \A j \in 1..Len(c) : j < i => Above(c[j])

\* The topmost call is op(f) for the microphone.
Mic(c, op, f) == c # <<>> /\ c[1][1] = op /\ c[1][2] = f /\ c[1][3] = "MIC"

\* Who is called back is alone on the list, and kwd finds the recognizer off.
ToldAlone(c, l, asr) ==
    \A f : Mic(c, "focus", f) =>
              On(f, l) /\ (\A g : On(g, l) => g = f) /\ (f = "kwd" => ~asr)

\* A running wakeup detector has the list for itself, until it is called back.
KwdAlone(c, l, asr, kwd) ==
    kwd => ~asr /\ ~On("asr", l) /\ (On("kwd", l) \/ Mic(c, "unfocus", "kwd"))

\* The recognizer may run while nobody is on the list only as long as asr is
\* called back, or as kwd gives way and asr requests at once.
AsrLeaving(c) ==
    \/ Mic(c, "unfocus", "asr")
    \/ Mic(c, "unfocus", "kwd") /\ 3 <= Len(c) /\ c[3] = Request("asr", "MIC")
    \/ Mic(c, "released", "kwd") /\ 2 <= Len(c) /\ c[2] = Request("asr", "MIC")
    \/ Mic(c, "request", "asr")

TopInv(c, l, asr, kwd) ==
    /\ ToldAlone(c, l, asr)
    /\ KwdAlone(c, l, asr, kwd)
    /\ Mic(c, "stolen", "asr") => ~kwd
    /\ Mic(c, "released", "asr") => ~asr
    /\ asr /\ l = <<>> => AsrLeaving(c)

RecInv(c, l, asr, kwd) ==
    KwdFirst(l) /\ Tidy(c) /\ AsrComes(c, l) /\ TopInv(c, l, asr, kwd)

----------------------------------------------------------------------------
(***************************************************************************)
(* The pending calls after a return.                                       *)
(***************************************************************************)

\* A call x that a step may make when it returns from c[1] with list m.
Fits(x, c, m) ==
    /\ Above(c[1]) => Above(x)
    /\ Coming(x) => Above(c[1]) /\ On("asr", m)

\* Return(cs), where the list l becomes m.
LEMMA CallsReturn ==
    ASSUME NEW c \in Seq(Call), c # <<>>, NEW cs \in Seq(Call), NEW d, d = Push(c, cs),
           NEW l, NEW m, Tidy(c), AsrComes(c, l), Tidy(cs),
           Above(c[1]) /\ On("asr", l) => On("asr", m),
           \A k \in 1..Len(cs) : Fits(cs[k], c, m)
    PROVE  Tidy(d) /\ AsrComes(d, m)
<1>1. /\ Len(c) \in Nat \ {0} /\ Len(cs) \in Nat
      /\ Len(d) = Len(cs) + Len(c) - 1
      /\ \A i \in 1..Len(cs) : d[i] = cs[i]
      /\ \A i \in 2..Len(c) : d[Len(cs) + i - 1] = c[i]
      /\ \A i \in (Len(cs) + 1)..(Len(cs) + Len(c) - 1) :
            i - Len(cs) + 1 \in 2..Len(c) /\ d[i] = c[i - Len(cs) + 1]
  BY ReturnFacts DEF Push
<1>2. ASSUME NEW i \in 1..Len(d)
      PROVE  \/ i \in 1..Len(cs) /\ d[i] = cs[i]
             \/ \E k \in 2..Len(c) : i = Len(cs) + k - 1 /\ d[i] = c[k]
  <2>1. CASE i <= Len(cs)  BY <1>1, <2>1
  <2>2. CASE ~(i <= Len(cs))
    <3>0. PICK k : k = i - Len(cs) + 1  OBVIOUS
    <3>1. i \in (Len(cs) + 1)..(Len(cs) + Len(c) - 1)  BY <1>1, <2>2
    <3>2. k \in 2..Len(c) /\ d[i] = c[k]  BY <1>1, <3>0, <3>1
    <3>3. i = Len(cs) + k - 1  BY <1>1, <3>0
    <3> QED  BY <3>2, <3>3
  <2> QED  BY <2>1, <2>2
<1>3. Tidy(d)
  <2> SUFFICES ASSUME NEW i \in 1..Len(d)
               PROVE  /\ d[i] = Release("kwd", "MIC") =>
                            i + 1 <= Len(d) /\ d[i + 1] = Request("asr", "MIC")
                      /\ d[i][1] = "stolen" /\ d[i][3] = "MIC" =>
                            d[i][2] = "asr" /\ d[i][4] = "kwd"
    BY DEF Tidy
  <2>1. CASE i \in 1..Len(cs) /\ d[i] = cs[i]
    <3>1. i + 1 <= Len(cs) => i + 1 <= Len(d) /\ d[i + 1] = cs[i + 1]
      <4>1. i + 1 <= Len(cs) => i + 1 \in 1..Len(cs) /\ i + 1 <= Len(d)  BY <1>1, <2>1
      <4> QED  BY <1>1, <4>1
    <3> QED  BY <2>1, <3>1 DEF Tidy
  <2>2. CASE \E k \in 2..Len(c) : i = Len(cs) + k - 1 /\ d[i] = c[k]
    <3>1. PICK k \in 2..Len(c) : i = Len(cs) + k - 1 /\ d[i] = c[k]  BY <2>2
    <3>2. k + 1 <= Len(c) => i + 1 <= Len(d) /\ d[i + 1] = c[k + 1]
      <4>1. k + 1 <= Len(c) =>
               k + 1 \in 2..Len(c) /\ i + 1 <= Len(d) /\ Len(cs) + (k + 1) - 1 = i + 1
        BY <1>1, <3>1
      <4> QED  BY <1>1, <4>1
    <3>3. k \in 1..Len(c)  BY <1>1, <3>1
    <3> QED  BY <3>1, <3>2, <3>3 DEF Tidy
  <2> QED  BY <1>2, <2>1, <2>2
<1>4. AsrComes(d, m)
  <2> SUFFICES ASSUME NEW i \in 1..Len(d), Coming(d[i])
               PROVE  On("asr", m) /\ \A j \in 1..Len(d) : j < i => Above(d[j])
    BY DEF AsrComes
  <2>1. CASE i \in 1..Len(cs) /\ d[i] = cs[i]
    <3>1. Above(c[1]) /\ On("asr", m)  BY <2>1 DEF Fits
    <3>2. ASSUME NEW j \in 1..Len(d), j < i PROVE Above(d[j])
      <4>1. j \in 1..Len(cs)  BY <1>1, <2>1, <3>2
      <4>2. d[j] = cs[j]  BY <1>1, <4>1
      <4> QED  BY <3>1, <4>1, <4>2 DEF Fits
    <3> QED  BY <3>1, <3>2
  <2>2. CASE \E k \in 2..Len(c) : i = Len(cs) + k - 1 /\ d[i] = c[k]
    <3>1. PICK k \in 2..Len(c) : i = Len(cs) + k - 1 /\ d[i] = c[k]  BY <2>2
    <3>2. k \in 1..Len(c) /\ 1 \in 1..Len(c) /\ 1 < k  BY <1>1, <3>1
    <3>3. On("asr", l) /\ \A j \in 1..Len(c) : j < k => Above(c[j])
      BY <3>1, <3>2 DEF AsrComes
    <3>4. Above(c[1]) /\ On("asr", m)  BY <3>2, <3>3
    <3>5. ASSUME NEW j \in 1..Len(d), j < i PROVE Above(d[j])
      <4>1. CASE j \in 1..Len(cs) /\ d[j] = cs[j]  BY <3>4, <4>1 DEF Fits
      <4>2. CASE \E n \in 2..Len(c) : j = Len(cs) + n - 1 /\ d[j] = c[n]
        <5>1. PICK n \in 2..Len(c) : j = Len(cs) + n - 1 /\ d[j] = c[n]  BY <4>2
        <5>2. n \in 1..Len(c) /\ n < k  BY <1>1, <3>1, <3>5, <5>1
        <5> QED  BY <3>3, <5>1, <5>2
      <4> QED  BY <1>2, <4>1, <4>2
    <3> QED  BY <3>4, <3>5
  <2> QED  BY <1>2, <2>1, <2>2
<1> QED  BY <1>3, <1>4

\* A call that does not give the microphone back for kwd, nor takes it from
\* anyone but kwd.
Calm(x) ==
    /\ x # Release("kwd", "MIC")
    /\ x[1] = "stolen" /\ x[3] = "MIC" => x[2] = "asr" /\ x[4] = "kwd"

\* A return with no call, one call, two calls, and from a handler.
LEMMA CallsAfter ==
    ASSUME NEW c \in Seq(Call), c # <<>>, NEW l, NEW m, Tidy(c), AsrComes(c, l),
           Above(c[1]) /\ On("asr", l) => On("asr", m)
    PROVE  /\ Tidy(Pop(c)) /\ AsrComes(Pop(c), m)
           /\ \A x \in Call : Calm(x) /\ Fits(x, c, m) =>
                 Tidy(PushOne(c, x)) /\ AsrComes(PushOne(c, x), m)
           /\ \A x, y \in Call :
                 Calm(x) /\ Calm(y) /\ Fits(x, c, m) /\ Fits(y, c, m) =>
                    Tidy(PushTwo(c, x, y)) /\ AsrComes(PushTwo(c, x, y), m)
           /\ \A cs \in TameCalls : ~Above(c[1]) =>
                 Tidy(Push(c, cs)) /\ AsrComes(Push(c, cs), m)
<1>1. Tidy(Pop(c)) /\ AsrComes(Pop(c), m)
  <2>1. PICK e : e = <<>>  OBVIOUS
  <2>2. e \in Seq(Call) /\ Len(e) = 0 /\ Pop(c) = Push(c, e)
    BY <2>1, EmptySeq DEF Pop, Push
  <2>3. Tidy(e) /\ \A k \in 1..Len(e) : Fits(e[k], c, m)  BY <2>2 DEF Tidy
  <2> QED  BY <2>2, <2>3, CallsReturn
<1>2. ASSUME NEW x \in Call, Calm(x), Fits(x, c, m)
      PROVE  Tidy(PushOne(c, x)) /\ AsrComes(PushOne(c, x), m)
  <2>1. PICK e : e = <<x>>  OBVIOUS
  <2>2. e \in Seq(Call) /\ Len(e) = 1 /\ e[1] = x /\ PushOne(c, x) = Push(c, e)
    BY <2>1 DEF PushOne, Push
  <2>3. Tidy(e) /\ \A k \in 1..Len(e) : Fits(e[k], c, m)
    BY <1>2, <2>2 DEF Tidy, Calm
  <2> QED  BY <2>2, <2>3, CallsReturn
<1>3. ASSUME NEW x \in Call, NEW y \in Call,
             Calm(x), Calm(y), Fits(x, c, m), Fits(y, c, m)
      PROVE  Tidy(PushTwo(c, x, y)) /\ AsrComes(PushTwo(c, x, y), m)
  <2>1. PICK e : e = <<x, y>>  OBVIOUS
  <2>2. /\ e \in Seq(Call) /\ Len(e) = 2 /\ e[1] = x /\ e[2] = y
        /\ PushTwo(c, x, y) = Push(c, e)
    BY <2>1 DEF PushTwo, Push
  <2>3. \A k \in 1..Len(e) : k = 1 \/ k = 2  BY <2>2
  <2>4. Tidy(e)  BY <1>3, <2>2, <2>3 DEF Tidy, Calm
  <2>5. \A k \in 1..Len(e) : Fits(e[k], c, m)  BY <1>3, <2>2, <2>3
  <2> QED  BY <2>2, <2>4, <2>5, CallsReturn
<1>4. ASSUME NEW cs \in TameCalls, ~Above(c[1])
      PROVE  Tidy(Push(c, cs)) /\ AsrComes(Push(c, cs), m)
  <2>1. cs \in Seq(Call) /\ Tidy(cs) /\ \A i \in 1..Len(cs) : ~Coming(cs[i])
    BY DEF TameCalls, PlainCalls
  <2>2. \A k \in 1..Len(cs) : Fits(cs[k], c, m)  BY <1>4, <2>1 DEF Fits
  <2> QED  BY <2>1, <2>2, CallsReturn
<1> QED  BY <1>1, <1>2, <1>3, <1>4

----------------------------------------------------------------------------
(***************************************************************************)
(* Steps that do not concern the microphone.                               *)
(***************************************************************************)

\* No callback about the microphone is the topmost call.
Away(c) == c # <<>> /\ c[1][1] \in Nested => c[1][3] # "MIC"

\* The topmost call is none that excuses a running wakeup detector or speech
\* recognizer off the list.
Neutral(c) == ~Mic(c, "unfocus", "kwd") /\ ~AsrLeaving(c)

\* The microphone's list stays, and nobody is started.
LEMMA TopOther ==
    ASSUME NEW c, NEW d, NEW l, NEW asr, NEW kwd, NEW asr2, NEW kwd2,
           TopInv(c, l, asr, kwd), asr2 => asr, kwd2 => kwd, Neutral(c), Away(d)
    PROVE  TopInv(d, l, asr2, kwd2)
<1>1. KwdAlone(d, l, asr2, kwd2)  BY DEF TopInv, KwdAlone, Neutral
<1>2. \A op \in Nested : \A f : ~Mic(d, op, f)  BY DEF Away, Mic
<1>3. ToldAlone(d, l, asr2)  BY <1>2 DEF ToldAlone, Nested
<1>4. ~Mic(d, "stolen", "asr") /\ ~Mic(d, "released", "asr")  BY <1>2 DEF Nested
<1>5. asr2 /\ l = <<>> => AsrLeaving(d)  BY DEF TopInv, Neutral
<1> QED  BY <1>1, <1>3, <1>4, <1>5 DEF TopInv

\* What is not a callback about the microphone.
LEMMA AwayFacts ==
    ASSUME NEW c \in Seq(Call)
    PROVE  /\ Below(c, 0) => Away(c)
           /\ c # <<>> => (c[1][1] \notin Nested \/ c[1][3] # "MIC" <=> Away(c))
<1>1. ASSUME Below(c, 0) PROVE Away(c)
  <2>1. ASSUME c # <<>> PROVE c[1][1] \notin Nested
    <3>1. Len(c) \in Nat \ {0}  BY <2>1, LenProperties, EmptySeq
    <3>2. 1 \in (0 + 1)..Len(c)  BY <3>1
    <3> QED  BY <1>1, <3>2 DEF Below
  <2> QED  BY <2>1 DEF Away
<1>2. c # <<>> => (c[1][1] \notin Nested \/ c[1][3] # "MIC" <=> Away(c))  BY DEF Away
<1> QED  BY <1>1, <1>2

----------------------------------------------------------------------------
(***************************************************************************)
(* What the focus manager does to the microphone's list.                   *)
(***************************************************************************)

\* Only asr takes the microphone away, and only from kwd; asr refuses it to
\* itself; kwd comes first.
LEMMA MicPolicy ==
    /\ Users("MIC") = {"kwd", "asr"} /\ Users("MIC") \subseteq Focus
    /\ \A h, f \in Users("MIC") : ~Refused(h, "MIC", f) <=> h = "kwd" /\ f = "asr"
    /\ \A f \in Users("MIC") : Type["kwd"] <= Type[f]
<1>1. Users("MIC") = {"kwd", "asr"} /\ Users("MIC") \subseteq Focus
  BY PolicyFacts DEF Users
<1>2. Priority["kwd"] = 0 /\ Priority["asr"] = 1  BY DEF Priority
<1>3. ASSUME NEW h \in Users("MIC"), NEW f \in Users("MIC")
      PROVE  ~Refused(h, "MIC", f) <=> h = "kwd" /\ f = "asr"
  <2>1. <<h, "MIC", f>> \in Focus \X Resource \X Focus  BY <1>1, PolicyFacts
  <2>2. Refused(h, "MIC", f) <=> RefusesSteal(h, "MIC", f)
    BY <2>1, VoiceAssumption DEF Refused, PolicyRejects
  <2>3. RefusesSteal(h, "MIC", f) <=> ~(h = "kwd" /\ f = "asr")
    BY <1>1, <1>2 DEF RefusesSteal, KwdRefuses, AsrRefuses, TtsRefuses
  <2> QED  BY <2>2, <2>3
<1>4. Type["kwd"] = 0 /\ Type["asr"] = 1  BY <1>1, <1>2, VoiceAssumption
<1>5. \A f \in Users("MIC") : Type["kwd"] <= Type[f]  BY <1>1, <1>4
<1> QED  BY <1>1, <1>3, <1>5

\* Who may be on the list.
LEMMA MicList ==
    ASSUME NEW l, List(l, "MIC")
    PROVE  /\ \A g : On(g, l) => g = "kwd" \/ g = "asr"
           /\ l # <<>> => Head(l) \in Users("MIC") /\ On(Head(l), l)
           /\ l = <<>> => \A g : ~On(g, l)
<1>1. l \in Seq(Users("MIC")) /\ Distinct(l)  BY DEF List
<1>2. ASSUME NEW g, On(g, l) PROVE g = "kwd" \/ g = "asr"
  <2>1. PICK i \in 1..Len(l) : l[i] = g  BY <1>2 DEF On
  <2>2. l[i] \in Users("MIC")  BY <1>1, ElementOfSeq
  <2> QED  BY <2>1, <2>2, MicPolicy
<1>3. l # <<>> => Head(l) \in Users("MIC") /\ On(Head(l), l)  BY <1>1, ListTail
<1>4. l = <<>> => \A g : ~On(g, l)  BY DEF On
<1> QED  BY <1>2, <1>3, <1>4

\* A refused request is reserved.
LEMMA MicReserved ==
    ASSUME NEW l, List(l, "MIC"), KwdFirst(l), l # <<>>, NEW f \in Users("MIC"),
           Refused(Head(l), "MIC", f), NEW t, t = Reserved(l, f)
    PROVE  /\ KwdFirst(t) /\ t # <<>>
           /\ \A g : On(g, t) <=> On(g, l) \/ g = f
           /\ f = "asr" => On("asr", l)
<1> DEFINE U == Users("MIC")
           u == RemoveItems(l, f)
<1>0. l \in Seq(U) /\ Distinct(l) /\ U \subseteq Focus /\ f \in U
  BY MicPolicy DEF List
<1>a. t = InsertByPriority(u, f)  BY DEF Reserved
<1> HIDE DEF U
<1>1. /\ u \in Seq(U) /\ Distinct(u)
      /\ \A g : On(g, u) <=> On(g, l) /\ g # f
  BY <1>0, ListRemoved
<1> HIDE DEF u
<1>2. /\ t # <<>> /\ \A g : On(g, t) <=> On(g, u) \/ g = f
      /\ (\A g : On(g, u) => Type[f] <= Type[g]) => Head(t) = f
  BY <1>0, <1>1, <1>a, ListInserted
<1>3. \A g : On(g, t) <=> On(g, l) \/ g = f  BY <1>1, <1>2
<1>4. Head(l) \in Users("MIC") /\ On(Head(l), l)  BY MicList
<1>5. f = "asr" => Head(l) = "asr"  BY <1>4, MicPolicy
<1>6. KwdFirst(t)
  <2>1. CASE f = "kwd"
    <3>1. \A g : On(g, u) => g \in Users("MIC")  BY <1>1, MicList, MicPolicy
    <3>2. \A g : On(g, u) => Type[f] <= Type[g]  BY <2>1, <3>1, MicPolicy
    <3> QED  BY <1>2, <2>1, <3>2 DEF KwdFirst
  <2>2. CASE f = "asr"  BY <1>3, <1>5, <2>2 DEF KwdFirst
  <2> QED  BY <2>1, <2>2, MicPolicy
<1> QED  BY <1>2, <1>3, <1>4, <1>5, <1>6

\* asr takes the microphone from kwd and is alone on the list.
LEMMA MicTaken ==
    ASSUME NEW l, List(l, "MIC"), NEW answer \in UnfocusAnswers("kwd"),
           NEW t, t = Taken(l, "kwd", answer, "asr")
    PROVE  t # <<>> /\ \A g : On(g, t) <=> g = "asr"
<1> DEFINE U == Users("MIC")
           u == RemoveItems(l, "kwd")
           w == RemoveItems(u, "asr")
<1>0. l \in Seq(U) /\ Distinct(l) /\ "asr" \in U  BY MicPolicy DEF List
<1>1. t = Prepend(w, "asr")
  <2>1. answer # "PAUSE"  BY UnfocusAnswer
  <2> QED  BY <2>1 DEF Taken, Unfocused
<1>l. \A g : On(g, l) => g = "kwd" \/ g = "asr"  BY MicList
<1> HIDE DEF U
<1>2. /\ u \in Seq(U) /\ Distinct(u)
      /\ \A g : On(g, u) <=> On(g, l) /\ g # "kwd"
  BY <1>0, ListRemoved
<1> HIDE DEF u
<1>3. /\ w \in Seq(U) /\ Distinct(w)
      /\ \A g : On(g, w) <=> On(g, u) /\ g # "asr"
  BY <1>2, ListRemoved
<1> HIDE DEF w
<1>4. t # <<>> /\ \A g : On(g, t) <=> On(g, w) \/ g = "asr"
  BY <1>0, <1>1, <1>3, ListPrepended
<1> QED  BY <1>2, <1>3, <1>4, <1>l

\* A release of an item that is not the top.
LEMMA MicWithdrawn ==
    ASSUME NEW l, List(l, "MIC"), KwdFirst(l), NEW f, l = <<>> \/ Head(l) # f,
           NEW t, t = RemoveItems(l, f)
    PROVE  /\ KwdFirst(t) /\ (l = <<>> <=> t = <<>>)
           /\ \A g : On(g, t) <=> On(g, l) /\ g # f
<1>0. l \in Seq(Users("MIC")) /\ Distinct(l)  BY DEF List
<1>1. /\ \A g : On(g, t) <=> On(g, l) /\ g # f
      /\ l # <<>> /\ Head(l) # f => t # <<>> /\ Head(t) = Head(l)
  BY <1>0, ListRemoved
<1>2. l = <<>> => t = <<>>
  <2>1. AsrFirst(l, "MIC")  BY DEF AsrFirst
  <2> QED  BY <2>1, ListWithdrawn
<1>3. KwdFirst(t)
  <2> SUFFICES ASSUME On("kwd", t) PROVE Head(t) = "kwd"  BY DEF KwdFirst
  <2>1. On("kwd", l) /\ l # <<>>  BY <1>1, MicList
  <2> QED  BY <1>1, <2>1 DEF KwdFirst
<1> QED  BY <1>1, <1>2, <1>3

\* A release of the top.
LEMMA MicTop ==
    ASSUME NEW l, List(l, "MIC"), KwdFirst(l), l # <<>>, NEW t, t = Tail(l)
    PROVE  /\ KwdFirst(t) /\ ~On("kwd", t)
           /\ \A g : On(g, t) <=> On(g, l) /\ g # Head(l)
<1>0. l \in Seq(Users("MIC")) /\ Distinct(l)  BY DEF List
<1>1. \A g : On(g, t) <=> On(g, l) /\ g # Head(l)  BY <1>0, ListTail
<1> QED  BY <1>1 DEF KwdFirst

----------------------------------------------------------------------------
(***************************************************************************)
(* The steps of the focus manager.                                         *)
(***************************************************************************)

Rec == RecInv(calls, stack["MIC"], asr_is_running, kwd_is_running)

\* The invariant after a step, from its parts.
LEMMA RecAfter ==
    ASSUME NEW d, d = calls', NEW m, m = stack'["MIC"],
           KwdFirst(m), Tidy(d), AsrComes(d, m),
           TopInv(d, m, asr_is_running', kwd_is_running')
    PROVE  Rec'
BY DEF Rec, RecInv

\* A step that leaves the microphone's list alone and starts nobody.
LEMMA RecOther ==
    ASSUME Rec, NEW c, c = calls, NEW d, d = calls', stack'["MIC"] = stack["MIC"],
           asr_is_running' => asr_is_running, kwd_is_running' => kwd_is_running,
           Neutral(c), Away(d), Tidy(d), AsrComes(d, stack["MIC"])
    PROVE  Rec'
<1>0. PICK l : l = stack["MIC"]  OBVIOUS
<1>1. KwdFirst(l) /\ TopInv(c, l, asr_is_running, kwd_is_running)
  BY <1>0 DEF Rec, RecInv
<1>2. TopInv(d, l, asr_is_running', kwd_is_running')  BY <1>1, TopOther
<1> QED  BY <1>0, <1>1, <1>2, RecAfter

\* One of the two lists is replaced.
LEMMA OneUpdated ==
    ASSUME Lists(stack), NEW r \in {"MIC", "SPK"}, NEW t, stack' = Updated(stack, r, t)
    PROVE  stack'[r] = t /\ (r = "SPK" => stack'["MIC"] = stack["MIC"])
<1>1. stack \in [Resource -> Seq(Focus)] /\ r \in Resource /\ "MIC" \in Resource
  BY PolicyFacts DEF Lists
<1> QED  BY <1>1 DEF Updated

\* After a return that is not one from an unfocus callback, the topmost call
\* makes no callback about the microphone.
LEMMA PopAway ==
    ASSUME NEW c \in Seq(Call), c # <<>>, NEW s, NEW o, Nesting(c, s, o),
           c[1][1] # "unfocus"
    PROVE  Away(Pop(c))
<1>1. CASE Below(c, 1)
  <2>1. Pop(c) \in Seq(Call) /\ Below(Pop(c), 0)  BY <1>1, ReturnNone
  <2> QED  BY <2>1, AwayFacts
<1>2. CASE InIdle(c, s, o)
  <2>1. Below(c, 3) /\ c[2] = <<"reset_expect">>  BY <1>2 DEF InIdle
  <2>2. Pop(c)[1] = c[2]  BY <2>1, ReturnNone
  <2>3. Pop(c)[1][1] = "reset_expect"  BY <2>1, <2>2
  <2> QED  BY <2>3 DEF Away, Nested
<1>3. CASE InReset(c, s, o)
  <2>1. Below(c, 2) /\ c[2][3] = "SPK"  BY <1>3 DEF InReset, AsrLoses
  <2>2. Pop(c)[1] = c[2]  BY <2>1, ReturnNone
  <2> QED  BY <2>1, <2>2 DEF Away
<1>4. Below(c, 1) \/ InIdle(c, s, o) \/ InReset(c, s, o)
  <2>1. NoCallback(c, s, o) => Below(c, 1)  BY TopCall
  <2>2. CASE c[1][1] \in {"request", "reset_expect"}  BY <2>1, <2>2, TopCall
  <2>3. CASE c[1][1] \in {"stolen", "released", "focus"}
    BY <2>3, TopCall DEF InHandOver, InFocus
  <2>4. CASE c[1][1] \notin Nested \cup {"request", "reset_expect"}  BY <2>1, <2>4, TopCall
  <2> QED  BY <2>2, <2>3, <2>4 DEF Nested
<1> QED  BY <1>1, <1>2, <1>3, <1>4

\* The call behind the topmost one becomes the topmost.
LEMMA PopSecond ==
    ASSUME NEW c \in Seq(Call), c # <<>>, Below(c, 1) \/ Below(c, 2), 2 <= Len(c)
    PROVE  Pop(c) # <<>> /\ Pop(c)[1] = c[2]
<1>0. Len(c) \in Nat  BY LenProperties
<1>1. Below(c, 2)  BY <1>0 DEF Below
<1>2. Below(Pop(c), 1) /\ Pop(c)[1] = c[2]  BY <1>1, ReturnNone
<1>3. Pop(c) # <<>>  BY <1>2 DEF Below
<1> QED  BY <1>2, <1>3

\* The call that a step makes first.
LEMMA PushAway ==
    ASSUME NEW c \in Seq(Call), c # <<>>, NEW x, NEW y
    PROVE  /\ x[1] \notin Nested \/ x[3] # "MIC" =>
                 Away(PushOne(c, x)) /\ Away(PushTwo(c, x, y))
           /\ PushOne(c, x) # <<>> /\ PushOne(c, x)[1] = x
           /\ PushTwo(c, x, y) # <<>> /\ PushTwo(c, x, y)[1] = x
<1>0. PICK d, e : d = PushOne(c, x) /\ e = PushTwo(c, x, y)  OBVIOUS
<1>1. 1 \in 1..Len(d) /\ d[1] = x  BY <1>0, FirstCall
<1>2. 1 \in 1..Len(e) /\ e[1] = x  BY <1>0, FirstCall
<1>3. d # <<>> /\ e # <<>>  BY <1>1, <1>2
<1>4. x[1] \notin Nested \/ x[3] # "MIC" => Away(d) /\ Away(e)  BY <1>1, <1>2 DEF Away
<1> QED  BY <1>0, <1>1, <1>2, <1>3, <1>4

\* The topmost call is another.
LEMMA OtherNeutral ==
    ASSUME NEW c, c[1][3] # "MIC" \/ c[1][1] \notin {"unfocus", "released", "request"}
    PROVE  Neutral(c)
BY DEF Neutral, AsrLeaving, Mic

\* nugu_focus_request(), in these words.
LEMMA RequestShape ==
    ASSUME IndInv, RequestStep, NEW c, c = calls,
           NEW f, f = c[1][2], NEW r, r = c[1][3], NEW l, l = stack[r]
    PROVE  /\ c \in Seq(Call) /\ c # <<>> /\ c[1][1] = "request"
           /\ r \in {"MIC", "SPK"} /\ f \in Users(r) /\ Lists(stack)
           /\ List(l, r) /\ (l # <<>> => Head(l) \in Users(r))
           /\ asr_is_running' = asr_is_running /\ kwd_is_running' = kwd_is_running
           /\ Away(Pop(c))
           /\ \/ /\ l = <<>> /\ stack' = Updated(stack, r, <<f>>)
                 /\ calls' = PushOne(c, <<"focus", f, r, "request">>)
              \/ /\ l # <<>> /\ ~Refused(Head(l), r, f) /\ stack' = stack
                 /\ calls' = PushTwo(c, <<"unfocus", Head(l), r>>,
                                        <<"stolen", f, r, Head(l)>>)
              \/ /\ l # <<>> /\ Refused(Head(l), r, f)
                 /\ stack' = Updated(stack, r, Reserved(l, f))
                 /\ calls' = Pop(c)
<1>1. c # <<>> /\ c[1][1] = "request"  BY DEF RequestStep, Running
<1>2. /\ Lists(stack) /\ c \in Seq(Call) /\ c[1] \in Call
      /\ Nesting(c, stack, focused["SPK"])
  BY <1>1, MainFacts
<1>3. r \in {"MIC", "SPK"} /\ f \in Users(r)  BY <1>1, <1>2, CallFacts
<1>4. asr_is_running' = asr_is_running /\ kwd_is_running' = kwd_is_running
  BY DEF RequestStep, asrVars, kwdVars
<1>5. List(l, r) /\ AsrFirst(l, r)  BY <1>2, <1>3, ListsFacts
<1>6. l # <<>> => Head(l) \in Users(r)  BY <1>3, <1>5, ListTop
<1>7. Away(Pop(c))  BY <1>1, <1>2, PopAway
<1>8. \/ /\ l = <<>> /\ stack' = Updated(stack, r, <<f>>)
         /\ calls' = PushOne(c, <<"focus", f, r, "request">>)
      \/ /\ l # <<>> /\ ~Refused(Head(l), r, f) /\ stack' = stack
         /\ calls' = PushTwo(c, <<"unfocus", Head(l), r>>, <<"stolen", f, r, Head(l)>>)
      \/ /\ l # <<>> /\ Refused(Head(l), r, f)
         /\ stack' = Updated(stack, r, Reserved(l, f))
         /\ calls' = Pop(c)
  BY DEF RequestStep, Return, Updated, Refused, Reserved, PushOne, PushTwo, Pop
<1> QED  BY <1>1, <1>2, <1>3, <1>4, <1>5, <1>6, <1>7, <1>8

\* A request for the speaker.
LEMMA RequestSpkRec ==
    ASSUME IndInv, Rec, RequestStep, calls[1][3] = "SPK"
    PROVE  Rec'
<1>0. PICK c, f, r, l, m : /\ c = calls /\ f = c[1][2] /\ r = c[1][3] /\ l = stack[r]
                           /\ m = stack["MIC"]
  OBVIOUS
<1>1. /\ c \in Seq(Call) /\ c # <<>> /\ c[1][1] = "request"
      /\ r = "SPK" /\ f \in Users(r) /\ Lists(stack)
      /\ (l # <<>> => Head(l) \in Users(r))
      /\ asr_is_running' = asr_is_running /\ kwd_is_running' = kwd_is_running
      /\ Away(Pop(c))
      /\ \/ stack' = Updated(stack, r, <<f>>)
            /\ calls' = PushOne(c, <<"focus", f, r, "request">>)
         \/ /\ l # <<>> /\ stack' = stack
            /\ calls' = PushTwo(c, <<"unfocus", Head(l), r>>, <<"stolen", f, r, Head(l)>>)
         \/ stack' = Updated(stack, r, Reserved(l, f)) /\ calls' = Pop(c)
  BY <1>0, RequestShape
<1>2. stack'["MIC"] = m  BY <1>0, <1>1, OneUpdated
<1>3. Tidy(c) /\ AsrComes(c, m)  BY <1>0 DEF Rec, RecInv
<1>4. Neutral(c)  BY <1>0, <1>1, OtherNeutral
<1>5. Above(c[1])  BY <1>1 DEF Above
<1>6. f = "asr" => On("asr", m)
  <2>1. 1 \in 1..Len(c)
    <3>1. Len(c) \in Nat \ {0}  BY <1>1, LenProperties, EmptySeq
    <3> QED  BY <3>1
  <2> QED  BY <1>0, <1>1, <1>3, <2>1 DEF AsrComes, Coming
<1>7. CASE calls' = PushOne(c, <<"focus", f, r, "request">>)
  <2>0. PICK x : x = <<"focus", f, r, "request">>  OBVIOUS
  <2>1. x \in Call /\ x[1] = "focus" /\ x[2] = f /\ x[3] = "SPK"
    BY <1>1, <2>0, CallsMade
  <2>2. Calm(x) /\ Fits(x, c, m)
    BY <1>5, <1>6, <2>1 DEF Calm, Fits, Above, Coming, Release
  <2>3. Tidy(PushOne(c, x)) /\ AsrComes(PushOne(c, x), m)
    BY <1>1, <1>3, <2>1, <2>2, CallsAfter
  <2>4. Away(PushOne(c, x))  BY <1>1, <2>1, PushAway
  <2> QED  BY <1>0, <1>1, <1>2, <1>4, <1>7, <2>0, <2>3, <2>4, RecOther
<1>8. CASE /\ l # <<>>
           /\ calls' = PushTwo(c, <<"unfocus", Head(l), r>>, <<"stolen", f, r, Head(l)>>)
  <2>0. PICK h, x, y : h = Head(l) /\ x = <<"unfocus", h, r>> /\ y = <<"stolen", f, r, h>>
    OBVIOUS
  <2>1. /\ x \in Call /\ x[1] = "unfocus" /\ x[3] = "SPK"
        /\ y \in Call /\ y[1] = "stolen" /\ y[2] = f /\ y[3] = "SPK"
    BY <1>1, <1>8, <2>0, CallsMade
  <2>2. Calm(x) /\ Fits(x, c, m) /\ Calm(y) /\ Fits(y, c, m)
    BY <1>5, <1>6, <2>1 DEF Calm, Fits, Above, Coming, Release
  <2>3. Tidy(PushTwo(c, x, y)) /\ AsrComes(PushTwo(c, x, y), m)
    BY <1>1, <1>3, <2>1, <2>2, CallsAfter
  <2>4. Away(PushTwo(c, x, y))  BY <1>1, <2>1, PushAway
  <2>5. calls' = PushTwo(c, x, y)  BY <1>8, <2>0
  <2> QED  BY <1>0, <1>1, <1>2, <1>4, <2>3, <2>4, <2>5, RecOther
<1>9. CASE calls' = Pop(c)
  <2>1. Tidy(Pop(c)) /\ AsrComes(Pop(c), m)  BY <1>1, <1>3, CallsAfter
  <2> QED  BY <1>0, <1>1, <1>2, <1>4, <1>9, <2>1, RecOther
<1> QED  BY <1>1, <1>7, <1>8, <1>9

\* A request for the microphone.
LEMMA RequestMicRec ==
    ASSUME IndInv, Rec, RequestStep, calls[1][3] = "MIC"
    PROVE  Rec'
<1>0. PICK c, f, l : c = calls /\ f = c[1][2] /\ l = stack["MIC"]  OBVIOUS
<1>a. PICK asr, kwd : asr = asr_is_running /\ kwd = kwd_is_running  OBVIOUS
<1>1. /\ c \in Seq(Call) /\ c # <<>> /\ c[1][1] = "request" /\ c[1][3] = "MIC"
      /\ f \in Users("MIC") /\ Lists(stack) /\ List(l, "MIC")
      /\ (l # <<>> => Head(l) \in Users("MIC"))
      /\ asr_is_running' = asr /\ kwd_is_running' = kwd
      /\ Away(Pop(c))
      /\ \/ /\ l = <<>> /\ stack' = Updated(stack, "MIC", <<f>>)
            /\ calls' = PushOne(c, <<"focus", f, "MIC", "request">>)
         \/ /\ l # <<>> /\ ~Refused(Head(l), "MIC", f) /\ stack' = stack
            /\ calls' = PushTwo(c, <<"unfocus", Head(l), "MIC">>,
                                   <<"stolen", f, "MIC", Head(l)>>)
         \/ /\ l # <<>> /\ Refused(Head(l), "MIC", f)
            /\ stack' = Updated(stack, "MIC", Reserved(l, f))
            /\ calls' = Pop(c)
  BY <1>0, <1>a, RequestShape
<1>3. Tidy(c) /\ AsrComes(c, l) /\ KwdFirst(l) /\ TopInv(c, l, asr, kwd)
  BY <1>0, <1>a DEF Rec, RecInv
<1>5. Above(c[1])  BY <1>1 DEF Above
<1>6. ~Mic(c, "unfocus", "kwd") /\ (AsrLeaving(c) => f = "asr")
  BY <1>0, <1>1 DEF Mic, AsrLeaving
<1>7. CASE /\ l = <<>> /\ stack' = Updated(stack, "MIC", <<f>>)
           /\ calls' = PushOne(c, <<"focus", f, "MIC", "request">>)
  <2>0. PICK x, d, m : /\ x = <<"focus", f, "MIC", "request">> /\ d = PushOne(c, x)
                       /\ m = <<f>>
    OBVIOUS
  <2>1. x \in Call /\ x[1] = "focus" /\ x[2] = f /\ x[3] = "MIC"
    BY <1>1, <2>0, CallsMade
  <2>2. stack'["MIC"] = m  BY <1>1, <1>7, <2>0, OneUpdated
  <2>3. m # <<>> /\ Head(m) = f /\ \A g : On(g, m) <=> g = f
    BY <2>0 DEF On
  <2>4. \A g : ~On(g, l)  BY <1>1, <1>7, MicList
  <2>5. Calm(x) /\ Fits(x, c, m)
    BY <2>1 DEF Calm, Fits, Above, Coming, Release
  <2>6. Tidy(d) /\ AsrComes(d, m)
    BY <1>1, <1>3, <2>0, <2>1, <2>4, <2>5, CallsAfter
  <2>7. KwdFirst(m)  BY <2>3 DEF KwdFirst
  <2>8. d[1] = x  BY <1>1, <2>0, PushAway
  <2>9. ~kwd  BY <1>3, <1>6, <2>4 DEF TopInv, KwdAlone
  <2>10. f = "kwd" => ~asr  BY <1>3, <1>6, <1>7 DEF TopInv
  <2>11. TopInv(d, m, asr, kwd)
    BY <2>1, <2>3, <2>8, <2>9, <2>10 DEF TopInv, ToldAlone, KwdAlone, Mic
  <2> QED  BY <1>1, <1>7, <2>0, <2>2, <2>6, <2>7, <2>11, RecAfter
<1>8. CASE /\ l # <<>> /\ ~Refused(Head(l), "MIC", f) /\ stack' = stack
           /\ calls' = PushTwo(c, <<"unfocus", Head(l), "MIC">>,
                                  <<"stolen", f, "MIC", Head(l)>>)
  <2>0. PICK x, y, d : /\ x = <<"unfocus", "kwd", "MIC">>
                       /\ y = <<"stolen", "asr", "MIC", "kwd">> /\ d = PushTwo(c, x, y)
    OBVIOUS
  <2>1. f = "asr" /\ Head(l) = "kwd"  BY <1>1, <1>8, MicPolicy
  <2>2. calls' = d  BY <1>8, <2>0, <2>1
  <2>3. /\ x \in Call /\ x[1] = "unfocus" /\ x[2] = "kwd" /\ x[3] = "MIC"
        /\ y \in Call /\ y[1] = "stolen" /\ y[2] = "asr" /\ y[3] = "MIC" /\ y[4] = "kwd"
    BY <2>0, CallsMade, MicPolicy
  <2>4. Calm(x) /\ Fits(x, c, l) /\ Calm(y) /\ Fits(y, c, l)
    BY <2>3 DEF Calm, Fits, Above, Coming, Release
  <2>5. Tidy(d) /\ AsrComes(d, l)
    BY <1>1, <1>3, <2>0, <2>3, <2>4, CallsAfter
  <2>6. d # <<>> /\ d[1] = x  BY <1>1, <2>0, PushAway
  <2>7. TopInv(d, l, asr, kwd)
    BY <1>3, <1>8, <2>3, <2>6 DEF TopInv, ToldAlone, KwdAlone, Mic
  <2> QED  BY <1>0, <1>1, <1>3, <1>8, <2>2, <2>5, <2>7, RecAfter
<1>9. CASE /\ l # <<>> /\ Refused(Head(l), "MIC", f)
           /\ stack' = Updated(stack, "MIC", Reserved(l, f))
           /\ calls' = Pop(c)
  <2>0. PICK m, d : m = Reserved(l, f) /\ d = Pop(c)  OBVIOUS
  <2>1. stack'["MIC"] = m  BY <1>1, <1>9, <2>0, OneUpdated
  <2>2. /\ KwdFirst(m) /\ m # <<>>
        /\ \A g : On(g, m) <=> On(g, l) \/ g = f
        /\ f = "asr" => On("asr", l)
    BY <1>1, <1>3, <1>9, <2>0, MicReserved
  <2>3. Tidy(d) /\ AsrComes(d, m)
    BY <1>1, <1>3, <2>0, <2>2, CallsAfter
  <2>4. \A op \in Nested : \A g : ~Mic(d, op, g)  BY <1>1, <2>0 DEF Away, Mic
  <2>5. KwdAlone(d, m, asr, kwd)  BY <1>3, <1>6, <2>2 DEF TopInv, KwdAlone
  <2>6. TopInv(d, m, asr, kwd)  BY <2>2, <2>4, <2>5 DEF TopInv, ToldAlone, Nested
  <2> QED  BY <1>1, <1>9, <2>0, <2>1, <2>2, <2>3, <2>6, RecAfter
<1> QED  BY <1>1, <1>7, <1>8, <1>9

\* nugu_focus_request() after unfocus_cb of the former top: the microphone goes
\* to asr once kwd has stopped.
LEMMA StolenRec ==
    ASSUME IndInv, Rec, StolenStep
    PROVE  Rec'
<1>0. PICK c, f, r, top, l : /\ c = calls /\ f = c[1][2] /\ r = c[1][3] /\ top = c[1][4]
                             /\ l = stack["MIC"]
  OBVIOUS
<1>a. PICK asr, kwd : asr = asr_is_running /\ kwd = kwd_is_running  OBVIOUS
<1>1. c # <<>> /\ c[1][1] = "stolen"  BY <1>0 DEF StolenStep, Running
<1>2. /\ Lists(stack) /\ c \in Seq(Call) /\ c[1] \in Call
  BY <1>0, <1>1, MainFacts
<1>3. r \in {"MIC", "SPK"} /\ f \in Users(r)  BY <1>0, <1>1, <1>2, CallFacts
<1>4. asr_is_running' = asr /\ kwd_is_running' = kwd
  BY <1>a DEF StolenStep, asrVars, kwdVars
<1>5. PICK x : x = <<"focus", f, r, "request">>  OBVIOUS
<1>6. x \in Call /\ x[1] = "focus" /\ x[2] = f /\ x[3] = r  BY <1>3, <1>5, CallsMade
<1>7. PICK answer \in UnfocusAnswers(top) :
         /\ stack' = Updated(stack, r, Taken(stack[r], top, answer, f))
         /\ calls' = PushOne(c, x)
  BY <1>0, <1>5 DEF StolenStep, Return, Updated, Taken, PushOne
<1>8. Tidy(c) /\ AsrComes(c, l) /\ KwdFirst(l) /\ TopInv(c, l, asr, kwd)
  BY <1>0, <1>a DEF Rec, RecInv
<1>9. 1 \in 1..Len(c)
  <2>1. Len(c) \in Nat \ {0}  BY <1>1, <1>2, LenProperties, EmptySeq
  <2> QED  BY <2>1
<1>10. Above(c[1])  BY <1>1 DEF Above
<1>11. PICK d : d = PushOne(c, x)  OBVIOUS
<1>12. CASE r = "SPK"
  <2>1. stack'["MIC"] = l  BY <1>0, <1>2, <1>3, <1>7, <1>12, OneUpdated
  <2>2. f = "asr" => On("asr", l)
    BY <1>0, <1>1, <1>8, <1>9, <1>12 DEF AsrComes, Coming
  <2>3. Calm(x) /\ Fits(x, c, l)
    BY <1>6, <1>10, <1>12, <2>2 DEF Calm, Fits, Above, Coming, Release
  <2>4. Tidy(d) /\ AsrComes(d, l)  BY <1>1, <1>2, <1>6, <1>8, <1>11, <2>3, CallsAfter
  <2>5. Away(d)  BY <1>1, <1>2, <1>6, <1>11, <1>12, PushAway
  <2>6. Neutral(c)  BY <1>0, <1>12, OtherNeutral
  <2> QED  BY <1>0, <1>4, <1>7, <1>11, <1>a, <2>1, <2>4, <2>5, <2>6, RecOther
<1>13. CASE r = "MIC"
  <2>1. f = "asr" /\ top = "kwd"  BY <1>0, <1>1, <1>8, <1>9, <1>13 DEF Tidy
  <2>2. PICK m : m = Taken(l, "kwd", answer, "asr")  OBVIOUS
  <2>3. stack'["MIC"] = m  BY <1>0, <1>2, <1>7, <1>13, <2>1, <2>2, OneUpdated
  <2>4. List(l, "MIC")  BY <1>0, <1>2, ListsFacts
  <2>5. m # <<>> /\ \A g : On(g, m) <=> g = "asr"  BY <2>1, <2>2, <2>4, MicTaken
  <2>6. Calm(x) /\ Fits(x, c, m)
    BY <1>6, <1>13 DEF Calm, Fits, Above, Coming, Release
  <2>7. Tidy(d) /\ AsrComes(d, m)
    BY <1>1, <1>2, <1>6, <1>8, <1>11, <2>5, <2>6, CallsAfter
  <2>8. d # <<>> /\ d[1] = x  BY <1>1, <1>2, <1>11, PushAway
  <2>9. KwdFirst(m)  BY <2>5 DEF KwdFirst
  <2>10. ~kwd  BY <1>0, <1>1, <1>8, <1>13, <2>1 DEF TopInv, Mic
  <2>11. TopInv(d, m, asr, kwd)
    BY <1>6, <2>1, <2>5, <2>8, <2>10 DEF TopInv, ToldAlone, KwdAlone, Mic
  <2> QED  BY <1>4, <1>7, <1>11, <2>3, <2>7, <2>9, <2>11, RecAfter
<1> QED  BY <1>3, <1>12, <1>13

\* nugu_focus_release() up to unfocus_cb.
LEMMA ReleaseRec ==
    ASSUME IndInv, Rec, ReleaseStep
    PROVE  Rec'
<1>0. PICK c, f, r, l, s : /\ c = calls /\ f = c[1][2] /\ r = c[1][3]
                           /\ l = stack["MIC"] /\ s = stack[r]
  OBVIOUS
<1>a. PICK asr, kwd : asr = asr_is_running /\ kwd = kwd_is_running  OBVIOUS
<1>1. c # <<>> /\ c[1][1] = "release"  BY <1>0 DEF ReleaseStep, Running
<1>2. /\ Lists(stack) /\ c \in Seq(Call) /\ c[1] \in Call
      /\ Nesting(c, stack, focused["SPK"])
  BY <1>0, <1>1, MainFacts
<1>3. r \in {"MIC", "SPK"} /\ f \in Users(r) /\ c[1] = <<"release", f, r>>
  BY <1>0, <1>1, <1>2, CallFacts
<1>4. asr_is_running' = asr /\ kwd_is_running' = kwd
  BY <1>a DEF ReleaseStep, asrVars, kwdVars
<1>5. PICK x, y : x = <<"unfocus", f, r>> /\ y = <<"released", f, r>>  OBVIOUS
<1>6. /\ x \in Call /\ x[1] = "unfocus" /\ x[2] = f /\ x[3] = r
      /\ y \in Call /\ y[1] = "released" /\ y[2] = f /\ y[3] = r
  BY <1>3, <1>5, CallsMade
<1>7. \/ /\ s = <<>> \/ Head(s) # f
         /\ stack' = Updated(stack, r, RemoveItems(s, f)) /\ calls' = Pop(c)
      \/ /\ s # <<>> /\ Head(s) = f
         /\ stack' = Updated(stack, r, Tail(s)) /\ calls' = PushTwo(c, x, y)
  BY <1>0, <1>5 DEF ReleaseStep, Return, Updated, Pop, PushTwo
<1>8. Tidy(c) /\ AsrComes(c, l) /\ KwdFirst(l) /\ TopInv(c, l, asr, kwd)
  BY <1>0, <1>a DEF Rec, RecInv
<1>9. 1 \in 1..Len(c) /\ Len(c) \in Nat
  <2>1. Len(c) \in Nat \ {0}  BY <1>1, <1>2, LenProperties, EmptySeq
  <2> QED  BY <2>1
<1>10. Neutral(c)  BY <1>1, OtherNeutral
<1>11. Away(Pop(c))  BY <1>1, <1>2, PopAway
<1>12. CASE r = "SPK"
  <2>1. stack'["MIC"] = l  BY <1>0, <1>2, <1>7, <1>12, OneUpdated
  <2>2. Tidy(Pop(c)) /\ AsrComes(Pop(c), l)  BY <1>1, <1>2, <1>8, CallsAfter
  <2>3. Calm(x) /\ Fits(x, c, l) /\ Calm(y) /\ Fits(y, c, l)
    BY <1>0, <1>1, <1>6, <1>12 DEF Calm, Fits, Above, Coming, Release
  <2>4. Tidy(PushTwo(c, x, y)) /\ AsrComes(PushTwo(c, x, y), l)
    BY <1>1, <1>2, <1>6, <1>8, <2>3, CallsAfter
  <2>5. Away(PushTwo(c, x, y))  BY <1>1, <1>2, <1>6, <1>12, PushAway
  <2>6. CASE calls' = Pop(c)
    BY <1>0, <1>4, <1>10, <1>11, <1>a, <2>1, <2>2, <2>6, RecOther
  <2>7. CASE calls' = PushTwo(c, x, y)
    BY <1>0, <1>4, <1>10, <1>a, <2>1, <2>4, <2>5, <2>7, RecOther
  <2> QED  BY <1>7, <2>6, <2>7
<1>13. CASE r = "MIC"
  <2>1. List(l, "MIC") /\ s = l  BY <1>0, <1>2, <1>13, ListsFacts
  <2>2. f = "kwd" \/ f = "asr"  BY <1>3, <1>13, MicPolicy
  <2>3. ~Above(c[1])  BY <1>0, <1>1, <2>2 DEF Above
  <2>4. (kwd => On("kwd", l)) /\ (asr => l # <<>>)
    BY <1>8, <1>10 DEF TopInv, KwdAlone, Neutral
  <2>5. CASE /\ l = <<>> \/ Head(l) # f
             /\ stack' = Updated(stack, r, RemoveItems(l, f)) /\ calls' = Pop(c)
    <3>0. PICK m, d : m = RemoveItems(l, f) /\ d = Pop(c)  OBVIOUS
    <3>1. stack'["MIC"] = m  BY <1>2, <1>13, <2>5, <3>0, OneUpdated
    <3>2. /\ KwdFirst(m) /\ (l = <<>> <=> m = <<>>)
          /\ \A g : On(g, m) <=> On(g, l) /\ g # f
      BY <1>8, <2>1, <2>5, <3>0, MicWithdrawn
    <3>3. Tidy(d) /\ AsrComes(d, m)  BY <1>1, <1>2, <1>8, <2>3, <3>0, CallsAfter
    <3>4. \A op \in Nested : \A g : ~Mic(d, op, g)  BY <1>11, <3>0 DEF Away, Mic
    <3>5. f = "kwd" => ~kwd
      <4>1. On("kwd", l) => l # <<>> /\ Head(l) = "kwd"  BY <1>8, <2>1, MicList DEF KwdFirst
      <4> QED  BY <2>4, <2>5, <4>1
    <3>6. KwdAlone(d, m, asr, kwd)  BY <1>8, <2>2, <2>4, <3>2, <3>5 DEF TopInv, KwdAlone
    <3>7. TopInv(d, m, asr, kwd)
      BY <2>4, <3>2, <3>4, <3>6 DEF TopInv, ToldAlone, Nested
    <3> QED  BY <1>4, <2>5, <3>0, <3>1, <3>2, <3>3, <3>7, RecAfter
  <2>6. CASE /\ l # <<>> /\ Head(l) = f
             /\ stack' = Updated(stack, r, Tail(l)) /\ calls' = PushTwo(c, x, y)
    <3>0. PICK m, d : m = Tail(l) /\ d = PushTwo(c, x, y)  OBVIOUS
    <3>1. stack'["MIC"] = m  BY <1>2, <1>13, <2>6, <3>0, OneUpdated
    <3>2. KwdFirst(m) /\ \A g : On(g, m) <=> On(g, l) /\ g # f
      BY <1>8, <2>1, <2>6, <3>0, MicTop
    <3>3. Calm(x) /\ Fits(x, c, m) /\ Calm(y) /\ Fits(y, c, m)
      BY <1>6, <2>3 DEF Calm, Fits, Coming, Release
    <3>4. Tidy(d) /\ AsrComes(d, m)
      BY <1>1, <1>2, <1>6, <1>8, <2>3, <3>0, <3>3, CallsAfter
    <3>5. d # <<>> /\ d[1] = x  BY <1>1, <1>2, <3>0, PushAway
    <3>6. f = "kwd" => 3 <= Len(d) /\ d[3] = Request("asr", "MIC")
      <4> SUFFICES ASSUME f = "kwd" PROVE 3 <= Len(d) /\ d[3] = Request("asr", "MIC")
        OBVIOUS
      <4>1. c[1] = Release("kwd", "MIC")  BY <1>3, <1>13 DEF Release
      <4>2. 1 + 1 <= Len(c) /\ c[1 + 1] = Request("asr", "MIC")
        BY <1>8, <1>9, <4>1 DEF Tidy
      <4>3. Below(c, 2)
        <5>1. Below(c, 1)  BY <1>1, <1>2, TopCall DEF Nested
        <5> QED  BY <1>9, <4>2, <5>1 DEF Below
      <4>4. Below(d, 3) /\ d[3] = c[2]  BY <1>1, <1>2, <1>6, <3>0, <4>3, ReturnTwo
      <4> QED  BY <4>2, <4>4 DEF Below
    <3>7. kwd => f = "kwd"  BY <1>8, <2>4, <2>6 DEF KwdFirst
    <3>8. KwdAlone(d, m, asr, kwd)
      BY <1>6, <1>8, <1>13, <3>2, <3>5, <3>7 DEF TopInv, KwdAlone, Mic
    <3>9. AsrLeaving(d)  BY <1>6, <1>13, <2>2, <3>5, <3>6 DEF AsrLeaving, Mic
    <3>10. TopInv(d, m, asr, kwd)
      BY <1>6, <3>5, <3>8, <3>9 DEF TopInv, ToldAlone, Mic
    <3> QED  BY <1>4, <2>6, <3>0, <3>1, <3>2, <3>4, <3>10, RecAfter
  <2> QED  BY <1>7, <2>1, <2>5, <2>6
<1> QED  BY <1>3, <1>12, <1>13

\* nugu_focus_release() after unfocus_cb returned.
LEMMA ReleasedRec ==
    ASSUME IndInv, Rec, ReleasedStep
    PROVE  Rec'
<1>0. PICK c, f, r, l, s : /\ c = calls /\ f = c[1][2] /\ r = c[1][3]
                           /\ l = stack["MIC"] /\ s = stack[r]
  OBVIOUS
<1>a. PICK asr, kwd : asr = asr_is_running /\ kwd = kwd_is_running  OBVIOUS
<1>1. c # <<>> /\ c[1][1] = "released"  BY <1>0 DEF ReleasedStep, Running
<1>2. /\ Lists(stack) /\ c \in Seq(Call) /\ c[1] \in Call
      /\ Nesting(c, stack, focused["SPK"])
  BY <1>0, <1>1, MainFacts
<1>3. r \in {"MIC", "SPK"} /\ f \in Users(r)  BY <1>0, <1>1, <1>2, CallFacts
<1>4. asr_is_running' = asr /\ kwd_is_running' = kwd
  BY <1>a DEF ReleasedStep, asrVars, kwdVars
<1>5. ~On(f, s) /\ (r = "SPK" => ~On("asr", s)) /\ Below(c, 1)
  <2>1. InHandOver(c, stack, focused["SPK"])  BY <1>1, <1>2, TopCall
  <2> QED  BY <1>0, <1>1, <2>1 DEF InHandOver, Waiting
<1>6. PICK answer \in UnfocusAnswers(f) :
         /\ stack' = Updated(stack, r, Unfocused(s, f, answer))
         /\ calls' = (IF Unfocused(s, f, answer) # <<>> /\ Head(Unfocused(s, f, answer)) # f
                      THEN << <<"focus", Head(Unfocused(s, f, answer)), r, "release">> >>
                      ELSE <<>>) \o Tail(c)
  BY <1>0 DEF ReleasedStep, Return, Updated
<1>7. PICK t, h, x : /\ t = Unfocused(s, f, answer) /\ h = Head(t)
                     /\ x = <<"focus", h, r, "release">>
  OBVIOUS
<1>8. /\ stack' = Updated(stack, r, t)
      /\ calls' = IF t # <<>> /\ h # f THEN PushOne(c, x) ELSE Pop(c)
  BY <1>6, <1>7 DEF PushOne, Pop
<1>9. List(s, r)  BY <1>0, <1>2, <1>3, ListsFacts
<1>10. /\ List(t, r) /\ (t # <<>> => h \in Users(r))
       /\ \A g : On(g, t) => On(g, s) \/ (g = f /\ f = "cap_audio")
       /\ f # "cap_audio" => t = s
  BY <1>3, <1>5, <1>7, <1>9, ListReleased
<1>11. t # <<>> => /\ x \in Call /\ x[1] = "focus" /\ x[2] = h /\ x[3] = r
  BY <1>3, <1>7, <1>10, CallsMade
<1>12. Tidy(c) /\ AsrComes(c, l) /\ KwdFirst(l) /\ TopInv(c, l, asr, kwd)
  BY <1>0, <1>a DEF Rec, RecInv
<1>13. Away(Pop(c))  BY <1>1, <1>2, PopAway
<1>14. CASE r = "SPK"
  <2>1. stack'["MIC"] = l  BY <1>0, <1>2, <1>8, <1>14, OneUpdated
  <2>2. Neutral(c)  BY <1>0, <1>14, OtherNeutral
  <2>3. CASE calls' = Pop(c)
    <3>1. Tidy(Pop(c)) /\ AsrComes(Pop(c), l)  BY <1>1, <1>2, <1>12, CallsAfter
    <3> QED  BY <1>0, <1>4, <1>13, <1>a, <2>1, <2>2, <2>3, <3>1, RecOther
  <2>4. CASE t # <<>> /\ calls' = PushOne(c, x)
    <3>1. h # "asr"
      <4>1. On(h, t)
        <5>1. t \in Seq(Users(r)) /\ Distinct(t)  BY <1>10 DEF List
        <5> QED  BY <1>7, <2>4, <5>1, ListTail
      <4> QED  BY <1>5, <1>10, <1>14, <4>1
    <3>2. Calm(x) /\ Fits(x, c, l)
      BY <1>11, <1>14, <2>4, <3>1 DEF Calm, Fits, Above, Coming, Release
    <3>3. Tidy(PushOne(c, x)) /\ AsrComes(PushOne(c, x), l)
      BY <1>1, <1>2, <1>11, <1>12, <2>4, <3>2, CallsAfter
    <3>4. Away(PushOne(c, x))  BY <1>1, <1>2, <1>11, <1>14, <2>4, PushAway
    <3> QED  BY <1>0, <1>4, <1>a, <2>1, <2>2, <2>4, <3>3, <3>4, RecOther
  <2> QED  BY <1>8, <2>3, <2>4
<1>15. CASE r = "MIC"
  <2>1. List(l, "MIC") /\ s = l  BY <1>0, <1>9, <1>15
  <2>2. f = "kwd" \/ f = "asr"  BY <1>3, <1>15, MicPolicy
  <2>3. t = l  BY <1>10, <2>1, <2>2
  <2>4. stack'["MIC"] = l  BY <1>2, <1>8, <1>15, <2>3, OneUpdated
  <2>5. ~Above(c[1])  BY <1>0, <1>1, <2>2 DEF Above
  <2>6. kwd => On("kwd", l)  BY <1>1, <1>12 DEF TopInv, KwdAlone, Mic
  <2>7. asr /\ l = <<>> => 2 <= Len(c) /\ c[2] = Request("asr", "MIC")
    BY <1>1, <1>12 DEF TopInv, AsrLeaving, Mic
  <2>8. CASE t # <<>> /\ h # f /\ calls' = PushOne(c, x)
    <3>0. PICK d : d = PushOne(c, x)  OBVIOUS
    <3>1. h \in Users("MIC") /\ On(h, l) /\ l # <<>>  BY <1>7, <2>1, <2>3, <2>8, MicList
    <3>2. \A g : On(g, l) => g = h
      <4>1. \A g : On(g, l) => g # f /\ (g = "kwd" \/ g = "asr")  BY <1>5, <2>1, MicList
      <4> QED  BY <2>2, <3>1, <4>1
    <3>3. Calm(x) /\ Fits(x, c, l)
      BY <1>11, <1>15, <2>5, <2>8 DEF Calm, Fits, Coming, Release
    <3>4. Tidy(d) /\ AsrComes(d, l)
      BY <1>1, <1>2, <1>11, <1>12, <2>8, <3>0, <3>3, CallsAfter
    <3>5. d # <<>> /\ d[1] = x  BY <1>1, <1>2, <3>0, PushAway
    <3>6. h = "kwd" => ~asr
      <4>1. h = "kwd" => f = "asr"  BY <2>2, <2>8
      <4> QED  BY <1>0, <1>1, <1>12, <1>15, <4>1 DEF TopInv, Mic
    <3>7. KwdAlone(d, l, asr, kwd)  BY <1>12, <2>6 DEF TopInv, KwdAlone
    <3>8. TopInv(d, l, asr, kwd)
      BY <1>11, <2>8, <3>1, <3>2, <3>5, <3>6, <3>7 DEF TopInv, ToldAlone, Mic
    <3> QED  BY <1>4, <1>12, <2>4, <2>8, <3>0, <3>4, <3>8, RecAfter
  <2>9. CASE ~(t # <<>> /\ h # f) /\ calls' = Pop(c)
    <3>0. PICK d : d = Pop(c)  OBVIOUS
    <3>1. l = <<>>
      <4>1. l # <<>> => On(h, l)  BY <1>7, <2>1, <2>3, MicList
      <4> QED  BY <1>5, <2>1, <2>3, <2>9, <4>1
    <3>2. Tidy(d) /\ AsrComes(d, l)  BY <1>1, <1>2, <1>12, <3>0, CallsAfter
    <3>3. \A op \in Nested : \A g : ~Mic(d, op, g)  BY <1>13, <3>0 DEF Away, Mic
    <3>4. ~kwd  BY <2>1, <2>6, <3>1, MicList
    <3>5. asr => AsrLeaving(d)
      <4> SUFFICES ASSUME asr PROVE Mic(d, "request", "asr")  BY DEF AsrLeaving
      <4>1. 2 <= Len(c) /\ c[2] = Request("asr", "MIC")  BY <2>7, <3>1
      <4>2. d # <<>> /\ d[1] = c[2]  BY <1>1, <1>2, <1>5, <3>0, <4>1, PopSecond
      <4> QED  BY <4>1, <4>2 DEF Mic, Request
    <3>6. TopInv(d, l, asr, kwd)
      BY <3>1, <3>3, <3>4, <3>5 DEF TopInv, ToldAlone, KwdAlone, Nested
    <3> QED  BY <1>4, <1>12, <2>4, <2>9, <3>0, <3>2, <3>6, RecAfter
  <2> QED  BY <1>8, <2>8, <2>9
<1> QED  BY <1>3, <1>14, <1>15

----------------------------------------------------------------------------
(***************************************************************************)
(* The listeners.                                                          *)
(***************************************************************************)

\* ASRFocusListener::onFocus(MIC): what it calls.
LEMMA AsrFocusMicCalls ==
    ASSUME AsrFocusMic, NEW x, x = Release("expect", "SPK"), NEW y, y = Request("asr", "SPK")
    PROVE  calls' = PushOne(calls, y) \/ calls' = PushTwo(calls, x, y)
<1>1. <<x>> \o <<y>> = <<x, y>>  BY PairConcat
<1>2. <<>> \o <<y>> = <<y>>
  <2>1. PICK e : e = <<y>>  OBVIOUS
  <2>2. e \in Seq({y})  BY <2>1
  <2>3. <<>> \o e = e  BY <2>2, ConcatEmptySeq
  <2> QED  BY <2>1, <2>3
<1>3. calls' = ((IF is_handle THEN <<x>> ELSE <<>>) \o <<y>>) \o Tail(calls)
  BY DEF AsrFocusMic, Return
<1>4. CASE is_handle
  <2>1. calls' = (<<x>> \o <<y>>) \o Tail(calls)  BY <1>3, <1>4
  <2> QED  BY <1>1, <2>1 DEF PushTwo
<1>5. CASE ~is_handle
  <2>1. calls' = (<<>> \o <<y>>) \o Tail(calls)  BY <1>3, <1>5
  <2> QED  BY <1>2, <2>1 DEF PushOne
<1> QED  BY <1>4, <1>5

\* ASRFocusListener::onFocus(MIC): the request for the speaker is made with asr
\* on the microphone's list.
LEMMA AsrFocusMicRec ==
    ASSUME IndInv, Rec, AsrFocusMic
    PROVE  Rec'
<1>0. PICK c, l, x, y : /\ c = calls /\ l = stack["MIC"]
                        /\ x = Release("expect", "SPK") /\ y = Request("asr", "SPK")
  OBVIOUS
<1>1. /\ c # <<>> /\ c[1][1] = "focus" /\ c[1][2] = "asr" /\ c[1][3] = "MIC"
      /\ stack' = stack
      /\ asr_is_running' = asr_is_running /\ kwd_is_running' = kwd_is_running
  BY <1>0 DEF AsrFocusMic, Running, asrVars, kwdVars
<1>2. c \in Seq(Call)  BY <1>0, <1>1, MainFacts
<1>3. Tidy(c) /\ AsrComes(c, l) /\ On("asr", l)
  BY <1>0, <1>1 DEF Rec, RecInv, TopInv, ToldAlone, Mic
<1>4. /\ x \in Call /\ x[1] = "release" /\ x[2] = "expect" /\ x[3] = "SPK"
      /\ y \in Call /\ y[1] = "request" /\ y[2] = "asr" /\ y[3] = "SPK"
  <2>1. "expect" \in Users("SPK") /\ "asr" \in Users("SPK")  BY VoiceAssumption DEF Users
  <2> QED  BY <1>0, <2>1, CallsMade DEF Release, Request
<1>5. Calm(x) /\ Fits(x, c, l) /\ Calm(y) /\ Fits(y, c, l)
  BY <1>1, <1>3, <1>4 DEF Calm, Fits, Above, Coming, Release
<1>6. /\ Tidy(PushOne(c, y)) /\ AsrComes(PushOne(c, y), l)
      /\ Tidy(PushTwo(c, x, y)) /\ AsrComes(PushTwo(c, x, y), l)
  BY <1>1, <1>2, <1>3, <1>4, <1>5, CallsAfter
<1>7. Away(PushOne(c, y)) /\ Away(PushTwo(c, x, y))
  BY <1>1, <1>2, <1>4, PushAway DEF Nested
<1>8. Neutral(c)  BY <1>1, OtherNeutral
<1>9. calls' = PushOne(c, y) \/ calls' = PushTwo(c, x, y)  BY <1>0, AsrFocusMicCalls
<1> QED  BY <1>0, <1>1, <1>6, <1>7, <1>8, <1>9, RecOther

\* ASRFocusListener::onFocus(SPK) starts the recognizer: asr is on the
\* microphone's list, so the wakeup detector is off.
LEMMA AsrFocusSpkRec ==
    ASSUME IndInv, Rec, AsrFocusSpk
    PROVE  Rec'
<1>0. PICK c, l, d : c = calls /\ l = stack["MIC"] /\ d = Pop(c)  OBVIOUS
<1>a. PICK asr, kwd : asr = asr_is_running' /\ kwd = kwd_is_running  OBVIOUS
<1>1. /\ c # <<>> /\ c[1][1] = "focus" /\ c[1][2] = "asr" /\ c[1][3] = "SPK"
      /\ stack' = stack /\ kwd_is_running' = kwd /\ calls' = d
  BY <1>0, <1>a DEF AsrFocusSpk, Running, Return, Pop, kwdVars
<1>2. c \in Seq(Call) /\ Nesting(c, stack, focused["SPK"])  BY <1>0, <1>1, MainFacts
<1>3. Tidy(c) /\ AsrComes(c, l) /\ KwdFirst(l) /\ TopInv(c, l, asr_is_running, kwd)
  BY <1>0, <1>a DEF Rec, RecInv
<1>4. On("asr", l)
  <2>1. Len(c) \in Nat \ {0}  BY <1>1, <1>2, LenProperties, EmptySeq
  <2>2. 1 \in 1..Len(c)  BY <2>1
  <2> QED  BY <1>1, <1>3, <2>2 DEF AsrComes, Coming
<1>5. ~kwd /\ l # <<>>
  <2>1. l # <<>>  BY <1>4 DEF On
  <2> QED  BY <1>3, <1>4, <2>1 DEF TopInv, KwdAlone
<1>6. Away(d)  BY <1>0, <1>1, <1>2, PopAway
<1>7. \A op \in Nested : \A g : ~Mic(d, op, g)  BY <1>6 DEF Away, Mic
<1>8. TopInv(d, l, asr, kwd)  BY <1>5, <1>7 DEF TopInv, ToldAlone, KwdAlone, Nested
<1>9. Tidy(d) /\ AsrComes(d, l)  BY <1>0, <1>1, <1>2, <1>3, CallsAfter
<1> QED  BY <1>0, <1>1, <1>3, <1>8, <1>9, <1>a, RecAfter

\* WakeupHandler::onFocus() starts the wakeup detector: kwd is alone on the
\* list and the recognizer is off.
LEMMA KwdFocusRec ==
    ASSUME IndInv, Rec, KwdFocus
    PROVE  Rec'
<1>0. PICK c, l, d : c = calls /\ l = stack["MIC"] /\ d = Pop(c)  OBVIOUS
<1>a. PICK asr, kwd : asr = asr_is_running /\ kwd = kwd_is_running'  OBVIOUS
<1>1. /\ c # <<>> /\ c[1][1] = "focus" /\ c[1][2] = "kwd"
      /\ stack' = stack /\ asr_is_running' = asr /\ calls' = d
  BY <1>0, <1>a DEF KwdFocus, Running, Return, Pop, asrVars
<1>2. c \in Seq(Call) /\ c[1] \in Call /\ Nesting(c, stack, focused["SPK"])
  BY <1>0, <1>1, MainFacts
<1>3. Tidy(c) /\ AsrComes(c, l) /\ KwdFirst(l) /\ TopInv(c, l, asr, kwd_is_running)
  BY <1>0, <1>a DEF Rec, RecInv
<1>4. c[1][3] = "MIC"
  <2>1. c[1][3] \in {"MIC", "SPK"} /\ c[1][2] \in Users(c[1][3])  BY <1>1, <1>2, CallFacts
  <2> QED  BY <1>1, <2>1 DEF Users
<1>5. On("kwd", l) /\ (\A g : On(g, l) => g = "kwd") /\ ~asr
  BY <1>1, <1>3, <1>4 DEF TopInv, ToldAlone, Mic
<1>6. Away(d)  BY <1>0, <1>1, <1>2, PopAway
<1>7. \A op \in Nested : \A g : ~Mic(d, op, g)  BY <1>6 DEF Away, Mic
<1>8. TopInv(d, l, asr, kwd)  BY <1>5, <1>7 DEF TopInv, ToldAlone, KwdAlone, Nested
<1>9. Tidy(d) /\ AsrComes(d, l)  BY <1>0, <1>1, <1>2, <1>3, CallsAfter
<1> QED  BY <1>0, <1>1, <1>3, <1>8, <1>9, <1>a, RecAfter

\* The onFocus() callbacks of the speaker's other users.
LEMMA SpeakerFocusRec ==
    ASSUME IndInv, Rec, ExpectFocus \/ TtsFocus \/ AudioFocus
    PROVE  Rec'
<1>0. PICK c, l, x : c = calls /\ l = stack["MIC"] /\ x = Request("asr", "MIC")  OBVIOUS
<1>1. /\ c # <<>> /\ c[1][1] = "focus" /\ c[1][2] \in {"expect", "cap_tts", "cap_audio"}
      /\ asr_is_running' = asr_is_running /\ kwd_is_running' = kwd_is_running
  BY <1>0 DEF ExpectFocus, TtsFocus, AudioFocus, Running, asrVars, kwdVars
<1>2. /\ Lists(stack) /\ c \in Seq(Call) /\ c[1] \in Call
      /\ Nesting(c, stack, focused["SPK"])
  BY <1>0, <1>1, MainFacts
<1>3. c[1][3] = "SPK"
  <2>1. c[1][3] \in {"MIC", "SPK"} /\ c[1][2] \in Users(c[1][3])  BY <1>1, <1>2, CallFacts
  <2> QED  BY <1>1, <2>1 DEF Users
<1>4. stack'["MIC"] = l
  <2>1. stack' = stack \/ \E t : stack' = Updated(stack, "SPK", t)
    BY <1>0, <1>3 DEF ExpectFocus, TtsFocus, AudioFocus, Updated
  <2> QED  BY <1>0, <1>2, <2>1, OneUpdated
<1>5. Tidy(c) /\ AsrComes(c, l)  BY <1>0 DEF Rec, RecInv
<1>6. Neutral(c)  BY <1>3, OtherNeutral
<1>7. CASE TtsFocus \/ AudioFocus
  <2>1. calls' = Pop(c)  BY <1>0, <1>7 DEF TtsFocus, AudioFocus, Return, Pop
  <2>2. Tidy(Pop(c)) /\ AsrComes(Pop(c), l)  BY <1>1, <1>2, <1>5, CallsAfter
  <2>3. Away(Pop(c))  BY <1>1, <1>2, PopAway
  <2> QED  BY <1>0, <1>1, <1>4, <1>6, <2>1, <2>2, <2>3, RecOther
<1>8. CASE ExpectFocus
  <2>1. calls' = PushOne(c, x)
    BY <1>0, <1>8 DEF ExpectFocus, Return, StartRecognition, PushOne
  <2>2. x \in Call /\ x[1] = "request" /\ x[3] = "MIC"
    BY <1>0, CallsMade, MicPolicy DEF Request
  <2>3. Calm(x) /\ Fits(x, c, l)
    BY <2>2 DEF Calm, Fits, Above, Coming, Release
  <2>4. Tidy(PushOne(c, x)) /\ AsrComes(PushOne(c, x), l)
    BY <1>1, <1>2, <1>5, <2>2, <2>3, CallsAfter
  <2>5. Away(PushOne(c, x))  BY <1>1, <1>2, <2>2, PushAway DEF Nested
  <2> QED  BY <1>0, <1>1, <1>4, <1>6, <2>1, <2>4, <2>5, RecOther
<1> QED  BY <1>7, <1>8

\* An unfocus callback returns to the request or release that waits for it.
LEMMA UnfocusShape ==
    ASSUME IndInv, NEW c, c = calls, c # <<>>, c[1][1] = "unfocus", NEW h, h = c[2]
    PROVE  /\ c \in Seq(Call) /\ Below(c, 2) /\ 2 \in 1..Len(c) /\ Waiting(h, stack)
           /\ h[3] = c[1][3] /\ Loser(h) = c[1][2]
           /\ Pop(c) # <<>> /\ Pop(c)[1] = h
<1>1. c \in Seq(Call) /\ Nesting(c, stack, focused["SPK"])  BY MainFacts
<1>2. InUnfocus(c, stack, focused["SPK"])  BY <1>1, TopCall
<1>3. Below(c, 2) /\ Waiting(h, stack) /\ c[1] = <<"unfocus", Loser(h), h[3]>>
  BY <1>2 DEF InUnfocus
<1>4. Len(c) \in Nat /\ 2 <= Len(c)  BY <1>1, <1>3, LenProperties DEF Below
<1>5. Pop(c) # <<>> /\ Pop(c)[1] = h  BY <1>1, <1>3, <1>4, PopSecond
<1> QED  BY <1>1, <1>3, <1>4, <1>5

\* ASRFocusListener::onUnfocus(MIC) stops the recognizer; only a release waits
\* for it.
LEMMA AsrUnfocusMicRec ==
    ASSUME IndInv, Rec, AsrUnfocusMic
    PROVE  Rec'
<1>0. PICK c, l, d, h : c = calls /\ l = stack["MIC"] /\ d = Pop(c) /\ h = c[2]  OBVIOUS
<1>a. PICK asr, kwd : asr = asr_is_running' /\ kwd = kwd_is_running  OBVIOUS
<1>1. /\ c # <<>> /\ c[1][1] = "unfocus" /\ c[1][2] = "asr" /\ c[1][3] = "MIC"
      /\ stack' = stack /\ kwd_is_running' = kwd /\ ~asr /\ calls' = d
  BY <1>0, <1>a DEF AsrUnfocusMic, Running, Return, Pop, kwdVars
<1>2. /\ c \in Seq(Call) /\ 2 \in 1..Len(c) /\ Waiting(h, stack)
      /\ h[3] = "MIC" /\ Loser(h) = "asr" /\ d # <<>> /\ d[1] = h
  BY <1>0, <1>1, UnfocusShape
<1>3. Tidy(c) /\ AsrComes(c, l) /\ KwdFirst(l) /\ TopInv(c, l, asr_is_running, kwd)
  BY <1>0, <1>a DEF Rec, RecInv
<1>4. h[1] = "released"
  <2>1. h[1] = "stolen" => h[4] = "kwd"  BY <1>0, <1>2, <1>3 DEF Tidy
  <2> QED  BY <1>2, <2>1 DEF Waiting, HandOver, Loser
<1>5. kwd => ~On("asr", l) /\ On("kwd", l)  BY <1>1, <1>3 DEF TopInv, KwdAlone, Mic
<1>6. TopInv(d, l, asr, kwd)
  BY <1>1, <1>2, <1>4, <1>5 DEF TopInv, ToldAlone, KwdAlone, Mic
<1>7. Tidy(d) /\ AsrComes(d, l)  BY <1>0, <1>1, <1>2, <1>3, CallsAfter
<1> QED  BY <1>0, <1>1, <1>3, <1>6, <1>7, <1>a, RecAfter

\* WakeupHandler::onUnfocus() stops the wakeup detector, for asr's request or
\* for a release that asr's request follows.
LEMMA KwdUnfocusRec ==
    ASSUME IndInv, Rec, KwdUnfocus
    PROVE  Rec'
<1>0. PICK c, l, d, h : c = calls /\ l = stack["MIC"] /\ d = Pop(c) /\ h = c[2]  OBVIOUS
<1>a. PICK asr, kwd : asr = asr_is_running /\ kwd = kwd_is_running'  OBVIOUS
<1>1. /\ c # <<>> /\ c[1][1] = "unfocus" /\ c[1][2] = "kwd"
      /\ stack' = stack /\ asr_is_running' = asr /\ ~kwd /\ calls' = d
  BY <1>0, <1>a DEF KwdUnfocus, Running, Return, Pop, asrVars
<1>b. c[1][3] = "MIC"
  <2>1. c[1] \in Call  BY <1>0, <1>1, MainFacts
  <2>2. c[1][3] \in {"MIC", "SPK"} /\ c[1][2] \in Users(c[1][3])  BY <1>1, <2>1, CallFacts
  <2> QED  BY <1>1, <2>2 DEF Users
<1>2. /\ c \in Seq(Call) /\ Below(c, 2) /\ Waiting(h, stack)
      /\ h[3] = "MIC" /\ Loser(h) = "kwd" /\ d # <<>> /\ d[1] = h
  BY <1>0, <1>1, <1>b, UnfocusShape
<1>3. Tidy(c) /\ AsrComes(c, l) /\ KwdFirst(l) /\ TopInv(c, l, asr, kwd_is_running)
  BY <1>0, <1>a DEF Rec, RecInv
<1>4. h[1] = "stolen" \/ (h[1] = "released" /\ h[2] = "kwd")
  BY <1>2 DEF Waiting, HandOver, Loser
<1>5. asr /\ l = <<>> => AsrLeaving(d)
  <2> SUFFICES ASSUME asr, l = <<>> PROVE AsrLeaving(d)  OBVIOUS
  <2>1. h[1] = "released" /\ h[2] = "kwd"  BY <1>0, <1>2, <1>4 DEF Waiting
  <2>2. 3 <= Len(c) /\ c[3] = Request("asr", "MIC")
    BY <1>1, <1>3 DEF TopInv, AsrLeaving, Mic
  <2>3. Below(c, 3)
    <3>1. Len(c) \in Nat  BY <1>2, LenProperties
    <3> QED  BY <1>2, <2>2, <3>1 DEF Below
  <2>4. Below(d, 2) /\ d[2] = c[3]  BY <1>0, <1>1, <1>2, <2>3, ReturnNone
  <2> QED  BY <1>2, <2>1, <2>2, <2>4 DEF AsrLeaving, Mic, Below
<1>6. TopInv(d, l, asr, kwd)
  BY <1>1, <1>2, <1>4, <1>5 DEF TopInv, ToldAlone, KwdAlone, Mic
<1>7. Tidy(d) /\ AsrComes(d, l)  BY <1>0, <1>1, <1>2, <1>3, CallsAfter
<1> QED  BY <1>0, <1>1, <1>3, <1>6, <1>7, <1>a, RecAfter

\* The onUnfocus() callbacks about the speaker.
LEMMA SpeakerUnfocusRec ==
    ASSUME IndInv, Rec, AsrUnfocusSpk \/ SpeakerUnfocus
    PROVE  Rec'
<1>0. PICK c, l, h : c = calls /\ l = stack["MIC"] /\ h = c[2]  OBVIOUS
<1>1. /\ c # <<>> /\ c[1][1] = "unfocus" /\ stack' = stack
      /\ asr_is_running' = asr_is_running /\ kwd_is_running' = kwd_is_running
      /\ (c[1][2] = "asr" /\ c[1][3] = "SPK")
            \/ c[1][2] \in {"expect", "cap_tts", "cap_audio"}
  BY <1>0 DEF AsrUnfocusSpk, SpeakerUnfocus, Running, asrVars, kwdVars
<1>2. c \in Seq(Call) /\ c[1] \in Call  BY <1>0, <1>1, MainFacts
<1>3. c[1][3] = "SPK"
  <2>1. c[1][3] \in {"MIC", "SPK"} /\ c[1][2] \in Users(c[1][3])  BY <1>1, <1>2, CallFacts
  <2> QED  BY <1>1, <2>1 DEF Users
<1>4. Tidy(c) /\ AsrComes(c, l)  BY <1>0 DEF Rec, RecInv
<1>5. Neutral(c)  BY <1>3, OtherNeutral
<1>6. CASE SpeakerUnfocus
  <2>1. calls' = Pop(c)  BY <1>0, <1>6 DEF SpeakerUnfocus, Return, Pop
  <2>2. Tidy(Pop(c)) /\ AsrComes(Pop(c), l)  BY <1>1, <1>2, <1>4, CallsAfter
  <2>3. Pop(c)[1] = h /\ h[3] = "SPK"  BY <1>0, <1>1, <1>3, UnfocusShape
  <2>4. Away(Pop(c))  BY <2>3 DEF Away
  <2> QED  BY <1>0, <1>1, <1>5, <2>1, <2>2, <2>4, RecOther
<1>7. CASE AsrUnfocusSpk
  <2>0. PICK x, y : x = Request("kwd", "MIC") /\ y = <<"reset_expect">>  OBVIOUS
  <2>1. calls' = PushTwo(c, x, y)  BY <1>0, <1>7, <2>0, AsrUnfocusCalls
  <2>2. /\ x \in Call /\ x[1] = "request" /\ x[3] = "MIC"
        /\ y \in Call /\ y[1] = "reset_expect"
    BY <2>0, CallsMade, MicPolicy DEF Request
  <2>3. Calm(x) /\ Fits(x, c, l) /\ Calm(y) /\ Fits(y, c, l)
    BY <2>2 DEF Calm, Fits, Above, Coming, Release
  <2>4. Tidy(PushTwo(c, x, y)) /\ AsrComes(PushTwo(c, x, y), l)
    BY <1>1, <1>2, <1>4, <2>2, <2>3, CallsAfter
  <2>5. Away(PushTwo(c, x, y))  BY <1>1, <1>2, <2>2, PushAway DEF Nested
  <2> QED  BY <1>0, <1>1, <1>5, <2>1, <2>4, <2>5, RecOther
<1> QED  BY <1>6, <1>7

----------------------------------------------------------------------------
(***************************************************************************)
(* The other steps, and the theorem.                                       *)
(***************************************************************************)

\* Calls made while none is pending.
LEMMA FreshCalls ==
    ASSUME Rec, calls = <<>>, stack' = stack,
           asr_is_running' = asr_is_running, kwd_is_running' = kwd_is_running,
           NEW d, d = calls', Away(d), Tidy(d), \A i \in 1..Len(d) : ~Coming(d[i])
    PROVE  Rec'
<1>0. PICK c : c = calls  OBVIOUS
<1>1. Neutral(c)  BY <1>0 DEF Neutral, AsrLeaving, Mic
<1>2. AsrComes(d, stack["MIC"])  BY DEF AsrComes
<1> QED  BY <1>0, <1>1, <1>2, RecOther

\* The agent, the main loop and the environment.
LEMMA HandlerRec ==
    ASSUME IndInv, Rec,
           \/ ResetExpectStep \/ OnListeningState \/ OnWakeupState \/ AgentStep
           \/ ResumeStep \/ Dispatch \/ Environment
    PROVE  Rec'
<1>0. PICK c, l : c = calls /\ l = stack["MIC"]  OBVIOUS
<1>4. Tidy(c) /\ AsrComes(c, l)  BY <1>0 DEF Rec, RecInv
<1>5. CASE ResetExpectStep \/ ResumeStep
  <2>1. /\ c # <<>> /\ c[1][1] \in {"reset_expect", "resume"} /\ calls' = Pop(c)
        /\ stack' = stack
        /\ asr_is_running' = asr_is_running /\ kwd_is_running' = kwd_is_running
    BY <1>0, <1>5
    DEF ResetExpectStep, ResumeStep, Running, Return, Pop, focusVars, asrVars, kwdVars
  <2>2. c \in Seq(Call) /\ Nesting(c, stack, focused["SPK"])  BY <1>0, <2>1, MainFacts
  <2>3. Tidy(Pop(c)) /\ AsrComes(Pop(c), l)  BY <1>4, <2>1, <2>2, CallsAfter
  <2>4. Away(Pop(c))  BY <2>1, <2>2, PopAway
  <2>5. Neutral(c)  BY <2>1, OtherNeutral
  <2> QED  BY <1>0, <2>1, <2>3, <2>4, <2>5, RecOther
<1>6. CASE OnListeningState \/ OnWakeupState \/ AgentStep \/ UserStopped
  <2>1. /\ c # <<>>
        /\ c[1][1] \in {"handle", "prev_state", "start_timer", "user_stopped"}
        /\ stack' = stack
    BY <1>0, <1>6, HandlerCalls DEF focusVars
  <2>2. PICK cs \in TameCalls : calls' = Push(c, cs)  BY <1>0, <1>6, HandlerCalls
  <2>3. asr_is_running' = asr_is_running /\ kwd_is_running' = kwd_is_running
    BY <1>6 DEF OnListeningState, OnWakeupState, AgentStep, UserStopped, asrVars, kwdVars
  <2>4. c \in Seq(Call) /\ Nesting(c, stack, focused["SPK"])  BY <1>0, <2>1, MainFacts
  <2>5. ~Above(c[1])  BY <2>1 DEF Above
  <2>6. Tidy(Push(c, cs)) /\ AsrComes(Push(c, cs), l)
    BY <1>4, <2>1, <2>4, <2>5, CallsAfter
  <2>7. Away(Push(c, cs))
    <3>1. Below(c, 1)  BY <2>1, <2>4, TopCall DEF Nested
    <3>2. cs \in PlainCalls  BY TameFacts
    <3>3. Push(c, cs) \in Seq(Call) /\ Below(Push(c, cs), 0)
      BY <2>1, <2>4, <3>1, <3>2, ReturnPlain
    <3> QED  BY <3>3, AwayFacts
  <2>8. Neutral(c)  BY <2>1, OtherNeutral
  <2> QED  BY <1>0, <2>1, <2>2, <2>3, <2>6, <2>7, <2>8, RecOther
<1>7. CASE Dispatch
  <2>0. PICK x, y, d : /\ x = <<"handle", Head(queue)[1], Head(queue)[2]>>
                       /\ y = <<"resume", Head(queue)[1], Head(queue)[2]>>
                       /\ d = <<x, y>>
    OBVIOUS
  <2>1. /\ calls = <<>> /\ calls' = d /\ stack' = stack
        /\ asr_is_running' = asr_is_running /\ kwd_is_running' = kwd_is_running
    BY <1>7, <2>0 DEF Dispatch, focusVars, asrVars, kwdVars
  <2>2. x[1] = "handle" /\ y[1] = "resume"  BY <2>0
  <2>3. Len(d) = 2 /\ d[1] = x /\ d[2] = y  BY <2>0
  <2>4. \A i \in 1..Len(d) : i = 1 \/ i = 2  BY <2>3
  <2>5. \A i \in 1..Len(d) : d[i][1] \in {"handle", "resume"}  BY <2>2, <2>3, <2>4
  <2>6. Tidy(d) /\ \A i \in 1..Len(d) : ~Coming(d[i])
    BY <2>5 DEF Tidy, Coming, Release
  <2>7. Away(d)  BY <2>2, <2>3 DEF Away, Nested
  <2> QED  BY <2>1, <2>6, <2>7, FreshCalls
<1>8. CASE Environment /\ ~UserStopped
  <2>0. PICK d : d = calls'  OBVIOUS
  <2>1. /\ calls = <<>> /\ d \in TameCalls /\ stack' = stack
        /\ asr_is_running' = asr_is_running /\ kwd_is_running' = kwd_is_running
    BY <1>8, <2>0, InputCalls DEF focusVars, asrVars, kwdVars
  <2>2. Tidy(d) /\ \A i \in 1..Len(d) : ~Coming(d[i])  BY <2>1 DEF TameCalls
  <2>3. Away(d)
    <3>1. d \in Seq(Call) /\ \A i \in 1..Len(d) : d[i][1] \notin Nested
      BY <2>1 DEF TameCalls, PlainCalls
    <3>2. ASSUME d # <<>> PROVE 1 \in 1..Len(d)
      <4>1. Len(d) \in Nat \ {0}  BY <3>1, <3>2, LenProperties, EmptySeq
      <4> QED  BY <4>1
    <3> QED  BY <3>1, <3>2 DEF Away
  <2> QED  BY <2>0, <2>1, <2>2, <2>3, FreshCalls
<1> QED  BY <1>5, <1>6, <1>7, <1>8

\* The threads start nobody; the wakeup thread may stop itself.
LEMMA ThreadRec ==
    ASSUME Rec, calls' = calls, stack' = stack, asr_is_running' = asr_is_running,
           kwd_is_running' = kwd_is_running \/ ~kwd_is_running'
    PROVE  Rec'
<1>0. PICK c, l : c = calls /\ l = stack["MIC"]  OBVIOUS
<1>a. PICK asr, kwd, kwd2 :
         asr = asr_is_running /\ kwd = kwd_is_running /\ kwd2 = kwd_is_running'
  OBVIOUS
<1>1. Tidy(c) /\ AsrComes(c, l) /\ KwdFirst(l) /\ TopInv(c, l, asr, kwd)
  BY <1>0, <1>a DEF Rec, RecInv
<1>2. kwd2 => kwd  BY <1>a
<1>3. TopInv(c, l, asr, kwd2)  BY <1>1, <1>2 DEF TopInv, KwdAlone
<1> QED  BY <1>0, <1>1, <1>3, <1>a, RecAfter

\* The microphone's list, the calls under way and what runs fit together in
\* every reachable state.
THEOREM VoiceRec == Spec => []Rec
<1>1. Init => Rec
  <2> SUFFICES ASSUME Init PROVE Rec  OBVIOUS
  <2>0. PICK c, l : c = calls /\ l = stack["MIC"]  OBVIOUS
  <2>1. c = <<>> /\ l = <<>> /\ ~asr_is_running /\ ~kwd_is_running
    BY <2>0, PolicyFacts DEF Init
  <2>2. KwdFirst(l) /\ Tidy(c) /\ AsrComes(c, l)
    BY <2>1 DEF KwdFirst, On, Tidy, AsrComes
  <2>3. TopInv(c, l, asr_is_running, kwd_is_running)
    BY <2>1 DEF TopInv, ToldAlone, KwdAlone, Mic
  <2> QED  BY <2>0, <2>2, <2>3 DEF Rec, RecInv
<1>2. IndInv /\ Rec /\ [Next]_vars => Rec'
  <2> SUFFICES ASSUME IndInv, Rec, [Next]_vars PROVE Rec'  OBVIOUS
  <2>1. CASE RequestStep
    <3>1. calls[1][3] \in {"MIC", "SPK"}  BY <2>1, RequestShape
    <3> QED  BY <2>1, <3>1, RequestMicRec, RequestSpkRec
  <2>2. CASE StolenStep \/ ReleaseStep \/ ReleasedStep
    BY <2>2, StolenRec, ReleaseRec, ReleasedRec
  <2>3. CASE \/ AsrFocusMic \/ AsrFocusSpk \/ KwdFocus \/ ExpectFocus \/ TtsFocus
             \/ AudioFocus
    BY <2>3, AsrFocusMicRec, AsrFocusSpkRec, KwdFocusRec, SpeakerFocusRec
  <2>4. CASE AsrUnfocusMic \/ AsrUnfocusSpk \/ KwdUnfocus \/ SpeakerUnfocus
    BY <2>4, AsrUnfocusMicRec, KwdUnfocusRec, SpeakerUnfocusRec
  <2>5. CASE \/ ResetExpectStep \/ OnListeningState \/ OnWakeupState \/ AgentStep
             \/ ResumeStep \/ Dispatch \/ Environment
    BY <2>5, HandlerRec
  <2>6. CASE Asr
    <3>1. /\ calls' = calls /\ stack' = stack /\ asr_is_running' = asr_is_running
          /\ kwd_is_running' = kwd_is_running
      BY <2>6
      DEF Asr, AsrStep, AsrWait, AsrWoken, AsrLoop, AsrStopped, AsrDone, AsrSpurious,
          AsrBreak, AsrFrame, AsrEndPoint, AsrGoto, AsrSend, AsrAt, focusVars, kwdVars
    <3> QED  BY <3>1, ThreadRec
  <2>7. CASE Kwd
    <3>1. /\ calls' = calls /\ stack' = stack /\ asr_is_running' = asr_is_running
          /\ kwd_is_running' = kwd_is_running \/ ~kwd_is_running'
      BY <2>7
      DEF Kwd, KwdStep, KwdWait, KwdWoken, KwdLoop, KwdStopped, KwdClear, KwdDone,
          KwdSpurious, KwdBreak, KwdFrame, KwdGoto, KwdSend, KwdAt, focusVars, asrVars
    <3> QED  BY <3>1, ThreadRec
  <2>8. CASE UNCHANGED vars
    <3>1. /\ calls' = calls /\ stack' = stack /\ asr_is_running' = asr_is_running
          /\ kwd_is_running' = kwd_is_running
      BY <2>8 DEF vars, focusVars, asrVars, kwdVars
    <3> QED  BY <3>1, ThreadRec
  <2> QED  BY <2>1, <2>2, <2>3, <2>4, <2>5, <2>6, <2>7, <2>8 DEF Next, Main
<1> QED  BY <1>1, <1>2, VoiceInv, PTL DEF Spec

\* The wakeup detector and the speech recognizer are never both switched on,
\* whatever the user, the server and the threads do between two steps of the
\* nested focus callbacks.
THEOREM VoiceOneRecognizer == Spec => []OneRecognizer
<1>1. Rec => OneRecognizer
  BY DEF Rec, RecInv, TopInv, KwdAlone, OneRecognizer
<1> QED  BY <1>1, VoiceRec, PTL

----------------------------------------------------------------------------
(***************************************************************************)
(* asr does not hold the microphone without the speaker: while it is on    *)
(* the top of the microphone's list it is on the speaker's list m, or the  *)
(* callbacks under way are about to change the one or the other.           *)
(***************************************************************************)

\* asr asks for the speaker, and somebody takes it from asr.
AsksAsr(x) == x[1] \in {"request", "stolen"} /\ x[2] = "asr" /\ x[3] = "SPK"
Robs(x) == x[1] = "stolen" /\ x[3] = "SPK" /\ x[4] = "asr"

Asking(c) == \E i \in 1..Len(c) : AsksAsr(c[i])
Robbed(c) == \E i \in 1..Len(c) : Robs(c[i])

\* asr is told that it has the microphone, or kwd gives it back or asks for it,
\* or asr is told that it lost the speaker, whereupon kwd asks for it.
Turning(c) ==
    \/ Mic(c, "focus", "asr") \/ Mic(c, "released", "kwd") \/ Mic(c, "request", "kwd")
    \/ /\ c # <<>> /\ c[1][1] = "unfocus" /\ 2 <= Len(c)
       /\ c[2][1] = "released" /\ c[2][2] = "kwd" /\ c[2][3] = "MIC"
    \/ c # <<>> /\ c[1][1] = "unfocus" /\ c[1][2] = "asr" /\ c[1][3] = "SPK"

AsrHolds(c, l, m) ==
    TopIs(l, "asr") => \/ On("asr", m) /\ ~Robbed(c)
                       \/ Asking(c) \/ Turning(c)

\* The calls d are cs and those that were behind the topmost of c.
Carried(c, cs, d) ==
    /\ \A j \in 1..Len(d) : \/ \E k \in 1..Len(cs) : d[j] = cs[k]
                            \/ \E i \in 2..Len(c) : d[j] = c[i]
    /\ \A i \in 2..Len(c) : \E j \in 1..Len(d) : d[j] = c[i]
    /\ \A k \in 1..Len(cs) : \E j \in 1..Len(d) : d[j] = cs[k]

\* A return that makes the calls cs.
LEMMA CallsKept ==
    ASSUME NEW c \in Seq(Call), c # <<>>, NEW cs \in Seq(Call), NEW d, d = Push(c, cs)
    PROVE  Carried(c, cs, d)
<1>1. /\ Len(c) \in Nat \ {0} /\ Len(cs) \in Nat
      /\ Len(d) = Len(cs) + Len(c) - 1
      /\ \A i \in 1..Len(cs) : d[i] = cs[i]
      /\ \A i \in 2..Len(c) : d[Len(cs) + i - 1] = c[i]
      /\ \A i \in (Len(cs) + 1)..(Len(cs) + Len(c) - 1) :
            i - Len(cs) + 1 \in 2..Len(c) /\ d[i] = c[i - Len(cs) + 1]
  BY ReturnFacts DEF Push
<1>2. ASSUME NEW j \in 1..Len(d)
      PROVE  \/ \E k \in 1..Len(cs) : d[j] = cs[k]
             \/ \E i \in 2..Len(c) : d[j] = c[i]
  <2>1. CASE j <= Len(cs)  BY <1>1, <2>1
  <2>2. CASE ~(j <= Len(cs))
    <3>1. j \in (Len(cs) + 1)..(Len(cs) + Len(c) - 1)  BY <1>1, <2>2
    <3> QED  BY <1>1, <3>1
  <2> QED  BY <2>1, <2>2
<1>3. ASSUME NEW i \in 2..Len(c) PROVE \E j \in 1..Len(d) : d[j] = c[i]
  <2>1. Len(cs) + i - 1 \in 1..Len(d)  BY <1>1
  <2> QED  BY <1>1, <2>1
<1>4. ASSUME NEW k \in 1..Len(cs) PROVE \E j \in 1..Len(d) : d[j] = cs[k]
  <2>1. k \in 1..Len(d)  BY <1>1
  <2> QED  BY <1>1, <2>1
<1> QED  BY <1>2, <1>3, <1>4 DEF Carried

\* The call sequences of a return, as a push.
LEMMA PushForms ==
    ASSUME NEW c
    PROVE  /\ \E e \in Seq(Call) : Len(e) = 0 /\ Pop(c) = Push(c, e)
           /\ \A x \in Call : \E e \in Seq(Call) :
                 Len(e) = 1 /\ e[1] = x /\ PushOne(c, x) = Push(c, e)
           /\ \A x, y \in Call : \E e \in Seq(Call) :
                 Len(e) = 2 /\ e[1] = x /\ e[2] = y /\ PushTwo(c, x, y) = Push(c, e)
<1>1. \E e \in Seq(Call) : Len(e) = 0 /\ Pop(c) = Push(c, e)
  <2>1. PICK e : e = <<>>  OBVIOUS
  <2>2. e \in Seq(Call) /\ Len(e) = 0 /\ Pop(c) = Push(c, e)
    BY <2>1, EmptySeq DEF Pop, Push
  <2> QED  BY <2>2
<1>2. ASSUME NEW x \in Call
      PROVE  \E e \in Seq(Call) : Len(e) = 1 /\ e[1] = x /\ PushOne(c, x) = Push(c, e)
  <2>1. PICK e : e = <<x>>  OBVIOUS
  <2>2. e \in Seq(Call) /\ Len(e) = 1 /\ e[1] = x /\ PushOne(c, x) = Push(c, e)
    BY <2>1 DEF PushOne, Push
  <2> QED  BY <2>2
<1>3. ASSUME NEW x \in Call, NEW y \in Call
      PROVE  \E e \in Seq(Call) :
                Len(e) = 2 /\ e[1] = x /\ e[2] = y /\ PushTwo(c, x, y) = Push(c, e)
  <2>1. PICK e : e = <<x, y>>  OBVIOUS
  <2>2. /\ e \in Seq(Call) /\ Len(e) = 2 /\ e[1] = x /\ e[2] = y
        /\ PushTwo(c, x, y) = Push(c, e)
    BY <2>1 DEF PushTwo, Push
  <2> QED  BY <2>2
<1> QED  BY <1>1, <1>2, <1>3

\* A return by which asr neither stops asking nor loses the speaker.
LEMMA HoldsKept ==
    ASSUME NEW c \in Seq(Call), c # <<>>, NEW l, NEW m, AsrHolds(c, l, m),
           ~Turning(c), ~AsksAsr(c[1]), NEW l2, NEW m2,
           TopIs(l2, "asr") => TopIs(l, "asr"),
           On("asr", m) /\ ~Robbed(c) => On("asr", m2)
    PROVE  /\ AsrHolds(Pop(c), l2, m2)
           /\ \A x \in Call : ~Robs(x) => AsrHolds(PushOne(c, x), l2, m2)
           /\ \A x, y \in Call :
                 ~Robs(x) /\ ~Robs(y) => AsrHolds(PushTwo(c, x, y), l2, m2)
           /\ \A cs \in PlainCalls : AsrHolds(Push(c, cs), l2, m2)
<1>1. ASSUME NEW cs \in Seq(Call), \A k \in 1..Len(cs) : ~Robs(cs[k])
      PROVE  AsrHolds(Push(c, cs), l2, m2)
  <2>0. PICK d : d = Push(c, cs)  OBVIOUS
  <2>1. Len(c) \in Nat \ {0}  BY LenProperties, EmptySeq
  <2>2. \A i \in 2..Len(c) : i \in 1..Len(c)  BY <2>1
  <2>a. Carried(c, cs, d)  BY <2>0, CallsKept
  <2>3. Robbed(d) => Robbed(c)
    BY <1>1, <2>2, <2>a DEF Robbed, Carried
  <2>4. Asking(c) => Asking(d)
    <3>1. \A i \in 1..Len(c) : i = 1 \/ i \in 2..Len(c)  BY <2>1
    <3> QED  BY <2>a, <3>1 DEF Asking, Carried
  <2> QED  BY <2>0, <2>3, <2>4 DEF AsrHolds
<1>2. AsrHolds(Pop(c), l2, m2)
  <2>1. PICK e \in Seq(Call) : Len(e) = 0 /\ Pop(c) = Push(c, e)  BY PushForms
  <2>2. \A k \in 1..Len(e) : ~Robs(e[k])  BY <2>1
  <2> QED  BY <1>1, <2>1, <2>2
<1>3. ASSUME NEW x \in Call, ~Robs(x) PROVE AsrHolds(PushOne(c, x), l2, m2)
  <2>1. PICK e \in Seq(Call) : Len(e) = 1 /\ e[1] = x /\ PushOne(c, x) = Push(c, e)
    BY PushForms
  <2>2. \A k \in 1..Len(e) : k = 1  BY <2>1
  <2> QED  BY <1>1, <1>3, <2>1, <2>2
<1>4. ASSUME NEW x \in Call, NEW y \in Call, ~Robs(x), ~Robs(y)
      PROVE  AsrHolds(PushTwo(c, x, y), l2, m2)
  <2>1. PICK e \in Seq(Call) :
           Len(e) = 2 /\ e[1] = x /\ e[2] = y /\ PushTwo(c, x, y) = Push(c, e)
    BY PushForms
  <2>2. \A k \in 1..Len(e) : k = 1 \/ k = 2  BY <2>1
  <2> QED  BY <1>1, <1>4, <2>1, <2>2
<1>5. ASSUME NEW cs \in PlainCalls PROVE AsrHolds(Push(c, cs), l2, m2)
  <2>1. cs \in Seq(Call) /\ \A k \in 1..Len(cs) : ~Robs(cs[k])
    BY DEF PlainCalls, Robs, Nested
  <2> QED  BY <1>1, <2>1
<1> QED  BY <1>2, <1>3, <1>4, <1>5

\* Who is on a list whose top was taken over.
LEMMA TakenOn ==
    ASSUME NEW r \in {"MIC", "SPK"}, NEW l, List(l, r), NEW f \in Users(r),
           NEW top \in Users(r), NEW answer \in UnfocusAnswers(top),
           NEW t, t = Taken(l, top, answer, f)
    PROVE  \A g : On(g, t) <=> \/ On(g, l) /\ g # top
                               \/ g = f
                               \/ g = top /\ answer = "PAUSE"
<1> DEFINE U == Users(r)
           u == RemoveItems(l, top)
           v == Unfocused(u, top, answer)
           w == RemoveItems(v, f)
<1>0. /\ l \in Seq(U) /\ Distinct(l) /\ f \in U /\ top \in U
      /\ U \subseteq Focus
  BY PolicyFacts DEF List
<1>1. t = Prepend(w, f)  BY DEF Taken
<1> HIDE DEF U
<1>2. /\ u \in Seq(U) /\ Distinct(u)
      /\ \A g : On(g, u) <=> On(g, l) /\ g # top
  BY <1>0, ListRemoved
<1>a. v = IF answer = "PAUSE" THEN InsertByPriority(u, top) ELSE u  BY DEF Unfocused
<1> HIDE DEF u, v
<1>3. /\ v \in Seq(U) /\ Distinct(v)
      /\ \A g : On(g, v) <=> On(g, u) \/ (g = top /\ answer = "PAUSE")
  <2>1. CASE answer = "PAUSE"
    <3>1. ~On(top, u)  BY <1>2
    <3>2. v = InsertByPriority(u, top)  BY <1>a, <2>1
    <3>3. /\ v \in Seq(U) /\ Distinct(v)
          /\ \A g : On(g, v) <=> On(g, u) \/ g = top
      BY <1>0, <1>2, <3>1, <3>2, ListInserted
    <3> QED  BY <2>1, <3>3
  <2>2. CASE answer # "PAUSE"  BY <1>2, <1>a, <2>2
  <2> QED  BY <2>1, <2>2
<1>4. /\ w \in Seq(U) /\ Distinct(w)
      /\ \A g : On(g, w) <=> On(g, v) /\ g # f
  BY <1>3, ListRemoved
<1> HIDE DEF w
<1>5. \A g : On(g, t) <=> On(g, w) \/ g = f
  BY <1>0, <1>1, <1>4, ListPrepended
<1> QED  BY <1>2, <1>3, <1>4, <1>5

Holds == AsrHolds(calls, stack["MIC"], stack["SPK"])

\* One list is replaced, the other stays.
LEMMA OtherKept ==
    ASSUME Lists(stack), NEW r \in {"MIC", "SPK"}, NEW t, stack' = Updated(stack, r, t)
    PROVE  /\ r = "SPK" => stack'["SPK"] = t /\ stack'["MIC"] = stack["MIC"]
           /\ r = "MIC" => stack'["MIC"] = t /\ stack'["SPK"] = stack["SPK"]
<1>1. /\ stack \in [Resource -> Seq(Focus)] /\ r \in Resource
      /\ "MIC" \in Resource /\ "SPK" \in Resource
  BY PolicyFacts DEF Lists
<1> QED  BY <1>1 DEF Updated

\* Nobody who takes the speaker from asr waits below a single call.
LEMMA SingleRobs ==
    ASSUME NEW c \in Seq(Call), c # <<>>, Below(c, 1), NEW x \in Call, ~Robs(x),
           NEW d, d = PushOne(c, x)
    PROVE  ~Robbed(d)
<1>1. d \in Seq(Call) /\ Below(d, 1) /\ d[1] = x  BY ReturnOne
<1>2. Len(d) \in Nat  BY <1>1, LenProperties
<1>3. ASSUME NEW i \in 1..Len(d), Robs(d[i]) PROVE FALSE
  <2>1. i = 1 \/ i \in (1 + 1)..Len(d)  BY <1>2
  <2>2. d[i][1] \in Nested  BY <1>3 DEF Robs, Nested
  <2> QED  BY <1>1, <1>3, <2>1, <2>2 DEF Below
<1> QED  BY <1>3 DEF Robbed

\* The first calls of what a step pushes.
LEMMA PushedTop ==
    ASSUME NEW c \in Seq(Call), c # <<>>, NEW x \in Call, NEW y \in Call
    PROVE  /\ PushOne(c, x) # <<>> /\ PushOne(c, x)[1] = x
           /\ PushTwo(c, x, y) # <<>> /\ PushTwo(c, x, y)[1] = x
           /\ PushTwo(c, x, y)[2] = y /\ 2 <= Len(PushTwo(c, x, y))
           /\ AsksAsr(x) => Asking(PushOne(c, x))
           /\ AsksAsr(x) \/ AsksAsr(y) => Asking(PushTwo(c, x, y))
<1>0. PICK d, e : d = PushOne(c, x) /\ e = PushTwo(c, x, y)  OBVIOUS
<1>1. d # <<>> /\ d[1] = x /\ d \in Seq(Call)  BY <1>0, PushAway, ReturnOne
<1>2. e # <<>> /\ e[1] = x  BY <1>0, PushAway
<1>3. e \in Seq(Call) /\ e[2] = y  BY <1>0, ReturnTwo
<1>4. PICK p \in Seq(Call) : Len(p) = 2 /\ p[1] = x /\ p[2] = y /\ e = Push(c, p)
  BY <1>0, PushForms
<1>5. Len(c) \in Nat \ {0} /\ Len(e) = Len(p) + Len(c) - 1  BY <1>4, ReturnFacts DEF Push
<1>6. 2 <= Len(e) /\ 1 \in 1..Len(e) /\ 2 \in 1..Len(e)  BY <1>4, <1>5
<1>7. 1 \in 1..Len(d)  BY <1>0, FirstCall
<1>8. AsksAsr(x) => Asking(d)  BY <1>1, <1>7 DEF Asking
<1>9. AsksAsr(x) \/ AsksAsr(y) => Asking(e)  BY <1>2, <1>3, <1>6 DEF Asking
<1> QED  BY <1>0, <1>1, <1>2, <1>3, <1>6, <1>8, <1>9

\* A request for the speaker.
LEMMA RequestSpkHolds ==
    ASSUME IndInv, Holds, RequestStep, calls[1][3] = "SPK"
    PROVE  Holds'
<1>0. PICK c, f, r, l, m : /\ c = calls /\ f = c[1][2] /\ r = c[1][3] /\ l = stack[r]
                           /\ m = stack["MIC"]
  OBVIOUS
<1>1. /\ c \in Seq(Call) /\ c # <<>> /\ c[1][1] = "request"
      /\ r = "SPK" /\ f \in Users(r) /\ Lists(stack)
      /\ List(l, r) /\ (l # <<>> => Head(l) \in Users(r))
      /\ \/ /\ l = <<>> /\ stack' = Updated(stack, r, <<f>>)
            /\ calls' = PushOne(c, <<"focus", f, r, "request">>)
         \/ /\ l # <<>> /\ ~Refused(Head(l), r, f) /\ stack' = stack
            /\ calls' = PushTwo(c, <<"unfocus", Head(l), r>>,
                                   <<"stolen", f, r, Head(l)>>)
         \/ /\ l # <<>> /\ Refused(Head(l), r, f)
            /\ stack' = Updated(stack, r, Reserved(l, f))
            /\ calls' = Pop(c)
  BY <1>0, RequestShape
<1>2. AsrHolds(c, m, l)  BY <1>0, <1>1 DEF Holds
<1>3. AsrFirst(l, r)  BY <1>0, <1>1, ListsFacts
<1>4. ~Turning(c)  BY <1>0, <1>1 DEF Turning, Mic
<1>5. AsksAsr(c[1]) <=> f = "asr"  BY <1>0, <1>1 DEF AsksAsr
<1>6. Below(c, 1)
  <2>1. Nesting(c, stack, focused["SPK"])  BY <1>0, <1>1, MainFacts
  <2>2. c[1] # Request("kwd", "MIC")  BY <1>0, <1>1 DEF Request
  <2> QED  BY <1>1, <2>1, <2>2, TopCall
<1>7. CASE /\ l = <<>> /\ stack' = Updated(stack, r, <<f>>)
           /\ calls' = PushOne(c, <<"focus", f, r, "request">>)
  <2>0. PICK x, t : x = <<"focus", f, r, "request">> /\ t = <<f>>  OBVIOUS
  <2>1. x \in Call /\ ~Robs(x)  BY <1>1, <2>0, CallsMade DEF Robs
  <2>2. stack'["SPK"] = t /\ stack'["MIC"] = m  BY <1>0, <1>1, <1>7, <2>0, OtherKept
  <2>3. f = "asr" => On("asr", t)  BY <2>0 DEF On
  <2>4. ~On("asr", l)  BY <1>7 DEF On
  <2>5. AsrHolds(PushOne(c, x), m, t)
    <3>1. CASE f = "asr"
      <4>1. ~Robbed(PushOne(c, x))  BY <1>1, <1>6, <2>1, SingleRobs
      <4> QED  BY <2>3, <3>1, <4>1 DEF AsrHolds
    <3>2. CASE f # "asr"
      BY <1>1, <1>2, <1>4, <1>5, <2>1, <2>4, <3>2, HoldsKept
    <3> QED  BY <3>1, <3>2
  <2> QED  BY <1>7, <2>0, <2>2, <2>5 DEF Holds
<1>8. CASE /\ l # <<>> /\ stack' = stack
           /\ calls' = PushTwo(c, <<"unfocus", Head(l), r>>, <<"stolen", f, r, Head(l)>>)
  <2>0. PICK h, x, y : h = Head(l) /\ x = <<"unfocus", h, r>> /\ y = <<"stolen", f, r, h>>
    OBVIOUS
  <2>1. /\ x \in Call /\ x[1] = "unfocus" /\ x[2] = h /\ x[3] = "SPK"
        /\ y \in Call /\ y[1] = "stolen" /\ y[2] = f /\ y[3] = "SPK" /\ y[4] = h
    BY <1>1, <1>8, <2>0, CallsMade
  <2>2. AsrHolds(PushTwo(c, x, y), m, l)
    <3>1. CASE h = "asr"
      <4>1. PushTwo(c, x, y) # <<>> /\ PushTwo(c, x, y)[1] = x  BY <1>1, <2>1, PushedTop
      <4> QED  BY <2>1, <3>1, <4>1 DEF AsrHolds, Turning
    <3>2. CASE f = "asr"
      <4>1. AsksAsr(y)  BY <2>1, <3>2 DEF AsksAsr
      <4>2. Asking(PushTwo(c, x, y))  BY <1>1, <2>1, <4>1, PushedTop
      <4> QED  BY <4>2 DEF AsrHolds
    <3>3. CASE h # "asr" /\ f # "asr"
      <4>1. ~Robs(x) /\ ~Robs(y)  BY <2>1, <3>3 DEF Robs
      <4> QED  BY <1>1, <1>2, <1>4, <1>5, <2>1, <3>3, <4>1, HoldsKept
    <3> QED  BY <3>1, <3>2, <3>3
  <2> QED  BY <1>0, <1>1, <1>8, <2>0, <2>2 DEF Holds
<1>9. CASE /\ l # <<>> /\ Refused(Head(l), r, f)
           /\ stack' = Updated(stack, r, Reserved(l, f)) /\ calls' = Pop(c)
  <2>0. PICK t : t = Reserved(l, f)  OBVIOUS
  <2>1. f # "asr" /\ \A g : On(g, t) <=> On(g, l) \/ g = f
    BY <1>1, <1>3, <1>9, <2>0, ListReserved DEF AsrFirst
  <2>2. stack'["SPK"] = t /\ stack'["MIC"] = m  BY <1>0, <1>1, <1>9, <2>0, OtherKept
  <2>3. AsrHolds(Pop(c), m, t)  BY <1>1, <1>2, <1>4, <1>5, <2>1, HoldsKept
  <2> QED  BY <1>9, <2>2, <2>3 DEF Holds
<1> QED  BY <1>1, <1>7, <1>8, <1>9

\* A request for the microphone.
LEMMA RequestMicHolds ==
    ASSUME IndInv, Rec, Holds, RequestStep, calls[1][3] = "MIC"
    PROVE  Holds'
<1>0. PICK c, f, l, m : /\ c = calls /\ f = c[1][2] /\ l = stack["MIC"]
                        /\ m = stack["SPK"]
  OBVIOUS
<1>1. /\ c \in Seq(Call) /\ c # <<>> /\ c[1][1] = "request" /\ c[1][3] = "MIC"
      /\ f \in Users("MIC") /\ Lists(stack) /\ List(l, "MIC")
      /\ (l # <<>> => Head(l) \in Users("MIC"))
      /\ \/ /\ l = <<>> /\ stack' = Updated(stack, "MIC", <<f>>)
            /\ calls' = PushOne(c, <<"focus", f, "MIC", "request">>)
         \/ /\ l # <<>> /\ ~Refused(Head(l), "MIC", f) /\ stack' = stack
            /\ calls' = PushTwo(c, <<"unfocus", Head(l), "MIC">>,
                                   <<"stolen", f, "MIC", Head(l)>>)
         \/ /\ l # <<>> /\ Refused(Head(l), "MIC", f)
            /\ stack' = Updated(stack, "MIC", Reserved(l, f))
            /\ calls' = Pop(c)
  BY <1>0, RequestShape
<1>2. AsrHolds(c, l, m) /\ KwdFirst(l)  BY <1>0 DEF Holds, Rec, RecInv
<1>3. f = "kwd" \/ f = "asr"  BY <1>1, MicPolicy
<1>4. f = "asr" => ~Turning(c)  BY <1>0, <1>1 DEF Turning, Mic
<1>5. ~AsksAsr(c[1])  BY <1>1 DEF AsksAsr
<1>6. CASE /\ l = <<>> /\ stack' = Updated(stack, "MIC", <<f>>)
           /\ calls' = PushOne(c, <<"focus", f, "MIC", "request">>)
  <2>0. PICK x, t : x = <<"focus", f, "MIC", "request">> /\ t = <<f>>  OBVIOUS
  <2>1. x \in Call /\ x[1] = "focus" /\ x[2] = f /\ x[3] = "MIC"
    BY <1>1, <2>0, CallsMade
  <2>2. stack'["MIC"] = t /\ stack'["SPK"] = m  BY <1>0, <1>1, <1>6, <2>0, OtherKept
  <2>3. PushOne(c, x) # <<>> /\ PushOne(c, x)[1] = x  BY <1>1, <2>1, PushedTop
  <2>4. TopIs(t, "asr") => f = "asr"  BY <2>0 DEF TopIs
  <2>5. AsrHolds(PushOne(c, x), t, m)
    BY <2>1, <2>3, <2>4 DEF AsrHolds, Turning, Mic
  <2> QED  BY <1>6, <2>0, <2>2, <2>5 DEF Holds
<1>7. CASE /\ l # <<>> /\ ~Refused(Head(l), "MIC", f) /\ stack' = stack
           /\ calls' = PushTwo(c, <<"unfocus", Head(l), "MIC">>,
                                  <<"stolen", f, "MIC", Head(l)>>)
  <2>1. Head(l) = "kwd"  BY <1>1, <1>7, MicPolicy
  <2>2. ~TopIs(l, "asr")  BY <2>1 DEF TopIs
  <2> QED  BY <1>0, <1>7, <2>2 DEF Holds, AsrHolds
<1>8. CASE /\ l # <<>> /\ Refused(Head(l), "MIC", f)
           /\ stack' = Updated(stack, "MIC", Reserved(l, f)) /\ calls' = Pop(c)
  <2>0. PICK t : t = Reserved(l, f)  OBVIOUS
  <2>1. /\ KwdFirst(t) /\ t # <<>> /\ \A g : On(g, t) <=> On(g, l) \/ g = f
    BY <1>1, <1>2, <1>8, <2>0, MicReserved
  <2>2. stack'["MIC"] = t /\ stack'["SPK"] = m  BY <1>0, <1>1, <1>8, <2>0, OtherKept
  <2>3. CASE f = "kwd"
    <3>1. ~TopIs(t, "asr")  BY <2>1, <2>3 DEF KwdFirst, TopIs
    <3> QED  BY <2>2, <3>1 DEF Holds, AsrHolds
  <2>4. CASE f = "asr"
    <3>1. Head(l) = "asr"  BY <1>1, <1>8, <2>4, MicPolicy
    <3>2. TopIs(l, "asr")  BY <1>8, <3>1 DEF TopIs
    <3>3. AsrHolds(Pop(c), t, m)  BY <1>1, <1>2, <1>4, <1>5, <2>4, <3>2, HoldsKept
    <3> QED  BY <1>8, <2>2, <3>3 DEF Holds
  <2> QED  BY <1>3, <2>3, <2>4
<1> QED  BY <1>1, <1>6, <1>7, <1>8

\* nugu_focus_request() after unfocus_cb of the former top.
LEMMA StolenHolds ==
    ASSUME IndInv, Rec, Holds, StolenStep
    PROVE  Holds'
<1>0. PICK c, f, r, top, l, m :
         /\ c = calls /\ f = c[1][2] /\ r = c[1][3] /\ top = c[1][4]
         /\ l = stack["MIC"] /\ m = stack["SPK"]
  OBVIOUS
<1>1. c # <<>> /\ c[1][1] = "stolen"  BY <1>0 DEF StolenStep, Running
<1>2. /\ Lists(stack) /\ c \in Seq(Call) /\ c[1] \in Call
      /\ Nesting(c, stack, focused["SPK"])
  BY <1>0, <1>1, MainFacts
<1>3. r \in {"MIC", "SPK"} /\ f \in Users(r) /\ top \in Users(r)
  BY <1>0, <1>1, <1>2, CallFacts
<1>4. Below(c, 1)
  <2>1. InHandOver(c, stack, focused["SPK"])  BY <1>1, <1>2, TopCall
  <2> QED  BY <2>1 DEF InHandOver
<1>5. PICK x : x = <<"focus", f, r, "request">>  OBVIOUS
<1>6. x \in Call /\ x[1] = "focus" /\ x[2] = f /\ x[3] = r  BY <1>3, <1>5, CallsMade
<1>7. PICK answer \in UnfocusAnswers(top) :
         /\ stack' = Updated(stack, r, Taken(stack[r], top, answer, f))
         /\ calls' = PushOne(c, x)
  BY <1>0, <1>5 DEF StolenStep, Return, Updated, Taken, PushOne
<1>8. AsrHolds(c, l, m) /\ Tidy(c)  BY <1>0 DEF Holds, Rec, RecInv
<1>9. 1 \in 1..Len(c)
  <2>1. Len(c) \in Nat \ {0}  BY <1>1, <1>2, LenProperties, EmptySeq
  <2> QED  BY <2>1
<1>10. CASE r = "SPK"
  <2>0. PICK t : t = Taken(m, top, answer, f)  OBVIOUS
  <2>1. stack'["SPK"] = t /\ stack'["MIC"] = l
    BY <1>0, <1>2, <1>3, <1>7, <1>10, <2>0, OtherKept
  <2>2. List(m, "SPK")  BY <1>0, <1>2, ListsFacts
  <2>3. \A g : On(g, t) <=> \/ On(g, m) /\ g # top
                            \/ g = f
                            \/ g = top /\ answer = "PAUSE"
    BY <1>3, <1>7, <1>10, <2>0, <2>2, TakenOn
  <2>4. ~Robs(x)  BY <1>6 DEF Robs
  <2>5. AsrHolds(PushOne(c, x), l, t)
    <3>1. CASE f = "asr"
      <4>1. ~Robbed(PushOne(c, x))  BY <1>1, <1>2, <1>4, <1>6, <2>4, SingleRobs
      <4> QED  BY <2>3, <3>1, <4>1 DEF AsrHolds
    <3>2. CASE f # "asr"
      <4>1. ~AsksAsr(c[1]) /\ ~Turning(c)
        BY <1>0, <1>1, <3>2 DEF AsksAsr, Turning, Mic
      <4>2. ~Robbed(c) => top # "asr"
        BY <1>0, <1>1, <1>9, <1>10 DEF Robbed, Robs
      <4>3. On("asr", m) /\ ~Robbed(c) => On("asr", t)  BY <2>3, <4>2
      <4> QED  BY <1>1, <1>2, <1>6, <1>8, <2>4, <4>1, <4>3, HoldsKept
    <3> QED  BY <3>1, <3>2
  <2> QED  BY <1>7, <2>1, <2>5 DEF Holds
<1>11. CASE r = "MIC"
  <2>1. f = "asr"  BY <1>0, <1>1, <1>8, <1>9, <1>11 DEF Tidy
  <2>2. PushOne(c, x) # <<>> /\ PushOne(c, x)[1] = x  BY <1>1, <1>2, <1>6, PushedTop
  <2>3. Turning(calls')  BY <1>6, <1>7, <1>11, <2>1, <2>2 DEF Turning, Mic
  <2> QED  BY <2>3 DEF Holds, AsrHolds
<1> QED  BY <1>3, <1>10, <1>11

\* nugu_focus_release() up to unfocus_cb.
LEMMA ReleaseHolds ==
    ASSUME IndInv, Rec, Holds, ReleaseStep
    PROVE  Holds'
<1>0. PICK c, f, r, l, m, s : /\ c = calls /\ f = c[1][2] /\ r = c[1][3]
                              /\ l = stack["MIC"] /\ m = stack["SPK"] /\ s = stack[r]
  OBVIOUS
<1>1. c # <<>> /\ c[1][1] = "release"  BY <1>0 DEF ReleaseStep, Running
<1>2. /\ Lists(stack) /\ c \in Seq(Call) /\ c[1] \in Call
  BY <1>0, <1>1, MainFacts
<1>3. r \in {"MIC", "SPK"} /\ f \in Users(r)  BY <1>0, <1>1, <1>2, CallFacts
<1>4. PICK x, y : x = <<"unfocus", f, r>> /\ y = <<"released", f, r>>  OBVIOUS
<1>5. /\ x \in Call /\ x[1] = "unfocus" /\ x[2] = f /\ x[3] = r
      /\ y \in Call /\ y[1] = "released" /\ y[2] = f /\ y[3] = r
  BY <1>3, <1>4, CallsMade
<1>6. PICK t : /\ stack' = Updated(stack, r, t)
               /\ \/ (s = <<>> \/ Head(s) # f) /\ t = RemoveItems(s, f) /\ calls' = Pop(c)
                  \/ s # <<>> /\ Head(s) = f /\ t = Tail(s) /\ calls' = PushTwo(c, x, y)
  BY <1>0, <1>4 DEF ReleaseStep, Return, Updated, Pop, PushTwo
<1>7. AsrHolds(c, l, m) /\ KwdFirst(l)  BY <1>0 DEF Holds, Rec, RecInv
<1>8. ~Turning(c) /\ ~AsksAsr(c[1])  BY <1>1 DEF Turning, Mic, AsksAsr
<1>9. ~Robs(x) /\ ~Robs(y)  BY <1>5 DEF Robs
<1>10. /\ PushTwo(c, x, y) # <<>> /\ PushTwo(c, x, y)[1] = x
       /\ PushTwo(c, x, y)[2] = y /\ 2 <= Len(PushTwo(c, x, y))
  BY <1>1, <1>2, <1>5, PushedTop
<1>11. List(s, r) /\ AsrFirst(s, r)  BY <1>0, <1>2, <1>3, ListsFacts
<1>12. s \in Seq(Users(r)) /\ Distinct(s)  BY <1>11 DEF List
<1>13. CASE r = "SPK"
  <2>1. stack'["SPK"] = t /\ stack'["MIC"] = l /\ s = m
    BY <1>0, <1>2, <1>3, <1>6, <1>13, OtherKept
  <2>2. CASE /\ s = <<>> \/ Head(s) # f
             /\ t = RemoveItems(s, f) /\ calls' = Pop(c)
    <3>1. \A g : On(g, t) <=> On(g, s) /\ g # f  BY <1>12, <2>2, ListRemoved
    <3>2. On("asr", s) => f # "asr"
      <4>1. On("asr", s) => s # <<>>  BY DEF On
      <4> QED  BY <1>11, <1>13, <2>2, <4>1 DEF AsrFirst
    <3>3. AsrHolds(Pop(c), l, t)
      BY <1>1, <1>2, <1>7, <1>8, <2>1, <3>1, <3>2, HoldsKept
    <3> QED  BY <2>1, <2>2, <3>3 DEF Holds
  <2>3. CASE s # <<>> /\ Head(s) = f /\ t = Tail(s) /\ calls' = PushTwo(c, x, y)
    <3>1. CASE f = "asr"
      <4>1. Turning(calls')  BY <1>5, <1>10, <1>13, <2>3, <3>1 DEF Turning
      <4> QED  BY <4>1 DEF Holds, AsrHolds
    <3>2. CASE f # "asr"
      <4>1. ~On("asr", s)  BY <1>11, <1>13, <2>3, <3>2 DEF AsrFirst
      <4>2. AsrHolds(PushTwo(c, x, y), l, t)
        BY <1>1, <1>2, <1>5, <1>7, <1>8, <1>9, <2>1, <4>1, HoldsKept
      <4> QED  BY <2>1, <2>3, <4>2 DEF Holds
    <3> QED  BY <3>1, <3>2
  <2> QED  BY <1>6, <2>2, <2>3
<1>14. CASE r = "MIC"
  <2>1. stack'["MIC"] = t /\ stack'["SPK"] = m /\ s = l
    BY <1>0, <1>2, <1>3, <1>6, <1>14, OtherKept
  <2>2. f = "kwd" \/ f = "asr"  BY <1>3, <1>14, MicPolicy
  <2>3. List(l, "MIC")  BY <1>11, <1>14, <2>1
  <2>4. t \in Seq(Users("MIC")) => (TopIs(t, "asr") => On("asr", t))
    <3>1. ASSUME t \in Seq(Users("MIC")), TopIs(t, "asr") PROVE On("asr", t)
      <4>1. Len(t) \in Nat \ {0} /\ t[1] = "asr"
        BY <3>1, LenProperties, EmptySeq DEF TopIs
      <4>2. 1 \in 1..Len(t)  BY <4>1
      <4> QED  BY <4>1, <4>2 DEF On
    <3> QED  BY <3>1
  <2>5. CASE /\ s = <<>> \/ Head(s) # f
             /\ t = RemoveItems(s, f) /\ calls' = Pop(c)
    <3>1. /\ t \in Seq(Users(r)) /\ \A g : On(g, t) <=> On(g, s) /\ g # f
          /\ s # <<>> /\ Head(s) # f => t # <<>> /\ Head(t) = Head(s)
      BY <1>12, <2>5, ListRemoved
    <3>2. l = <<>> => t = <<>>  BY <1>7, <2>1, <2>3, <2>5, MicWithdrawn
    <3>3. TopIs(t, "asr") => TopIs(l, "asr")  BY <2>1, <2>5, <3>1, <3>2 DEF TopIs
    <3>4. AsrHolds(Pop(c), t, m)  BY <1>1, <1>2, <1>7, <1>8, <3>3, HoldsKept
    <3> QED  BY <2>1, <2>5, <3>4 DEF Holds
  <2>6. CASE s # <<>> /\ Head(s) = f /\ t = Tail(s) /\ calls' = PushTwo(c, x, y)
    <3>1. CASE f = "asr"
      <4>1. t \in Seq(Users(r)) /\ \A g : On(g, t) <=> On(g, s) /\ g # f
        BY <1>12, <2>6, ListTail
      <4>2. ~TopIs(t, "asr")  BY <1>14, <2>4, <3>1, <4>1
      <4> QED  BY <2>1, <4>2 DEF Holds, AsrHolds
    <3>2. CASE f = "kwd"
      <4>1. Turning(calls')  BY <1>5, <1>10, <1>14, <2>6, <3>2 DEF Turning
      <4> QED  BY <4>1 DEF Holds, AsrHolds
    <3> QED  BY <2>2, <3>1, <3>2
  <2> QED  BY <1>6, <2>5, <2>6
<1> QED  BY <1>3, <1>13, <1>14

\* nugu_focus_release() after unfocus_cb returned.
LEMMA ReleasedHolds ==
    ASSUME IndInv, Rec, Holds, ReleasedStep
    PROVE  Holds'
<1>0. PICK c, f, r, l, m, s : /\ c = calls /\ f = c[1][2] /\ r = c[1][3]
                              /\ l = stack["MIC"] /\ m = stack["SPK"] /\ s = stack[r]
  OBVIOUS
<1>1. c # <<>> /\ c[1][1] = "released"  BY <1>0 DEF ReleasedStep, Running
<1>2. /\ Lists(stack) /\ c \in Seq(Call) /\ c[1] \in Call
      /\ Nesting(c, stack, focused["SPK"])
  BY <1>0, <1>1, MainFacts
<1>3. r \in {"MIC", "SPK"} /\ f \in Users(r)  BY <1>0, <1>1, <1>2, CallFacts
<1>4. ~On(f, s) /\ (r = "SPK" => ~On("asr", s))
  <2>1. InHandOver(c, stack, focused["SPK"])  BY <1>1, <1>2, TopCall
  <2> QED  BY <1>0, <1>1, <2>1 DEF InHandOver, Waiting
<1>5. PICK answer \in UnfocusAnswers(f) :
         /\ stack' = Updated(stack, r, Unfocused(s, f, answer))
         /\ calls' = (IF Unfocused(s, f, answer) # <<>> /\ Head(Unfocused(s, f, answer)) # f
                      THEN << <<"focus", Head(Unfocused(s, f, answer)), r, "release">> >>
                      ELSE <<>>) \o Tail(c)
  BY <1>0 DEF ReleasedStep, Return, Updated
<1>6. PICK t, h, x : /\ t = Unfocused(s, f, answer) /\ h = Head(t)
                     /\ x = <<"focus", h, r, "release">>
  OBVIOUS
<1>7. /\ stack' = Updated(stack, r, t)
      /\ calls' = IF t # <<>> /\ h # f THEN PushOne(c, x) ELSE Pop(c)
  BY <1>5, <1>6 DEF PushOne, Pop
<1>8. List(s, r)  BY <1>0, <1>2, <1>3, ListsFacts
<1>9. (t # <<>> => h \in Users(r)) /\ (f # "cap_audio" => t = s)
  BY <1>3, <1>4, <1>6, <1>8, ListReleased
<1>10. t # <<>> => x \in Call /\ x[1] = "focus" /\ x[2] = h /\ x[3] = r
  BY <1>3, <1>6, <1>9, CallsMade
<1>11. AsrHolds(c, l, m)  BY <1>0 DEF Holds
<1>12. ~AsksAsr(c[1]) /\ (t # <<>> => ~Robs(x))  BY <1>1, <1>10 DEF AsksAsr, Robs
<1>13. CASE r = "SPK"
  <2>1. stack'["SPK"] = t /\ stack'["MIC"] = l /\ s = m
    BY <1>0, <1>2, <1>3, <1>7, <1>13, OtherKept
  <2>2. ~Turning(c)  BY <1>0, <1>1, <1>13 DEF Turning, Mic
  <2>3. AsrHolds(Pop(c), l, t)
    BY <1>1, <1>2, <1>4, <1>11, <1>12, <1>13, <2>1, <2>2, HoldsKept
  <2>4. t # <<>> => AsrHolds(PushOne(c, x), l, t)
    BY <1>1, <1>2, <1>4, <1>10, <1>11, <1>12, <1>13, <2>1, <2>2, HoldsKept
  <2> QED  BY <1>7, <2>1, <2>3, <2>4 DEF Holds
<1>14. CASE r = "MIC"
  <2>1. f = "kwd" \/ f = "asr"  BY <1>3, <1>14, MicPolicy
  <2>2. stack'["MIC"] = l /\ stack'["SPK"] = m /\ t = l
    BY <1>0, <1>2, <1>3, <1>7, <1>9, <1>14, <2>1, OtherKept
  <2>3. CASE f = "kwd"
    <3> SUFFICES ASSUME TopIs(l, "asr") PROVE Turning(calls')
      BY <2>2 DEF Holds, AsrHolds
    <3>1. l # <<>> /\ h = "asr"  BY <1>6, <2>2 DEF TopIs
    <3>2. calls' = PushOne(c, x) /\ x \in Call /\ x[1] = "focus" /\ x[2] = h /\ x[3] = r
      BY <1>7, <1>10, <2>2, <2>3, <3>1
    <3>3. calls' # <<>> /\ calls'[1] = x  BY <1>1, <1>2, <3>2, PushedTop
    <3> QED  BY <1>14, <3>1, <3>2, <3>3 DEF Turning, Mic
  <2>4. CASE f = "asr"
    <3>1. ~Turning(c)  BY <1>0, <1>1, <2>4 DEF Turning, Mic
    <3>2. AsrHolds(Pop(c), l, m)  BY <1>1, <1>2, <1>11, <1>12, <3>1, HoldsKept
    <3>3. t # <<>> => AsrHolds(PushOne(c, x), l, m)
      BY <1>1, <1>2, <1>10, <1>11, <1>12, <3>1, HoldsKept
    <3> QED  BY <1>7, <2>2, <3>2, <3>3 DEF Holds
  <2> QED  BY <2>1, <2>3, <2>4
<1> QED  BY <1>3, <1>13, <1>14

\* The onFocus() callbacks.
LEMMA FocusHolds ==
    ASSUME IndInv, Rec, Holds,
           \/ AsrFocusMic \/ AsrFocusSpk \/ KwdFocus \/ ExpectFocus \/ TtsFocus \/ AudioFocus
    PROVE  Holds'
<1>0. PICK c, l, m : c = calls /\ l = stack["MIC"] /\ m = stack["SPK"]  OBVIOUS
<1>1. c # <<>> /\ c[1][1] = "focus"
  BY <1>0
  DEF AsrFocusMic, AsrFocusSpk, KwdFocus, ExpectFocus, TtsFocus, AudioFocus, Running
<1>2. Lists(stack) /\ c \in Seq(Call) /\ c[1] \in Call  BY <1>0, <1>1, MainFacts
<1>3. c[1][3] \in {"MIC", "SPK"} /\ c[1][2] \in Users(c[1][3])  BY <1>1, <1>2, CallFacts
<1>4. AsrHolds(c, l, m) /\ TopInv(c, l, asr_is_running, kwd_is_running)
  BY <1>0 DEF Holds, Rec, RecInv
<1>5. ~AsksAsr(c[1])  BY <1>1 DEF AsksAsr
<1>6. CASE AsrFocusMic
  <2>0. PICK x, y : x = Release("expect", "SPK") /\ y = Request("asr", "SPK")  OBVIOUS
  <2>1. x \in Call /\ y \in Call
    <3>1. "expect" \in Users("SPK") /\ "asr" \in Users("SPK")  BY VoiceAssumption DEF Users
    <3> QED  BY <2>0, <3>1, CallsMade DEF Release, Request
  <2>2. calls' = PushOne(c, y) \/ calls' = PushTwo(c, x, y)
    BY <1>0, <1>6, <2>0, AsrFocusMicCalls
  <2>3. AsksAsr(y)  BY <2>0 DEF AsksAsr, Request
  <2>4. Asking(PushOne(c, y)) /\ Asking(PushTwo(c, x, y))
    BY <1>1, <1>2, <2>1, <2>3, PushedTop
  <2> QED  BY <2>2, <2>4 DEF Holds, AsrHolds
<1>7. CASE KwdFocus
  <2>1. c[1][2] = "kwd" /\ stack' = stack  BY <1>0, <1>7 DEF KwdFocus
  <2>2. c[1][3] = "MIC"  BY <1>3, <2>1 DEF Users
  <2>3. \A g : On(g, l) => g = "kwd"
    BY <1>1, <1>4, <2>1, <2>2 DEF TopInv, ToldAlone, Mic
  <2>4. ~TopIs(l, "asr")
    <3>1. List(l, "MIC")  BY <1>0, <1>2, ListsFacts
    <3> QED  BY <2>3, <3>1, MicList DEF TopIs
  <2> QED  BY <1>0, <2>1, <2>4 DEF Holds, AsrHolds
<1>8. CASE AsrFocusSpk \/ ExpectFocus \/ TtsFocus \/ AudioFocus
  <2>1. c[1][3] = "SPK"
    <3>1. CASE AsrFocusSpk  BY <1>0, <3>1 DEF AsrFocusSpk
    <3>2. CASE ExpectFocus \/ TtsFocus \/ AudioFocus
      <4>1. c[1][2] \in {"expect", "cap_tts", "cap_audio"}
        BY <1>0, <3>2 DEF ExpectFocus, TtsFocus, AudioFocus
      <4> QED  BY <1>3, <4>1 DEF Users
    <3> QED  BY <1>8, <3>1, <3>2
  <2>2. ~Turning(c)  BY <1>1, <2>1 DEF Turning, Mic
  <2>3. PICK t : stack'["MIC"] = l /\ stack'["SPK"] = t /\ (On("asr", m) => On("asr", t))
    <3>1. stack' = stack \/ stack' = Updated(stack, "SPK", RemoveItems(m, "cap_audio"))
      BY <1>0, <1>8, <2>1
      DEF AsrFocusSpk, ExpectFocus, TtsFocus, AudioFocus, Updated
    <3>2. CASE stack' = stack  BY <1>0, <3>2
    <3>3. CASE stack' = Updated(stack, "SPK", RemoveItems(m, "cap_audio"))
      <4>1. List(m, "SPK")  BY <1>0, <1>2, ListsFacts
      <4>2. \A g : On(g, RemoveItems(m, "cap_audio")) <=> On(g, m) /\ g # "cap_audio"
        BY <4>1, ListRemoved DEF List
      <4> QED  BY <1>0, <1>2, <3>3, <4>2, OtherKept
    <3> QED  BY <3>1, <3>2, <3>3
  <2>4. CASE ExpectFocus
    <3>0. PICK x : x = Request("asr", "MIC")  OBVIOUS
    <3>1. calls' = PushOne(c, x)
      BY <1>0, <2>4, <3>0 DEF ExpectFocus, Return, StartRecognition, PushOne
    <3>2. x \in Call /\ ~Robs(x)  BY <3>0, CallsMade, MicPolicy DEF Request, Robs
    <3>3. AsrHolds(PushOne(c, x), l, t)
      BY <1>1, <1>2, <1>4, <1>5, <2>2, <2>3, <3>2, HoldsKept
    <3> QED  BY <2>3, <3>1, <3>3 DEF Holds
  <2>5. CASE AsrFocusSpk \/ TtsFocus \/ AudioFocus
    <3>1. calls' = Pop(c)
      BY <1>0, <2>5 DEF AsrFocusSpk, TtsFocus, AudioFocus, Return, Pop
    <3>2. AsrHolds(Pop(c), l, t)  BY <1>1, <1>2, <1>4, <1>5, <2>2, <2>3, HoldsKept
    <3> QED  BY <2>3, <3>1, <3>2 DEF Holds
  <2> QED  BY <1>8, <2>4, <2>5
<1> QED  BY <1>6, <1>7, <1>8

\* The onUnfocus() callbacks.
LEMMA UnfocusHolds ==
    ASSUME IndInv, Rec, Holds,
           AsrUnfocusMic \/ AsrUnfocusSpk \/ KwdUnfocus \/ SpeakerUnfocus
    PROVE  Holds'
<1>0. PICK c, l, m, h : c = calls /\ l = stack["MIC"] /\ m = stack["SPK"] /\ h = c[2]
  OBVIOUS
<1>1. c # <<>> /\ c[1][1] = "unfocus" /\ stack' = stack
  BY <1>0 DEF AsrUnfocusMic, AsrUnfocusSpk, KwdUnfocus, SpeakerUnfocus, Running
<1>2. /\ c \in Seq(Call) /\ Waiting(h, stack) /\ h[3] = c[1][3] /\ Loser(h) = c[1][2]
      /\ Pop(c) # <<>> /\ Pop(c)[1] = h /\ 2 \in 1..Len(c)
  BY <1>0, <1>1, UnfocusShape
<1>3. c[1] \in Call  BY <1>0, <1>1, MainFacts
<1>4. c[1][3] \in {"MIC", "SPK"} /\ c[1][2] \in Users(c[1][3])  BY <1>1, <1>3, CallFacts
<1>5. AsrHolds(c, l, m) /\ Tidy(c)  BY <1>0 DEF Holds, Rec, RecInv
<1>6. ~AsksAsr(c[1])  BY <1>1 DEF AsksAsr
<1>7. ASSUME ~Turning(c), calls' = Pop(c) PROVE Holds'
  <2>1. AsrHolds(Pop(c), l, m)  BY <1>1, <1>2, <1>5, <1>6, <1>7, HoldsKept
  <2> QED  BY <1>0, <1>1, <1>7, <2>1 DEF Holds
<1>8. CASE AsrUnfocusSpk
  <2>0. PICK x, y : x = Request("kwd", "MIC") /\ y = <<"reset_expect">>  OBVIOUS
  <2>1. calls' = PushTwo(c, x, y)  BY <1>0, <1>8, <2>0, AsrUnfocusCalls
  <2>2. x \in Call /\ y \in Call  BY <2>0, CallsMade, MicPolicy DEF Request
  <2>3. calls' # <<>> /\ calls'[1] = x  BY <1>1, <1>2, <2>1, <2>2, PushedTop
  <2>4. Turning(calls')  BY <2>0, <2>3 DEF Turning, Mic, Request
  <2> QED  BY <2>4 DEF Holds, AsrHolds
<1>9. CASE KwdUnfocus
  <2>1. calls' = Pop(c) /\ c[1][2] = "kwd"  BY <1>0, <1>9 DEF KwdUnfocus, Return, Pop
  <2>2. c[1][3] = "MIC"  BY <1>4, <2>1 DEF Users
  <2>3. CASE h[1] = "released"
    <3>1. Turning(calls')  BY <1>2, <2>1, <2>2, <2>3 DEF Turning, Mic, Loser
    <3> QED  BY <3>1 DEF Holds, AsrHolds
  <2>4. CASE h[1] = "stolen"
    <3>1. ~Turning(c)  BY <1>0, <1>1, <2>1, <2>4 DEF Turning, Mic
    <3> QED  BY <1>7, <2>1, <3>1
  <2> QED  BY <1>2, <2>3, <2>4 DEF Waiting, HandOver
<1>10. CASE AsrUnfocusMic
  <2>1. calls' = Pop(c) /\ c[1][2] = "asr" /\ c[1][3] = "MIC"
    BY <1>0, <1>10 DEF AsrUnfocusMic, Return, Pop
  <2>2. h[1] = "released" => h[2] # "kwd"  BY <1>2, <2>1 DEF Loser
  <2>3. ~Turning(c)  BY <1>0, <1>1, <2>1, <2>2 DEF Turning, Mic
  <2> QED  BY <1>7, <2>1, <2>3
<1>11. CASE SpeakerUnfocus
  <2>1. calls' = Pop(c) /\ c[1][2] \in {"expect", "cap_tts", "cap_audio"}
    BY <1>0, <1>11 DEF SpeakerUnfocus, Return, Pop
  <2>2. c[1][3] = "SPK"  BY <1>4, <2>1 DEF Users
  <2>3. ~Turning(c)  BY <1>0, <1>1, <1>2, <2>1, <2>2 DEF Turning, Mic
  <2> QED  BY <1>7, <2>1, <2>3
<1> QED  BY <1>8, <1>9, <1>10, <1>11

\* The other steps of the main thread, and the environment.
LEMMA HandlerHolds ==
    ASSUME IndInv, Holds,
           \/ ResetExpectStep \/ OnListeningState \/ OnWakeupState \/ AgentStep
           \/ ResumeStep \/ Dispatch \/ Environment
    PROVE  Holds'
<1>0. PICK c, l, m : c = calls /\ l = stack["MIC"] /\ m = stack["SPK"]  OBVIOUS
<1>1. AsrHolds(c, l, m)  BY <1>0 DEF Holds
<1>2. CASE ResetExpectStep \/ ResumeStep
  <2>1. /\ c # <<>> /\ c[1][1] \in {"reset_expect", "resume"} /\ calls' = Pop(c)
        /\ stack' = stack
    BY <1>0, <1>2 DEF ResetExpectStep, ResumeStep, Running, Return, Pop, focusVars
  <2>2. c \in Seq(Call)  BY <1>0, <2>1, MainFacts
  <2>3. ~Turning(c) /\ ~AsksAsr(c[1])  BY <2>1 DEF Turning, Mic, AsksAsr
  <2>4. AsrHolds(Pop(c), l, m)  BY <1>1, <2>1, <2>2, <2>3, HoldsKept
  <2> QED  BY <1>0, <2>1, <2>4 DEF Holds
<1>3. CASE OnListeningState \/ OnWakeupState \/ AgentStep \/ UserStopped
  <2>1. /\ c # <<>>
        /\ c[1][1] \in {"handle", "prev_state", "start_timer", "user_stopped"}
        /\ stack' = stack
    BY <1>0, <1>3, HandlerCalls DEF focusVars
  <2>2. PICK cs \in TameCalls : calls' = Push(c, cs)  BY <1>0, <1>3, HandlerCalls
  <2>3. c \in Seq(Call) /\ cs \in PlainCalls  BY <1>0, <2>1, MainFacts, TameFacts
  <2>4. ~Turning(c) /\ ~AsksAsr(c[1])  BY <2>1 DEF Turning, Mic, AsksAsr
  <2>5. AsrHolds(Push(c, cs), l, m)  BY <1>1, <2>1, <2>3, <2>4, HoldsKept
  <2> QED  BY <1>0, <2>1, <2>2, <2>5 DEF Holds
<1>4. ASSUME c = <<>>, stack' = stack,
             \A i \in 1..Len(calls') : ~Robs(calls'[i])
      PROVE  Holds'
  <2>1. ~Asking(c) /\ ~Turning(c)  BY <1>4 DEF Asking, Turning, Mic
  <2>2. ~Robbed(calls')  BY <1>4 DEF Robbed
  <2> QED  BY <1>0, <1>1, <1>4, <2>1, <2>2 DEF Holds, AsrHolds
<1>5. CASE Dispatch
  <2>0. PICK x, y, d : /\ x = <<"handle", Head(queue)[1], Head(queue)[2]>>
                       /\ y = <<"resume", Head(queue)[1], Head(queue)[2]>>
                       /\ d = <<x, y>>
    OBVIOUS
  <2>1. c = <<>> /\ calls' = d /\ stack' = stack
    BY <1>0, <1>5, <2>0 DEF Dispatch, focusVars
  <2>2. Len(d) = 2 /\ d[1] = x /\ d[2] = y /\ x[1] = "handle" /\ y[1] = "resume"
    BY <2>0
  <2>3. \A i \in 1..Len(d) : i = 1 \/ i = 2  BY <2>2
  <2>4. \A i \in 1..Len(d) : ~Robs(d[i])  BY <2>2, <2>3 DEF Robs
  <2> QED  BY <1>4, <2>1, <2>4
<1>6. CASE Environment /\ ~UserStopped
  <2>0. PICK d : d = calls'  OBVIOUS
  <2>1. c = <<>> /\ d \in TameCalls /\ stack' = stack
    BY <1>0, <1>6, <2>0, InputCalls DEF focusVars
  <2>2. \A i \in 1..Len(d) : ~Robs(d[i])
    BY <2>1 DEF TameCalls, PlainCalls, Robs, Nested
  <2> QED  BY <1>4, <2>0, <2>1, <2>2
<1> QED  BY <1>2, <1>3, <1>5, <1>6

----------------------------------------------------------------------------
(***************************************************************************)
(* Where the expected speech is.  is_handle and the item of "expect" part  *)
(* only while the callbacks under way are about to bring them together.    *)
(***************************************************************************)

Expects(l) == On("expect", l)

\* expect waits for the end of the speech that cap_tts plays.
ExpectNext(l) == 2 <= Len(l) /\ l[1] = "cap_tts" /\ l[2] = "expect"

\* Calls that do not put "expect" on the list.
Unasked == {x \in Call : ~(x[1] \in {"request", "stolen"} /\ x[2] = "expect")}

\* Calls that leave a waiting expect where it is: those about the microphone,
\* and those about the speaker that cap_tts refuses or that concern others.
Mild(x) ==
    \/ x[1] \in {"handle", "resume", "prev_state", "start_timer", "user_stopped"}
    \/ x[1] \in {"request", "release", "focus", "unfocus", "stolen", "released"} /\ x[3] = "MIC"
    \/ x[1] = "release" /\ x[2] \in {"asr", "cap_audio"} /\ x[3] = "SPK"
    \/ x[1] = "request" /\ x[2] \in {"cap_tts", "cap_audio"} /\ x[3] = "SPK"

MildCall == {x \in Call : Mild(x)}

\* No speech is expected, or it waits for its turn.
Gone(c, h, l) == ~h /\ ~Expects(l) /\ c \in Seq(Unasked)
Waits(c, h, l) == h /\ ExpectNext(l) /\ c \in Seq(MildCall)

\* It is withdrawn: the item is released, is_handle is reset.
Withdrawn(c, h, l) ==
    /\ c \in Seq(Unasked) /\ c # <<>>
    /\ \/ ~h /\ c[1] = Release("expect", "SPK")
       \/ /\ h /\ TopIs(l, "cap_tts") /\ c[1] = Release("expect", "SPK")
          /\ 2 <= Len(c) /\ c[2] = <<"reset_expect">>
       \/ h /\ ~Expects(l) /\ c[1] = <<"reset_expect">>

\* The directive arrived: expect asks for the speaker, ...
Asks(c, h, l) ==
    h /\ c = <<Request("expect", "SPK")>> /\ (Expects(l) => ExpectNext(l))

\* ... takes it from somebody, ...
Takes(c, l) ==
    /\ ~Expects(l)
    /\ \E top \in Focus \ {"expect", "kwd"} :
          LET y == <<"stolen", "expect", "SPK", top>>
          IN  \/ c = << <<"unfocus", top, "SPK">>, y>>
              \/ c = <<y>>
              \/ c = << <<"reset_expect">>, y>>
              \/ c = <<Request("kwd", "MIC"), <<"reset_expect">>, y>>
              \/ c = << <<"focus", "kwd", "MIC", "request">>, <<"reset_expect">>, y>>

\* ... and asr is started with the microphone, ...
Starts(c, l) ==
    /\ TopIs(l, "expect")
    /\ \/ \E how \in {"request", "release"} :
             \/ c = << <<"focus", "expect", "SPK", how>> >>
             \/ c = << <<"focus", "asr", "MIC", how>> >>
       \/ c = <<Request("asr", "MIC")>>
       \/ c = << <<"stolen", "asr", "MIC", "kwd">> >>
       \/ c = << <<"unfocus", "kwd", "MIC">>, <<"stolen", "asr", "MIC", "kwd">> >>

\* ... and takes the speaker from expect.
Gives(c, h, l) ==
    /\ ~h /\ TopIs(l, "expect")
    /\ \/ c = <<Request("asr", "SPK")>>
       \/ c = << <<"stolen", "asr", "SPK", "expect">> >>
       \/ c = << <<"unfocus", "expect", "SPK">>, <<"stolen", "asr", "SPK", "expect">> >>

\* The speech that it waits for ends.
Ends(c, h, l) ==
    \/ h /\ ExpectNext(l) /\ c = <<Release("cap_tts", "SPK")>>
    \/ /\ TopIs(l, "expect")
       /\ \/ c = << <<"unfocus", "cap_tts", "SPK">>, <<"released", "cap_tts", "SPK">> >>
          \/ c = << <<"released", "cap_tts", "SPK">> >>

Track(c, h, l) ==
    \/ Gone(c, h, l) \/ Waits(c, h, l) \/ Withdrawn(c, h, l) \/ Asks(c, h, l)
    \/ Takes(c, l) \/ Starts(c, l) \/ Gives(c, h, l) \/ Ends(c, h, l)

Tracked == Track(calls, is_handle, stack["SPK"])

----------------------------------------------------------------------------
(***************************************************************************)
(* Short call sequences, and sequences of calls of one kind.               *)
(***************************************************************************)

\* A call sequence behind nothing, one call and two calls.
LEMMA ShortTails ==
    /\ \A x : Tail(<<x>>) = <<>>
    /\ \A x, y : Tail(<<x, y>>) = <<y>>
    /\ \A x, y, z : Tail(<<x, y, z>>) = <<y, z>>
OBVIOUS

\* Two sequences, one after the other, given item by item.
LEMMA ConcatIs ==
    ASSUME NEW S, NEW a \in Seq(S), NEW b \in Seq(S), NEW e \in Seq(S),
           Len(e) = Len(a) + Len(b),
           \A i \in 1..Len(e) : e[i] = IF i <= Len(a) THEN a[i] ELSE b[i - Len(a)]
    PROVE  a \o b = e
<1> DEFINE d == a \o b
<1>1. /\ d \in Seq(S) /\ Len(d) = Len(a) + Len(b)
      /\ \A i \in 1..(Len(a) + Len(b)) :
            d[i] = IF i <= Len(a) THEN a[i] ELSE b[i - Len(a)]
  BY ConcatProperties
<1> HIDE DEF d
<1>2. d = e  BY <1>1, SeqEqual
<1> QED  BY <1>2 DEF d

\* Short sequences of calls, one after the other.
LEMMA ShortConcats ==
    /\ \A s : <<>> \o <<s>> = <<s>>
    /\ \A s, t : <<>> \o <<s, t>> = <<s, t>>
    /\ \A s : <<s>> \o <<>> = <<s>>
    /\ \A s, t : <<s, t>> \o <<>> = <<s, t>>
    /\ \A s, t : <<s>> \o <<t>> = <<s, t>>
    /\ \A s, t, u : <<s, t>> \o <<u>> = <<s, t, u>>
    /\ \A s, t, u : <<s>> \o <<t, u>> = <<s, t, u>>
    /\ <<>> \o <<>> = <<>>
<1> SUFFICES ASSUME NEW s, NEW t, NEW u
             PROVE  /\ <<>> \o <<s>> = <<s>> /\ <<>> \o <<s, t>> = <<s, t>>
                    /\ <<s>> \o <<>> = <<s>> /\ <<s, t>> \o <<>> = <<s, t>>
                    /\ <<s>> \o <<t>> = <<s, t>>
                    /\ <<s, t>> \o <<u>> = <<s, t, u>>
                    /\ <<s>> \o <<t, u>> = <<s, t, u>>
                    /\ <<>> \o <<>> = <<>>
  OBVIOUS
<1>0. PICK z, a, b, b2, e, e3, k :
         /\ z = <<>> /\ a = <<s>> /\ b = <<t>> /\ b2 = <<t, u>> /\ e = <<s, t>>
         /\ e3 = <<s, t, u>> /\ k = <<u>>
  OBVIOUS
<1>1. PICK S : S = {s, t, u}  OBVIOUS
<1>2. /\ z \in Seq(S) /\ a \in Seq(S) /\ b \in Seq(S) /\ k \in Seq(S) /\ b2 \in Seq(S)
      /\ e \in Seq(S) /\ e3 \in Seq(S)
  BY <1>0, <1>1
<1>3. /\ Len(z) = 0 /\ Len(a) = 1 /\ Len(b) = 1 /\ Len(k) = 1 /\ Len(b2) = 2
      /\ Len(e) = 2 /\ Len(e3) = 3
      /\ a[1] = s /\ b[1] = t /\ k[1] = u /\ b2[1] = t /\ b2[2] = u
      /\ e[1] = s /\ e[2] = t /\ e3[1] = s /\ e3[2] = t /\ e3[3] = u
  BY <1>0
<1>4. /\ \A i \in 1..1 : i = 1
      /\ \A i \in 1..2 : i = 1 \/ i = 2
      /\ \A i \in 1..3 : i = 1 \/ i = 2 \/ i = 3
  OBVIOUS
<1>5. \A q \in Seq(S) : z \o q = q /\ q \o z = q  BY <1>0, ConcatEmptySeq
<1>6. a \o b = e
  <2>1. Len(e) = Len(a) + Len(b)  BY <1>3
  <2>2. ASSUME NEW i \in 1..Len(e)
        PROVE  e[i] = IF i <= Len(a) THEN a[i] ELSE b[i - Len(a)]
    BY <1>3, <1>4
  <2> QED  BY <1>2, <2>1, <2>2, ConcatIs
<1>7. e \o k = e3
  <2>1. Len(e3) = Len(e) + Len(k)  BY <1>3
  <2>2. ASSUME NEW i \in 1..Len(e3)
        PROVE  e3[i] = IF i <= Len(e) THEN e[i] ELSE k[i - Len(e)]
    BY <1>3, <1>4
  <2> QED  BY <1>2, <2>1, <2>2, ConcatIs
<1>8. a \o b2 = e3
  <2>1. Len(e3) = Len(a) + Len(b2)  BY <1>3
  <2>2. ASSUME NEW i \in 1..Len(e3)
        PROVE  e3[i] = IF i <= Len(a) THEN a[i] ELSE b2[i - Len(a)]
    BY <1>3, <1>4
  <2> QED  BY <1>2, <2>1, <2>2, ConcatIs
<1> QED  BY <1>0, <1>2, <1>5, <1>6, <1>7, <1>8

\* Returns to none, one or two calls.
LEMMA ShortReturns ==
    /\ \A x : Pop(<<x>>) = <<>>
    /\ \A x, u : PushOne(<<x>>, u) = <<u>>
    /\ \A x, u, v : PushTwo(<<x>>, u, v) = <<u, v>>
    /\ \A x, y : Pop(<<x, y>>) = <<y>>
    /\ \A x, y, u, v : PushTwo(<<x, y>>, u, v) = <<u, v, y>>
    /\ \A x, y, z : Pop(<<x, y, z>>) = <<y, z>>
    /\ \A x, y, z, u : PushOne(<<x, y, z>>, u) = <<u, y, z>>
BY ShortTails, ShortConcats DEF Pop, PushOne, PushTwo

\* A return among calls of one kind.
LEMMA KindKept ==
    ASSUME NEW S, NEW c \in Seq(S), c # <<>>
    PROVE  /\ Pop(c) \in Seq(S)
           /\ \A x \in S : PushOne(c, x) \in Seq(S)
           /\ \A x, y \in S : PushTwo(c, x, y) \in Seq(S)
           /\ \A cs \in Seq(S) : Push(c, cs) \in Seq(S)
<1>1. Tail(c) \in Seq(S)  BY HeadTailProperties
<1>2. ASSUME NEW cs \in Seq(S) PROVE cs \o Tail(c) \in Seq(S)
  BY <1>1, ConcatProperties
<1>3. <<>> \in Seq(S)  BY EmptySeq
<1>4. \A x \in S : <<x>> \in Seq(S)  OBVIOUS
<1>5. \A x, y \in S : <<x, y>> \in Seq(S)  OBVIOUS
<1> QED  BY <1>2, <1>3, <1>4, <1>5 DEF Pop, PushOne, PushTwo, Push

\* The call behind the topmost one is next.
LEMMA PopBehind ==
    ASSUME NEW c \in Seq(Call), 2 <= Len(c)
    PROVE  Pop(c) # <<>> /\ Pop(c)[1] = c[2]
<1>1. Len(c) \in Nat /\ c # <<>>  BY LenProperties
<1>2. PICK e \in Seq(Call) : Len(e) = 0 /\ Pop(c) = Push(c, e)  BY PushForms
<1>3. /\ Push(c, e) \in Seq(Call) /\ Len(Push(c, e)) = Len(e) + Len(c) - 1
      /\ \A i \in 2..Len(c) : Push(c, e)[Len(e) + i - 1] = c[i]
  BY <1>1, ReturnFacts DEF Push
<1>4. 2 \in 2..Len(c) /\ 0 + 2 - 1 = 1  BY <1>1
<1>5. Push(c, e)[1] = c[2]  BY <1>2, <1>3, <1>4
<1>6. Len(Pop(c)) # 0 /\ Pop(c) \in Seq(Call)  BY <1>1, <1>2, <1>3
<1>7. Pop(c) # <<>>  BY <1>6, EmptySeq
<1> QED  BY <1>2, <1>5, <1>7

\* The kinds of calls.
LEMMA MildFacts ==
    /\ Unasked \subseteq Call /\ MildCall \subseteq Unasked
    /\ Seq(MildCall) \subseteq Seq(Unasked) /\ Seq(Unasked) \subseteq Seq(Call)
<1>1. Unasked \subseteq Call  BY DEF Unasked
<1>2. ASSUME NEW x \in MildCall PROVE x \in Unasked
  <2>1. x \in Call /\ Mild(x)  BY DEF MildCall
  <2>2. x[1] \in {"request", "stolen"} /\ x[3] = "MIC" => x[2] # "expect"
    BY <2>1, CallFacts, MicPolicy
  <2> QED  BY <2>1, <2>2 DEF Unasked, Mild
<1>3. MildCall \subseteq Unasked  BY <1>2
<1> QED  BY <1>1, <1>3, SeqMonotonic

----------------------------------------------------------------------------
(***************************************************************************)
(* expect behind cap_tts.                                                  *)
(***************************************************************************)

\* Where an item goes whose type is compared with the first two.
LEMMA InsertedEarly ==
    ASSUME NEW S, S \subseteq Focus, NEW s \in Seq(S), NEW f \in S,
           NEW t, t = InsertByPriority(s, f)
    PROVE  /\ Len(t) = Len(s) + 1
           /\ 1 <= Len(s) /\ Type[f] <= Type[s[1]] => t[1] = f /\ t[2] = s[1]
           /\ 1 <= Len(s) /\ Type[s[1]] < Type[f] => t[1] = s[1]
           /\ /\ 1 <= Len(s) /\ Type[s[1]] < Type[f]
              /\ 2 <= Len(s) => Type[f] <= Type[s[2]]
              => t[2] = f
           /\ 2 <= Len(s) /\ Type[s[1]] < Type[f] /\ Type[s[2]] < Type[f] => t[2] = s[2]
<1> DEFINE p == InsertPosition(s, f)
<1>0. s \in Seq(Focus) /\ f \in Focus  BY SeqMonotonic
<1>1. /\ p \in 1..(Len(s) + 1)
      /\ \A i \in 1..Len(s) : i < p => Type[s[i]] < Type[f]
      /\ p <= Len(s) => Type[f] <= Type[s[p]]
  BY <1>0, InsertPositionFacts
<1>2. Len(t) = Len(s) + 1  BY InsertFacts
<1>3. t = [i \in 1..(Len(s) + 1) |->
             IF i < p THEN s[i] ELSE IF i = p THEN f ELSE s[i - 1]]
  BY DEF InsertByPriority
<1>4. /\ Len(s) \in Nat /\ Type[f] \in Nat
      /\ \A i \in 1..Len(s) : Type[s[i]] \in Nat
  BY <1>0, LenProperties, ElementOfSeq, FocusAssumption
<1> HIDE DEF p
<1>5. \A i \in 1..(Len(s) + 1) :
         t[i] = IF i < p THEN s[i] ELSE IF i = p THEN f ELSE s[i - 1]
  BY <1>3
<1>6. ASSUME 1 <= Len(s), Type[f] <= Type[s[1]] PROVE t[1] = f /\ t[2] = s[1]
  <2>1. 1 \in 1..Len(s) /\ 1 \in 1..(Len(s) + 1) /\ 2 \in 1..(Len(s) + 1)  BY <1>4, <1>6
  <2>2. ~(Type[s[1]] < Type[f])  BY <1>4, <1>6, <2>1
  <2>3. p = 1  BY <1>1, <1>4, <2>1, <2>2
  <2> QED  BY <1>5, <2>1, <2>3
<1>7. ASSUME 1 <= Len(s), Type[s[1]] < Type[f] PROVE t[1] = s[1] /\ p # 1
  <2>1. 1 \in 1..Len(s) /\ 1 \in 1..(Len(s) + 1)  BY <1>4, <1>7
  <2>2. ~(Type[f] <= Type[s[1]])  BY <1>4, <1>7, <2>1
  <2>3. p # 1  BY <1>1, <1>7, <2>2
  <2>4. 1 < p  BY <1>1, <1>4, <2>3
  <2> QED  BY <1>5, <2>1, <2>3, <2>4
<1>8. ASSUME 1 <= Len(s), Type[s[1]] < Type[f], 2 <= Len(s) => Type[f] <= Type[s[2]]
      PROVE  t[2] = f
  <2>1. 2 \in 1..(Len(s) + 1) /\ (2 <= Len(s) => 2 \in 1..Len(s))  BY <1>4, <1>8
  <2>2. 2 <= Len(s) => ~(Type[s[2]] < Type[f])  BY <1>4, <1>8, <2>1
  <2>3. p = 2  BY <1>1, <1>4, <1>7, <1>8, <2>1, <2>2
  <2> QED  BY <1>5, <2>1, <2>3
<1>9. ASSUME 2 <= Len(s), Type[s[1]] < Type[f], Type[s[2]] < Type[f] PROVE t[2] = s[2]
  <2>1. 2 \in 1..Len(s) /\ 2 \in 1..(Len(s) + 1) /\ 1 <= Len(s)  BY <1>4, <1>9
  <2>2. ~(Type[f] <= Type[s[2]])  BY <1>4, <1>9, <2>1
  <2>3. p # 1  BY <1>7, <1>9, <2>1
  <2>4. p # 2  BY <1>1, <1>9, <2>2
  <2>5. 2 < p  BY <1>1, <1>4, <2>3, <2>4
  <2> QED  BY <1>5, <2>1, <2>5
<1> QED  BY <1>2, <1>6, <1>7, <1>8, <1>9

\* Removing somebody behind the first two, or the first of them.
LEMMA RemovedLate ==
    ASSUME NEW S, NEW s \in Seq(S), NEW f, Distinct(s), 2 <= Len(s),
           NEW u, u = RemoveItems(s, f)
    PROVE  /\ f # s[1] /\ f # s[2] => 2 <= Len(u) /\ u[1] = s[1] /\ u[2] = s[2]
           /\ f = s[1] => 1 <= Len(u) /\ u[1] = s[2]
<1>0. Len(s) \in Nat  BY LenProperties
<1>1. CASE u = s
  <2>1. u \in Seq(S \ {f})  BY RemoveFacts
  <2>2. f # s[1]
    <3>1. 1 \in 1..Len(u)  BY <1>0, <1>1
    <3>2. u[1] \in S \ {f}  BY <2>1, <3>1, ElementOfSeq
    <3> QED  BY <1>1, <3>2
  <2> QED  BY <1>1, <2>2
<1>2. CASE u # s
  <2>1. PICK k \in 1..Len(s) : s[k] = f /\ GapClosed(u, s, k)  BY <1>2, RemoveFacts
  <2>2. /\ Len(u) = Len(s) - 1
        /\ \A i \in 1..(Len(s) - 1) : u[i] = IF i < k THEN s[i] ELSE s[i + 1]
    BY <2>1 DEF GapClosed
  <2>3. ASSUME f # s[1], f # s[2] PROVE 2 <= Len(u) /\ u[1] = s[1] /\ u[2] = s[2]
    <3>1. k # 1 /\ k # 2  BY <2>1, <2>3
    <3>2. 2 < k /\ 1 \in 1..(Len(s) - 1) /\ 2 \in 1..(Len(s) - 1)  BY <1>0, <3>1
    <3> QED  BY <1>0, <2>2, <3>2
  <2>4. ASSUME f = s[1] PROVE 1 <= Len(u) /\ u[1] = s[2]
    <3>1. k = 1  BY <1>0, <2>1, <2>4 DEF Distinct
    <3>2. 1 \in 1..(Len(s) - 1) /\ 1 + 1 = 2 /\ ~(1 < k)  BY <1>0, <3>1
    <3> QED  BY <1>0, <2>2, <3>2
  <2> QED  BY <2>3, <2>4
<1> QED  BY <1>1, <1>2

\* The speaker's users: cap_tts refuses all but asr and nobody else refuses.
LEMMA SpkPolicy ==
    /\ "cap_tts" \in Users("SPK") /\ "expect" \in Users("SPK") /\ "asr" \in Users("SPK")
    /\ \A f \in Users("SPK") : f \in {"asr", "expect", "cap_tts", "cap_audio"}
    /\ \A h, f \in Users("SPK") : Refused(h, "SPK", f) <=> h = "cap_tts" /\ f # "asr"
    /\ Type["cap_tts"] = 3 /\ Type["expect"] = 4
    /\ "cap_audio" \in Users("SPK") => Type["cap_audio"] = 5
<1>1. /\ Focus \subseteq {"kwd", "asr", "expect", "cap_tts", "cap_audio"}
      /\ {"asr", "expect", "cap_tts"} \subseteq Focus
  BY VoiceAssumption DEF Priority
<1>2. /\ Priority["asr"] = 1 /\ Priority["cap_tts"] = 3 /\ Priority["kwd"] = 0
      /\ Priority["expect"] = 4 /\ Priority["cap_audio"] = 5
  BY DEF Priority
<1>3. Type["cap_tts"] = 3 /\ Type["expect"] = 4
      /\ ("cap_audio" \in Users("SPK") => Type["cap_audio"] = 5)
  BY <1>1, <1>2, VoiceAssumption DEF Users
<1>4. \A f \in Users("SPK") : f \in {"asr", "expect", "cap_tts", "cap_audio"}
  BY <1>1 DEF Users
<1>5. ASSUME NEW h \in Users("SPK"), NEW f \in Users("SPK")
      PROVE  Refused(h, "SPK", f) <=> h = "cap_tts" /\ f # "asr"
  <2>1. ASSUME h = "cap_tts", f # "asr" PROVE Refused(h, "SPK", f)
    <3>1. <<h, "SPK", f>> \in Focus \X Resource \X Focus  BY PolicyFacts
    <3>2. Priority[f] # 1  BY <1>2, <1>4, <2>1
    <3>3. RefusesSteal(h, "SPK", f)  BY <1>2, <2>1, <3>2 DEF RefusesSteal, TtsRefuses
    <3> QED  BY <3>1, <3>3, VoiceAssumption DEF PolicyRejects, Refused
  <2> QED  BY <2>1, PolicyFacts DEF Refused
<1> QED  BY <1>1, <1>3, <1>4, <1>5 DEF Users

\* What it is to be next.
LEMMA NextFacts ==
    ASSUME NEW S, NEW l \in Seq(S), ExpectNext(l)
    PROVE  /\ TopIs(l, "cap_tts") /\ l # <<>> /\ Head(l) = "cap_tts"
           /\ Expects(l) /\ TopIs(Tail(l), "expect")
<1>1. Len(l) \in Nat /\ 2 <= Len(l) /\ l[1] = "cap_tts" /\ l[2] = "expect"
  BY LenProperties DEF ExpectNext
<1>2. l # <<>> /\ Head(l) = l[1]  BY <1>1
<1>3. 2 \in 1..Len(l)  BY <1>1
<1>4. PICK t : t = Tail(l)  OBVIOUS
<1>5. t \in Seq(S) /\ Len(t) = Len(l) - 1 /\ t[1] = l[2]
  BY <1>1, <1>2, <1>4, HeadTailProperties
<1>6. t # <<>>  BY <1>1, <1>5
<1>7. Head(t) = t[1]  BY <1>5, <1>6
<1> QED  BY <1>1, <1>2, <1>3, <1>4, <1>5, <1>6, <1>7 DEF TopIs, Expects, On

\* The others come and go behind expect.
LEMMA NextKept ==
    ASSUME NEW l, List(l, "SPK"), ExpectNext(l), NEW f \in Users("SPK"), f # "expect"
    PROVE  /\ f # "cap_tts" => ExpectNext(RemoveItems(l, f))
           /\ f # "asr" => ExpectNext(Reserved(l, f))
<1> DEFINE U == Users("SPK")
<1>0. l \in Seq(U) /\ Distinct(l) /\ U \subseteq Focus /\ f \in U
  BY PolicyFacts DEF List
<1>1. 2 <= Len(l) /\ l[1] = "cap_tts" /\ l[2] = "expect"  BY DEF ExpectNext
<1>2. PICK u : u = RemoveItems(l, f)  OBVIOUS
<1>3. PICK t : t = InsertByPriority(u, f)  OBVIOUS
<1> HIDE DEF U
<1>4. u \in Seq(U) /\ Distinct(u) /\ Len(u) \in Nat
  BY <1>0, <1>2, ListRemoved, LenProperties
<1>5. Type["cap_tts"] = 3 /\ Type["expect"] = 4 /\ (f = "cap_audio" => Type[f] = 5)
      /\ f \in {"asr", "cap_tts", "cap_audio"}
  BY <1>0, SpkPolicy DEF U
<1>6. ASSUME f # "cap_tts" PROVE ExpectNext(u)
  BY <1>0, <1>1, <1>2, <1>6, RemovedLate DEF ExpectNext
<1>7. ASSUME f = "cap_audio" PROVE ExpectNext(t)
  <2>1. 2 <= Len(u) /\ u[1] = "cap_tts" /\ u[2] = "expect"  BY <1>6, <1>7 DEF ExpectNext
  <2>2. Type[u[1]] < Type[f] /\ Type[u[2]] < Type[f] /\ 1 <= Len(u)
    BY <1>4, <1>5, <1>7, <2>1
  <2>3. Len(t) = Len(u) + 1 /\ t[1] = u[1] /\ t[2] = u[2]
    BY <1>0, <1>3, <1>4, <2>1, <2>2, InsertedEarly
  <2> QED  BY <1>4, <2>1, <2>3 DEF ExpectNext
<1>8. ASSUME f = "cap_tts" PROVE ExpectNext(t)
  <2>1. 1 <= Len(u) /\ u[1] = "expect"  BY <1>0, <1>1, <1>2, <1>8, RemovedLate
  <2>2. Type[f] <= Type[u[1]]  BY <1>5, <1>8, <2>1
  <2>3. Len(t) = Len(u) + 1 /\ t[1] = f /\ t[2] = u[1]
    BY <1>0, <1>3, <1>4, <2>1, <2>2, InsertedEarly
  <2> QED  BY <1>4, <1>8, <2>1, <2>3 DEF ExpectNext
<1>9. t = Reserved(l, f)  BY <1>2, <1>3 DEF Reserved
<1> QED  BY <1>2, <1>5, <1>6, <1>7, <1>8, <1>9

\* expect is refused while cap_tts speaks, and is next.
LEMMA NextReserved ==
    ASSUME NEW l, List(l, "SPK"), AsrFirst(l, "SPK"), TopIs(l, "cap_tts")
    PROVE  ExpectNext(Reserved(l, "expect"))
<1> DEFINE U == Users("SPK")
<1>0. l \in Seq(U) /\ Distinct(l) /\ U \subseteq Focus /\ "expect" \in U
      /\ l # <<>> /\ Head(l) = "cap_tts" /\ ~On("asr", l)
  BY PolicyFacts, SpkPolicy DEF List, AsrFirst, TopIs
<1>1. PICK u : u = RemoveItems(l, "expect")  OBVIOUS
<1>2. PICK t : t = InsertByPriority(u, "expect")  OBVIOUS
<1> HIDE DEF U
<1>3. /\ u \in Seq(U) /\ Distinct(u) /\ u # <<>> /\ Head(u) = "cap_tts"
      /\ \A g : On(g, u) <=> On(g, l) /\ g # "expect"
  BY <1>0, <1>1, ListRemoved
<1>4. Len(u) \in Nat \ {0} /\ u[1] = "cap_tts" /\ 1 <= Len(u) /\ 1 \in 1..Len(u)
  BY <1>3, LenProperties, EmptySeq
<1>5. Type["cap_tts"] = 3 /\ Type["expect"] = 4
      /\ ("cap_audio" \in U => Type["cap_audio"] = 5)
      /\ \A g \in U : g \in {"asr", "expect", "cap_tts", "cap_audio"}
  BY SpkPolicy DEF U
<1>6. ASSUME 2 <= Len(u) PROVE Type["expect"] <= Type[u[2]]
  <2>1. 2 \in 1..Len(u)  BY <1>4, <1>6
  <2>2. u[2] \in U /\ On(u[2], u)  BY <1>3, <2>1, ElementOfSeq DEF On
  <2>3. u[2] # "expect" /\ u[2] # "asr"  BY <1>0, <1>3, <2>2
  <2>4. u[2] # "cap_tts"
    <3>1. u[1] # u[2]  BY <1>3, <1>4, <2>1 DEF Distinct
    <3> QED  BY <1>4, <3>1
  <2>5. u[2] = "cap_audio"  BY <1>5, <2>2, <2>3, <2>4
  <2>6. Type[u[2]] = 5  BY <1>5, <2>2, <2>5
  <2> QED  BY <1>5, <2>6
<1>7. Type[u[1]] < Type["expect"]  BY <1>4, <1>5
<1>8. Len(t) = Len(u) + 1 /\ t[1] = u[1] /\ t[2] = "expect"
  BY <1>0, <1>2, <1>3, <1>4, <1>6, <1>7, InsertedEarly
<1>9. t = Reserved(l, "expect")  BY <1>1, <1>2 DEF Reserved
<1> QED  BY <1>4, <1>8, <1>9 DEF ExpectNext

----------------------------------------------------------------------------
(***************************************************************************)
(* The steps of the focus manager.                                         *)
(***************************************************************************)

\* The new list and calls of a step, in these words.
LEMMA TrackedAfter ==
    ASSUME NEW d, d = calls', NEW h, h = is_handle', NEW t, t = stack'["SPK"],
           Track(d, h, t)
    PROVE  Tracked'
BY DEF Tracked

\* Calls about somebody else, and about the microphone.
LEMMA KindMade ==
    ASSUME NEW r \in {"MIC", "SPK"}, NEW f \in Users(r)
    PROVE  /\ \A op \in {"release", "unfocus", "released"} : <<op, f, r>> \in Unasked
           /\ \A how \in {"request", "release"} : <<"focus", f, r, how>> \in Unasked
           /\ f # "expect" =>
                 /\ <<"request", f, r>> \in Unasked
                 /\ \A g \in Users(r) : <<"stolen", f, r, g>> \in Unasked
           /\ r = "MIC" =>
                 /\ \A op \in {"request", "release", "unfocus", "released"} :
                       <<op, f, r>> \in MildCall
                 /\ \A how \in {"request", "release"} : <<"focus", f, r, how>> \in MildCall
                 /\ \A g \in Users(r) : <<"stolen", f, r, g>> \in MildCall
<1>1. ASSUME NEW op \in {"release", "unfocus", "released"} PROVE <<op, f, r>> \in Unasked
  <2>1. <<op, f, r>> \in Call  BY <1>1, CallsMade
  <2> QED  BY <1>1, <2>1 DEF Unasked
<1>2. ASSUME NEW how \in {"request", "release"} PROVE <<"focus", f, r, how>> \in Unasked
  <2>1. <<"focus", f, r, how>> \in Call  BY <1>2, CallsMade
  <2> QED  BY <2>1 DEF Unasked
<1>3. ASSUME f # "expect"
      PROVE  /\ <<"request", f, r>> \in Unasked
             /\ \A g \in Users(r) : <<"stolen", f, r, g>> \in Unasked
  <2>1. <<"request", f, r>> \in Call /\ \A g \in Users(r) : <<"stolen", f, r, g>> \in Call
    BY CallsMade
  <2> QED  BY <1>3, <2>1 DEF Unasked
<1>4. ASSUME r = "MIC", NEW op \in {"request", "release", "unfocus", "released"}
      PROVE  <<op, f, r>> \in MildCall
  <2>1. <<op, f, r>> \in Call  BY <1>4, CallsMade
  <2> QED  BY <1>4, <2>1 DEF MildCall, Mild
<1>5. ASSUME r = "MIC", NEW how \in {"request", "release"}
      PROVE  <<"focus", f, r, how>> \in MildCall
  <2>1. <<"focus", f, r, how>> \in Call  BY <1>5, CallsMade
  <2> QED  BY <1>5, <2>1 DEF MildCall, Mild
<1>6. ASSUME r = "MIC", NEW g \in Users(r) PROVE <<"stolen", f, r, g>> \in MildCall
  <2>1. <<"stolen", f, r, g>> \in Call  BY CallsMade
  <2> QED  BY <1>6, <2>1 DEF MildCall, Mild
<1> QED  BY <1>1, <1>2, <1>3, <1>4, <1>5, <1>6

\* The topmost call of a sequence of one kind is of that kind.
LEMMA FirstKind ==
    ASSUME NEW S, NEW c \in Seq(S), c # <<>>
    PROVE  c[1] \in S
<1>1. Len(c) \in Nat \ {0}  BY LenProperties, EmptySeq
<1>2. 1 \in 1..Len(c)  BY <1>1
<1> QED  BY <1>2, ElementOfSeq

\* What nugu_focus_request() of f makes of the list s, of the speaker's list l
\* and of the calls c.
Requested(c, f, r, s, l, d, t) ==
    \/ s = <<>> /\ (r = "SPK" => t = <<f>>)
       /\ d = PushOne(c, <<"focus", f, r, "request">>)
    \/ s # <<>> /\ ~Refused(Head(s), r, f) /\ t = l
       /\ d = PushTwo(c, <<"unfocus", Head(s), r>>, <<"stolen", f, r, Head(s)>>)
    \/ s # <<>> /\ Refused(Head(s), r, f) /\ (r = "SPK" => t = Reserved(l, f))
       /\ d = Pop(c)

\* nugu_focus_request() while no speech is expected, or while it waits.
LEMMA RequestQuiet ==
    ASSUME NEW c, c # <<>>, c[1][1] = "request", NEW h, NEW l, List(l, "SPK"),
           NEW r \in {"MIC", "SPK"}, r = c[1][3], NEW f \in Users(r), f = c[1][2],
           NEW s, s # <<>> => Head(s) \in Users(r), r = "SPK" => s = l, NEW d, NEW t,
           r = "MIC" => t = l,
           AsrFirst(l, "SPK"),
           Requested(c, f, r, s, l, d, t)
    PROVE  (Gone(c, h, l) => Gone(d, h, t)) /\ (Waits(c, h, l) => Waits(d, h, t))
<1>1. ASSUME Gone(c, h, l) PROVE Gone(d, h, t)
  <2>1. ~h /\ ~Expects(l) /\ c \in Seq(Unasked)  BY <1>1 DEF Gone
  <2>2. f # "expect"  BY <2>1, FirstKind DEF Unasked
  <2>3. d \in Seq(Unasked)
    <3>0. PICK x, y, z : /\ x = <<"focus", f, r, "request">> /\ y = <<"unfocus", Head(s), r>>
                         /\ z = <<"stolen", f, r, Head(s)>>
      OBVIOUS
    <3>1. x \in Unasked  BY <3>0, KindMade
    <3>2. s # <<>> => y \in Unasked /\ z \in Unasked  BY <2>2, <3>0, KindMade
    <3>3. d = PushOne(c, x) \/ (s # <<>> /\ d = PushTwo(c, y, z)) \/ d = Pop(c)
      BY <3>0 DEF Requested
    <3> QED  BY <2>1, <3>1, <3>2, <3>3, KindKept
  <2>4. ~Expects(t)
    <3>1. CASE r = "MIC"  BY <2>1, <3>1
    <3>2. CASE r = "SPK" /\ s = <<>>
      <4>1. PICK e : e = <<f>>  OBVIOUS
      <4>2. Len(e) = 1 /\ e[1] = f /\ t = e  BY <3>2, <4>1 DEF Requested
      <4>3. \A i \in 1..Len(e) : i = 1  BY <4>2
      <4> QED  BY <2>2, <4>2, <4>3 DEF Expects, On
    <3>3. CASE r = "SPK" /\ s # <<>> /\ t = l  BY <2>1, <3>3
    <3>4. CASE r = "SPK" /\ s # <<>> /\ Refused(Head(s), r, f) /\ t = Reserved(l, f)
      <4>1. \A g : On(g, t) <=> On(g, l) \/ g = f
        BY <3>4, ListReserved DEF AsrFirst
      <4> QED  BY <2>1, <2>2, <4>1 DEF Expects
    <3> QED  BY <3>1, <3>2, <3>3, <3>4 DEF Requested
  <2> QED  BY <2>1, <2>3, <2>4 DEF Gone
<1>2. ASSUME Waits(c, h, l) PROVE Waits(d, h, t)
  <2>1. h /\ ExpectNext(l) /\ c \in Seq(MildCall)  BY <1>2 DEF Waits
  <2>2. c[1] \in MildCall  BY <2>1, FirstKind
  <2>3. CASE r = "MIC"
    <3>0. PICK x, y, z : /\ x = <<"focus", f, r, "request">> /\ y = <<"unfocus", Head(s), r>>
                         /\ z = <<"stolen", f, r, Head(s)>>
      OBVIOUS
    <3>1. d \in Seq(MildCall)
      <4>1. x \in MildCall  BY <2>3, <3>0, KindMade
      <4>2. s # <<>> => y \in MildCall /\ z \in MildCall  BY <2>3, <3>0, KindMade
      <4>3. d = PushOne(c, x) \/ (s # <<>> /\ d = PushTwo(c, y, z)) \/ d = Pop(c)
        BY <3>0 DEF Requested
      <4> QED  BY <2>1, <4>1, <4>2, <4>3, KindKept
    <3> QED  BY <2>1, <2>3, <3>1 DEF Waits
  <2>4. CASE r = "SPK"
    <3>1. f \in {"cap_tts", "cap_audio"}  BY <2>2, <2>4 DEF MildCall, Mild
    <3>2. s = l /\ l # <<>> /\ Head(l) = "cap_tts"  BY <2>1, <2>4, NextFacts DEF List
    <3>3. Refused(Head(s), r, f)  BY <2>4, <3>1, <3>2, SpkPolicy
    <3>4. t = Reserved(l, f) /\ d = Pop(c)  BY <2>4, <3>2, <3>3 DEF Requested
    <3>5. ExpectNext(t)  BY <2>1, <2>4, <3>1, <3>4, NextKept
    <3>6. d \in Seq(MildCall)  BY <2>1, <3>4, KindKept
    <3> QED  BY <2>1, <3>5, <3>6 DEF Waits
  <2> QED  BY <2>3, <2>4
<1> QED  BY <1>1, <1>2

\* nugu_focus_request() that expect, asr and kwd make while the expected speech
\* is started.
LEMMA RequestMoves ==
    ASSUME NEW c \in Seq(Call), c # <<>>, c[1][1] = "request",
           NEW h, NEW l, List(l, "SPK"), AsrFirst(l, "SPK"), NEW m, AsrHolds(c, m, l),
           NEW r \in {"MIC", "SPK"}, r = c[1][3], NEW f \in Users(r), f = c[1][2],
           NEW s, s # <<>> => Head(s) \in Users(r),
           r = "SPK" => s = l, r = "MIC" => s = m, NEW d, NEW t, r = "MIC" => t = l,
           Requested(c, f, r, s, l, d, t),
           Track(c, h, l), ~Gone(c, h, l), ~Waits(c, h, l)
    PROVE  Track(d, h, t)
<1>1. CASE Asks(c, h, l)
  <2>0. PICK x : x = Request("expect", "SPK")  OBVIOUS
  <2>1. h /\ c = <<x>> /\ (Expects(l) => ExpectNext(l))  BY <1>1, <2>0 DEF Asks
  <2>2. f = "expect" /\ r = "SPK" /\ s = l  BY <2>0, <2>1 DEF Request
  <2>3. CASE s = <<>> /\ t = <<f>> /\ d = PushOne(c, <<"focus", f, r, "request">>)
    <3>1. d = << <<"focus", f, r, "request">> >>  BY <2>1, <2>3, ShortReturns
    <3>2. TopIs(t, "expect")  BY <2>2, <2>3 DEF TopIs
    <3> QED  BY <2>2, <3>1, <3>2 DEF Track, Starts
  <2>4. CASE /\ s # <<>> /\ ~Refused(Head(s), r, f) /\ t = l
             /\ d = PushTwo(c, <<"unfocus", Head(s), r>>, <<"stolen", f, r, Head(s)>>)
    <3>0. PICK top : top = Head(l)  OBVIOUS
    <3>1. d = << <<"unfocus", top, "SPK">>, <<"stolen", "expect", "SPK", top>> >>
      BY <2>1, <2>2, <2>4, <3>0, ShortReturns
    <3>2. top # "cap_tts"  BY <2>2, <2>4, <3>0, SpkPolicy
    <3>3. ~Expects(l)
      <4>1. ExpectNext(l) => top = "cap_tts"  BY <3>0, NextFacts DEF List
      <4> QED  BY <2>1, <3>2, <4>1
    <3>4. top \in Focus \ {"expect", "kwd"}
      <4>1. top \in Users("SPK") /\ On(top, l)  BY <2>2, <2>4, <3>0, ListTail DEF List
      <4> QED  BY <3>3, <4>1 DEF Users, Expects
    <3> QED  BY <2>4, <3>1, <3>3, <3>4 DEF Track, Takes
  <2>5. CASE s # <<>> /\ Refused(Head(s), r, f) /\ t = Reserved(l, f) /\ d = Pop(c)
    <3>1. TopIs(l, "cap_tts")  BY <2>2, <2>5, SpkPolicy DEF TopIs
    <3>2. ExpectNext(t)  BY <2>2, <2>5, <3>1, NextReserved
    <3>3. d = <<>>  BY <2>1, <2>5, ShortReturns
    <3>4. d \in Seq(MildCall)  BY <3>3, EmptySeq
    <3> QED  BY <2>1, <3>2, <3>4 DEF Track, Waits
  <2> QED  BY <2>2, <2>3, <2>4, <2>5 DEF Requested
<1>2. CASE Takes(c, l)
  <2>0. PICK x, e : x = Request("kwd", "MIC") /\ e = <<"reset_expect">>  OBVIOUS
  <2>a. x = <<"request", "kwd", "MIC">>  BY <2>0 DEF Request
  <2>1. PICK top \in Focus \ {"expect", "kwd"} :
           c = <<x, e, <<"stolen", "expect", "SPK", top>> >>
    BY <1>2, <2>0 DEF Takes
  <2>2. PICK y : y = <<"stolen", "expect", "SPK", top>>  OBVIOUS
  <2>3. c[1] = x /\ c = <<x, e, y>>  BY <2>1, <2>2
  <2>4. f = "kwd" /\ r = "MIC" /\ t = l /\ ~Expects(l)  BY <1>2, <2>a, <2>3 DEF Takes
  <2>5. s # <<>> => Refused(Head(s), r, f)  BY <2>4, MicPolicy
  <2>6. CASE d = PushOne(c, <<"focus", f, r, "request">>)
    <3>0. PICK u : u = <<"focus", "kwd", "MIC", "request">>  OBVIOUS
    <3>1. d = <<u, e, y>>  BY <2>3, <2>4, <2>6, <3>0, ShortReturns
    <3> QED  BY <2>0, <2>2, <2>4, <3>0, <3>1 DEF Track, Takes
  <2>7. CASE d = Pop(c)
    <3>1. d = <<e, y>>  BY <2>3, <2>7, ShortReturns
    <3> QED  BY <2>0, <2>2, <2>4, <3>1 DEF Track, Takes
  <2> QED  BY <2>5, <2>6, <2>7 DEF Requested
<1>3. CASE Starts(c, l)
  <2>0. PICK x : x = Request("asr", "MIC")  OBVIOUS
  <2>1. c = <<x>> /\ TopIs(l, "expect")  BY <1>3, <2>0 DEF Starts, Request
  <2>2. f = "asr" /\ r = "MIC" /\ t = l /\ s = m /\ c[1] = x /\ x[1] = "request"
        /\ x[3] = "MIC"
    BY <2>0, <2>1 DEF Request
  <2>3. CASE d = PushOne(c, <<"focus", f, r, "request">>)
    <3>1. d = << <<"focus", "asr", "MIC", "request">> >>  BY <2>1, <2>2, <2>3, ShortReturns
    <3> QED  BY <2>1, <2>2, <3>1 DEF Track, Starts
  <2>4. CASE /\ s # <<>> /\ ~Refused(Head(s), r, f)
             /\ d = PushTwo(c, <<"unfocus", Head(s), r>>, <<"stolen", f, r, Head(s)>>)
    <3>1. Head(s) = "kwd"  BY <2>2, <2>4, MicPolicy
    <3>2. d = << <<"unfocus", "kwd", "MIC">>, <<"stolen", "asr", "MIC", "kwd">> >>
      BY <2>1, <2>2, <2>4, <3>1, ShortReturns
    <3> QED  BY <2>1, <2>2, <3>2 DEF Track, Starts
  <2>5. ASSUME s # <<>>, Refused(Head(s), r, f) PROVE FALSE
    <3>1. Head(m) = "asr"  BY <2>2, <2>5, MicPolicy
    <3>2. TopIs(m, "asr")  BY <2>2, <2>5, <3>1 DEF TopIs
    <3>3. Len(c) = 1  BY <2>1
    <3>4. ~Asking(c)
      <4>1. \A i \in 1..Len(c) : i = 1  BY <3>3
      <4> QED  BY <2>2, <4>1 DEF Asking, AsksAsr
    <3>5. ~Turning(c)  BY <2>2, <3>3 DEF Turning, Mic
    <3>6. On("asr", l)  BY <3>2, <3>4, <3>5 DEF AsrHolds
    <3> QED  BY <2>1, <3>6 DEF AsrFirst, TopIs
  <2> QED  BY <2>3, <2>4, <2>5 DEF Requested
<1>4. CASE Gives(c, h, l)
  <2>0. PICK x : x = Request("asr", "SPK")  OBVIOUS
  <2>1. c = <<x>> /\ TopIs(l, "expect") /\ ~h  BY <1>4, <2>0 DEF Gives
  <2>2. f = "asr" /\ r = "SPK" /\ s = l /\ l # <<>> /\ Head(l) = "expect"
    BY <2>0, <2>1 DEF Request, TopIs
  <2>3. ~Refused(Head(s), r, f)  BY <2>2, SpkPolicy
  <2>4. d = PushTwo(c, <<"unfocus", Head(s), r>>, <<"stolen", f, r, Head(s)>>) /\ t = l
    BY <2>2, <2>3 DEF Requested
  <2>5. d = << <<"unfocus", "expect", "SPK">>, <<"stolen", "asr", "SPK", "expect">> >>
    BY <2>1, <2>2, <2>4, ShortReturns
  <2> QED  BY <2>1, <2>4, <2>5 DEF Track, Gives
<1>5. ~Withdrawn(c, h, l)  BY DEF Withdrawn, Release
<1>6. ~Ends(c, h, l)  BY DEF Ends, Release
<1> QED  BY <1>1, <1>2, <1>3, <1>4, <1>5, <1>6 DEF Track

\* nugu_focus_request() up to its first callback.
LEMMA RequestTracked ==
    ASSUME IndInv, Holds, Tracked, RequestStep
    PROVE  Tracked'
<1>0. PICK c, f, r, l, m, s : /\ c = calls /\ f = c[1][2] /\ r = c[1][3]
                              /\ l = stack["SPK"] /\ m = stack["MIC"] /\ s = stack[r]
  OBVIOUS
<1>a. PICK d, t, h : d = calls' /\ t = stack'["SPK"] /\ h = is_handle  OBVIOUS
<1>1. /\ c \in Seq(Call) /\ c # <<>> /\ c[1][1] = "request"
      /\ r \in {"MIC", "SPK"} /\ f \in Users(r) /\ Lists(stack)
      /\ (s # <<>> => Head(s) \in Users(r))
      /\ \/ /\ s = <<>> /\ stack' = Updated(stack, r, <<f>>)
            /\ d = PushOne(c, <<"focus", f, r, "request">>)
         \/ /\ s # <<>> /\ ~Refused(Head(s), r, f) /\ stack' = stack
            /\ d = PushTwo(c, <<"unfocus", Head(s), r>>, <<"stolen", f, r, Head(s)>>)
         \/ /\ s # <<>> /\ Refused(Head(s), r, f)
            /\ stack' = Updated(stack, r, Reserved(s, f)) /\ d = Pop(c)
  BY <1>0, <1>a, RequestShape
<1>2. List(l, "SPK") /\ AsrFirst(l, "SPK") /\ AsrHolds(c, m, l) /\ Track(c, h, l)
  BY <1>0, <1>1, <1>a, ListsFacts DEF Holds, Tracked
<1>3. (r = "SPK" => s = l) /\ (r = "MIC" => s = m)  BY <1>0
<1>4. is_handle' = h  BY <1>a DEF RequestStep, agentVars
<1>5. \A q : stack' = Updated(stack, r, q) =>
                (r = "SPK" => t = q) /\ (r = "MIC" => t = l)
  BY <1>0, <1>1, <1>a, OtherKept
<1>6. stack' = stack => t = l  BY <1>0, <1>a
<1>7. r = "MIC" => t = l  BY <1>1, <1>5, <1>6
<1>8. Requested(c, f, r, s, l, d, t)
  BY <1>1, <1>3, <1>5, <1>6 DEF Requested
<1>9. Track(d, h, t)
  <2>1. (Gone(c, h, l) => Gone(d, h, t)) /\ (Waits(c, h, l) => Waits(d, h, t))
    BY <1>0, <1>1, <1>2, <1>3, <1>7, <1>8, RequestQuiet
  <2>2. ~Gone(c, h, l) /\ ~Waits(c, h, l) => Track(d, h, t)
    BY <1>0, <1>1, <1>2, <1>3, <1>7, <1>8, RequestMoves
  <2> QED  BY <2>1, <2>2 DEF Track
<1> QED  BY <1>4, <1>9, <1>a, TrackedAfter

\* nugu_focus_request() after unfocus_cb of the former top.
LEMMA StolenTracked ==
    ASSUME IndInv, Tracked, StolenStep
    PROVE  Tracked'
<1>0. PICK c, f, r, top, l, h : /\ c = calls /\ f = c[1][2] /\ r = c[1][3] /\ top = c[1][4]
                                /\ l = stack["SPK"] /\ h = is_handle
  OBVIOUS
<1>a. PICK d, t : d = calls' /\ t = stack'["SPK"]  OBVIOUS
<1>1. c # <<>> /\ c[1][1] = "stolen" /\ is_handle' = h
  BY <1>0 DEF StolenStep, Running, agentVars
<1>2. Lists(stack) /\ c \in Seq(Call) /\ c[1] \in Call  BY <1>0, <1>1, MainFacts
<1>3. r \in {"MIC", "SPK"} /\ f \in Users(r) /\ top \in Users(r)
  BY <1>0, <1>1, <1>2, CallFacts
<1>4. PICK x : x = <<"focus", f, r, "request">>  OBVIOUS
<1>5. PICK answer \in UnfocusAnswers(top) :
         /\ stack' = Updated(stack, r, Taken(stack[r], top, answer, f))
         /\ d = PushOne(c, x)
  BY <1>0, <1>4, <1>a DEF StolenStep, Return, Updated, Taken, PushOne
<1>6. List(l, "SPK") /\ Track(c, h, l)  BY <1>0, <1>2, ListsFacts DEF Tracked
<1>7. r = "MIC" => t = l  BY <1>0, <1>2, <1>3, <1>5, <1>a, OtherKept
<1>8. ASSUME r = "SPK"
      PROVE  /\ t = Taken(l, top, answer, f)
             /\ \A g : On(g, t) <=> \/ On(g, l) /\ g # top
                                    \/ g = f
                                    \/ g = top /\ answer = "PAUSE"
  <2>1. t = Taken(l, top, answer, f)  BY <1>0, <1>2, <1>3, <1>5, <1>8, <1>a, OtherKept
  <2> QED  BY <1>3, <1>5, <1>6, <1>8, <2>1, TakenOn
<1>9. answer = "PAUSE" => top = "cap_audio"  BY <1>5, UnfocusAnswer
<1>10. CASE Gone(c, h, l)
  <2>1. ~h /\ ~Expects(l) /\ c \in Seq(Unasked)  BY <1>10 DEF Gone
  <2>2. f # "expect"  BY <1>0, <1>1, <2>1, FirstKind DEF Unasked
  <2>3. ~Expects(t)  BY <1>3, <1>7, <1>8, <1>9, <2>1, <2>2 DEF Expects
  <2>4. x \in Unasked  BY <1>3, <1>4, KindMade
  <2>5. d \in Seq(Unasked)  BY <1>1, <1>5, <2>1, <2>4, KindKept
  <2>6. Track(d, h, t)  BY <2>1, <2>3, <2>5 DEF Track, Gone
  <2> QED  BY <1>1, <1>a, <2>6, TrackedAfter
<1>11. CASE Waits(c, h, l)
  <2>1. h /\ ExpectNext(l) /\ c \in Seq(MildCall)  BY <1>11 DEF Waits
  <2>2. r = "MIC"  BY <1>0, <1>1, <2>1, FirstKind DEF MildCall, Mild
  <2>3. x \in MildCall  BY <1>3, <1>4, <2>2, KindMade
  <2>4. d \in Seq(MildCall)  BY <1>1, <1>5, <2>1, <2>3, KindKept
  <2>5. Track(d, h, t)  BY <1>7, <2>1, <2>2, <2>4 DEF Track, Waits
  <2> QED  BY <1>1, <1>a, <2>5, TrackedAfter
<1>12. CASE Takes(c, l)
  <2>1. PICK y : c = <<y>> /\ y[2] = "expect" /\ y[3] = "SPK"
    <3>1. PICK g \in Focus \ {"expect", "kwd"} : c = << <<"stolen", "expect", "SPK", g>> >>
      BY <1>1, <1>12 DEF Takes, Request
    <3>2. PICK y : y = <<"stolen", "expect", "SPK", g>>  OBVIOUS
    <3> QED  BY <3>1, <3>2
  <2>2. f = "expect" /\ r = "SPK"  BY <1>0, <2>1
  <2>3. d = <<x>>  BY <1>5, <2>1, ShortReturns
  <2>4. TopIs(t, "expect")
    <3>1. PICK w : t = Prepend(w, f) /\ w \in Seq(Users(r)) /\ f \in Users(r)
      <4>1. /\ l \in Seq(Users(r)) /\ Distinct(l) /\ Users(r) \subseteq Focus
        BY <1>6, <2>2, PolicyFacts DEF List
      <4>2. PICK u, v, w : /\ u = RemoveItems(l, top) /\ v = Unfocused(u, top, answer)
                           /\ w = RemoveItems(v, f)
        OBVIOUS
      <4>3. u \in Seq(Users(r)) /\ Distinct(u) /\ ~On(top, u)  BY <4>1, <4>2, ListRemoved
      <4>4. v \in Seq(Users(r)) /\ Distinct(v)
        BY <1>3, <4>1, <4>2, <4>3, ListInserted DEF Unfocused
      <4>5. w \in Seq(Users(r))  BY <4>2, <4>4, ListRemoved
      <4> QED  BY <1>3, <1>8, <2>2, <4>2, <4>5 DEF Taken
    <3> QED  BY <2>2, <3>1, PrependFacts DEF TopIs
  <2>5. Track(d, h, t)  BY <1>4, <2>2, <2>3, <2>4 DEF Track, Starts
  <2> QED  BY <1>1, <1>a, <2>5, TrackedAfter
<1>13. CASE Starts(c, l)
  <2>0. PICK y : y = <<"stolen", "asr", "MIC", "kwd">>  OBVIOUS
  <2>1. c = <<y>> /\ TopIs(l, "expect")  BY <1>1, <1>13, <2>0 DEF Starts, Request
  <2>2. f = "asr" /\ r = "MIC" /\ t = l  BY <1>0, <1>7, <2>0, <2>1
  <2>3. d = <<x>>  BY <1>5, <2>1, ShortReturns
  <2>4. Track(d, h, t)  BY <1>4, <2>1, <2>2, <2>3 DEF Track, Starts
  <2> QED  BY <1>1, <1>a, <2>4, TrackedAfter
<1>14. CASE Gives(c, h, l)
  <2>0. PICK y : y = <<"stolen", "asr", "SPK", "expect">>  OBVIOUS
  <2>1. c = <<y>> /\ ~h  BY <1>1, <1>14, <2>0 DEF Gives, Request
  <2>2. f = "asr" /\ r = "SPK" /\ top = "expect"  BY <1>0, <2>0, <2>1
  <2>3. ~Expects(t)  BY <1>8, <1>9, <2>2 DEF Expects
  <2>4. d = <<x>>  BY <1>5, <2>1, ShortReturns
  <2>5. x \in Unasked  BY <1>3, <1>4, KindMade
  <2>6. d \in Seq(Unasked)  BY <2>4, <2>5
  <2>7. Track(d, h, t)  BY <2>1, <2>3, <2>6 DEF Track, Gone
  <2> QED  BY <1>1, <1>a, <2>7, TrackedAfter
<1>15. ~Withdrawn(c, h, l) /\ ~Asks(c, h, l) /\ ~Ends(c, h, l)
  BY <1>1 DEF Withdrawn, Asks, Ends, Request, Release
<1> QED  BY <1>6, <1>10, <1>11, <1>12, <1>13, <1>14, <1>15 DEF Track

\* nugu_focus_release() up to unfocus_cb.
LEMMA ReleaseTracked ==
    ASSUME IndInv, Tracked, ReleaseStep
    PROVE  Tracked'
<1>0. PICK c, f, r, l, h, s : /\ c = calls /\ f = c[1][2] /\ r = c[1][3]
                              /\ l = stack["SPK"] /\ h = is_handle /\ s = stack[r]
  OBVIOUS
<1>a. PICK d, t : d = calls' /\ t = stack'["SPK"]  OBVIOUS
<1>1. c # <<>> /\ c[1][1] = "release" /\ is_handle' = h
  BY <1>0 DEF ReleaseStep, Running, agentVars
<1>2. Lists(stack) /\ c \in Seq(Call) /\ c[1] \in Call  BY <1>0, <1>1, MainFacts
<1>3. r \in {"MIC", "SPK"} /\ f \in Users(r)  BY <1>0, <1>1, <1>2, CallFacts
<1>4. PICK x, y : x = <<"unfocus", f, r>> /\ y = <<"released", f, r>>  OBVIOUS
<1>5. PICK q : /\ stack' = Updated(stack, r, q)
               /\ \/ (s = <<>> \/ Head(s) # f) /\ q = RemoveItems(s, f) /\ d = Pop(c)
                  \/ s # <<>> /\ Head(s) = f /\ q = Tail(s) /\ d = PushTwo(c, x, y)
  BY <1>0, <1>4, <1>a DEF ReleaseStep, Return, Updated, Pop, PushTwo
<1>6. List(l, "SPK") /\ Track(c, h, l)  BY <1>0, <1>2, ListsFacts DEF Tracked
<1>7. (r = "MIC" => t = l) /\ (r = "SPK" => t = q /\ s = l)
  BY <1>0, <1>2, <1>3, <1>5, <1>a, OtherKept
<1>8. x \in Unasked /\ y \in Unasked  BY <1>3, <1>4, KindMade
<1>9. r = "SPK" => \A g : On(g, t) <=> On(g, l) /\ g # f
  <2> SUFFICES ASSUME r = "SPK" PROVE \A g : On(g, t) <=> On(g, l) /\ g # f  OBVIOUS
  <2>1. l \in Seq(Users("SPK")) /\ Distinct(l)  BY <1>6 DEF List
  <2>2. CASE t = RemoveItems(l, f)  BY <2>1, <2>2, ListRemoved
  <2>3. CASE l # <<>> /\ Head(l) = f /\ t = Tail(l)  BY <2>1, <2>3, ListTail
  <2> QED  BY <1>5, <1>7, <2>2, <2>3
<1>10. c \in Seq(Unasked) => d \in Seq(Unasked)  BY <1>1, <1>5, <1>8, KindKept
<1>11. CASE Gone(c, h, l)
  <2>1. ~h /\ ~Expects(l) /\ c \in Seq(Unasked)  BY <1>11 DEF Gone
  <2>2. ~Expects(t)  BY <1>3, <1>7, <1>9, <2>1 DEF Expects
  <2>3. Track(d, h, t)  BY <1>10, <2>1, <2>2 DEF Track, Gone
  <2> QED  BY <1>1, <1>a, <2>3, TrackedAfter
<1>12. CASE Waits(c, h, l)
  <2>1. h /\ ExpectNext(l) /\ c \in Seq(MildCall)  BY <1>12 DEF Waits
  <2>2. c[1] \in MildCall  BY <1>1, <2>1, FirstKind
  <2>3. CASE r = "MIC"
    <3>1. x \in MildCall /\ y \in MildCall  BY <1>3, <1>4, <2>3, KindMade
    <3>2. d \in Seq(MildCall)  BY <1>1, <1>5, <2>1, <3>1, KindKept
    <3>3. Track(d, h, t)  BY <1>7, <2>1, <2>3, <3>2 DEF Track, Waits
    <3> QED  BY <1>1, <1>a, <3>3, TrackedAfter
  <2>4. CASE r = "SPK"
    <3>1. f \in {"asr", "cap_audio"}  BY <1>0, <1>1, <2>2, <2>4 DEF MildCall, Mild
    <3>2. l # <<>> /\ Head(l) = "cap_tts"  BY <1>6, <2>1, NextFacts DEF List
    <3>3. t = RemoveItems(l, f) /\ d = Pop(c)  BY <1>5, <1>7, <2>4, <3>1, <3>2
    <3>4. ExpectNext(t)  BY <1>3, <1>6, <2>1, <2>4, <3>1, <3>3, NextKept
    <3>5. d \in Seq(MildCall)  BY <1>1, <2>1, <3>3, KindKept
    <3>6. Track(d, h, t)  BY <2>1, <3>4, <3>5 DEF Track, Waits
    <3> QED  BY <1>1, <1>a, <3>6, TrackedAfter
  <2> QED  BY <1>3, <2>3, <2>4
<1>13. CASE Withdrawn(c, h, l)
  <2>1. c \in Seq(Unasked) /\ c[1] = Release("expect", "SPK")
    BY <1>1, <1>13 DEF Withdrawn
  <2>2. f = "expect" /\ r = "SPK"  BY <1>0, <2>1 DEF Release
  <2>3. ~Expects(t)  BY <1>9, <2>2 DEF Expects
  <2>4. CASE ~h
    <3>1. Track(d, h, t)  BY <1>10, <2>1, <2>3, <2>4 DEF Track, Gone
    <3> QED  BY <1>1, <1>a, <3>1, TrackedAfter
  <2>5. CASE h
    <3>1. TopIs(l, "cap_tts") /\ 2 <= Len(c) /\ c[2] = <<"reset_expect">>
      BY <1>1, <1>13, <2>5 DEF Withdrawn
    <3>2. d = Pop(c)  BY <1>5, <1>7, <2>2, <3>1 DEF TopIs
    <3>3. d # <<>> /\ d[1] = <<"reset_expect">>  BY <1>2, <3>1, <3>2, PopBehind
    <3>4. Track(d, h, t)  BY <1>10, <2>1, <2>3, <2>5, <3>3 DEF Track, Withdrawn
    <3> QED  BY <1>1, <1>a, <3>4, TrackedAfter
  <2> QED  BY <2>4, <2>5
<1>14. CASE Ends(c, h, l)
  <2>0. PICK z : z = Release("cap_tts", "SPK")  OBVIOUS
  <2>1. c = <<z>> /\ ExpectNext(l)  BY <1>1, <1>14, <2>0 DEF Ends
  <2>2. f = "cap_tts" /\ r = "SPK"  BY <1>0, <2>0, <2>1 DEF Release
  <2>3. l # <<>> /\ Head(l) = "cap_tts" /\ TopIs(Tail(l), "expect")
    BY <1>6, <2>1, NextFacts DEF List
  <2>4. t = Tail(l) /\ d = PushTwo(c, x, y)  BY <1>5, <1>7, <2>2, <2>3
  <2>5. d = <<x, y>>  BY <2>1, <2>4, ShortReturns
  <2>6. Track(d, h, t)  BY <1>4, <2>2, <2>3, <2>4, <2>5 DEF Track, Ends
  <2> QED  BY <1>1, <1>a, <2>6, TrackedAfter
<1>15. ~Asks(c, h, l) /\ ~Takes(c, l) /\ ~Starts(c, l) /\ ~Gives(c, h, l)
  BY <1>1 DEF Asks, Takes, Starts, Gives, Request
<1> QED  BY <1>6, <1>11, <1>12, <1>13, <1>14, <1>15 DEF Track

\* nugu_focus_release() after unfocus_cb returned.
LEMMA ReleasedTracked ==
    ASSUME IndInv, Tracked, ReleasedStep
    PROVE  Tracked'
<1>0. PICK c, f, r, l, h, s : /\ c = calls /\ f = c[1][2] /\ r = c[1][3]
                              /\ l = stack["SPK"] /\ h = is_handle /\ s = stack[r]
  OBVIOUS
<1>a. PICK d, t : d = calls' /\ t = stack'["SPK"]  OBVIOUS
<1>1. c # <<>> /\ c[1][1] = "released" /\ is_handle' = h
  BY <1>0 DEF ReleasedStep, Running, agentVars
<1>2. /\ Lists(stack) /\ c \in Seq(Call) /\ c[1] \in Call
      /\ Nesting(c, stack, focused["SPK"])
  BY <1>0, <1>1, MainFacts
<1>3. r \in {"MIC", "SPK"} /\ f \in Users(r)  BY <1>0, <1>1, <1>2, CallFacts
<1>4. ~On(f, s)
  <2>1. InHandOver(c, stack, focused["SPK"])  BY <1>1, <1>2, TopCall
  <2> QED  BY <1>0, <1>1, <2>1 DEF InHandOver, Waiting
<1>5. PICK answer \in UnfocusAnswers(f) :
         /\ stack' = Updated(stack, r, Unfocused(s, f, answer))
         /\ calls' = (IF Unfocused(s, f, answer) # <<>> /\ Head(Unfocused(s, f, answer)) # f
                      THEN << <<"focus", Head(Unfocused(s, f, answer)), r, "release">> >>
                      ELSE <<>>) \o Tail(c)
  BY <1>0 DEF ReleasedStep, Return, Updated
<1>6. PICK q, top, x : /\ q = Unfocused(s, f, answer) /\ top = Head(q)
                       /\ x = <<"focus", top, r, "release">>
  OBVIOUS
<1>7. /\ stack' = Updated(stack, r, q)
      /\ d = IF q # <<>> /\ top # f THEN PushOne(c, x) ELSE Pop(c)
  BY <1>5, <1>6, <1>a DEF PushOne, Pop
<1>8. List(l, "SPK") /\ List(s, r) /\ Track(c, h, l)
  BY <1>0, <1>2, <1>3, ListsFacts DEF Tracked
<1>9. /\ q # <<>> => top \in Users(r)
      /\ \A g : On(g, q) => On(g, s) \/ (g = f /\ f = "cap_audio")
      /\ f # "cap_audio" => q = s
  BY <1>3, <1>4, <1>6, <1>8, ListReleased
<1>10. (r = "MIC" => t = l) /\ (r = "SPK" => t = q /\ s = l)
  BY <1>0, <1>2, <1>3, <1>7, <1>a, OtherKept
<1>11. CASE Gone(c, h, l)
  <2>1. ~h /\ ~Expects(l) /\ c \in Seq(Unasked)  BY <1>11 DEF Gone
  <2>2. ~Expects(t)  BY <1>3, <1>9, <1>10, <2>1 DEF Expects
  <2>3. q # <<>> => x \in Unasked  BY <1>3, <1>6, <1>9, KindMade
  <2>4. d \in Seq(Unasked)  BY <1>1, <1>7, <2>1, <2>3, KindKept
  <2>5. Track(d, h, t)  BY <2>1, <2>2, <2>4 DEF Track, Gone
  <2> QED  BY <1>1, <1>a, <2>5, TrackedAfter
<1>12. CASE Waits(c, h, l)
  <2>1. h /\ ExpectNext(l) /\ c \in Seq(MildCall)  BY <1>12 DEF Waits
  <2>2. r = "MIC"  BY <1>0, <1>1, <2>1, FirstKind DEF MildCall, Mild
  <2>3. q # <<>> => x \in MildCall  BY <1>6, <1>9, <2>2, KindMade
  <2>4. d \in Seq(MildCall)  BY <1>1, <1>7, <2>1, <2>3, KindKept
  <2>5. Track(d, h, t)  BY <1>10, <2>1, <2>2, <2>4 DEF Track, Waits
  <2> QED  BY <1>1, <1>a, <2>5, TrackedAfter
<1>13. CASE Ends(c, h, l)
  <2>0. PICK z : z = <<"released", "cap_tts", "SPK">>  OBVIOUS
  <2>1. c = <<z>> /\ TopIs(l, "expect")  BY <1>1, <1>13, <2>0 DEF Ends, Release
  <2>2. f = "cap_tts" /\ r = "SPK" /\ q = l /\ t = l  BY <1>0, <1>9, <1>10, <2>0, <2>1
  <2>3. q # <<>> /\ top = "expect"  BY <1>6, <2>1, <2>2 DEF TopIs
  <2>4. d = <<x>>  BY <1>7, <2>1, <2>2, <2>3, ShortReturns
  <2>5. Track(d, h, t)  BY <1>6, <2>1, <2>2, <2>3, <2>4 DEF Track, Starts
  <2> QED  BY <1>1, <1>a, <2>5, TrackedAfter
<1>14. /\ ~Asks(c, h, l) /\ ~Takes(c, l) /\ ~Starts(c, l) /\ ~Gives(c, h, l)
       /\ ~Withdrawn(c, h, l)
  BY <1>1 DEF Asks, Takes, Starts, Gives, Withdrawn, Request, Release
<1> QED  BY <1>8, <1>11, <1>12, <1>13, <1>14 DEF Track

----------------------------------------------------------------------------
(***************************************************************************)
(* The focus listeners and the other steps of the main thread.             *)
(***************************************************************************)

\* ASRFocusListener::onFocus(MIC): what it calls while speech is expected, and
\* otherwise.
LEMMA AsrFocusMicTurns ==
    ASSUME AsrFocusMic, NEW x, x = Release("expect", "SPK"), NEW y, y = Request("asr", "SPK")
    PROVE  calls' = IF is_handle THEN PushTwo(calls, x, y) ELSE PushOne(calls, y)
<1>1. <<x>> \o <<y>> = <<x, y>> /\ <<>> \o <<y>> = <<y>>  BY ShortConcats
<1>2. calls' = ((IF is_handle THEN <<x>> ELSE <<>>) \o <<y>>) \o Tail(calls)
  BY DEF AsrFocusMic, Return
<1>3. CASE is_handle
  <2>1. calls' = (<<x>> \o <<y>>) \o Tail(calls)  BY <1>2, <1>3
  <2> QED  BY <1>1, <1>3, <2>1 DEF PushTwo
<1>4. CASE ~is_handle
  <2>1. calls' = (<<>> \o <<y>>) \o Tail(calls)  BY <1>2, <1>4
  <2> QED  BY <1>1, <1>4, <2>1 DEF PushOne
<1> QED  BY <1>3, <1>4

\* ASRFocusListener::onFocus(MIC).
LEMMA AsrFocusMicTracked ==
    ASSUME IndInv, Tracked, AsrFocusMic
    PROVE  Tracked'
<1>0. PICK c, l, h : c = calls /\ l = stack["SPK"] /\ h = is_handle  OBVIOUS
<1>a. PICK d, t : d = calls' /\ t = stack'["SPK"]  OBVIOUS
<1>1. /\ c # <<>> /\ c[1][1] = "focus" /\ c[1][2] = "asr" /\ c[1][3] = "MIC"
      /\ is_handle' = FALSE /\ t = l
  BY <1>0, <1>a DEF AsrFocusMic, Running
<1>2. c \in Seq(Call) /\ Track(c, h, l)  BY <1>0, <1>1, MainFacts DEF Tracked
<1>3. PICK x, y : x = Release("expect", "SPK") /\ y = Request("asr", "SPK")  OBVIOUS
<1>4. d = IF h THEN PushTwo(c, x, y) ELSE PushOne(c, y)
  BY <1>0, <1>3, <1>a, AsrFocusMicTurns
<1>5. x \in Unasked /\ y \in Unasked
  BY <1>3, SpkPolicy, KindMade DEF Release, Request
<1>6. h => d # <<>> /\ d[1] = x
  <2>1. PushTwo(c, x, y) # <<>> /\ PushTwo(c, x, y)[1] = x  BY <1>1, <1>2, PushAway
  <2> QED  BY <1>4, <2>1
<1>7. c \in Seq(Unasked) => d \in Seq(Unasked)  BY <1>1, <1>4, <1>5, KindKept
<1>8. CASE Gone(c, h, l)
  <2>1. Track(d, FALSE, t)  BY <1>1, <1>7, <1>8 DEF Track, Gone
  <2> QED  BY <1>1, <1>a, <2>1, TrackedAfter
<1>9. CASE Waits(c, h, l)
  <2>1. h /\ c \in Seq(Unasked)  BY <1>9, MildFacts DEF Waits
  <2>2. Track(d, FALSE, t)  BY <1>3, <1>6, <1>7, <2>1 DEF Track, Withdrawn
  <2> QED  BY <1>1, <1>a, <2>2, TrackedAfter
<1>10. CASE Starts(c, l)
  <2>1. PICK how \in {"request", "release"} : c = << <<"focus", "asr", "MIC", how>> >>
    BY <1>1, <1>10 DEF Starts, Request
  <2>2. TopIs(l, "expect")  BY <1>10 DEF Starts
  <2>3. CASE h
    <3>1. d = <<x, y>>  BY <1>4, <2>1, <2>3, ShortReturns
    <3>2. d \in Seq(Unasked)  BY <1>5, <3>1
    <3>3. Track(d, FALSE, t)  BY <1>3, <1>6, <2>3, <3>2 DEF Track, Withdrawn
    <3> QED  BY <1>1, <1>a, <3>3, TrackedAfter
  <2>4. CASE ~h
    <3>1. d = <<y>>  BY <1>4, <2>1, <2>4, ShortReturns
    <3>2. Track(d, FALSE, t)  BY <1>1, <1>3, <2>2, <3>1 DEF Track, Gives
    <3> QED  BY <1>1, <1>a, <3>2, TrackedAfter
  <2> QED  BY <2>3, <2>4
<1>11. ~Asks(c, h, l) /\ ~Gives(c, h, l) /\ ~Withdrawn(c, h, l) /\ ~Ends(c, h, l)
  BY <1>1 DEF Asks, Gives, Withdrawn, Ends, Request, Release
<1>12. ~Takes(c, l)  BY <1>1 DEF Takes, Request
<1> QED  BY <1>2, <1>8, <1>9, <1>10, <1>11, <1>12 DEF Track

\* WakeupHandler::onFocus().
LEMMA KwdFocusTracked ==
    ASSUME IndInv, Tracked, KwdFocus
    PROVE  Tracked'
<1>0. PICK c, l, h : c = calls /\ l = stack["SPK"] /\ h = is_handle  OBVIOUS
<1>a. PICK d, t : d = calls' /\ t = stack'["SPK"]  OBVIOUS
<1>1. /\ c # <<>> /\ c[1][1] = "focus" /\ c[1][2] = "kwd"
      /\ is_handle' = h /\ t = l /\ d = Pop(c)
  BY <1>0, <1>a DEF KwdFocus, Running, Return, Pop, agentVars
<1>2. c \in Seq(Call) /\ Track(c, h, l)  BY <1>0, <1>1, MainFacts DEF Tracked
<1>3. CASE Gone(c, h, l)
  <2>1. Track(d, h, t)  BY <1>1, <1>3, KindKept DEF Track, Gone
  <2> QED  BY <1>1, <1>a, <2>1, TrackedAfter
<1>4. CASE Waits(c, h, l)
  <2>1. Track(d, h, t)  BY <1>1, <1>4, KindKept DEF Track, Waits
  <2> QED  BY <1>1, <1>a, <2>1, TrackedAfter
<1>5. CASE Takes(c, l)
  <2>0. PICK x, e : x = <<"focus", "kwd", "MIC", "request">> /\ e = <<"reset_expect">>
    OBVIOUS
  <2>1. PICK top \in Focus \ {"expect", "kwd"} :
           c = <<x, e, <<"stolen", "expect", "SPK", top>> >>
    BY <1>1, <1>5, <2>0 DEF Takes, Request
  <2>2. PICK y : y = <<"stolen", "expect", "SPK", top>>  OBVIOUS
  <2>3. d = <<e, y>>  BY <1>1, <2>1, <2>2, ShortReturns
  <2>4. Track(d, h, t)  BY <1>1, <1>5, <2>0, <2>2, <2>3 DEF Track, Takes
  <2> QED  BY <1>1, <1>a, <2>4, TrackedAfter
<1>6. ~Asks(c, h, l) /\ ~Gives(c, h, l) /\ ~Withdrawn(c, h, l) /\ ~Ends(c, h, l)
      /\ ~Starts(c, l)
  BY <1>1 DEF Asks, Gives, Withdrawn, Ends, Starts, Request, Release
<1> QED  BY <1>2, <1>3, <1>4, <1>5, <1>6 DEF Track

\* The speaker's listeners.
LEMMA SpeakerFocusTracked ==
    ASSUME IndInv, Tracked, AsrFocusSpk \/ ExpectFocus \/ TtsFocus \/ AudioFocus
    PROVE  Tracked'
<1>0. PICK c, f, l, h : c = calls /\ f = c[1][2] /\ l = stack["SPK"] /\ h = is_handle
  OBVIOUS
<1>a. PICK d, t : d = calls' /\ t = stack'["SPK"]  OBVIOUS
<1>1. /\ c # <<>> /\ c[1][1] = "focus" /\ is_handle' = h
      /\ \/ AsrFocusSpk /\ f = "asr" /\ c[1][3] = "SPK"
         \/ ExpectFocus /\ f = "expect"
         \/ TtsFocus /\ f = "cap_tts"
         \/ AudioFocus /\ f = "cap_audio"
  BY <1>0 DEF AsrFocusSpk, ExpectFocus, TtsFocus, AudioFocus, Running, agentVars
<1>2. /\ Lists(stack) /\ c \in Seq(Call) /\ c[1] \in Call /\ List(l, "SPK")
      /\ Track(c, h, l)
  BY <1>0, <1>1, MainFacts, ListsFacts DEF Tracked
<1>3. c[1][3] \in {"MIC", "SPK"} /\ f \in Users(c[1][3])  BY <1>0, <1>1, <1>2, CallFacts
<1>4. c[1][3] = "SPK"  BY <1>1, <1>3 DEF Users
<1>5. PICK x : x = Request("asr", "MIC")  OBVIOUS
<1>6. (f = "expect" => d = PushOne(c, x)) /\ (f # "expect" => d = Pop(c))
  BY <1>0, <1>1, <1>5, <1>a
  DEF AsrFocusSpk, ExpectFocus, TtsFocus, AudioFocus, Return, StartRecognition, PushOne, Pop
<1>7. t = l \/ (f = "cap_audio" /\ t = RemoveItems(l, "cap_audio"))
  <2>1. stack' = stack \/ (f = "cap_audio" /\ stack' = Updated(stack, "SPK", RemoveItems(l, "cap_audio")))
    BY <1>0, <1>1, <1>4
    DEF AsrFocusSpk, ExpectFocus, TtsFocus, AudioFocus, Updated
  <2> QED  BY <1>0, <1>2, <1>a, <2>1, OtherKept
<1>8. CASE Gone(c, h, l)
  <2>1. ~h /\ ~Expects(l) /\ c \in Seq(Unasked)  BY <1>8 DEF Gone
  <2>2. ~Expects(t)
    <3>1. \A g : On(g, RemoveItems(l, "cap_audio")) => On(g, l)
      BY <1>2, ListRemoved DEF List
    <3> QED  BY <1>7, <2>1, <3>1 DEF Expects
  <2>3. x \in Unasked  BY <1>5, MicPolicy, KindMade DEF Request
  <2>4. d \in Seq(Unasked)  BY <1>1, <1>6, <2>1, <2>3, KindKept
  <2>5. Track(d, h, t)  BY <2>1, <2>2, <2>4 DEF Track, Gone
  <2> QED  BY <1>1, <1>a, <2>5, TrackedAfter
<1>9. ~Waits(c, h, l)
  <2>1. ASSUME Waits(c, h, l) PROVE FALSE
    BY <1>1, <1>4, <2>1, FirstKind DEF Waits, MildCall, Mild
  <2> QED  BY <2>1
<1>10. CASE Starts(c, l)
  <2>1. PICK how \in {"request", "release"} : c = << <<"focus", "expect", "SPK", how>> >>
    BY <1>1, <1>4, <1>10 DEF Starts, Request
  <2>2. f = "expect" /\ t = l /\ TopIs(l, "expect")  BY <1>0, <1>7, <1>10, <2>1 DEF Starts
  <2>3. d = <<x>>  BY <1>6, <2>1, <2>2, ShortReturns
  <2>4. Track(d, h, t)  BY <1>5, <2>2, <2>3 DEF Track, Starts
  <2> QED  BY <1>1, <1>a, <2>4, TrackedAfter
<1>11. ~Asks(c, h, l) /\ ~Gives(c, h, l) /\ ~Withdrawn(c, h, l) /\ ~Ends(c, h, l)
       /\ ~Takes(c, l)
  BY <1>1, <1>4 DEF Asks, Gives, Withdrawn, Ends, Takes, Request, Release
<1> QED  BY <1>2, <1>8, <1>9, <1>10, <1>11 DEF Track

\* The unfocus callbacks that return at once.
LEMMA UnfocusTracked ==
    ASSUME IndInv, Tracked, AsrUnfocusMic \/ KwdUnfocus \/ SpeakerUnfocus
    PROVE  Tracked'
<1>0. PICK c, f, l, h : c = calls /\ f = c[1][2] /\ l = stack["SPK"] /\ h = is_handle
  OBVIOUS
<1>a. PICK d, t : d = calls' /\ t = stack'["SPK"]  OBVIOUS
<1>1. /\ c # <<>> /\ c[1][1] = "unfocus" /\ is_handle' = h /\ t = l /\ d = Pop(c)
      /\ (f = "asr" => c[1][3] = "MIC")
  BY <1>0, <1>a
  DEF AsrUnfocusMic, KwdUnfocus, SpeakerUnfocus, Running, Return, Pop, agentVars
<1>2. c \in Seq(Call) /\ Track(c, h, l)  BY <1>0, <1>1, MainFacts DEF Tracked
<1>3. CASE Gone(c, h, l)
  <2>1. Track(d, h, t)  BY <1>1, <1>3, KindKept DEF Track, Gone
  <2> QED  BY <1>1, <1>a, <2>1, TrackedAfter
<1>4. CASE Waits(c, h, l)
  <2>1. Track(d, h, t)  BY <1>1, <1>4, KindKept DEF Track, Waits
  <2> QED  BY <1>1, <1>a, <2>1, TrackedAfter
<1>5. CASE Takes(c, l)
  <2>1. PICK top \in Focus \ {"expect", "kwd"} :
           c = << <<"unfocus", top, "SPK">>, <<"stolen", "expect", "SPK", top>> >>
    BY <1>1, <1>5 DEF Takes, Request
  <2>2. PICK x, y : x = <<"unfocus", top, "SPK">> /\ y = <<"stolen", "expect", "SPK", top>>
    OBVIOUS
  <2>3. d = <<y>>  BY <1>1, <2>1, <2>2, ShortReturns
  <2>4. Track(d, h, t)  BY <1>1, <1>5, <2>2, <2>3 DEF Track, Takes
  <2> QED  BY <1>1, <1>a, <2>4, TrackedAfter
<1>6. CASE Starts(c, l)
  <2>0. PICK x, y : x = <<"unfocus", "kwd", "MIC">> /\ y = <<"stolen", "asr", "MIC", "kwd">>
    OBVIOUS
  <2>1. c = <<x, y>>  BY <1>1, <1>6, <2>0 DEF Starts, Request
  <2>2. d = <<y>>  BY <1>1, <2>1, ShortReturns
  <2>3. Track(d, h, t)  BY <1>1, <1>6, <2>0, <2>2 DEF Track, Starts
  <2> QED  BY <1>1, <1>a, <2>3, TrackedAfter
<1>7. CASE Gives(c, h, l)
  <2>0. PICK x, y : /\ x = <<"unfocus", "expect", "SPK">>
                    /\ y = <<"stolen", "asr", "SPK", "expect">>
    OBVIOUS
  <2>1. c = <<x, y>>  BY <1>1, <1>7, <2>0 DEF Gives, Request
  <2>2. d = <<y>>  BY <1>1, <2>1, ShortReturns
  <2>3. Track(d, h, t)  BY <1>1, <1>7, <2>0, <2>2 DEF Track, Gives
  <2> QED  BY <1>1, <1>a, <2>3, TrackedAfter
<1>8. CASE Ends(c, h, l)
  <2>0. PICK x, y : x = <<"unfocus", "cap_tts", "SPK">> /\ y = <<"released", "cap_tts", "SPK">>
    OBVIOUS
  <2>1. c = <<x, y>> /\ TopIs(l, "expect")  BY <1>1, <1>8, <2>0 DEF Ends, Release
  <2>2. d = <<y>>  BY <1>1, <2>1, ShortReturns
  <2>3. Track(d, h, t)  BY <1>1, <2>0, <2>1, <2>2 DEF Track, Ends
  <2> QED  BY <1>1, <1>a, <2>3, TrackedAfter
<1>9. ~Asks(c, h, l) /\ ~Withdrawn(c, h, l)
  BY <1>1 DEF Asks, Withdrawn, Request, Release
<1> QED  BY <1>2, <1>3, <1>4, <1>5, <1>6, <1>7, <1>8, <1>9 DEF Track

\* ASRFocusListener::onUnfocus(SPK).
LEMMA AsrUnfocusSpkTracked ==
    ASSUME IndInv, Tracked, AsrUnfocusSpk
    PROVE  Tracked'
<1>0. PICK c, l, h : c = calls /\ l = stack["SPK"] /\ h = is_handle  OBVIOUS
<1>a. PICK d, t : d = calls' /\ t = stack'["SPK"]  OBVIOUS
<1>1. /\ c # <<>> /\ c[1][1] = "unfocus" /\ c[1][2] = "asr" /\ c[1][3] = "SPK"
      /\ is_handle' = h /\ t = l
  BY <1>0, <1>a DEF AsrUnfocusSpk, Running, agentVars
<1>2. c \in Seq(Call) /\ Track(c, h, l)  BY <1>0, <1>1, MainFacts DEF Tracked
<1>3. PICK x, e : x = Request("kwd", "MIC") /\ e = <<"reset_expect">>  OBVIOUS
<1>4. d = PushTwo(c, x, e)  BY <1>0, <1>3, <1>a, AsrUnfocusCalls
<1>5. CASE Gone(c, h, l)
  <2>1. x \in Unasked /\ e \in Unasked
    <3>1. e \in Call  BY <1>3, CallsMade
    <3> QED  BY <1>3, <3>1, MicPolicy, KindMade DEF Request, Unasked
  <2>2. Track(d, h, t)  BY <1>1, <1>4, <1>5, <2>1, KindKept DEF Track, Gone
  <2> QED  BY <1>1, <1>a, <2>2, TrackedAfter
<1>6. ~Waits(c, h, l)
  <2>1. ASSUME Waits(c, h, l) PROVE FALSE
    BY <1>1, <2>1, FirstKind DEF Waits, MildCall, Mild
  <2> QED  BY <2>1
<1>7. CASE Takes(c, l)
  <2>1. PICK top \in Focus \ {"expect", "kwd"} :
           c = << <<"unfocus", top, "SPK">>, <<"stolen", "expect", "SPK", top>> >>
    BY <1>1, <1>7 DEF Takes, Request
  <2>2. PICK y, z : y = <<"stolen", "expect", "SPK", top>> /\ z = <<"unfocus", top, "SPK">>
    OBVIOUS
  <2>3. c = <<z, y>>  BY <2>1, <2>2
  <2>4. d = <<x, e, y>>  BY <1>4, <2>3, ShortReturns
  <2>5. Track(d, h, t)  BY <1>1, <1>3, <1>7, <2>2, <2>4 DEF Track, Takes
  <2> QED  BY <1>1, <1>a, <2>5, TrackedAfter
<1>8. ~Asks(c, h, l) /\ ~Gives(c, h, l) /\ ~Withdrawn(c, h, l) /\ ~Ends(c, h, l)
      /\ ~Starts(c, l)
  BY <1>1 DEF Asks, Gives, Withdrawn, Ends, Starts, Request, Release
<1> QED  BY <1>2, <1>5, <1>6, <1>7, <1>8 DEF Track

\* ASRAgent::resetExpectSpeechState().
LEMMA ResetExpectTracked ==
    ASSUME IndInv, Tracked, ResetExpectStep
    PROVE  Tracked'
<1>0. PICK c, l, h : c = calls /\ l = stack["SPK"] /\ h = is_handle  OBVIOUS
<1>a. PICK d, t : d = calls' /\ t = stack'["SPK"]  OBVIOUS
<1>1. /\ c # <<>> /\ c[1][1] = "reset_expect" /\ is_handle' = FALSE /\ t = l
      /\ d = Pop(c)
  BY <1>0, <1>a DEF ResetExpectStep, Running, Return, Pop, focusVars
<1>2. c \in Seq(Call) /\ Track(c, h, l)  BY <1>0, <1>1, MainFacts DEF Tracked
<1>3. CASE Gone(c, h, l) \/ Withdrawn(c, h, l)
  <2>1. ~Expects(l) /\ c \in Seq(Unasked)
    BY <1>1, <1>3 DEF Gone, Withdrawn, Release
  <2>2. Track(d, FALSE, t)  BY <1>1, <2>1, KindKept DEF Track, Gone
  <2> QED  BY <1>1, <1>a, <2>2, TrackedAfter
<1>4. ~Waits(c, h, l)
  <2>1. ASSUME Waits(c, h, l) PROVE FALSE
    BY <1>1, <2>1, FirstKind DEF Waits, MildCall, Mild
  <2> QED  BY <2>1
<1>5. CASE Takes(c, l)
  <2>0. PICK e : e = <<"reset_expect">>  OBVIOUS
  <2>1. PICK top \in Focus \ {"expect", "kwd"} :
           c = <<e, <<"stolen", "expect", "SPK", top>> >>
    BY <1>1, <1>5, <2>0 DEF Takes, Request
  <2>2. PICK y : y = <<"stolen", "expect", "SPK", top>>  OBVIOUS
  <2>3. d = <<y>>  BY <1>1, <2>1, <2>2, ShortReturns
  <2>4. Track(d, FALSE, t)  BY <1>1, <1>5, <2>2, <2>3 DEF Track, Takes
  <2> QED  BY <1>1, <1>a, <2>4, TrackedAfter
<1>6. ~Asks(c, h, l) /\ ~Gives(c, h, l) /\ ~Starts(c, l) /\ ~Ends(c, h, l)
  BY <1>1 DEF Asks, Gives, Starts, Ends, Request, Release
<1> QED  BY <1>2, <1>3, <1>4, <1>5, <1>6 DEF Track

\* The calls of the handlers that concern the microphone or release the speaker.
LEMMA MildMade ==
    /\ <<>> \in Seq(MildCall)
    /\ \A x \in MildCall : <<x>> \in Seq(MildCall)
    /\ \A x, y \in MildCall : <<x, y>> \in Seq(MildCall)
    /\ \A a, b \in Seq(MildCall) : a \o b \in Seq(MildCall)
    /\ StartRecognition \in Seq(MildCall) /\ StopRecognition \in Seq(MildCall)
    /\ ReleaseASRSpeakFocus \in Seq(MildCall) /\ StartWakeup \in Seq(MildCall)
    /\ ReceiveReleaseFocus \in Seq(MildCall)
    /\ <<Request("cap_tts", "SPK")>> \in Seq(MildCall)
    /\ << <<"start_timer">> >> \in Seq(MildCall)
    /\ << <<"user_stopped">> >> \in Seq(MildCall)
    /\ \A s \in AsrStates : << <<"prev_state", s>> >> \in Seq(MildCall)
    /\ "cap_audio" \in Focus =>
          /\ <<Request("cap_audio", "SPK")>> \in Seq(MildCall)
          /\ <<Release("cap_audio", "SPK")>> \in Seq(MildCall)
    /\ /\ Release("kwd", "MIC") \in MildCall /\ Request("asr", "MIC") \in MildCall
       /\ Release("asr", "SPK") \in MildCall /\ Release("asr", "MIC") \in MildCall
<1>1. <<>> \in Seq(MildCall)  BY EmptySeq
<1>2. \A x \in MildCall : <<x>> \in Seq(MildCall)  OBVIOUS
<1>3. \A x, y \in MildCall : <<x, y>> \in Seq(MildCall)  OBVIOUS
<1>4. \A a, b \in Seq(MildCall) : a \o b \in Seq(MildCall)  BY ConcatProperties
<1>5. /\ Request("asr", "MIC") \in MildCall /\ Release("asr", "MIC") \in MildCall
      /\ Request("kwd", "MIC") \in MildCall /\ Release("kwd", "MIC") \in MildCall
  BY MicPolicy, KindMade DEF Request, Release
<1>6. Release("asr", "SPK") \in MildCall /\ Request("cap_tts", "SPK") \in MildCall
  <2>1. /\ <<"release", "asr", "SPK">> \in Call /\ <<"request", "cap_tts", "SPK">> \in Call
    BY SpkPolicy, CallsMade
  <2> QED  BY <2>1 DEF MildCall, Mild, Request, Release
<1>7. "cap_audio" \in Focus => /\ Request("cap_audio", "SPK") \in MildCall
                               /\ Release("cap_audio", "SPK") \in MildCall
  <2> SUFFICES ASSUME "cap_audio" \in Focus
               PROVE  /\ Request("cap_audio", "SPK") \in MildCall
                      /\ Release("cap_audio", "SPK") \in MildCall
    OBVIOUS
  <2>1. "cap_audio" \in Users("SPK")  BY DEF Users
  <2>2. /\ <<"release", "cap_audio", "SPK">> \in Call
        /\ <<"request", "cap_audio", "SPK">> \in Call
    BY <2>1, CallsMade
  <2> QED  BY <2>2 DEF MildCall, Mild, Request, Release
<1>8. /\ <<"start_timer">> \in MildCall /\ <<"user_stopped">> \in MildCall
      /\ \A s \in AsrStates : <<"prev_state", s>> \in MildCall
  BY CallsMade DEF MildCall, Mild
<1>9. /\ StartRecognition \in Seq(MildCall) /\ StopRecognition \in Seq(MildCall)
      /\ ReleaseASRSpeakFocus \in Seq(MildCall) /\ StartWakeup \in Seq(MildCall)
      /\ ReceiveReleaseFocus \in Seq(MildCall)
  BY <1>2, <1>5, <1>6
  DEF StartRecognition, StopRecognition, ReleaseASRSpeakFocus, StartWakeup, ReceiveReleaseFocus
<1> QED  BY <1>1, <1>2, <1>3, <1>4, <1>5, <1>6, <1>7, <1>8, <1>9

\* A handler whose calls are mild keeps a waiting speech waiting.
LEMMA MildReturn ==
    ASSUME IndInv, Tracked, calls # <<>>,
           calls[1][1] \in {"handle", "resume", "prev_state", "start_timer", "user_stopped"},
           stack' = stack, is_handle' = is_handle,
           NEW cs \in Seq(MildCall), calls' = Push(calls, cs)
    PROVE  Tracked'
<1>0. PICK c, l, h, d : c = calls /\ l = stack["SPK"] /\ h = is_handle /\ d = calls'
  OBVIOUS
<1>1. Track(c, h, l) /\ d = Push(c, cs) /\ c # <<>>  BY <1>0 DEF Tracked
<1>2. cs \in Seq(Unasked)  BY MildFacts
<1>3. ~Asks(c, h, l) /\ ~Takes(c, l) /\ ~Starts(c, l) /\ ~Gives(c, h, l)
      /\ ~Ends(c, h, l) /\ ~Withdrawn(c, h, l)
  BY <1>0 DEF Asks, Takes, Starts, Gives, Ends, Withdrawn, Request, Release
<1>4. CASE Gone(c, h, l)
  <2>1. Track(d, h, l)  BY <1>1, <1>2, <1>4, KindKept DEF Track, Gone
  <2> QED  BY <1>0, <2>1, TrackedAfter
<1>5. CASE Waits(c, h, l)
  <2>1. Track(d, h, l)  BY <1>1, <1>5, KindKept DEF Track, Waits
  <2> QED  BY <1>0, <2>1, TrackedAfter
<1> QED  BY <1>1, <1>3, <1>4, <1>5 DEF Track

\* ASRAgent::onListeningState(), its tail, and the return to the application.
LEMMA ListeningTracked ==
    ASSUME IndInv, Tracked, OnListeningState \/ AgentStep \/ ResumeStep \/ UserStopped
    PROVE  Tracked'
<1>1. CASE OnListeningState
  <2>0. PICK st, cs : st = calls[1][3] /\ cs = ListeningCalls(st) \o << <<"prev_state", st>> >>
    OBVIOUS
  <2>1. /\ calls # <<>> /\ calls[1][1] = "handle" /\ calls[1][2] = "asr"
        /\ stack' = stack /\ is_handle' = is_handle /\ calls' = Push(calls, cs)
    BY <1>1, <2>0 DEF OnListeningState, Running, Return, Push, focusVars, agentVars
  <2>2. st \in AsrStates  BY <2>0, <2>1, MainFacts, CallFacts
  <2>3. ListeningCalls(st) \in Seq(MildCall)
    <3>1. /\ StopRecognition \in Seq(MildCall) /\ ReleaseASRSpeakFocus \in Seq(MildCall)
          /\ << <<"start_timer">> >> \in Seq(MildCall) /\ <<>> \in Seq(MildCall)
      BY MildMade
    <3>2. /\ StopRecognition \o << <<"start_timer">> >> \in Seq(MildCall)
          /\ StopRecognition \o ReleaseASRSpeakFocus \in Seq(MildCall)
      BY <3>1, MildMade, Zenon
    <3> HIDE DEF StopRecognition, ReleaseASRSpeakFocus
    <3> QED  BY <3>1, <3>2 DEF ListeningCalls
  <2>4. << <<"prev_state", st>> >> \in Seq(MildCall)  BY <2>2, MildMade
  <2>5. cs \in Seq(MildCall)
    <3>1. \A a, b \in Seq(MildCall) : a \o b \in Seq(MildCall)  BY MildMade
    <3> QED  BY <2>0, <2>3, <2>4, <3>1, Zenon
  <2> QED  BY <2>1, <2>5, MildReturn
<1>2. CASE AgentStep \/ ResumeStep \/ UserStopped
  <2>0. PICK cs : cs = <<>>  OBVIOUS
  <2>1. /\ calls # <<>>
        /\ calls[1][1] \in {"resume", "prev_state", "start_timer", "user_stopped"}
        /\ stack' = stack /\ is_handle' = is_handle /\ calls' = Push(calls, cs)
    BY <1>2, <2>0
    DEF AgentStep, ResumeStep, UserStopped, Running, Return, Push, focusVars, agentVars
  <2>2. cs \in Seq(MildCall)  BY <2>0, MildMade
  <2> QED  BY <2>1, <2>2, MildReturn
<1> QED  BY <1>1, <1>2

\* WakeupHandler::onWakeupState(): the wakeup word withdraws a waiting speech.
LEMMA WakeupTracked ==
    ASSUME IndInv, Tracked, OnWakeupState
    PROVE  Tracked'
<1>0. PICK c, l, h, d : c = calls /\ l = stack["SPK"] /\ h = is_handle /\ d = calls'
  OBVIOUS
<1>1. /\ c # <<>> /\ c[1][1] = "handle" /\ stack' = stack /\ is_handle' = h
  BY <1>0 DEF OnWakeupState, Running, focusVars, agentVars
<1>2. PICK w, x, y, z, e :
         /\ w = ReceiveWakeupDetected /\ x = Release("kwd", "MIC")
         /\ y = Request("asr", "MIC") /\ z = Release("expect", "SPK")
         /\ e = <<"reset_expect">>
  OBVIOUS
<1>3. w = IF h THEN <<z, e>> ELSE <<>>  BY <1>0, <1>2 DEF ReceiveWakeupDetected
<1>4. x \in MildCall /\ y \in MildCall  BY <1>2, MildMade
<1>5. z \in Unasked /\ e \in Unasked
  <2>1. e \in Call  BY <1>2, CallsMade
  <2> QED  BY <1>2, <2>1, SpkPolicy, KindMade DEF Release, Unasked
<1>6. d = Push(c, (w \o <<x>>) \o <<y>>) \/ d = Push(c, <<>>)
  BY <1>0, <1>2 DEF OnWakeupState, Return, Push, OnDetected, StartRecognition
<1>7. CASE ~h \/ d = Push(c, <<>>)
  <2>1. PICK cs \in Seq(MildCall) : d = Push(c, cs)
    <3>1. CASE d = Push(c, <<>>)  BY <3>1, MildMade
    <3>2. CASE ~h /\ d = Push(c, (w \o <<x>>) \o <<y>>)
      <4>1. (w \o <<x>>) \o <<y>> = <<x, y>>  BY <1>3, <3>2, ShortConcats
      <4>2. <<x, y>> \in Seq(MildCall)  BY <1>4, MildMade
      <4> QED  BY <3>2, <4>1, <4>2
    <3> QED  BY <1>6, <1>7, <3>1, <3>2
  <2> QED  BY <1>0, <1>1, <2>1, MildReturn
<1>8. CASE h /\ d = Push(c, (w \o <<x>>) \o <<y>>)
  <2>0. PICK cs : cs = (w \o <<x>>) \o <<y>>  OBVIOUS
  <2>1. /\ cs \in Seq(Unasked) /\ 2 <= Len(cs) /\ cs[1] = z /\ cs[2] = e
    <3>1. (w \o <<x>>) = <<z, e, x>>  BY <1>3, <1>8, ShortConcats
    <3>2. PICK a, b : a = <<z, e, x>> /\ b = <<y>>  OBVIOUS
    <3>3. /\ a \in Seq(Unasked) /\ Len(a) = 3 /\ a[1] = z /\ a[2] = e
          /\ b \in Seq(Unasked) /\ Len(b) = 1
      BY <1>4, <1>5, <3>2, MildFacts
    <3>4. cs = a \o b  BY <2>0, <3>1, <3>2
    <3>5. /\ cs \in Seq(Unasked) /\ Len(cs) = Len(a) + Len(b)
          /\ \A i \in 1..(Len(a) + Len(b)) : cs[i] = IF i <= Len(a) THEN a[i] ELSE b[i - Len(a)]
      BY <3>3, <3>4, ConcatProperties
    <3> QED  BY <3>3, <3>5
  <2>2. c \in Seq(Call) /\ Track(c, h, l)  BY <1>0, <1>1, MainFacts DEF Tracked
  <2>3. Waits(c, h, l)
    <3>1. ~Asks(c, h, l) /\ ~Takes(c, l) /\ ~Starts(c, l) /\ ~Gives(c, h, l)
          /\ ~Ends(c, h, l) /\ ~Withdrawn(c, h, l)
      BY <1>1 DEF Asks, Takes, Starts, Gives, Ends, Withdrawn, Request, Release
    <3> QED  BY <1>8, <2>2, <3>1 DEF Track, Gone
  <2>4. c \in Seq(Unasked) /\ TopIs(l, "cap_tts")
    <3>1. List(l, "SPK")  BY <1>0, <1>1, MainFacts, ListsFacts
    <3> QED  BY <2>3, <3>1, MildFacts, NextFacts DEF Waits, List
  <2>5. d = Push(c, cs)  BY <1>8, <2>0
  <2>6. d \in Seq(Unasked)  BY <1>1, <2>1, <2>4, <2>5, KindKept
  <2>7. d # <<>> /\ 2 <= Len(d) /\ d[1] = z /\ d[2] = e
    <3>1. cs \in Seq(Call)  BY <2>1, MildFacts
    <3>2. /\ Len(c) \in Nat \ {0} /\ Len(cs) \in Nat /\ Len(d) = Len(cs) + Len(c) - 1
          /\ \A i \in 1..Len(cs) : d[i] = cs[i]
      BY <1>1, <2>2, <2>5, <3>1, ReturnFacts DEF Push
    <3>3. 2 <= Len(d) /\ 1 \in 1..Len(cs) /\ 2 \in 1..Len(cs)  BY <2>1, <3>2
    <3> QED  BY <2>1, <2>6, <3>2, <3>3
  <2>8. Track(d, h, l)  BY <1>2, <1>8, <2>4, <2>6, <2>7 DEF Track, Withdrawn
  <2> QED  BY <1>0, <1>1, <2>8, TrackedAfter
<1> QED  BY <1>6, <1>7, <1>8

\* Between two inputs nothing is under way.
LEMMA IdleTracked ==
    ASSUME NEW c, c = <<>>, NEW h, NEW l, Track(c, h, l)
    PROVE  Gone(c, h, l) \/ Waits(c, h, l)
BY DEF Track, Withdrawn, Asks, Takes, Starts, Gives, Ends

\* The main loop starts an event handler or serves an input.
LEMMA MildInput ==
    ASSUME Tracked, calls = <<>>, calls' \in Seq(MildCall),
           stack' = stack, is_handle' = is_handle
    PROVE  Tracked'
<1>0. PICK c, l, h, d : c = calls /\ l = stack["SPK"] /\ h = is_handle /\ d = calls'
  OBVIOUS
<1>1. Gone(c, h, l) \/ Waits(c, h, l)  BY <1>0, IdleTracked DEF Tracked
<1>2. d \in Seq(MildCall) /\ d \in Seq(Unasked)  BY <1>0, MildFacts
<1>3. Track(d, h, l)  BY <1>1, <1>2 DEF Track, Gone, Waits
<1> QED  BY <1>0, <1>3, TrackedAfter

\* invoke_sync_event().
LEMMA DispatchTracked ==
    ASSUME IndInv, Tracked, Dispatch
    PROVE  Tracked'
<1>0. PICK v, x, y : /\ v = Head(queue) /\ x = <<"handle", v[1], v[2]>>
                     /\ y = <<"resume", v[1], v[2]>>
  OBVIOUS
<1>1. /\ calls = <<>> /\ queue # <<>> /\ calls' = <<x, y>>
      /\ stack' = stack /\ is_handle' = is_handle
  BY <1>0 DEF Dispatch, focusVars, agentVars
<1>2. queue \in Seq(Event)  BY DEF IndInv, Types
<1>3. v \in Event  BY <1>0, <1>1, <1>2, HeadTailProperties
<1>4. (v[1] = "asr" /\ v[2] \in AsrStates) \/ (v[1] = "kwd" /\ v[2] \in KwdStates)
  BY <1>3 DEF Event
<1>5. x \in MildCall /\ y \in MildCall
  <2>1. x \in Call /\ y \in Call  BY <1>0, <1>4, CallsMade
  <2>2. x[1] = "handle" /\ y[1] = "resume"  BY <1>0
  <2> QED  BY <2>1, <2>2 DEF MildCall, Mild
<1>6. <<x, y>> \in Seq(MildCall)  BY <1>5, MildMade
<1> QED  BY <1>1, <1>6, MildInput

\* The user, the server and the timer.
LEMMA InputTracked ==
    ASSUME IndInv, Tracked, Environment, ~UserStopped
    PROVE  Tracked'
<1>0. PICK c, l, h, d : c = calls /\ l = stack["SPK"] /\ h = is_handle /\ d = calls'
  OBVIOUS
<1>1. c = <<>> /\ stack' = stack  BY <1>0, InputCalls DEF focusVars
<1>2. Gone(c, h, l) \/ Waits(c, h, l)  BY <1>0, <1>1, IdleTracked DEF Tracked
<1>3. List(l, "SPK")  BY <1>0, ListsFacts DEF IndInv
<1>4. \A a, b \in Seq(MildCall) : a \o b \in Seq(MildCall)  BY MildMade
<1>5. <<>> \in Seq(MildCall)  BY MildMade
<1>6. /\ StartRecognition \in Seq(MildCall) /\ StopRecognition \in Seq(MildCall)
      /\ ReleaseASRSpeakFocus \in Seq(MildCall) /\ StartWakeup \in Seq(MildCall)
      /\ ReceiveReleaseFocus \in Seq(MildCall)
      /\ <<Request("cap_tts", "SPK")>> \in Seq(MildCall)
      /\ << <<"user_stopped">> >> \in Seq(MildCall)
  BY MildMade
<1>7. CASE ExpectSpeech
  <2>1. is_handle' = TRUE /\ d = <<Request("expect", "SPK")>>
    BY <1>0, <1>7 DEF ExpectSpeech, Input
  <2>2. Expects(l) => ExpectNext(l)  BY <1>2 DEF Gone, Waits
  <2>3. Track(d, TRUE, l)  BY <2>1, <2>2 DEF Track, Asks
  <2> QED  BY <1>0, <1>1, <2>1, <2>3, TrackedAfter
<1>8. CASE SpeechFinished
  <2>0. PICK x : x = Release("cap_tts", "SPK")  OBVIOUS
  <2>1. is_handle' = h /\ d = <<x>>  BY <1>0, <1>8, <2>0 DEF SpeechFinished, agentVars
  <2>2. CASE Gone(c, h, l)
    <3>1. x \in Unasked  BY <2>0, SpkPolicy, KindMade DEF Release
    <3>2. d \in Seq(Unasked)  BY <2>1, <3>1
    <3>3. Track(d, h, l)  BY <2>2, <3>2 DEF Track, Gone
    <3> QED  BY <1>0, <1>1, <2>1, <3>3, TrackedAfter
  <2>3. CASE Waits(c, h, l)
    <3>1. Track(d, h, l)  BY <2>0, <2>1, <2>3 DEF Track, Ends, Waits
    <3> QED  BY <1>0, <1>1, <2>1, <3>1, TrackedAfter
  <2> QED  BY <1>2, <2>2, <2>3
<1>9. CASE UserListen \/ UserWakeup \/ NotifyResult \/ Speak \/ NoDirectives \/ ResponseTimeout
  <2>1. d \in {StartRecognition, StartWakeup, <<>>, <<Request("cap_tts", "SPK")>>,
               ReceiveReleaseFocus, ReleaseASRSpeakFocus}
    BY <1>0, <1>9
    DEF UserListen, UserWakeup, NotifyResult, Speak, NoDirectives, ResponseTimeout, Input
  <2>2. d \in Seq(MildCall)  BY <1>5, <1>6, <2>1, Zenon
  <2>3. is_handle' = is_handle
    BY <1>9
    DEF UserListen, UserWakeup, NotifyResult, Speak, NoDirectives, ResponseTimeout, agentVars
  <2> QED  BY <1>0, <1>1, <2>2, <2>3, MildInput
<1>10. CASE UserStop
  <2>1. StopRecognition \o << <<"user_stopped">> >> \in Seq(MildCall)
    BY <1>4, <1>6, Zenon
  <2>2. calls' = StopRecognition \o << <<"user_stopped">> >> /\ is_handle' = is_handle
    BY <1>10 DEF UserStop, agentVars
  <2> QED  BY <1>0, <1>1, <2>1, <2>2, MildInput, Zenon
<1>11. CASE Play \/ PauseMedia \/ StopMedia \/ MediaStopped
  <2>1. "play" \in Inputs  BY <1>11 DEF Play, PauseMedia, StopMedia, MediaStopped, Input
  <2>2. PICK a, b : /\ a = <<Release("cap_audio", "SPK")>>
                    /\ b = <<Request("cap_audio", "SPK")>>
    OBVIOUS
  <2>3. a \in Seq(MildCall) /\ b \in Seq(MildCall)  BY <2>1, <2>2, MildMade, VoiceAssumption
  <2>4. /\ \A x, y \in {<<>>, a, b} : x \o y \in Seq(MildCall)
        /\ \A y \in {<<>>, a} : ReceiveReleaseFocus \o y \in Seq(MildCall)
    BY <1>4, <1>5, <1>6, <2>3, Zenon
  <2>5. \/ \E x, y \in {<<>>, a, b} : calls' = x \o y
        \/ \E y \in {<<>>, a} : calls' = ReceiveReleaseFocus \o y
        \/ calls' = a
    <3>1. CASE Play
      <4>1. PICK stop \in BOOLEAN, fails \in BOOLEAN :
               calls' = (IF stop THEN a ELSE <<>>) \o (IF fails THEN <<>> ELSE b)
        BY <2>2, <3>1 DEF Play, Input
      <4>2. PICK x, y : /\ x = IF stop THEN a ELSE <<>>
                        /\ y = IF fails THEN <<>> ELSE b
        OBVIOUS
      <4>3. x \in {<<>>, a, b} /\ y \in {<<>>, a, b}  BY <4>2
      <4>4. calls' = x \o y  BY <4>1, <4>2
      <4> QED  BY <4>3, <4>4, Zenon
    <3>2. CASE PauseMedia \/ MediaStopped
      BY <2>2, <3>2 DEF PauseMedia, MediaStopped, Input
    <3>3. CASE StopMedia
      <4>1. PICK mine \in BOOLEAN :
               calls' = ReceiveReleaseFocus \o (IF mine THEN a ELSE <<>>)
        BY <2>2, <3>3 DEF StopMedia, Input
      <4>2. PICK y : y = IF mine THEN a ELSE <<>>  OBVIOUS
      <4>3. y \in {<<>>, a} /\ calls' = ReceiveReleaseFocus \o y  BY <4>1, <4>2
      <4> QED  BY <4>3, Zenon
    <3> QED  BY <1>11, <3>1, <3>2, <3>3
  <2>6. calls' \in Seq(MildCall)  BY <2>3, <2>4, <2>5, Zenon
  <2>7. is_handle' = is_handle
    BY <1>11 DEF Play, PauseMedia, StopMedia, MediaStopped, agentVars
  <2> QED  BY <1>0, <1>1, <2>6, <2>7, MildInput
<1>12. CASE Exception
  <2>0. PICK x, y : x = Release("asr", "SPK") /\ y = Release("asr", "MIC")  OBVIOUS
  <2>1. calls' = <<x, y>> /\ is_handle' = is_handle
    BY <1>12, <2>0 DEF Exception, Input, agentVars
  <2>2. <<x, y>> \in Seq(MildCall)  BY <2>0, MildMade
  <2> QED  BY <1>0, <1>1, <2>1, <2>2, MildInput
<1> QED  BY <1>7, <1>8, <1>9, <1>10, <1>11, <1>12 DEF Environment

\* The threads touch neither the calls, the lists nor is_handle.
LEMMA ThreadTracked ==
    ASSUME Asr \/ Kwd \/ UNCHANGED vars
    PROVE  calls' = calls /\ stack' = stack /\ is_handle' = is_handle
<1>1. CASE Asr
  BY <1>1
  DEF Asr, AsrStep, AsrWait, AsrWoken, AsrLoop, AsrStopped, AsrDone, AsrSpurious,
      AsrBreak, AsrFrame, AsrEndPoint, AsrGoto, AsrSend, AsrAt, focusVars, agentVars
<1>2. CASE Kwd
  BY <1>2
  DEF Kwd, KwdStep, KwdWait, KwdWoken, KwdLoop, KwdStopped, KwdClear, KwdDone,
      KwdSpurious, KwdBreak, KwdFrame, KwdGoto, KwdSend, KwdAt, focusVars, agentVars
<1>3. CASE UNCHANGED vars  BY <1>3 DEF vars, focusVars, agentVars
<1> QED  BY <1>1, <1>2, <1>3

----------------------------------------------------------------------------
(***************************************************************************)
(* The invariants.                                                         *)
(***************************************************************************)

\* asr never keeps the microphone without being on the speaker's list, unless
\* the callbacks under way are about to settle it.
THEOREM VoiceHolds == Spec => []Holds
<1>1. Init => Holds
  <2> SUFFICES ASSUME Init PROVE Holds  OBVIOUS
  <2>1. stack["MIC"] = <<>>  BY PolicyFacts DEF Init
  <2> QED  BY <2>1 DEF Holds, AsrHolds, TopIs
<1>2. IndInv /\ Rec /\ Holds /\ [Next]_vars => Holds'
  <2> SUFFICES ASSUME IndInv, Rec, Holds, [Next]_vars PROVE Holds'  OBVIOUS
  <2>1. CASE RequestStep
    <3>1. calls[1][3] \in {"MIC", "SPK"}  BY <2>1, RequestShape
    <3> QED  BY <2>1, <3>1, RequestMicHolds, RequestSpkHolds
  <2>2. CASE StolenStep \/ ReleaseStep \/ ReleasedStep
    BY <2>2, StolenHolds, ReleaseHolds, ReleasedHolds
  <2>3. CASE \/ AsrFocusMic \/ AsrFocusSpk \/ KwdFocus \/ ExpectFocus \/ TtsFocus
             \/ AudioFocus
    BY <2>3, FocusHolds
  <2>4. CASE AsrUnfocusMic \/ AsrUnfocusSpk \/ KwdUnfocus \/ SpeakerUnfocus
    BY <2>4, UnfocusHolds
  <2>5. CASE \/ ResetExpectStep \/ OnListeningState \/ OnWakeupState \/ AgentStep
             \/ ResumeStep \/ Dispatch \/ Environment
    BY <2>5, HandlerHolds
  <2>6. CASE Asr \/ Kwd \/ UNCHANGED vars
    <3>1. calls' = calls /\ stack' = stack  BY <2>6, ThreadTracked
    <3> QED  BY <3>1 DEF Holds
  <2> QED  BY <2>1, <2>2, <2>3, <2>4, <2>5, <2>6 DEF Next, Main
<1> QED  BY <1>1, <1>2, VoiceInv, VoiceRec, PTL DEF Spec

\* is_handle and the item of "expect" agree, or the callbacks under way are
\* about to make them agree.
THEOREM VoiceTracked == Spec => []Tracked
<1>1. Init => Tracked
  <2> SUFFICES ASSUME Init PROVE Tracked  OBVIOUS
  <2>1. /\ stack["SPK"] = <<>> /\ calls = <<>> /\ is_handle = FALSE
    BY PolicyFacts DEF Init
  <2>2. calls \in Seq(Unasked) /\ ~Expects(stack["SPK"])
    BY <2>1, EmptySeq DEF Expects, On
  <2> QED  BY <2>1, <2>2 DEF Tracked, Track, Gone
<1>2. IndInv /\ Holds /\ Tracked /\ [Next]_vars => Tracked'
  <2> SUFFICES ASSUME IndInv, Holds, Tracked, [Next]_vars PROVE Tracked'  OBVIOUS
  <2>1. CASE RequestStep \/ StolenStep \/ ReleaseStep \/ ReleasedStep
    BY <2>1, RequestTracked, StolenTracked, ReleaseTracked, ReleasedTracked
  <2>2. CASE \/ AsrFocusMic \/ AsrFocusSpk \/ KwdFocus \/ ExpectFocus \/ TtsFocus
             \/ AudioFocus
    BY <2>2, AsrFocusMicTracked, KwdFocusTracked, SpeakerFocusTracked
  <2>3. CASE AsrUnfocusMic \/ AsrUnfocusSpk \/ KwdUnfocus \/ SpeakerUnfocus
    BY <2>3, UnfocusTracked, AsrUnfocusSpkTracked
  <2>4. CASE \/ ResetExpectStep \/ OnListeningState \/ OnWakeupState \/ AgentStep
             \/ ResumeStep \/ Dispatch \/ Environment
    BY <2>4, ResetExpectTracked, ListeningTracked, WakeupTracked, DispatchTracked, InputTracked
  <2>5. CASE Asr \/ Kwd \/ UNCHANGED vars
    <3>1. calls' = calls /\ stack' = stack /\ is_handle' = is_handle
      BY <2>5, ThreadTracked
    <3> QED  BY <3>1 DEF Tracked
  <2> QED  BY <2>1, <2>2, <2>3, <2>4, <2>5 DEF Next, Main
<1> QED  BY <1>1, <1>2, VoiceInv, VoiceHolds, PTL DEF Spec

\* Whenever the main loop is idle, ASRAgent expects a speech exactly if "expect"
\* is on the speaker's list, however the directive, the wakeup word, the media
\* and the user came in between.
THEOREM VoiceExpectTracked == Spec => []ExpectTracked
<1>1. IndInv /\ Tracked => ExpectTracked
  <2> SUFFICES ASSUME IndInv, Tracked, calls = <<>>
               PROVE  is_handle <=> Contains(stack["SPK"], "expect")
    BY DEF ExpectTracked
  <2>0. PICK c, l, h : c = calls /\ l = stack["SPK"] /\ h = is_handle  OBVIOUS
  <2>1. Gone(c, h, l) \/ Waits(c, h, l)  BY <2>0, IdleTracked DEF Tracked
  <2>2. h \in BOOLEAN /\ List(l, "SPK")  BY <2>0, ListsFacts DEF IndInv, Types
  <2>3. Contains(l, "expect") <=> Expects(l)
    BY <2>2 DEF Contains, Expects, On, List
  <2>4. h <=> Expects(l)
    <3>1. CASE Gone(c, h, l)  BY <3>1 DEF Gone
    <3>2. CASE Waits(c, h, l)  BY <2>2, <3>2, NextFacts DEF Waits, List
    <3> QED  BY <2>1, <3>1, <3>2
  <2> QED  BY <2>0, <2>3, <2>4
<1> QED  BY <1>1, VoiceInv, VoiceTracked, PTL

============================================================================
