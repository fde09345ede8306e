---------------------- MODULE DirectivePipelineProofs ----------------------
(***************************************************************************)
(* Proofs about DirectivePipeline, for every stream of directives, every   *)
(* number of attachments and every interleaving of its three threads.      *)
(***************************************************************************)
EXTENDS DirectivePipeline, SequenceTheorems, TLAPS

(***************************************************************************)
(* The inductive invariant.  done[d] is the number of the last item of d   *)
(* that the main loop took from the queue, -1 before the directive itself: *)
(* what is still queued of d is done[d]+1, ..., sent[d], in this order.    *)
(***************************************************************************)

QueueInv(done) ==
    /\ \A d \in Dirs : done[d] <= sent[d]
    /\ \A i \in 1..Len(recv_pendings) :
          /\ done[recv_pendings[i].dir] < recv_pendings[i].chunk
          /\ recv_pendings[i].chunk <= sent[recv_pendings[i].dir]
    /\ \A i, j \in 1..Len(recv_pendings) :
          i < j /\ recv_pendings[i].dir = recv_pendings[j].dir =>
             recv_pendings[i].chunk < recv_pendings[j].chunk
    /\ \A d \in Dirs : \A c \in (done[d] + 1)..sent[d] :
          \E i \in 1..Len(recv_pendings) : recv_pendings[i] = [dir |-> d, chunk |-> c]

\* What the sequencer and TTSAgent know of each directive.
DirInv(done) ==
    /\ \A d \in Dirs :
          done[d] = -1 =>
             d \notin callback /\ d \notin freed /\ ~Contains(list_dir, d)
    /\ \A d \in callback : Kind[d] = "Speak"
    /\ \A d \in Dirs : Contains(list_dir, d) =>
          /\ d \notin freed
          /\ Kind[d] \in {"Speak", "BadSpeak"}
          /\ d \in callback <=> d = speak_dir
          /\ Kind[d] = "Speak" => d \in callback
    /\ IsInjective(list_dir)
    /\ speak_dir # None => Contains(list_dir, speak_dir) /\ speak_dir = cur_token
    /\ cur_token # None => cur_token \in callback
    /\ \A d \in Dirs : buf[d] # <<>> => Kind[d] = "BadSpeak"

\* What was played and, while the stream is open, what will be.
Played == IF pcm.stream THEN heard \o pcm.data ELSE heard

InOrder(s) ==
    /\ \A i, j \in 1..Len(s) : s[i] = s[j] => i = j
    /\ \A i \in 1..Len(s) :
          \/ s[i][2] = 1
          \/ i > 1 /\ s[i - 1] = <<s[i][1], s[i][2] - 1>>

PlayInv(done) ==
    /\ \A i \in 1..Len(heard) :
          heard[i][1] \in callback /\ heard[i][2] <= done[heard[i][1]]
    /\ \A i \in 1..Len(pcm.data) :
          pcm.data[i][1] = cur_token /\ pcm.data[i][2] <= done[cur_token]
    /\ InOrder(Played)
    /\ pcm.stream /\ speak_dir # None /\ done[speak_dir] # 0 =>
          /\ Len(Played) > 0
          /\ Played[Len(Played)] = <<speak_dir, done[speak_dir]>>

IndInv ==
    /\ TypeOK
    /\ NoLostWakeup
    /\ \E done \in [Dirs -> -1..Chunks] :
          QueueInv(done) /\ DirInv(done) /\ PlayInv(done)

(***************************************************************************)
(* Facts about sequences.                                                  *)
(***************************************************************************)

\* Appending: what is where, and what is contained.
LEMMA AppendFacts ==
    ASSUME NEW S, NEW s \in Seq(S), NEW e \in S
    PROVE  /\ Append(s, e) \in Seq(S)
           /\ Len(Append(s, e)) = Len(s) + 1
           /\ Len(s) \in Nat
           /\ \A i \in 1..Len(s) : Append(s, e)[i] = s[i]
           /\ Append(s, e)[Len(s) + 1] = e
           /\ \A x : Contains(Append(s, e), x) <=> Contains(s, x) \/ x = e
           /\ IsInjective(s) /\ ~Contains(s, e) => IsInjective(Append(s, e))
<1>1. /\ Append(s, e) \in Seq(S) /\ Len(Append(s, e)) = Len(s) + 1 /\ Len(s) \in Nat
      /\ \A i \in 1..Len(s) : Append(s, e)[i] = s[i]
      /\ Append(s, e)[Len(s) + 1] = e
  BY AppendProperties, LenProperties
<1>2. ASSUME NEW x PROVE Contains(Append(s, e), x) <=> Contains(s, x) \/ x = e
  <2>1. 1..(Len(s) + 1) = 1..Len(s) \cup {Len(s) + 1}
    BY <1>1
  <2> QED  BY <1>1, <2>1 DEF Contains
<1>3. ASSUME IsInjective(s), ~Contains(s, e) PROVE IsInjective(Append(s, e))
  <2>1. DOMAIN s = 1..Len(s) /\ DOMAIN Append(s, e) = 1..(Len(s) + 1)
    BY <1>1, LenProperties
  <2>2. \A i, j \in 1..Len(s) : s[i] = s[j] => i = j
    BY <1>3, <2>1 DEF IsInjective
  <2>3. \A i \in 1..Len(s) : s[i] # e
    BY <1>3 DEF Contains
  <2>4. \A i \in 1..(Len(s) + 1) : i \in 1..Len(s) \/ i = Len(s) + 1
    BY <1>1
  <2> QED  BY <1>1, <2>1, <2>2, <2>3, <2>4 DEF IsInjective
<1> QED  BY <1>1, <1>2, <1>3

\* The list without the only occurrence of e (g_list_find() and
\* g_list_delete_link() of nugu_dirseq_complete()).
LEMMA RemoveFirstFacts ==
    ASSUME NEW S, NEW s \in Seq(S), NEW e, IsInjective(s)
    PROVE  /\ RemoveFirst(s, e) \in Seq(S)
           /\ IsInjective(RemoveFirst(s, e))
           /\ \A x : Contains(RemoveFirst(s, e), x) <=> Contains(s, x) /\ x # e
<1> DEFINE t == RemoveFirst(s, e)
           n == Len(s)
<1>1. n \in Nat /\ DOMAIN s = 1..n /\ \A i \in 1..n : s[i] \in S
  BY LenProperties, ElementOfSeq
<1>2. \A i, j \in 1..n : s[i] = s[j] => i = j
  BY <1>1 DEF IsInjective
<1>3. CASE ~\E i \in 1..n : s[i] = e
  <2>1. t = s
    BY <1>3 DEF RemoveFirst
  <2> QED  BY <1>3, <2>1 DEF Contains
<1>4. CASE \E i \in 1..n : s[i] = e
  <2> DEFINE k == SelectInSeq(s, LAMBDA v : v = e)
             a == SubSeq(s, 1, k - 1)
             b == SubSeq(s, k + 1, n)
  <2>1. PICK j \in 1..n : s[j] = e
    BY <1>4
  <2>2. {i \in 1..n : s[i] = e} = {j}
    BY <1>2, <2>1
  <2>3. k = j
    BY <1>1, <2>1, <2>2 DEF SelectInSeq, Min
  <2>4. t = a \o b
    BY <1>4 DEF RemoveFirst, RemoveAt
  <2> HIDE DEF t, k
  <2>5. /\ a \in Seq(S) /\ Len(a) = j - 1
        /\ \A i \in 1..(j - 1) : a[i] = s[i]
    <3>1. \A i \in 1..(j - 1) : s[i] \in S
      BY <1>1
    <3> QED  BY <1>1, <2>3, <3>1, SubSeqProperties
  <2>6. /\ b \in Seq(S) /\ Len(b) = n - j
        /\ \A i \in 1..(n - j) : b[i] = s[j + i]
    <3>1. \A i \in (j + 1)..n : s[i] \in S
      BY <1>1
    <3>2. /\ b \in Seq(S)
          /\ Len(b) = IF j + 1 <= n THEN n - (j + 1) + 1 ELSE 0
          /\ \A i \in 1..(n - (j + 1) + 1) : b[i] = s[(j + 1) + i - 1]
      BY <1>1, <2>3, <3>1, SubSeqProperties
    <3> HIDE DEF b
    <3>3. n - (j + 1) + 1 = n - j
      BY <1>1
    <3>4. Len(b) = n - j
      <4>1. CASE j + 1 <= n
        BY <3>2, <3>3, <4>1
      <4>2. CASE ~(j + 1 <= n)
        <5>1. n - j = 0
          <6> HIDE DEF n
          <6>1. j <= n /\ j \in Int /\ n \in Int
            BY <1>1
          <6> QED  BY <4>2, <6>1
        <5> QED  BY <3>2, <4>2, <5>1
      <4> QED  BY <4>1, <4>2
    <3>5. ASSUME NEW i \in 1..(n - j) PROVE b[i] = s[j + i]
      <4>1. (j + 1) + i - 1 = j + i
        BY <1>1
      <4> QED  BY <3>2, <3>3, <4>1
    <3> QED  BY <3>2, <3>4, <3>5
  <2> HIDE DEF a, b
  <2>7. /\ t \in Seq(S) /\ Len(t) = n - 1
        /\ \A i \in 1..(n - 1) : t[i] = IF i < j THEN s[i] ELSE s[i + 1]
    <3>1. /\ t \in Seq(S) /\ Len(t) = Len(a) + Len(b)
          /\ \A i \in 1..(Len(a) + Len(b)) :
                t[i] = IF i <= Len(a) THEN a[i] ELSE b[i - Len(a)]
      BY <2>4, <2>5, <2>6, ConcatProperties
    <3>2. ASSUME NEW i \in 1..(n - 1) PROVE t[i] = IF i < j THEN s[i] ELSE s[i + 1]
      <4>1. CASE i < j
        <5>1. i <= j - 1 /\ i \in 1..((j - 1) + (n - j)) /\ i \in 1..(j - 1)
          BY <1>1, <4>1
        <5> QED  BY <2>5, <2>6, <3>1, <4>1, <5>1
      <4>2. CASE ~(i < j)
        <5>1. ~(i <= j - 1) /\ i \in 1..((j - 1) + (n - j)) /\ i - (j - 1) \in 1..(n - j)
          BY <1>1, <4>2
        <5>3. t[i] = b[i - (j - 1)]
          BY <2>5, <2>6, <3>1, <5>1
        <5>2. j + (i - (j - 1)) = i + 1
          BY <1>1
        <5> QED  BY <2>6, <4>2, <5>1, <5>2, <5>3
      <4> QED  BY <4>1, <4>2
    <3> QED  BY <1>1, <2>5, <2>6, <3>1, <3>2
  <2>8. IsInjective(t)
    <3>1. DOMAIN t = 1..(n - 1)
      BY <2>7, LenProperties
    <3>2. ASSUME NEW x \in 1..(n - 1), NEW y \in 1..(n - 1), t[x] = t[y] PROVE x = y
      BY <1>1, <1>2, <2>7, <3>2
    <3> QED  BY <3>1, <3>2 DEF IsInjective
  <2>9. ASSUME NEW x PROVE Contains(t, x) <=> Contains(s, x) /\ x # e
    <3>1. ASSUME NEW i \in 1..(n - 1), t[i] = x PROVE Contains(s, x) /\ x # e
      <4>1. PICK m \in 1..n : m # j /\ s[m] = x
        BY <1>1, <2>7, <3>1
      <4> QED  BY <1>2, <2>1, <4>1 DEF Contains
    <3>2. ASSUME NEW i \in 1..n, s[i] = x, x # e PROVE \E m \in 1..(n - 1) : t[m] = x
      <4>1. i # j
        BY <2>1, <3>2
      <4>2. CASE i < j
        <5>1. i \in 1..(n - 1) /\ t[i] = x
          BY <1>1, <2>7, <3>2, <4>2
        <5> QED  BY <5>1
      <4>3. CASE i > j
        <5>1. i - 1 \in 1..(n - 1) /\ t[i - 1] = x
          BY <1>1, <2>7, <3>2, <4>3
        <5> QED  BY <5>1
      <4> QED  BY <1>1, <4>1, <4>2, <4>3
    <3> QED  BY <2>7, <3>1, <3>2 DEF Contains
  <2> QED  BY <2>7, <2>8, <2>9 DEF t
<1> QED  BY <1>3, <1>4

\* Playing the first of what is to be played: the whole stays the same.
LEMMA MoveHead ==
    ASSUME NEW S, NEW s \in Seq(S), NEW t \in Seq(S), t # <<>>
    PROVE  Append(s, Head(t)) \o Tail(t) = s \o t
<1>1. /\ Head(t) \in S /\ Tail(t) \in Seq(S) /\ Len(Tail(t)) = Len(t) - 1
      /\ \A i \in 1..Len(Tail(t)) : Tail(t)[i] = t[i + 1]
      /\ Head(t) = t[1]
      /\ Len(t) \in Nat \ {0} /\ Len(s) \in Nat
  BY HeadTailProperties, EmptySeq, LenProperties
<1>2. /\ Append(s, Head(t)) \in Seq(S) /\ Len(Append(s, Head(t))) = Len(s) + 1
      /\ \A i \in 1..Len(s) : Append(s, Head(t))[i] = s[i]
      /\ Append(s, Head(t))[Len(s) + 1] = Head(t)
  BY <1>1, AppendProperties
<1> DEFINE a == Append(s, Head(t))
           l == a \o Tail(t)
           r == s \o t
<1> HIDE DEF a
<1>3. /\ l \in Seq(S) /\ Len(l) = Len(s) + Len(t)
      /\ \A i \in 1..(Len(s) + Len(t)) :
            l[i] = IF i <= Len(s) + 1 THEN a[i] ELSE Tail(t)[i - (Len(s) + 1)]
  <2>1. /\ l \in Seq(S) /\ Len(l) = Len(a) + Len(Tail(t))
        /\ \A i \in 1..(Len(a) + Len(Tail(t))) :
              l[i] = IF i <= Len(a) THEN a[i] ELSE Tail(t)[i - Len(a)]
    BY <1>1, <1>2, ConcatProperties DEF a
  <2>2. Len(a) = Len(s) + 1 /\ Len(a) + Len(Tail(t)) = Len(s) + Len(t)
    BY <1>1, <1>2 DEF a
  <2> QED  BY <2>1, <2>2
<1>4. /\ r \in Seq(S) /\ Len(r) = Len(s) + Len(t)
      /\ \A i \in 1..(Len(s) + Len(t)) :
            r[i] = IF i <= Len(s) THEN s[i] ELSE t[i - Len(s)]
  BY ConcatProperties
<1> HIDE DEF l, r
<1>5. ASSUME NEW i \in 1..(Len(s) + Len(t)) PROVE l[i] = r[i]
  <2>1. CASE i <= Len(s)
    BY <1>1, <1>2, <1>3, <1>4, <2>1 DEF a
  <2>2. CASE i = Len(s) + 1
    <3>1. l[i] = Head(t)
      BY <1>1, <1>2, <1>3, <2>2 DEF a
    <3>2. r[i] = t[1]
      BY <1>1, <1>4, <2>2
    <3> QED  BY <1>1, <3>1, <3>2
  <2>3. CASE i > Len(s) + 1
    <3>1. l[i] = Tail(t)[i - (Len(s) + 1)] /\ i - (Len(s) + 1) \in 1..Len(Tail(t))
      BY <1>1, <1>3, <2>3
    <3>2. (i - (Len(s) + 1)) + 1 = i - Len(s)
      BY <1>1
    <3>3. r[i] = t[i - Len(s)]
      BY <1>1, <1>4, <2>3
    <3> QED  BY <1>1, <3>1, <3>2, <3>3
  <2> QED  BY <1>1, <2>1, <2>2, <2>3
<1>6. l = r
  BY <1>3, <1>4, <1>5, SeqEqual
<1> QED  BY <1>6 DEF l, r, a

\* The first part of a sequence in order is in order.
LEMMA InOrderPrefix ==
    ASSUME NEW S, NEW s \in Seq(S), NEW t \in Seq(S), InOrder(s \o t)
    PROVE  InOrder(s)
<1>1. /\ Len(s) \in Nat /\ Len(t) \in Nat /\ Len(s \o t) = Len(s) + Len(t)
      /\ \A i \in 1..Len(s) : (s \o t)[i] = s[i]
  BY ConcatProperties, LenProperties
<1> DEFINE u == s \o t
<1> HIDE DEF u
<1>2. \A i \in 1..Len(s) : i \in 1..Len(u) /\ u[i] = s[i]
  BY <1>1 DEF u
<1>3. \A i \in 1..Len(s) : i > 1 => i - 1 \in 1..Len(s)
  BY <1>1
<1>4. \A i, j \in 1..Len(s) : s[i] = s[j] => i = j
  BY <1>2 DEF InOrder, u
<1>5. ASSUME NEW i \in 1..Len(s)
      PROVE  s[i][2] = 1 \/ (i > 1 /\ s[i - 1] = <<s[i][1], s[i][2] - 1>>)
  <2>1. u[i][2] = 1 \/ (i > 1 /\ u[i - 1] = <<u[i][1], u[i][2] - 1>>)
    BY <1>2 DEF InOrder, u
  <2> QED  BY <1>2, <1>3, <2>1
<1> QED  BY <1>4, <1>5 DEF InOrder

\* The next chunk of the speech that was played last may follow, and so may the
\* first chunk of a speech of which nothing was played.
LEMMA InOrderAppend ==
    ASSUME NEW S, NEW s \in Seq(S), NEW d, NEW c \in Nat, <<d, c>> \in S, InOrder(s),
           \A i \in 1..Len(s) : s[i] # <<d, c>>,
           c = 1 \/ (Len(s) > 0 /\ s[Len(s)] = <<d, c - 1>>)
    PROVE  InOrder(Append(s, <<d, c>>))
<1> DEFINE e == <<d, c>>
           u == Append(s, e)
           n == Len(s)
<1>1. /\ n \in Nat /\ Len(u) = n + 1
      /\ \A i \in 1..n : u[i] = s[i]
      /\ u[n + 1] = e
  BY AppendProperties, LenProperties
<1>2. e[1] = d /\ e[2] = c
  OBVIOUS
<1>3. /\ \A i, j \in 1..n : s[i] = s[j] => i = j
      /\ \A i \in 1..n : s[i][2] = 1 \/ (i > 1 /\ s[i - 1] = <<s[i][1], s[i][2] - 1>>)
      /\ \A i \in 1..n : s[i] # e
      /\ c = 1 \/ (n > 0 /\ s[n] = <<d, c - 1>>)
  BY DEF InOrder
<1> HIDE DEF e, u, n
<1>4. \A i \in 1..(n + 1) : i \in 1..n \/ i = n + 1
  BY <1>1
<1>5. \A i, j \in 1..(n + 1) : u[i] = u[j] => i = j
  BY <1>1, <1>3, <1>4
<1>6. ASSUME NEW i \in 1..n
      PROVE  u[i][2] = 1 \/ (i > 1 /\ u[i - 1] = <<u[i][1], u[i][2] - 1>>)
  <2>1. i > 1 => i - 1 \in 1..n
    BY <1>1
  <2> QED  BY <1>1, <1>3, <2>1
<1>7. u[n + 1][2] = 1 \/ (n + 1 > 1 /\ u[(n + 1) - 1] = <<u[n + 1][1], u[n + 1][2] - 1>>)
  <2>1. CASE c = 1
    BY <1>1, <1>2, <2>1
  <2>2. CASE n > 0 /\ s[n] = <<d, c - 1>>
    <3>1. (n + 1) - 1 = n /\ n + 1 > 1 /\ n \in 1..n
      BY <1>1, <2>2
    <3> QED  BY <1>1, <1>2, <2>2, <3>1
  <2> QED  BY <1>3, <2>1, <2>2
<1> QED  BY <1>1, <1>4, <1>5, <1>6, <1>7 DEF InOrder, u, e

(***************************************************************************)
(* The queue between the threads.                                          *)
(***************************************************************************)

\* on_event() takes the items of each directive in the order in which the
\* HTTP/2 thread has pushed them, and none is missing.
LEMMA PopQueue ==
    ASSUME TypeOK, NEW done \in [Dirs -> -1..Chunks], QueueInv(done),
           NEW d \in Dirs, NEW c \in 0..Chunks, Popped(d, c)
    PROVE  /\ done[d] \in Int /\ c = done[d] + 1
           /\ [done EXCEPT ![d] = c] \in [Dirs -> -1..Chunks]
           /\ QueueInv([done EXCEPT ![d] = c])'
<1> DEFINE q == recv_pendings
           r == recv_pendings'
           n == Len(q)
           now == [done EXCEPT ![d] = c]
           It == [dir : Dirs, chunk : 0..Chunks]
<1>0. Chunks \in Nat
  BY PipelineAssumption
<1>1. /\ q \in Seq(It) /\ q # <<>> /\ Head(q) = [dir |-> d, chunk |-> c] /\ r = Tail(q)
      /\ sent \in [Dirs -> -1..Chunks] /\ sent' = sent
  BY DEF TypeOK, Popped, rxVars
<1>2. /\ n \in Nat \ {0} /\ q[1] = [dir |-> d, chunk |-> c]
      /\ Len(r) = n - 1
      /\ \A i \in 1..(n - 1) : r[i] = q[i + 1]
  <2> HIDE DEF It, q
  <2>1. /\ Tail(q) \in Seq(It) /\ Len(Tail(q)) = Len(q) - 1 /\ Head(q) = q[1]
        /\ \A i \in 1..Len(Tail(q)) : Tail(q)[i] = q[i + 1]
        /\ Len(q) \in Nat \ {0}
    BY <1>1, HeadTailProperties, EmptySeq, LenProperties
  <2> QED  BY <1>1, <2>1
<1>3. \A i \in 1..n : q[i].dir \in Dirs /\ q[i].chunk \in 0..Chunks
  <2>1. \A i \in 1..n : q[i] \in It
    BY <1>1, ElementOfSeq
  <2> QED  BY <2>1
<1>4. /\ \A e \in Dirs : done[e] <= sent[e]
      /\ \A i \in 1..n : done[q[i].dir] < q[i].chunk /\ q[i].chunk <= sent[q[i].dir]
      /\ \A i, j \in 1..n : i < j /\ q[i].dir = q[j].dir => q[i].chunk < q[j].chunk
      /\ \A e \in Dirs : \A k \in (done[e] + 1)..sent[e] :
            \E i \in 1..n : q[i] = [dir |-> e, chunk |-> k]
  BY DEF QueueInv
<1> HIDE DEF q, r, n
<1>5. done[d] < c /\ c <= sent[d] /\ done[d] \in -1..Chunks /\ sent[d] \in -1..Chunks
  <2>1. 1 \in 1..n /\ q[1].dir = d /\ q[1].chunk = c
    BY <1>2
  <2> QED  BY <1>1, <1>4, <2>1
<1>6. c = done[d] + 1
  <2>1. done[d] + 1 \in (done[d] + 1)..sent[d]
    BY <1>0, <1>5
  <2>2. PICK i \in 1..n : q[i] = [dir |-> d, chunk |-> done[d] + 1]
    BY <1>4, <2>1
  <2>3. CASE i = 1
    BY <1>2, <2>2, <2>3
  <2>4. CASE i # 1
    <3>1. 1 < i /\ 1 \in 1..n /\ q[1].dir = q[i].dir
      BY <1>2, <2>2, <2>4
    <3>2. c < done[d] + 1
      BY <1>2, <1>4, <2>2, <3>1
    <3> QED  BY <1>0, <1>5, <3>2
  <2> QED  BY <2>3, <2>4
<1>7. now \in [Dirs -> -1..Chunks] /\ now[d] = c /\ \A e \in Dirs : e # d => now[e] = done[e]
  BY <1>0
<1> HIDE DEF now
<1>8. \A e \in Dirs : now[e] <= sent'[e]
  BY <1>1, <1>4, <1>5, <1>7
<1>9. \A i \in 1..(n - 1) : i + 1 \in 1..n /\ 1 < i + 1 /\ 1 \in 1..n
  BY <1>2
<1>10. ASSUME NEW i \in 1..(n - 1)
       PROVE  now[r[i].dir] < r[i].chunk /\ r[i].chunk <= sent'[r[i].dir]
  <2>1. r[i] = q[i + 1] /\ i + 1 \in 1..n /\ 1 < i + 1 /\ q[i + 1].dir \in Dirs
    BY <1>2, <1>3, <1>9
  <2>2. CASE q[i + 1].dir = d
    <3>1. c < q[i + 1].chunk
      BY <1>2, <1>4, <1>9, <2>1, <2>2
    <3> QED  BY <1>1, <1>4, <1>7, <2>1, <2>2, <3>1
  <2>3. CASE q[i + 1].dir # d
    BY <1>1, <1>4, <1>7, <2>1, <2>3
  <2> QED  BY <2>2, <2>3
<1>11. ASSUME NEW i \in 1..(n - 1), NEW j \in 1..(n - 1), i < j, r[i].dir = r[j].dir
       PROVE  r[i].chunk < r[j].chunk
  <2>1. r[i] = q[i + 1] /\ r[j] = q[j + 1] /\ i + 1 < j + 1
    BY <1>2, <1>11
  <2> QED  BY <1>4, <1>9, <1>11, <2>1
<1>12. ASSUME NEW e \in Dirs, NEW k \in (now[e] + 1)..sent'[e]
       PROVE  \E i \in 1..(n - 1) : r[i] = [dir |-> e, chunk |-> k]
  <2>1. k \in (done[e] + 1)..sent[e] /\ (e = d => k # c)
    <3>1. done[e] \in -1..Chunks /\ now[e] \in -1..Chunks /\ sent[e] \in -1..Chunks
      BY <1>1, <1>7
    <3>2. done[e] <= now[e] /\ (e = d => now[e] = c)
      BY <1>0, <1>5, <1>7, <3>1
    <3>3. k \in Int /\ now[e] + 1 <= k /\ k <= sent[e]
      BY <1>1, <3>1
    <3>4. done[e] + 1 <= k /\ (e = d => k # c)
      BY <1>0, <3>1, <3>2, <3>3
    <3> QED  BY <3>1, <3>3, <3>4
  <2>2. PICK i \in 1..n : q[i] = [dir |-> e, chunk |-> k]
    BY <1>4, <2>1
  <2>3. i # 1
    <3> SUFFICES ASSUME i = 1 PROVE FALSE
      OBVIOUS
    <3>1. d = e /\ c = k
      BY <1>2, <2>2
    <3> QED  BY <2>1, <3>1
  <2>4. i - 1 \in 1..(n - 1) /\ (i - 1) + 1 = i
    BY <1>2, <2>3
  <2>5. r[i - 1] = q[i]
    BY <1>2, <2>4
  <2> QED  BY <2>2, <2>4, <2>5
<1>13. QueueInv(now)'
  <2> HIDE DEF now
  <2>1. Len(recv_pendings') = n - 1
    BY <1>2 DEF r
  <2> QED  BY <1>8, <1>10, <1>11, <1>12, <2>1 DEF QueueInv, r
<1> QED  BY <1>0, <1>5, <1>6, <1>7, <1>13 DEF now

\* The HTTP/2 thread pushes the items of a directive with increasing numbers.
LEMMA PushQueue ==
    ASSUME TypeOK, NEW done \in [Dirs -> -1..Chunks], QueueInv(done),
           NEW d \in Dirs, sent[d] < Chunks,
           sent' = [sent EXCEPT ![d] = @ + 1],
           recv_pendings' = Append(recv_pendings, [dir |-> d, chunk |-> sent[d] + 1])
    PROVE  QueueInv(done)'
<1> DEFINE q == recv_pendings
           r == recv_pendings'
           n == Len(q)
           It == [dir : Dirs, chunk : 0..Chunks]
           e == [dir |-> d, chunk |-> sent[d] + 1]
<1>0. Chunks \in Nat /\ sent[d] \in -1..Chunks /\ sent \in [Dirs -> -1..Chunks]
  BY PipelineAssumption DEF TypeOK
<1>1. /\ q \in Seq(It) /\ e \in It /\ r = Append(q, e)
  <2>1. sent[d] + 1 \in 0..Chunks
    BY <1>0
  <2> QED  BY <2>1 DEF TypeOK
<1>2. /\ n \in Nat /\ Len(r) = n + 1
      /\ \A i \in 1..n : r[i] = q[i]
      /\ r[n + 1] = e
  <2> HIDE DEF e, r, q
  <2> QED  BY <1>1, AppendFacts
<1>3. \A i \in 1..n : q[i].dir \in Dirs /\ q[i].chunk \in 0..Chunks
  <2>1. \A i \in 1..n : q[i] \in It
    BY <1>1, ElementOfSeq
  <2> QED  BY <2>1
<1>4. /\ \A x \in Dirs : done[x] <= sent[x]
      /\ \A i \in 1..n : done[q[i].dir] < q[i].chunk /\ q[i].chunk <= sent[q[i].dir]
      /\ \A i, j \in 1..n : i < j /\ q[i].dir = q[j].dir => q[i].chunk < q[j].chunk
      /\ \A x \in Dirs : \A k \in (done[x] + 1)..sent[x] :
            \E i \in 1..n : q[i] = [dir |-> x, chunk |-> k]
  BY DEF QueueInv
<1>5. /\ sent'[d] = sent[d] + 1
      /\ \A x \in Dirs : x # d => sent'[x] = sent[x]
      /\ \A x \in Dirs : sent[x] \in Int /\ sent[x] <= sent'[x] /\ sent'[x] \in Int /\ done[x] \in Int
  BY <1>0
<1>6. e.dir = d /\ e.chunk = sent[d] + 1
  OBVIOUS
<1> HIDE DEF q, r, n, e
<1>7. \A i \in 1..(n + 1) : i \in 1..n \/ i = n + 1
  BY <1>2
<1>8. \A x \in Dirs : done[x] <= sent'[x]
  BY <1>4, <1>5
<1>9. ASSUME NEW i \in 1..(n + 1)
      PROVE  done[r[i].dir] < r[i].chunk /\ r[i].chunk <= sent'[r[i].dir]
  <2>1. CASE i \in 1..n
    <3>1. r[i] = q[i] /\ q[i].dir \in Dirs /\ q[i].chunk \in Int
      BY <1>2, <1>3, <2>1
    <3> QED  BY <1>4, <1>5, <2>1, <3>1
  <2>2. CASE i = n + 1
    <3>1. r[i].dir = d /\ r[i].chunk = sent[d] + 1
      BY <1>2, <1>6, <2>2
    <3>2. done[d] < sent[d] + 1
      BY <1>4, <1>5
    <3>3. sent[d] + 1 <= sent'[d]
      BY <1>5
    <3> QED  BY <3>1, <3>2, <3>3
  <2> QED  BY <1>7, <2>1, <2>2
<1>10. ASSUME NEW i \in 1..(n + 1), NEW j \in 1..(n + 1), i < j, r[i].dir = r[j].dir
       PROVE  r[i].chunk < r[j].chunk
  <2>1. i \in 1..n /\ r[i] = q[i] /\ q[i].chunk \in Int
    BY <1>2, <1>3, <1>10
  <2>2. CASE j \in 1..n
    BY <1>2, <1>4, <1>10, <2>1, <2>2
  <2>3. CASE j = n + 1
    <3>1. q[i].dir = d /\ r[j].chunk = sent[d] + 1
      BY <1>2, <1>6, <1>10, <2>1, <2>3
    <3>2. q[i].chunk <= sent[d]
      BY <1>4, <2>1, <3>1
    <3> QED  BY <1>0, <2>1, <3>1, <3>2
  <2> QED  BY <1>7, <2>2, <2>3
<1>11. ASSUME NEW x \in Dirs, NEW k \in (done[x] + 1)..sent'[x]
       PROVE  \E i \in 1..(n + 1) : r[i] = [dir |-> x, chunk |-> k]
  <2>1. CASE k <= sent[x]
    <3>1. k \in (done[x] + 1)..sent[x]
      BY <1>5, <2>1
    <3>2. PICK i \in 1..n : q[i] = [dir |-> x, chunk |-> k]
      BY <1>4, <3>1
    <3> QED  BY <1>2, <3>2
  <2>2. CASE ~(k <= sent[x])
    <3>1. x = d /\ k = sent[d] + 1
      BY <1>5, <2>2
    <3>2. n + 1 \in 1..(n + 1) /\ r[n + 1] = [dir |-> x, chunk |-> k]
      BY <1>2, <3>1 DEF e
    <3> QED  BY <3>2
  <2> QED  BY <2>1, <2>2
<1>12. Len(recv_pendings') = n + 1
  BY <1>2 DEF r
<1> QED  BY <1>8, <1>9, <1>10, <1>11, <1>12 DEF QueueInv, r

(***************************************************************************)
(* The sequencer and TTSAgent.  In each lemma now[d] is what done[d]       *)
(* becomes with the step.                                                  *)
(***************************************************************************)

\* A step that changes nothing of what the sequencer and TTSAgent keep.
LEMMA DirKept ==
    ASSUME NEW done \in [Dirs -> -1..Chunks], NEW now \in [Dirs -> -1..Chunks],
           DirInv(done), \A d \in Dirs : done[d] <= now[d], UNCHANGED dirVars
    PROVE  DirInv(now)'
<1>1. \A d \in Dirs : now[d] = -1 => done[d] = -1
  BY PipelineAssumption
<1> QED  BY <1>1 DEF DirInv, dirVars

\* Facts that every push of a new directive uses: nothing is known of it yet.
LEMMA NewDirective ==
    ASSUME TypeOK, NEW done \in [Dirs -> -1..Chunks], DirInv(done),
           NEW d \in Dirs, done[d] = -1
    PROVE  /\ [done EXCEPT ![d] = 0] \in [Dirs -> -1..Chunks]
           /\ \A e \in Dirs : [done EXCEPT ![d] = 0][e] = -1 => e # d /\ done[e] = -1
           /\ d \notin callback /\ d \notin freed /\ ~Contains(list_dir, d)
           /\ d # speak_dir /\ d # cur_token /\ d # None
           /\ speak_dir # None => done[speak_dir] # -1
           /\ list_dir \in Seq(Dirs) /\ IsInjective(list_dir)
           /\ \A x : Contains(list_dir, x) => x \in Dirs
<1>1. [done EXCEPT ![d] = 0] \in [Dirs -> -1..Chunks]
  BY PipelineAssumption
<1>2. \A e \in Dirs : [done EXCEPT ![d] = 0][e] = -1 => e # d /\ done[e] = -1
  OBVIOUS
<1>3. d \notin callback /\ d \notin freed /\ ~Contains(list_dir, d) /\ d # None
  BY NoneAssumption DEF DirInv
<1>4. d # speak_dir /\ d # cur_token
  BY <1>3 DEF DirInv
<1>5. speak_dir # None => done[speak_dir] # -1
  BY DEF DirInv, TypeOK
<1>6. list_dir \in Seq(Dirs) /\ IsInjective(list_dir)
  BY DEF DirInv, TypeOK
<1>7. \A x : Contains(list_dir, x) => x \in Dirs
  BY <1>6, ElementOfSeq DEF Contains
<1> QED  BY <1>1, <1>2, <1>3, <1>4, <1>5, <1>6, <1>7

\* An agent that completes its directive at once.
LEMMA DirOther ==
    ASSUME TypeOK, NEW done \in [Dirs -> -1..Chunks], DirInv(done),
           NEW d \in Dirs, done[d] = -1, PushOther(d)
    PROVE  DirInv([done EXCEPT ![d] = 0])'
<1> DEFINE now == [done EXCEPT ![d] = 0]
<1>1. /\ freed' = freed \cup {d}
      /\ UNCHANGED <<list_dir, buf, callback, speak_dir, cur_token>>
  BY NoneAssumption DEF PushOther, Destroyed
<1>2. /\ \A e \in Dirs : now[e] = -1 => e # d /\ done[e] = -1
      /\ ~Contains(list_dir, d)
  BY NewDirective
<1> HIDE DEF now
<1>3. DirInv(now)'
  BY <1>1, <1>2 DEF DirInv
<1> QED  BY <1>3 DEF now

\* TTSAgent returns early from a Speak without the mandatory fields: the
\* directive stays on the list, without a callback.
LEMMA DirBadSpeak ==
    ASSUME TypeOK, NEW done \in [Dirs -> -1..Chunks], DirInv(done),
           NEW d \in Dirs, done[d] = -1, PushBadSpeak(d)
    PROVE  /\ DirInv([done EXCEPT ![d] = 0])'
           /\ list_dir' \in Seq(Dirs)
<1> DEFINE now == [done EXCEPT ![d] = 0]
<1>1. /\ list_dir' = Append(list_dir, d) /\ Kind[d] = "BadSpeak"
      /\ UNCHANGED <<freed, buf, callback, speak_dir, cur_token>>
  BY DEF PushBadSpeak
<1>2. /\ \A e \in Dirs : now[e] = -1 => e # d /\ done[e] = -1
      /\ d \notin callback /\ d \notin freed /\ ~Contains(list_dir, d)
      /\ d # speak_dir /\ list_dir \in Seq(Dirs) /\ IsInjective(list_dir)
  BY NewDirective
<1>3. /\ list_dir' \in Seq(Dirs) /\ IsInjective(list_dir')
      /\ \A x : Contains(list_dir', x) <=> Contains(list_dir, x) \/ x = d
  BY <1>1, <1>2, AppendFacts
<1> HIDE DEF now
<1>4. DirInv(now)'
  BY <1>1, <1>2, <1>3 DEF DirInv
<1> QED  BY <1>3, <1>4 DEF now

\* A Speak replaces the directive of the speech before it.
LEMMA DirSpeak ==
    ASSUME TypeOK, NEW done \in [Dirs -> -1..Chunks], DirInv(done),
           NEW d \in Dirs, done[d] = -1, PushSpeak(d)
    PROVE  /\ DirInv([done EXCEPT ![d] = 0])'
           /\ list_dir' \in Seq(Dirs)
<1> DEFINE now == [done EXCEPT ![d] = 0]
<1>1. /\ list_dir' = RemoveFirst(Append(list_dir, d), speak_dir) /\ Kind[d] = "Speak"
      /\ freed' = freed \cup ({speak_dir} \ {None})
      /\ speak_dir' = d /\ cur_token' = d /\ callback' = callback \cup {d} /\ buf' = buf
  BY DEF PushSpeak, StopTTS, Destroyed
<1>2. /\ \A e \in Dirs : now[e] = -1 => e # d /\ done[e] = -1
      /\ d \notin callback /\ d \notin freed /\ ~Contains(list_dir, d)
      /\ d # speak_dir /\ d # None
      /\ speak_dir # None => done[speak_dir] # -1
      /\ list_dir \in Seq(Dirs) /\ IsInjective(list_dir)
  BY NewDirective
<1>3. /\ Append(list_dir, d) \in Seq(Dirs) /\ IsInjective(Append(list_dir, d))
      /\ \A x : Contains(Append(list_dir, d), x) <=> Contains(list_dir, x) \/ x = d
  BY <1>2, AppendFacts
<1>4. /\ list_dir' \in Seq(Dirs) /\ IsInjective(list_dir')
      /\ \A x : Contains(list_dir', x) <=>
                   Contains(Append(list_dir, d), x) /\ x # speak_dir
  BY <1>1, <1>3, RemoveFirstFacts
<1>5. \A x : Contains(list_dir', x) <=> (Contains(list_dir, x) \/ x = d) /\ x # speak_dir
  BY <1>3, <1>4
<1> HIDE DEF now
<1>6. \A e \in Dirs : now[e] = -1 =>
         e \notin callback' /\ e \notin freed' /\ ~Contains(list_dir', e)
  BY <1>1, <1>2, <1>5 DEF DirInv
<1>7. ASSUME NEW x \in Dirs, Contains(list_dir', x)
      PROVE  /\ x \notin freed' /\ Kind[x] \in {"Speak", "BadSpeak"}
             /\ x \in callback' <=> x = speak_dir'
             /\ Kind[x] = "Speak" => x \in callback'
  <2>1. CASE x = d
    BY <1>1, <1>2, <2>1
  <2>2. CASE x # d
    <3>1. Contains(list_dir, x) /\ x # speak_dir
      BY <1>5, <1>7, <2>2
    <3>2. x \notin callback /\ x \notin freed /\ Kind[x] = "BadSpeak"
      BY <3>1 DEF DirInv
    <3> QED  BY <1>1, <2>2, <3>1, <3>2
  <2> QED  BY <2>1, <2>2
<1>8. Contains(list_dir', speak_dir') /\ speak_dir' = cur_token' /\ cur_token' \in callback'
  BY <1>1, <1>2, <1>5
<1>9. /\ \A x \in callback' : Kind[x] = "Speak"
      /\ \A x \in Dirs : buf'[x] # <<>> => Kind[x] = "BadSpeak"
  BY <1>1 DEF DirInv
<1>10. DirInv(now)'
  BY <1>4, <1>6, <1>7, <1>8, <1>9 DEF DirInv
<1> QED  BY <1>4, <1>10 DEF now

\* The Speak directive of TTSAgent is completed, by a Stop, which itself is
\* completed too (extra = {d}), or by its last attachment (extra = {}).
LEMMA DirCompleted ==
    ASSUME TypeOK, NEW done \in [Dirs -> -1..Chunks], NEW now \in [Dirs -> -1..Chunks],
           DirInv(done), \A d \in Dirs : done[d] <= now[d],
           NEW extra \in SUBSET Dirs,
           \A d \in extra : now[d] # -1 /\ ~Contains(list_dir, d),
           list_dir' = RemoveFirst(list_dir, speak_dir),
           freed' = freed \cup extra \cup ({speak_dir} \ {None}),
           speak_dir' = None, callback' = callback, cur_token' = cur_token,
           \A d \in Dirs : buf'[d] = buf[d] \/ buf'[d] = <<>>
    PROVE  DirInv(now)' /\ list_dir' \in Seq(Dirs)
<1>1. \A d \in Dirs : now[d] = -1 => done[d] = -1
  BY PipelineAssumption
<1>2. list_dir \in Seq(Dirs) /\ IsInjective(list_dir)
  BY DEF DirInv, TypeOK
<1>3. /\ list_dir' \in Seq(Dirs) /\ IsInjective(list_dir')
      /\ \A x : Contains(list_dir', x) <=> Contains(list_dir, x) /\ x # speak_dir
  BY <1>2, RemoveFirstFacts
<1>4. \A d \in Dirs : now[d] = -1 =>
         d \notin callback' /\ d \notin freed' /\ ~Contains(list_dir', d)
  BY <1>1, <1>3 DEF DirInv
<1>5. ASSUME NEW x \in Dirs, Contains(list_dir', x)
      PROVE  /\ x \notin freed' /\ Kind[x] \in {"Speak", "BadSpeak"}
             /\ x \in callback' <=> x = speak_dir'
             /\ Kind[x] = "Speak" => x \in callback'
  <2>1. Contains(list_dir, x) /\ x # speak_dir /\ x # None
    BY <1>3, <1>5, NoneAssumption
  <2>2. x \notin callback /\ x \notin freed /\ Kind[x] = "BadSpeak"
    BY <2>1 DEF DirInv
  <2> QED  BY <2>1, <2>2
<1>6. /\ \A x \in callback' : Kind[x] = "Speak"
      /\ \A x \in Dirs : buf'[x] # <<>> => Kind[x] = "BadSpeak"
      /\ cur_token' # None => cur_token' \in callback'
  BY DEF DirInv
<1> QED  BY <1>3, <1>4, <1>5, <1>6 DEF DirInv

(***************************************************************************)
(* The PCM device and what is heard.                                       *)
(***************************************************************************)

\* The types of the chunks in the PCM device and of those played.
LEMMA PlayTypes ==
    ASSUME TypeOK
    PROVE  /\ heard \in Seq(Dirs \X (1..Chunks)) /\ pcm.data \in Seq(Dirs \X (1..Chunks))
           /\ Played \in Seq(Dirs \X (1..Chunks))
           /\ \A i \in 1..Len(heard) : heard[i] \in Dirs \X (1..Chunks)
           /\ \A i \in 1..Len(pcm.data) : pcm.data[i] \in Dirs \X (1..Chunks)
<1> DEFINE P == Dirs \X (1..Chunks)
<1>1. heard \in Seq(P) /\ pcm.data \in Seq(P)
  BY DEF TypeOK
<1> HIDE DEF P
<1>2. Played \in Seq(P)
  BY <1>1, ConcatProperties DEF Played
<1>3. /\ \A i \in 1..Len(heard) : heard[i] \in P
      /\ \A i \in 1..Len(pcm.data) : pcm.data[i] \in P
  BY <1>1, ElementOfSeq
<1> QED  BY <1>1, <1>2, <1>3 DEF P

\* What was heard is in order because what will be is.
LEMMA HeardInOrder ==
    ASSUME TypeOK, InOrder(Played)
    PROVE  InOrder(heard)
<1> DEFINE P == Dirs \X (1..Chunks)
<1>1. heard \in Seq(P) /\ pcm.data \in Seq(P)
  BY PlayTypes
<1> HIDE DEF P
<1> QED  BY <1>1, InOrderPrefix DEF Played

\* A step that leaves the speech alone: the item that it takes from the queue,
\* if it takes one, is not of the speech TTSAgent is playing.
LEMMA PlayKept ==
    ASSUME TypeOK, NEW done \in [Dirs -> -1..Chunks], NEW now \in [Dirs -> -1..Chunks],
           PlayInv(done), \A d \in Dirs : done[d] <= now[d],
           UNCHANGED <<heard, callback, cur_token, speak_dir>>,
           pcm'.data = pcm.data, pcm'.stream = pcm.stream,
           speak_dir # None => now[speak_dir] = done[speak_dir]
    PROVE  PlayInv(now)'
<1>1. Played' = Played
  BY DEF Played
<1>2. ASSUME NEW i \in 1..Len(heard)
      PROVE  heard[i][1] \in callback /\ heard[i][2] <= now[heard[i][1]]
  <2>1. heard[i][1] \in Dirs /\ heard[i][2] \in 1..Chunks
    BY PlayTypes
  <2>2. heard[i][1] \in callback /\ heard[i][2] <= done[heard[i][1]]
    BY DEF PlayInv
  <2>3. done[heard[i][1]] \in -1..Chunks /\ now[heard[i][1]] \in -1..Chunks
    BY <2>1
  <2>4. done[heard[i][1]] <= now[heard[i][1]]
    BY <2>1
  <2> QED  BY <2>1, <2>2, <2>3, <2>4, PipelineAssumption
<1>3. ASSUME NEW i \in 1..Len(pcm.data)
      PROVE  pcm.data[i][1] = cur_token /\ pcm.data[i][2] <= now[cur_token]
  <2>1. pcm.data[i][1] \in Dirs /\ pcm.data[i][2] \in 1..Chunks
    BY PlayTypes
  <2>2. pcm.data[i][1] = cur_token /\ pcm.data[i][2] <= done[cur_token]
    BY DEF PlayInv
  <2>3. /\ done[cur_token] \in -1..Chunks /\ now[cur_token] \in -1..Chunks
        /\ done[cur_token] <= now[cur_token]
    BY <2>1, <2>2
  <2> QED  BY <2>1, <2>2, <2>3, PipelineAssumption
<1>4. InOrder(Played)'
  BY <1>1 DEF PlayInv, InOrder
<1>5. pcm'.stream /\ speak_dir' # None /\ now[speak_dir'] # 0 =>
          Len(Played') > 0 /\ Played'[Len(Played')] = <<speak_dir', now[speak_dir']>>
  BY <1>1 DEF PlayInv
<1> QED  BY <1>2, <1>3, <1>4, <1>5 DEF PlayInv

\* A step that empties the PCM device: the device is stopped, or it is started
\* for a speech of which no attachment has come yet.
LEMMA PlayCleared ==
    ASSUME TypeOK, NEW done \in [Dirs -> -1..Chunks], NEW now \in [Dirs -> -1..Chunks],
           PlayInv(done), \A d \in Dirs : done[d] <= now[d],
           heard' = heard, callback \subseteq callback',
           pcm'.data = <<>>,
           pcm'.stream /\ speak_dir' # None => now[speak_dir'] = 0
    PROVE  PlayInv(now)'
<1>1. Played' = heard
  BY PlayTypes, ConcatEmptySeq DEF Played
<1>2. ASSUME NEW i \in 1..Len(heard)
      PROVE  heard[i][1] \in callback' /\ heard[i][2] <= now[heard[i][1]]
  <2>1. heard[i][1] \in Dirs /\ heard[i][2] \in 1..Chunks
    BY PlayTypes
  <2>2. heard[i][1] \in callback /\ heard[i][2] <= done[heard[i][1]]
    BY DEF PlayInv
  <2>3. /\ done[heard[i][1]] \in -1..Chunks /\ now[heard[i][1]] \in -1..Chunks
        /\ done[heard[i][1]] <= now[heard[i][1]]
    BY <2>1
  <2> QED  BY <2>1, <2>2, <2>3, PipelineAssumption
<1>3. Len(pcm'.data) = 0
  BY EmptySeq
<1>4. InOrder(Played)'
  BY <1>1, HeardInOrder DEF PlayInv, InOrder
<1> QED  BY <1>2, <1>3, <1>4 DEF PlayInv

\* TTSAgent::getAttachmentData(): the next chunk of the current speech goes
\* behind what the PCM device has of it.
LEMMA PlayChunk ==
    ASSUME TypeOK, NEW done \in [Dirs -> -1..Chunks], DirInv(done), PlayInv(done),
           NEW d \in Dirs, NEW c \in 1..Chunks, c = done[d] + 1, PlayAttachment(d, c)
    PROVE  /\ PlayInv([done EXCEPT ![d] = c])'
           /\ pcm'.data \in Seq(Dirs \X (1..Chunks))
           /\ d = speak_dir /\ d = cur_token /\ buf[d] = <<>>
<1> DEFINE now == [done EXCEPT ![d] = c]
           P == Dirs \X (1..Chunks)
           e == <<d, c>>
<1>0. Chunks \in Nat /\ done[d] \in -1..Chunks
  BY PipelineAssumption
<1>1. d = speak_dir /\ d = cur_token /\ d \in callback /\ d # None /\ buf[d] = <<>>
  <2>1. Contains(list_dir, d) /\ d \in callback
    BY DEF PlayAttachment
  <2>2. d = speak_dir /\ Kind[d] = "Speak" /\ d # None
    BY <2>1, NoneAssumption DEF DirInv
  <2>3. d = cur_token /\ buf[d] = <<>>
    BY <2>2 DEF DirInv
  <2> QED  BY <2>1, <2>2, <2>3
<1>2. /\ pcm'.data = Append(pcm.data, e) /\ pcm'.stream = pcm.stream
      /\ UNCHANGED <<heard, callback, cur_token>>
      /\ speak_dir' = speak_dir \/ speak_dir' = None
  <2> DEFINE data == [i \in 1..(Len(buf[d]) + 1) |-> <<d, Append(buf[d], c)[i]>>]
  <2>1. pcm' = [pcm EXCEPT !.data = @ \o data, !.is_last = @ \/ c = Chunks]
    BY DEF PlayAttachment
  <2>2. data = <<e>>
    <3>1. Len(buf[d]) + 1 = 1
      BY <1>1, EmptySeq
    <3>2. Append(buf[d], c) = <<c>>
      BY <1>1
    <3>3. data = [i \in 1..1 |-> <<d, <<c>>[i]>>]
      BY <3>1, <3>2
    <3>4. \A i \in 1..1 : <<d, <<c>>[i]>> = e
      OBVIOUS
    <3>5. data \in Seq({e}) /\ Len(data) = 1 /\ data[1] = e
      <4>1. data = [i \in 1..1 |-> e]
        BY <3>3, <3>4
      <4> HIDE DEF data, e
      <4> QED  BY <4>1, IsASeq
    <3> HIDE DEF data, e
    <3>6. <<e>> \in Seq({e}) /\ Len(<<e>>) = 1 /\ <<e>>[1] = e
      OBVIOUS
    <3> QED  BY <3>5, <3>6, SeqEqual
  <2>3. pcm \in [data : Seq(P), is_last : BOOLEAN, stream : BOOLEAN, done : BOOLEAN]
    BY DEF TypeOK
  <2>4. pcm'.data = pcm.data \o <<e>> /\ pcm'.stream = pcm.stream
    <3> HIDE DEF data, P, e
    <3> QED  BY <2>1, <2>2, <2>3
  <2>5. pcm.data \o <<e>> = Append(pcm.data, e)
    <3>1. pcm.data \in Seq(P) /\ e \in P
      BY <2>3
    <3> HIDE DEF P, e
    <3> QED  BY <3>1, AppendIsConcat
  <2>6. /\ UNCHANGED <<heard, callback, cur_token>>
        /\ speak_dir' = speak_dir \/ speak_dir' = None
    BY DEF PlayAttachment, Popped, outVars
  <2> QED  BY <2>4, <2>5, <2>6
<1>3. e \in P /\ e[1] = d /\ e[2] = c
  OBVIOUS
<1>4. /\ heard \in Seq(P) /\ pcm.data \in Seq(P) /\ Played \in Seq(P)
      /\ \A i \in 1..Len(heard) : heard[i][1] \in Dirs /\ heard[i][2] \in 1..Chunks
      /\ \A i \in 1..Len(pcm.data) : pcm.data[i][1] \in Dirs /\ pcm.data[i][2] \in 1..Chunks
  BY PlayTypes
<1> HIDE DEF P, e
<1>5. /\ pcm'.data \in Seq(P) /\ Len(pcm'.data) = Len(pcm.data) + 1 /\ Len(pcm.data) \in Nat
      /\ \A i \in 1..Len(pcm.data) : pcm'.data[i] = pcm.data[i]
      /\ pcm'.data[Len(pcm.data) + 1] = e
  BY <1>2, <1>3, <1>4, AppendFacts
<1>6. now[d] = c /\ \A x \in Dirs : x # d => now[x] = done[x]
  OBVIOUS
<1> HIDE DEF now
<1>7. ASSUME NEW i \in 1..Len(heard)
      PROVE  heard[i][1] \in callback /\ heard[i][2] <= now[heard[i][1]]
  <2>1. /\ heard[i][1] \in callback /\ heard[i][2] <= done[heard[i][1]]
        /\ heard[i][1] \in Dirs /\ heard[i][2] \in 1..Chunks
    BY <1>4 DEF PlayInv
  <2>2. CASE heard[i][1] = d
    <3>1. heard[i][2] <= c
      BY <1>0, <2>1, <2>2
    <3> QED  BY <1>6, <2>1, <2>2, <3>1
  <2>3. CASE heard[i][1] # d
    BY <1>6, <2>1, <2>3
  <2> QED  BY <2>2, <2>3
<1>8. ASSUME NEW i \in 1..Len(pcm'.data)
      PROVE  pcm'.data[i][1] = cur_token /\ pcm'.data[i][2] <= now[cur_token]
  <2>1. CASE i \in 1..Len(pcm.data)
    <3>1. pcm.data[i][1] = cur_token /\ pcm.data[i][2] <= done[d] /\ pcm.data[i][2] \in Int
      BY <1>1, <1>4, <2>1 DEF PlayInv
    <3>2. pcm.data[i][2] <= c
      BY <1>0, <3>1
    <3> QED  BY <1>1, <1>5, <1>6, <2>1, <3>1, <3>2
  <2>2. CASE i = Len(pcm.data) + 1
    BY <1>1, <1>3, <1>5, <1>6, <2>2
  <2>3. i \in 1..Len(pcm.data) \/ i = Len(pcm.data) + 1
    BY <1>5
  <2> QED  BY <2>1, <2>2, <2>3
<1>9. CASE pcm.stream
  <2>1. Played = heard \o pcm.data /\ Played' = heard \o Append(pcm.data, e)
    BY <1>2, <1>9 DEF Played
  <2>2. Played' = Append(Played, e)
    <3>1. Append(pcm.data, e) = pcm.data \o <<e>> /\ Append(Played, e) = Played \o <<e>>
      BY <1>3, <1>4, AppendIsConcat
    <3>2. <<e>> \in Seq(P)
      BY <1>3
    <3>3. (heard \o pcm.data) \o <<e>> = heard \o (pcm.data \o <<e>>)
      <4> DEFINE x == pcm.data
                 y == <<e>>
      <4>1. heard \in Seq(P) /\ x \in Seq(P) /\ y \in Seq(P)
        BY <1>4, <3>2
      <4> HIDE DEF x, y
      <4>2. (heard \o x) \o y = heard \o (x \o y)
        BY <4>1, ConcatAssociative
      <4> QED  BY <4>2 DEF x, y
    <3> QED  BY <2>1, <3>1, <3>3
  <2>3. ASSUME NEW i \in 1..Len(Played) PROVE Played[i] # e
    <3>1. /\ Len(heard) \in Nat /\ Len(pcm.data) \in Nat
          /\ Len(Played) = Len(heard) + Len(pcm.data)
          /\ Played[i] = IF i <= Len(heard) THEN heard[i] ELSE pcm.data[i - Len(heard)]
      BY <1>4, <2>1, ConcatProperties, LenProperties
    <3>2. CASE i <= Len(heard)
      <4>1. i \in 1..Len(heard) /\ Played[i] = heard[i]
        BY <3>1, <3>2
      <4>2. heard[i][1] = d => heard[i][2] <= done[d] /\ heard[i][2] \in Int
        BY <1>4, <4>1 DEF PlayInv
      <4> QED  BY <1>0, <1>3, <4>1, <4>2
    <3>3. CASE ~(i <= Len(heard))
      <4> DEFINE k == i - Len(heard)
      <4>1. k \in 1..Len(pcm.data) /\ Played[i] = pcm.data[k]
        BY <3>1, <3>3
      <4> HIDE DEF k
      <4>2. pcm.data[k][2] <= done[d] /\ pcm.data[k][2] \in Int
        BY <1>1, <1>4, <4>1 DEF PlayInv
      <4> QED  BY <1>0, <1>3, <4>1, <4>2
    <3> QED  BY <3>2, <3>3
  <2>4. c = 1 \/ (Len(Played) > 0 /\ Played[Len(Played)] = <<d, c - 1>>)
    <3>1. CASE done[d] = 0
      BY <3>1
    <3>2. CASE done[d] # 0
      <4>1. Len(Played) > 0 /\ Played[Len(Played)] = <<d, done[d]>>
        BY <1>1, <1>9, <3>2 DEF PlayInv
      <4>2. c - 1 = done[d]
        BY <1>0
      <4> QED  BY <4>1, <4>2
    <3> QED  BY <3>1, <3>2
  <2>5. InOrder(Append(Played, e))
    <3>1. c \in Nat /\ InOrder(Played)
      BY <1>0 DEF PlayInv
    <3> QED  BY <1>3, <1>4, <2>3, <2>4, <3>1, InOrderAppend DEF e
  <2>6. Len(Played') > 0 /\ Played'[Len(Played')] = <<d, c>>
    <3>1. Len(Played') = Len(Played) + 1 /\ Played'[Len(Played) + 1] = e /\ Len(Played) \in Nat
      BY <1>3, <1>4, <2>2, AppendFacts
    <3> QED  BY <3>1 DEF e
  <2>7. InOrder(Played)'
    BY <2>2, <2>5 DEF InOrder
  <2>8. speak_dir' # None => speak_dir' = d
    BY <1>1, <1>2
  <2>9. PlayInv(now)'
    BY <1>2, <1>6, <1>7, <1>8, <2>6, <2>7, <2>8 DEF PlayInv
  <2> QED  BY <1>1, <1>5, <2>9 DEF now, P
<1>10. CASE ~pcm.stream
  <2>1. Played' = heard /\ ~pcm'.stream /\ heard' = heard
    BY <1>2, <1>10 DEF Played
  <2>2. InOrder(Played)'
    BY <2>1, HeardInOrder DEF PlayInv, InOrder
  <2>3. PlayInv(now)'
    BY <1>2, <1>7, <1>8, <2>1, <2>2 DEF PlayInv
  <2> QED  BY <1>1, <1>5, <2>3 DEF now, P
<1> QED  BY <1>9, <1>10

\* _playbackCallback(): the next chunk moves from the PCM device to the
\* loudspeaker.
LEMMA PlayHeard ==
    ASSUME TypeOK, NEW done \in [Dirs -> -1..Chunks], DirInv(done), PlayInv(done), PlayFrame
    PROVE  /\ PlayInv(done)'
           /\ heard' \in Seq(Dirs \X (1..Chunks)) /\ pcm'.data \in Seq(Dirs \X (1..Chunks))
<1> DEFINE P == Dirs \X (1..Chunks)
<1>1. /\ heard \in Seq(P) /\ pcm.data \in Seq(P)
      /\ \A i \in 1..Len(pcm.data) : pcm.data[i][1] \in Dirs
  BY PlayTypes
<1>2. pcm \in [data : Seq(P), is_last : BOOLEAN, stream : BOOLEAN, done : BOOLEAN]
  BY DEF TypeOK
<1> HIDE DEF P
<1>3. /\ pcm.stream /\ pcm.data # <<>>
      /\ heard' = Append(heard, Head(pcm.data))
      /\ pcm' = [pcm EXCEPT !.data = Tail(@)]
      /\ UNCHANGED <<callback, cur_token, speak_dir>>
  BY DEF PlayFrame, dirVars
<1>4. pcm'.data = Tail(pcm.data) /\ pcm'.stream
  BY <1>2, <1>3
<1> DEFINE x == pcm.data
<1>5. x \in Seq(P) /\ x # <<>>
  BY <1>1, <1>3
<1> HIDE DEF x
<1>6. /\ Head(x) \in P /\ Tail(x) \in Seq(P) /\ Len(Tail(x)) = Len(x) - 1 /\ Head(x) = x[1]
      /\ \A i \in 1..Len(Tail(x)) : Tail(x)[i] = x[i + 1]
      /\ Len(x) \in Nat \ {0}
  BY <1>5, HeadTailProperties, EmptySeq, LenProperties
<1>7. /\ heard' \in Seq(P) /\ Len(heard') = Len(heard) + 1 /\ Len(heard) \in Nat
      /\ \A i \in 1..Len(heard) : heard'[i] = heard[i]
      /\ heard'[Len(heard) + 1] = x[1]
  BY <1>1, <1>3, <1>6, AppendFacts DEF x
<1>8. Played' = Played
  <2>1. Append(heard, Head(x)) \o Tail(x) = heard \o x
    BY <1>1, <1>5, MoveHead
  <2> QED  BY <1>3, <1>4, <2>1 DEF Played, x
<1>9. \A i \in 1..Len(x) : x[i][1] = cur_token /\ x[i][2] <= done[cur_token] /\ cur_token \in Dirs
  BY <1>1 DEF PlayInv, x
<1>10. cur_token \in callback
  <2>1. cur_token # None
    BY <1>6, <1>9, NoneAssumption
  <2> QED  BY <2>1 DEF DirInv
<1>11. ASSUME NEW i \in 1..Len(heard')
       PROVE  heard'[i][1] \in callback' /\ heard'[i][2] <= done[heard'[i][1]]
  <2>1. CASE i \in 1..Len(heard)
    BY <1>3, <1>7, <2>1 DEF PlayInv
  <2>2. CASE i = Len(heard) + 1
    <3>1. 1 \in 1..Len(x)
      BY <1>6
    <3> QED  BY <1>3, <1>7, <1>9, <1>10, <2>2, <3>1
  <2>3. i \in 1..Len(heard) \/ i = Len(heard) + 1
    BY <1>7
  <2> QED  BY <2>1, <2>2, <2>3
<1>12. ASSUME NEW i \in 1..Len(pcm'.data)
       PROVE  pcm'.data[i][1] = cur_token' /\ pcm'.data[i][2] <= done[cur_token']
  <2>1. i + 1 \in 1..Len(x) /\ pcm'.data[i] = x[i + 1]
    BY <1>4, <1>6 DEF x
  <2> QED  BY <1>3, <1>9, <2>1
<1>13. InOrder(Played)'
  BY <1>8 DEF PlayInv, InOrder
<1>14. pcm'.stream /\ speak_dir' # None /\ done[speak_dir'] # 0 =>
          Len(Played') > 0 /\ Played'[Len(Played')] = <<speak_dir', done[speak_dir']>>
  BY <1>3, <1>8 DEF PlayInv
<1>15. PlayInv(done)'
  BY <1>11, <1>12, <1>13, <1>14 DEF PlayInv
<1> QED  BY <1>4, <1>6, <1>7, <1>15 DEF P, x

(***************************************************************************)
(* The invariant.                                                          *)
(***************************************************************************)

\* It holds when nothing has been received.
LEMMA PipelineInitInv == Init => IndInv
<1> SUFFICES ASSUME Init PROVE IndInv
  OBVIOUS
<1> DEFINE done == [d \in Dirs |-> -1]
<1>1. TypeOK
  <2>1. \A S : <<>> \in Seq(S)
    BY EmptySeq
  <2>2. Stopped \in [data : Seq(Dirs \X (1..Chunks)), is_last : BOOLEAN,
                     stream : BOOLEAN, done : BOOLEAN]
    BY <2>1 DEF Stopped
  <2>3. sent \in [Dirs -> -1..Chunks] /\ buf \in [Dirs -> Seq(1..Chunks)]
    BY <2>1, PipelineAssumption DEF Init
  <2> QED  BY <2>1, <2>2, <2>3 DEF Init, TypeOK
<1>2. NoLostWakeup
  BY DEF Init, NoLostWakeup
<1>3. done \in [Dirs -> -1..Chunks] /\ \A d \in Dirs : done[d] = -1
  BY PipelineAssumption
<1>4. /\ recv_pendings = <<>> /\ list_dir = <<>> /\ heard = <<>> /\ pcm.data = <<>>
      /\ ~pcm.stream /\ callback = {} /\ freed = {} /\ speak_dir = None /\ cur_token = None
      /\ sent = [d \in Dirs |-> -1] /\ buf = [d \in Dirs |-> <<>>]
  BY DEF Init, Stopped
<1> HIDE DEF done
<1>5. Len(<<>>) = 0
  BY EmptySeq
<1>6. QueueInv(done)
  BY <1>3, <1>4, <1>5 DEF QueueInv
<1>7. DirInv(done)
  BY <1>3, <1>4, <1>5 DEF DirInv, Contains, IsInjective
<1>8. PlayInv(done)
  BY <1>3, <1>4, <1>5 DEF PlayInv, Played, InOrder
<1> QED  BY <1>1, <1>2, <1>3, <1>6, <1>7, <1>8 DEF IndInv

\* Every step of the HTTP/2 thread, the main loop and the PortAudio thread
\* keeps it.
LEMMA PipelineStep == IndInv /\ [Next]_vars => IndInv'
<1> SUFFICES ASSUME IndInv, [Next]_vars PROVE IndInv'
  OBVIOUS
<1>0. TypeOK /\ NoLostWakeup
  BY DEF IndInv
<1>1. PICK done \in [Dirs -> -1..Chunks] : QueueInv(done) /\ DirInv(done) /\ PlayInv(done)
  BY DEF IndInv
<1>2. Chunks \in Nat \ {0} /\ 0 \in 0..Chunks
  BY PipelineAssumption
<1>3. \A d \in Dirs : done[d] <= done[d]
  BY <1>2
<1>4. \* a push by the HTTP/2 thread
      ASSUME NEW d \in Dirs, rx = "idle", rx' = "pushed", sent[d] \in -1..(Chunks - 1),
             sent' = [sent EXCEPT ![d] = @ + 1],
             recv_pendings' = Append(recv_pendings, [dir |-> d, chunk |-> sent[d] + 1]),
             UNCHANGED <<efd, draining, dirVars, pcmVars, outVars>>
      PROVE  IndInv'
  <2>0. sent[d] < Chunks
    BY <1>2, <1>4
  <2>1. QueueInv(done)'
    BY <1>0, <1>1, <1>4, <2>0, PushQueue
  <2>2. DirInv(done)'
    BY <1>1, <1>3, <1>4, DirKept
  <2>3. PlayInv(done)'
    BY <1>0, <1>1, <1>3, <1>4, PlayKept DEF dirVars, pcmVars, outVars
  <2>4. TypeOK'
    <3> DEFINE It == [dir : Dirs, chunk : 0..Chunks]
               e == [dir |-> d, chunk |-> sent[d] + 1]
    <3>1. e \in It /\ recv_pendings \in Seq(It)
      BY <1>0, <1>2, <1>4 DEF TypeOK
    <3>2. recv_pendings' \in Seq(It)
      <4> HIDE DEF e, It
      <4>1. Append(recv_pendings, e) \in Seq(It)
        BY <3>1, AppendFacts
      <4> QED  BY <1>4, <4>1 DEF e
    <3>3. sent' \in [Dirs -> -1..Chunks]
      BY <1>0, <1>2, <1>4 DEF TypeOK
    <3> QED  BY <1>0, <1>4, <3>2, <3>3 DEF TypeOK, dirVars, pcmVars, outVars
  <2>5. NoLostWakeup'
    BY <1>4 DEF NoLostWakeup
  <2> QED  BY <1>1, <2>1, <2>2, <2>3, <2>4, <2>5 DEF IndInv
<1>5. ASSUME NEW d \in Dirs, ReceiveDirective(d) PROVE IndInv'
  <2>1. /\ rx = "idle" /\ rx' = "pushed" /\ sent[d] = -1
        /\ sent' = [sent EXCEPT ![d] = 0]
        /\ recv_pendings' = Append(recv_pendings, [dir |-> d, chunk |-> 0])
        /\ UNCHANGED <<efd, draining, dirVars, pcmVars, outVars>>
    BY <1>5 DEF ReceiveDirective
  <2>2. sent[d] + 1 = 0 /\ sent[d] \in -1..(Chunks - 1)
    BY <1>2, <2>1
  <2>3. sent' = [sent EXCEPT ![d] = @ + 1]
    BY <2>1, <2>2
  <2> QED  BY <1>4, <2>1, <2>2, <2>3
<1>6. ASSUME NEW d \in Dirs, ReceiveAttachment(d) PROVE IndInv'
  <2>1. /\ rx = "idle" /\ rx' = "pushed" /\ sent[d] \in 0..(Chunks - 1)
        /\ sent' = [sent EXCEPT ![d] = @ + 1]
        /\ recv_pendings' = Append(recv_pendings, [dir |-> d, chunk |-> sent[d] + 1])
        /\ UNCHANGED <<efd, draining, dirVars, pcmVars, outVars>>
    BY <1>6 DEF ReceiveAttachment
  <2>2. sent[d] \in -1..(Chunks - 1)
    BY <1>2, <2>1
  <2> QED  BY <1>4, <2>1, <2>2
<1>7. \* a step that leaves the queue, the directives and the sound alone
      ASSUME TypeOK', NoLostWakeup', UNCHANGED <<sent, recv_pendings, dirVars, heard>>,
             pcm'.data = pcm.data, pcm'.stream = pcm.stream
      PROVE  IndInv'
  <2>1. QueueInv(done)'
    BY <1>1, <1>7 DEF QueueInv
  <2>2. DirInv(done)'
    BY <1>1, <1>3, <1>7, DirKept
  <2>3. PlayInv(done)'
    BY <1>0, <1>1, <1>3, <1>7, PlayKept DEF dirVars
  <2> QED  BY <1>1, <1>7, <2>1, <2>2, <2>3 DEF IndInv
<1>8. \* a step that stops the PCM device
      ASSUME TypeOK', NoLostWakeup', UNCHANGED <<sent, recv_pendings, dirVars, heard>>,
             pcm' = Stopped
      PROVE  IndInv'
  <2>1. QueueInv(done)'
    BY <1>1, <1>8 DEF QueueInv
  <2>2. DirInv(done)'
    BY <1>1, <1>3, <1>8, DirKept
  <2>3. pcm'.data = <<>> /\ pcm'.stream = FALSE
    BY <1>8 DEF Stopped
  <2>4. PlayInv(done)'
    BY <1>0, <1>1, <1>3, <1>8, <2>3, PlayCleared DEF dirVars
  <2> QED  BY <1>1, <1>8, <2>1, <2>2, <2>4 DEF IndInv
<1>9. CASE Signal
  <2>1. TypeOK'
    BY <1>0, <1>9 DEF Signal, TypeOK, dirVars, pcmVars, outVars
  <2>2. NoLostWakeup'
    BY <1>9 DEF Signal, NoLostWakeup
  <2> QED  BY <1>7, <1>9, <2>1, <2>2 DEF Signal, pcmVars, outVars
<1>10. CASE OnEvent
  <2>1. TypeOK'
    BY <1>0, <1>10 DEF OnEvent, TypeOK, rxVars, dirVars, pcmVars, outVars
  <2>2. NoLostWakeup'
    BY <1>10 DEF OnEvent, NoLostWakeup
  <2> QED  BY <1>7, <1>10, <2>1, <2>2 DEF OnEvent, rxVars, pcmVars, outVars
<1>11. CASE OnEventReturns
  <2>1. TypeOK'
    BY <1>0, <1>11 DEF OnEventReturns, TypeOK, rxVars, pendingVars, dirVars, pcmVars, outVars
  <2>2. NoLostWakeup'
    BY <1>11 DEF OnEventReturns, NoLostWakeup, pendingVars
  <2> QED  BY <1>7, <1>11, <2>1, <2>2 DEF OnEventReturns, rxVars, pendingVars, pcmVars, outVars
<1>12. Stopped \in [data : Seq(Dirs \X (1..Chunks)), is_last : BOOLEAN,
                    stream : BOOLEAN, done : BOOLEAN]
  BY EmptySeq DEF Stopped
<1>13. CASE Unfocus
  <2>1. TypeOK'
    <3> HIDE DEF Stopped
    <3> QED  BY <1>0, <1>12, <1>13 DEF Unfocus, TypeOK, rxVars, pendingVars, dirVars, outVars
  <2>2. NoLostWakeup'
    BY <1>0, <1>13 DEF Unfocus, NoLostWakeup, rxVars, pendingVars
  <2> QED  BY <1>8, <1>13, <2>1, <2>2 DEF Unfocus, rxVars, pendingVars, outVars
<1>14. CASE EndOfStream
  <2>1. TypeOK'
    <3>1. eos' \in Nat
      BY <1>0, <1>14 DEF EndOfStream, TypeOK
    <3>2. finished' \subseteq Dirs \cup {None}
      BY <1>0, <1>14 DEF EndOfStream, TypeOK
    <3> QED
      BY <1>0, <1>12, <1>14, <3>1, <3>2
      DEF EndOfStream, TypeOK, rxVars, pendingVars, dirVars
  <2>2. NoLostWakeup'
    BY <1>0, <1>14 DEF EndOfStream, NoLostWakeup, rxVars, pendingVars
  <2>3. /\ UNCHANGED <<sent, recv_pendings, dirVars, heard>>
        /\ pcm' = Stopped \/ pcm' = pcm
    BY <1>14 DEF EndOfStream, rxVars, pendingVars
  <2> QED  BY <1>7, <1>8, <2>1, <2>2, <2>3
<1>15. CASE PlayFrame
  <2>1. /\ PlayInv(done)' /\ heard' \in Seq(Dirs \X (1..Chunks))
        /\ pcm'.data \in Seq(Dirs \X (1..Chunks))
    BY <1>0, <1>1, <1>15, PlayHeard
  <2>2. QueueInv(done)'
    BY <1>1, <1>15 DEF PlayFrame, QueueInv, rxVars, pendingVars
  <2>3. DirInv(done)'
    BY <1>1, <1>3, <1>15, DirKept DEF PlayFrame
  <2>4. TypeOK'
    <3>1. pcm' \in [data : Seq(Dirs \X (1..Chunks)), is_last : BOOLEAN,
                    stream : BOOLEAN, done : BOOLEAN]
      BY <1>0, <1>15, <2>1 DEF PlayFrame, TypeOK
    <3> QED
      BY <1>0, <1>15, <2>1, <3>1 DEF PlayFrame, TypeOK, rxVars, pendingVars, dirVars
  <2>5. NoLostWakeup'
    BY <1>0, <1>15 DEF PlayFrame, NoLostWakeup, rxVars, pendingVars
  <2> QED  BY <1>1, <2>1, <2>2, <2>3, <2>4, <2>5 DEF IndInv
<1>16. CASE SeeEmpty
  <2>1. TypeOK'
    BY <1>0, <1>16 DEF SeeEmpty, TypeOK, rxVars, pendingVars, dirVars, outVars
  <2>2. NoLostWakeup'
    BY <1>0, <1>16 DEF SeeEmpty, NoLostWakeup, rxVars, pendingVars
  <2> QED  BY <1>7, <1>16, <2>1, <2>2 DEF SeeEmpty, rxVars, pendingVars, outVars
<1>17. CASE SeeLast
  <2>1. TypeOK'
    <3>1. eos' \in Nat
      BY <1>0, <1>17 DEF SeeLast, TypeOK
    <3>2. pcm' \in [data : Seq(Dirs \X (1..Chunks)), is_last : BOOLEAN,
                    stream : BOOLEAN, done : BOOLEAN]
      BY <1>0, <1>17 DEF SeeLast, TypeOK
    <3> QED
      BY <1>0, <1>17, <3>1, <3>2 DEF SeeLast, TypeOK, rxVars, pendingVars, dirVars
  <2>2. NoLostWakeup'
    BY <1>0, <1>17 DEF SeeLast, NoLostWakeup, rxVars, pendingVars
  <2>3. pcm'.data = pcm.data /\ pcm'.stream = pcm.stream
    BY <1>0, <1>17 DEF SeeLast, TypeOK
  <2> QED  BY <1>7, <1>17, <2>1, <2>2, <2>3 DEF SeeLast, rxVars, pendingVars
<1>18. CASE UNCHANGED vars
  <2>1. /\ UNCHANGED <<sent, recv_pendings, dirVars, heard>>
        /\ pcm'.data = pcm.data /\ pcm'.stream = pcm.stream
    BY <1>18 DEF vars, rxVars, pendingVars, pcmVars, outVars
  <2>2. TypeOK' /\ NoLostWakeup'
    BY <1>0, <1>18
    DEF vars, TypeOK, NoLostWakeup, rxVars, pendingVars, dirVars, pcmVars, outVars
  <2> QED  BY <1>7, <2>1, <2>2
<1>19. \* an item of d that the main loop takes from the queue
       ASSUME NEW d \in Dirs, NEW c \in 0..Chunks, Popped(d, c)
       PROVE  /\ c = done[d] + 1 /\ done[d] \in Int
              /\ [done EXCEPT ![d] = c] \in [Dirs -> -1..Chunks]
              /\ QueueInv([done EXCEPT ![d] = c])'
              /\ \A e \in Dirs : done[e] <= [done EXCEPT ![d] = c][e]
              /\ recv_pendings' \in Seq([dir : Dirs, chunk : 0..Chunks])
              /\ NoLostWakeup'
  <2>1. /\ done[d] \in Int /\ c = done[d] + 1
        /\ [done EXCEPT ![d] = c] \in [Dirs -> -1..Chunks]
        /\ QueueInv([done EXCEPT ![d] = c])'
    BY <1>0, <1>1, <1>19, PopQueue
  <2>2. ASSUME NEW e \in Dirs PROVE done[e] <= [done EXCEPT ![d] = c][e]
    <3>1. done[e] \in Int
      BY <1>2
    <3> QED  BY <2>1, <3>1
  <2>3. recv_pendings' \in Seq([dir : Dirs, chunk : 0..Chunks])
    <3> DEFINE It == [dir : Dirs, chunk : 0..Chunks]
    <3>1. recv_pendings \in Seq(It) /\ recv_pendings # <<>> /\ recv_pendings' = Tail(recv_pendings)
      BY <1>0, <1>19 DEF TypeOK, Popped
    <3> HIDE DEF It
    <3>2. recv_pendings' \in Seq(It)
      BY <3>1, HeadTailProperties
    <3> QED  BY <3>2 DEF It
  <2>4. NoLostWakeup'
    BY <1>19 DEF Popped, NoLostWakeup
  <2> QED  BY <2>1, <2>2, <2>3, <2>4
<1>20. \* a new directive
       ASSUME NEW d \in Dirs, Popped(d, 0)
       PROVE  done[d] = -1 /\ (speak_dir # None => [done EXCEPT ![d] = 0][speak_dir] = done[speak_dir])
  <2>1. 0 = done[d] + 1 /\ done[d] \in Int
    BY <1>2, <1>19, <1>20
  <2>2. done[d] = -1
    BY <2>1
  <2>3. d # speak_dir
    BY <1>0, <1>1, <2>2, NewDirective
  <2>4. speak_dir # None => speak_dir \in Dirs
    BY <1>0 DEF TypeOK
  <2> QED  BY <2>2, <2>3, <2>4
<1>21. ASSUME NEW d \in Dirs, PushUnknown(d) PROVE IndInv'
  <2> DEFINE now == [done EXCEPT ![d] = 0]
  <2>1. Popped(d, 0) /\ UNCHANGED <<dirVars, pcmVars>>
    BY <1>21 DEF PushUnknown
  <2>2. /\ now \in [Dirs -> -1..Chunks] /\ QueueInv(now)' /\ \A e \in Dirs : done[e] <= now[e]
        /\ recv_pendings' \in Seq([dir : Dirs, chunk : 0..Chunks]) /\ NoLostWakeup'
        /\ speak_dir # None => now[speak_dir] = done[speak_dir]
    BY <1>2, <1>19, <1>20, <2>1
  <2> HIDE DEF now
  <2>3. DirInv(now)'
    BY <1>1, <2>1, <2>2, DirKept
  <2>4. PlayInv(now)'
    BY <1>0, <1>1, <2>1, <2>2, PlayKept DEF dirVars, pcmVars, Popped, outVars
  <2>5. TypeOK'
    BY <1>0, <2>1, <2>2 DEF TypeOK, Popped, rxVars, dirVars, pcmVars, outVars
  <2> QED  BY <2>2, <2>3, <2>4, <2>5 DEF IndInv
<1>22. ASSUME NEW d \in Dirs, PushOther(d) PROVE IndInv'
  <2> DEFINE now == [done EXCEPT ![d] = 0]
  <2>1. /\ Popped(d, 0) /\ UNCHANGED <<list_dir, buf, callback, speak_dir, cur_token, pcmVars>>
        /\ freed' = freed \cup ({d} \ {None})
    BY <1>22 DEF PushOther, Destroyed
  <2>2. /\ now \in [Dirs -> -1..Chunks] /\ QueueInv(now)' /\ \A e \in Dirs : done[e] <= now[e]
        /\ recv_pendings' \in Seq([dir : Dirs, chunk : 0..Chunks]) /\ NoLostWakeup'
        /\ speak_dir # None => now[speak_dir] = done[speak_dir]
        /\ done[d] = -1
    BY <1>2, <1>19, <1>20, <2>1
  <2>3. DirInv(now)'
    BY <1>0, <1>1, <1>22, <2>2, DirOther
  <2> HIDE DEF now
  <2>4. PlayInv(now)'
    BY <1>0, <1>1, <2>1, <2>2, PlayKept DEF pcmVars, Popped, outVars
  <2>5. TypeOK'
    BY <1>0, <2>1, <2>2 DEF TypeOK, Popped, rxVars, pcmVars, outVars
  <2> QED  BY <2>2, <2>3, <2>4, <2>5 DEF IndInv
<1>23. ASSUME NEW d \in Dirs, PushBadSpeak(d) PROVE IndInv'
  <2> DEFINE now == [done EXCEPT ![d] = 0]
  <2>1. /\ Popped(d, 0) /\ UNCHANGED <<freed, buf, callback, speak_dir, cur_token, pcmVars>>
    BY <1>23 DEF PushBadSpeak
  <2>2. /\ now \in [Dirs -> -1..Chunks] /\ QueueInv(now)' /\ \A e \in Dirs : done[e] <= now[e]
        /\ recv_pendings' \in Seq([dir : Dirs, chunk : 0..Chunks]) /\ NoLostWakeup'
        /\ speak_dir # None => now[speak_dir] = done[speak_dir]
        /\ done[d] = -1
    BY <1>2, <1>19, <1>20, <2>1
  <2>3. DirInv(now)' /\ list_dir' \in Seq(Dirs)
    BY <1>0, <1>1, <1>23, <2>2, DirBadSpeak
  <2> HIDE DEF now
  <2>4. PlayInv(now)'
    BY <1>0, <1>1, <2>1, <2>2, PlayKept DEF pcmVars, Popped, outVars
  <2>5. TypeOK'
    BY <1>0, <2>1, <2>2, <2>3 DEF TypeOK, Popped, rxVars, pcmVars, outVars
  <2> QED  BY <2>2, <2>3, <2>4, <2>5 DEF IndInv
<1>24. ASSUME NEW d \in Dirs, PushSpeak(d) PROVE IndInv'
  <2> DEFINE now == [done EXCEPT ![d] = 0]
  <2>1. /\ Popped(d, 0) /\ buf' = buf /\ speak_dir' = d /\ cur_token' = d
        /\ callback' = callback \cup {d} /\ owns' = TRUE /\ pa' = "idle"
        /\ freed' = freed \cup ({speak_dir} \ {None})
        /\ pcm' = [Stopped EXCEPT !.stream = TRUE]
    BY <1>24 DEF PushSpeak, Destroyed, Started
  <2>2. /\ now \in [Dirs -> -1..Chunks] /\ QueueInv(now)' /\ \A e \in Dirs : done[e] <= now[e]
        /\ recv_pendings' \in Seq([dir : Dirs, chunk : 0..Chunks]) /\ NoLostWakeup'
        /\ done[d] = -1 /\ now[d] = 0
    BY <1>2, <1>19, <1>20, <2>1
  <2>3. DirInv(now)' /\ list_dir' \in Seq(Dirs)
    BY <1>0, <1>1, <1>24, <2>2, DirSpeak
  <2> HIDE DEF now
  <2>4. PlayInv(now)'
    <3>1. pcm'.data = <<>> /\ heard' = heard /\ callback \subseteq callback' /\ now[speak_dir'] = 0
      BY <2>1, <2>2 DEF Stopped, Popped, outVars
    <3> QED  BY <1>0, <1>1, <2>2, <3>1, PlayCleared
  <2>5. TypeOK'
    <3>1. pcm' \in [data : Seq(Dirs \X (1..Chunks)), is_last : BOOLEAN,
                    stream : BOOLEAN, done : BOOLEAN]
      BY <2>1, EmptySeq DEF Stopped
    <3> QED
      BY <1>0, <2>1, <2>2, <2>3, <3>1 DEF TypeOK, Popped, rxVars, outVars
  <2> QED  BY <2>2, <2>3, <2>4, <2>5 DEF IndInv
<1>25. ASSUME NEW d \in Dirs, PushStop(d) PROVE IndInv'
  <2> DEFINE now == [done EXCEPT ![d] = 0]
  <2>1. /\ Popped(d, 0) /\ UNCHANGED <<buf, callback, cur_token, owns>>
    BY <1>25 DEF PushStop
  <2>2. /\ now \in [Dirs -> -1..Chunks] /\ QueueInv(now)' /\ \A e \in Dirs : done[e] <= now[e]
        /\ recv_pendings' \in Seq([dir : Dirs, chunk : 0..Chunks]) /\ NoLostWakeup'
        /\ speak_dir # None => now[speak_dir] = done[speak_dir]
        /\ done[d] = -1 /\ now[d] = 0
    BY <1>2, <1>19, <1>20, <2>1
  <2>3. ~Contains(list_dir, d) /\ d # None
    BY <1>0, <1>1, <2>2, NewDirective
  <2> HIDE DEF now
  <2>4. CASE /\ list_dir' = StopTTS(list_dir) /\ freed' = Destroyed({d, speak_dir})
             /\ speak_dir' = None /\ pcm' = Stopped /\ pa' = "idle"
    <3>1. freed' = freed \cup {d} \cup ({speak_dir} \ {None})
      BY <2>3, <2>4 DEF Destroyed
    <3>2. list_dir' = RemoveFirst(list_dir, speak_dir)
      BY <2>4 DEF StopTTS
    <3>3. {d} \in SUBSET Dirs /\ \A x \in {d} : now[x] # -1 /\ ~Contains(list_dir, x)
      BY <2>2, <2>3
    <3>4. DirInv(now)' /\ list_dir' \in Seq(Dirs)
      BY <1>0, <1>1, <2>1, <2>2, <2>4, <3>1, <3>2, <3>3, DirCompleted
    <3>5. PlayInv(now)'
      <4>1. pcm'.data = <<>> /\ pcm'.stream = FALSE /\ heard' = heard /\ callback \subseteq callback'
        BY <2>1, <2>4 DEF Stopped, Popped, outVars
      <4> QED  BY <1>0, <1>1, <2>2, <4>1, PlayCleared
    <3>6. TypeOK'
      <4>1. freed' \subseteq Dirs
        BY <1>0, <3>1 DEF TypeOK
      <4> QED
        BY <1>0, <1>12, <2>1, <2>2, <2>4, <3>4, <4>1 DEF TypeOK, Popped, rxVars, outVars
    <3> QED  BY <2>2, <3>4, <3>5, <3>6 DEF IndInv
  <2>5. CASE freed' = Destroyed({d}) /\ UNCHANGED <<list_dir, speak_dir, pcm, pa>>
    <3>1. freed' = freed \cup {d}
      BY <2>3, <2>5 DEF Destroyed
    <3>2. \A e \in Dirs : now[e] = -1 => e # d /\ done[e] = -1
      BY <1>2, <2>2
    <3>3. DirInv(now)'
      BY <1>1, <2>1, <2>3, <2>5, <3>1, <3>2 DEF DirInv
    <3>4. PlayInv(now)'
      BY <1>0, <1>1, <2>1, <2>2, <2>5, PlayKept DEF Popped, outVars
    <3>5. TypeOK'
      BY <1>0, <2>1, <2>2, <2>5, <3>1 DEF TypeOK, Popped, rxVars, outVars
    <3> QED  BY <2>2, <3>3, <3>4, <3>5 DEF IndInv
  <2> QED  BY <1>25, <2>4, <2>5 DEF PushStop
<1>26. \* an attachment that is not of the speech TTSAgent is playing
       ASSUME NEW d \in Dirs, NEW c \in 1..Chunks, Popped(d, c)
       PROVE  /\ c \in 0..Chunks
              /\ d \notin callback \/ ~Contains(list_dir, d) =>
                    (speak_dir # None => [done EXCEPT ![d] = c][speak_dir] = done[speak_dir])
  <2>1. speak_dir # None => speak_dir \in callback /\ Contains(list_dir, speak_dir) /\ speak_dir \in Dirs
    BY <1>0, <1>1 DEF DirInv, TypeOK
  <2> QED  BY <1>2, <2>1
<1>27. ASSUME NEW d \in Dirs, NEW c \in 1..Chunks, DropAttachment(d, c) PROVE IndInv'
  <2> DEFINE now == [done EXCEPT ![d] = c]
  <2>1. Popped(d, c) /\ ~Contains(list_dir, d) /\ UNCHANGED <<dirVars, pcmVars>>
    BY <1>27 DEF DropAttachment
  <2>2. /\ now \in [Dirs -> -1..Chunks] /\ QueueInv(now)' /\ \A e \in Dirs : done[e] <= now[e]
        /\ recv_pendings' \in Seq([dir : Dirs, chunk : 0..Chunks]) /\ NoLostWakeup'
        /\ speak_dir # None => now[speak_dir] = done[speak_dir]
    BY <1>19, <1>26, <2>1
  <2> HIDE DEF now
  <2>3. DirInv(now)'
    BY <1>1, <2>1, <2>2, DirKept
  <2>4. PlayInv(now)'
    BY <1>0, <1>1, <2>1, <2>2, PlayKept DEF dirVars, pcmVars, Popped, outVars
  <2>5. TypeOK'
    BY <1>0, <2>1, <2>2 DEF TypeOK, Popped, rxVars, dirVars, pcmVars, outVars
  <2> QED  BY <2>2, <2>3, <2>4, <2>5 DEF IndInv
<1>28. ASSUME NEW d \in Dirs, NEW c \in 1..Chunks, KeepAttachment(d, c) PROVE IndInv'
  <2> DEFINE now == [done EXCEPT ![d] = c]
  <2>1. /\ Popped(d, c) /\ Contains(list_dir, d) /\ d \notin callback
        /\ buf' = [buf EXCEPT ![d] = Append(@, c)]
        /\ UNCHANGED <<list_dir, freed, callback, speak_dir, cur_token, pcmVars>>
    BY <1>28 DEF KeepAttachment
  <2>2. /\ now \in [Dirs -> -1..Chunks] /\ QueueInv(now)' /\ \A e \in Dirs : done[e] <= now[e]
        /\ recv_pendings' \in Seq([dir : Dirs, chunk : 0..Chunks]) /\ NoLostWakeup'
        /\ speak_dir # None => now[speak_dir] = done[speak_dir]
    BY <1>19, <1>26, <2>1
  <2>3. Kind[d] = "BadSpeak"
    BY <1>1, <2>1 DEF DirInv
  <2> HIDE DEF now
  <2>4. DirInv(now)'
    <3>1. \A e \in Dirs : now[e] = -1 => done[e] = -1
      BY <1>2, <2>2
    <3>2. \A e \in Dirs : buf'[e] # <<>> => Kind[e] = "BadSpeak"
      BY <1>0, <1>1, <2>1, <2>3 DEF DirInv, TypeOK
    <3> QED  BY <1>1, <2>1, <3>1, <3>2 DEF DirInv
  <2>5. PlayInv(now)'
    BY <1>0, <1>1, <2>1, <2>2, PlayKept DEF pcmVars, Popped, outVars
  <2>6. TypeOK'
    <3>1. buf' \in [Dirs -> Seq(1..Chunks)]
      BY <1>0, <2>1 DEF TypeOK
    <3> QED  BY <1>0, <2>1, <2>2, <3>1 DEF TypeOK, Popped, rxVars, pcmVars, outVars
  <2> QED  BY <2>2, <2>4, <2>5, <2>6 DEF IndInv
<1>29. ASSUME NEW d \in Dirs, NEW c \in 1..Chunks, PlayAttachment(d, c) PROVE IndInv'
  <2> DEFINE now == [done EXCEPT ![d] = c]
  <2>1. /\ Popped(d, c) /\ buf' = [buf EXCEPT ![d] = <<>>]
        /\ UNCHANGED <<callback, cur_token, owns, pa>>
        /\ IF c = Chunks
           THEN /\ list_dir' = RemoveFirst(list_dir, d)
                /\ freed' = Destroyed({d})
                /\ speak_dir' = None
           ELSE UNCHANGED <<list_dir, freed, speak_dir>>
    BY <1>29 DEF PlayAttachment
  <2>2. /\ now \in [Dirs -> -1..Chunks] /\ QueueInv(now)' /\ \A e \in Dirs : done[e] <= now[e]
        /\ recv_pendings' \in Seq([dir : Dirs, chunk : 0..Chunks]) /\ NoLostWakeup'
        /\ c = done[d] + 1
    BY <1>19, <1>26, <2>1
  <2>3. /\ PlayInv(now)' /\ pcm'.data \in Seq(Dirs \X (1..Chunks))
        /\ d = speak_dir /\ buf[d] = <<>>
    BY <1>0, <1>1, <1>29, <2>2, PlayChunk
  <2> HIDE DEF now
  <2>4. buf' = buf
    BY <1>0, <2>1, <2>3 DEF TypeOK
  <2>5. DirInv(now)' /\ list_dir' \in Seq(Dirs) /\ freed' \subseteq Dirs
    <3>1. CASE c = Chunks
      <4>1. /\ list_dir' = RemoveFirst(list_dir, speak_dir) /\ speak_dir' = None
            /\ freed' = freed \cup {} \cup ({speak_dir} \ {None})
        BY <2>1, <2>3, <3>1 DEF Destroyed
      <4>2. {} \in SUBSET Dirs /\ \A x \in {} : now[x] # -1 /\ ~Contains(list_dir, x)
        OBVIOUS
      <4>3. DirInv(now)' /\ list_dir' \in Seq(Dirs)
        BY <1>0, <1>1, <2>1, <2>2, <2>4, <4>1, <4>2, DirCompleted
      <4> QED  BY <1>0, <4>1, <4>3 DEF TypeOK
    <3>2. CASE c # Chunks
      <4>1. UNCHANGED dirVars
        BY <2>1, <2>4, <3>2 DEF dirVars
      <4>2. DirInv(now)'
        BY <1>1, <2>2, <4>1, DirKept
      <4> QED  BY <1>0, <4>1, <4>2 DEF TypeOK, dirVars
    <3> QED  BY <3>1, <3>2
  <2>6. TypeOK'
    <3>1. pcm' \in [data : Seq(Dirs \X (1..Chunks)), is_last : BOOLEAN,
                    stream : BOOLEAN, done : BOOLEAN]
      <4>1. \E x : pcm' = [pcm EXCEPT !.data = @ \o x, !.is_last = @ \/ c = Chunks]
        BY <1>29 DEF PlayAttachment
      <4> QED  BY <1>0, <2>3, <4>1 DEF TypeOK
    <3>2. speak_dir' \in Dirs \cup {None}
      BY <1>0, <2>1 DEF TypeOK
    <3> QED
      BY <1>0, <2>1, <2>2, <2>4, <2>5, <3>1, <3>2 DEF TypeOK, Popped, rxVars, outVars
  <2> QED  BY <2>2, <2>3, <2>5, <2>6 DEF IndInv
<1>30. CASE Handle
  BY <1>21, <1>22, <1>23, <1>24, <1>25, <1>27, <1>28, <1>29, <1>30 DEF Handle
<1>31. CASE \E d \in Dirs : ReceiveDirective(d) \/ ReceiveAttachment(d)
  BY <1>5, <1>6, <1>31
<1> QED
  BY <1>9, <1>10, <1>11, <1>13, <1>14, <1>15, <1>16, <1>17, <1>18, <1>30, <1>31 DEF Next

(***************************************************************************)
(* What follows from it.                                                   *)
(***************************************************************************)

\* In every reachable state of the pipeline the invariant holds.
LEMMA PipelineInv == Spec => []IndInv
  BY PipelineInitInv, PipelineStep, PTL DEF Spec

\* Every variable keeps its type: no item names an attachment that does not
\* exist, and nothing but chunks of directives reaches the PCM device.
THEOREM PipelineTypeOK == Spec => []TypeOK
<1>1. IndInv => TypeOK
  BY DEF IndInv
<1> QED  BY PipelineInv, <1>1, PTL

\* _event_to_main_context() pushes before it signals and on_event() clears the
\* eventfd before it drains: no item is left behind, whatever the interleaving.
THEOREM PipelineNoLostWakeup == Spec => []NoLostWakeup
<1>1. IndInv => NoLostWakeup
  BY DEF IndInv
<1> QED  BY PipelineInv, <1>1, PTL

\* TTSAgent's speak_dir never dangles, and no other directive on the
\* sequencer's list would call TTSAgent back.
THEOREM PipelineSpeakDirTracked == Spec => []SpeakDirTracked
<1>1. IndInv => SpeakDirTracked
  <2> SUFFICES ASSUME IndInv PROVE SpeakDirTracked
    OBVIOUS
  <2>1. PICK done \in [Dirs -> -1..Chunks] : DirInv(done)
    BY DEF IndInv
  <2>2. list_dir \in Seq(Dirs) /\ speak_dir \in Dirs \cup {None}
    BY DEF IndInv, TypeOK
  <2>3. \A i \in 1..Len(list_dir) : list_dir[i] \in Dirs /\ Contains(list_dir, list_dir[i])
    BY <2>2, ElementOfSeq DEF Contains
  <2> QED  BY <2>1, <2>2, <2>3 DEF SpeakDirTracked, DirInv
<1> QED  BY PipelineInv, <1>1, PTL

\* What is heard of a speech is its first chunks, in order and once, for any
\* number of speeches, Stop directives and losses of the speaker.
THEOREM PipelineSpeechesInOrder == Spec => []SpeechesInOrder
<1>1. IndInv => SpeechesInOrder
  <2> SUFFICES ASSUME IndInv PROVE SpeechesInOrder
    OBVIOUS
  <2>1. PICK done \in [Dirs -> -1..Chunks] : PlayInv(done)
    BY DEF IndInv
  <2>2. InOrder(heard) /\ TypeOK
    BY <2>1, HeardInOrder DEF IndInv, PlayInv
  <2>3. DOMAIN heard = 1..Len(heard)
    BY <2>2, PlayTypes, LenProperties
  <2> QED  BY <2>2, <2>3 DEF SpeechesInOrder, InOrder, IsInjective
<1> QED  BY PipelineInv, <1>1, PTL

\* The PCM device only holds chunks of the speech of the current token.
THEOREM PipelinePcmIsCurrent == Spec => []PcmIsCurrent
<1>1. IndInv => PcmIsCurrent
  BY DEF IndInv, PlayInv, PcmIsCurrent
<1> QED  BY PipelineInv, <1>1, PTL

============================================================================
