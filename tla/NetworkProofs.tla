---------------------------- MODULE NetworkProofs ---------------------------
(***************************************************************************)
(* What goes to the server and what comes from it.  For any number of      *)
(* requests and every interleaving of the senders, the network's thread    *)
(* and http2_network_free(): the reference counts, the wakeups, and the    *)
(* refinement of RequestService while curl works.  For any number of       *)
(* sessions and frames: the numbers of the attachments of a Recognize      *)
(* event, and the life of the event.  For any number of directives: their  *)
(* owner, from the queue of the network's thread to the end of the         *)
(* client.  For any number of servers and whatever fails: a connection's   *)
(* thread does not outlive its manager; and where failures do not overtake *)
(* the threads: nothing refers to a manager that was freed.                *)
(***************************************************************************)
EXTENDS Http2Requests, SpeechUpload, DirectiveSequencer, SequenceTheorems,
        FiniteSetTheorems, TLAPS

----------------------------------------------------------------------------
(***************************************************************************)
(* The requests of one HTTP/2 network.                                     *)
(***************************************************************************)

PCs == {"none", "new", "checked", "pushed", "written", "sent", "refused"}

Requests == [pc : PCs, ref : 0..2, freed : BOOLEAN, fin : 0..1, ret : 0..1]

\* The queue and curl hold requests, each once.
HoldersInv ==
    /\ req \in [Reqs -> Requests]
    /\ queue \in Seq(Reqs) /\ hlist \subseteq Reqs
    /\ \A i, j \in 1..Len(queue) : queue[i] = queue[j] => i = j
    /\ \A i \in 1..Len(queue) : queue[i] \notin hlist

Held(r) == Queued(r) \/ r \in hlist

\* The references of a request are those of its creator and of the queue or
\* curl; the latter's stays for ever if the request is dropped with the queue.
RefInv(r) ==
    /\ Held(r) => req[r].fin = 0 /\ r \notin dropped
    /\ req[r].pc \in {"none", "new", "checked", "refused"} =>
          ~Held(r) /\ req[r].fin = 0 /\ r \notin dropped /\ ~req[r].freed
    /\ req[r].pc \in {"new", "checked", "refused"} => req[r].ref = 1
    /\ req[r].pc = "none" => req[r].ref = 0
    /\ req[r].pc \in {"pushed", "written"} =>
          ~req[r].freed /\ req[r].ref >= 1 /\ (Held(r) => req[r].ref = 2)
    /\ req[r].pc = "sent" =>
          (req[r].freed <=> req[r].ref = 0) /\ (Held(r) => req[r].ref = 1)

\* Where the thread is, and what this says about the queue and the eventfd.
ThreadInv ==
    /\ net \in [started : BOOLEAN, running : BOOLEAN, handle : BOOLEAN,
                pc : {"none", "init", "perform", "wait", "drain", "exited"}]
    /\ fd \in BOOLEAN
    /\ net.pc \in {"none", "init"} =>
          /\ ~net.handle /\ queue = <<>>
          /\ \A r \in Reqs : req[r].pc # "checked"
    /\ net.pc \in {"perform", "wait"} /\ queue # <<>> =>
          fd \/ \E r \in Reqs : req[r].pc = "pushed"
    /\ net.pc \in {"perform", "wait", "drain"} /\ ~net.running => free # "no"
    /\ net.pc = "none" <=> ~net.started

IndInv == HoldersInv /\ (\A r \in Reqs : RefInv(r)) /\ ThreadInv

----------------------------------------------------------------------------
\* What the queue holds after a push (http2_network_add_request()).
LEMMA PushFacts ==
    ASSUME queue \in Seq(Reqs), NEW r \in Reqs, queue' = Append(queue, r)
    PROVE  /\ queue' \in Seq(Reqs) /\ queue' # <<>>
           /\ \A s : Queued(s)' <=> Queued(s) \/ s = r
           /\ /\ ~Queued(r)
              /\ \A i, j \in 1..Len(queue) : queue[i] = queue[j] => i = j
              => \A i, j \in 1..Len(queue') : queue'[i] = queue'[j] => i = j
<1>1. /\ queue' \in Seq(Reqs) /\ Len(queue') = Len(queue) + 1 /\ Len(queue) \in Nat
      /\ \A i \in 1..Len(queue) : queue'[i] = queue[i]
      /\ queue'[Len(queue) + 1] = r
  BY AppendProperties, LenProperties
<1>2. \A i \in 1..(Len(queue) + 1) : i \in 1..Len(queue) \/ i = Len(queue) + 1
  BY <1>1
<1>3. \A i \in 1..Len(queue) : i \in 1..(Len(queue) + 1)
  BY <1>1
<1>4. Len(queue) + 1 \in 1..(Len(queue) + 1)
  BY <1>1
<1>5. ASSUME NEW s PROVE Queued(s)' <=> Queued(s) \/ s = r
  BY <1>1, <1>2, <1>3, <1>4 DEF Queued
<1>6. queue' # <<>>
  BY <1>1, EmptySeq
<1>7. ASSUME ~Queued(r), \A i, j \in 1..Len(queue) : queue[i] = queue[j] => i = j
      PROVE  \A i, j \in 1..Len(queue') : queue'[i] = queue'[j] => i = j
  BY <1>1, <1>2, <1>7 DEF Queued
<1> QED  BY <1>1, <1>5, <1>6, <1>7

\* What the queue holds once the thread has taken its first item.
LEMMA TakeFacts ==
    ASSUME queue \in Seq(Reqs), queue # <<>>, queue' = Tail(queue),
           \A i, j \in 1..Len(queue) : queue[i] = queue[j] => i = j
    PROVE  /\ queue' \in Seq(Reqs) /\ Head(queue) \in Reqs /\ Queued(Head(queue))
           /\ \A s : Queued(s)' <=> Queued(s) /\ s # Head(queue)
           /\ \A i, j \in 1..Len(queue') : queue'[i] = queue'[j] => i = j
<1>1. /\ queue' \in Seq(Reqs) /\ Head(queue) \in Reqs /\ Head(queue) = queue[1]
      /\ Len(queue) \in Nat \ {0} /\ Len(queue') = Len(queue) - 1
      /\ \A i \in 1..(Len(queue) - 1) : queue'[i] = queue[i + 1]
  BY HeadTailProperties, EmptySeq, LenProperties
<1> DEFINE n == Len(queue)
<1> HIDE DEF n
<1>2. 1 \in 1..n /\ \A i \in 1..(n - 1) : i + 1 \in 1..n /\ i + 1 # 1
  BY <1>1 DEF n
<1>3. ASSUME NEW s PROVE Queued(s)' <=> Queued(s) /\ s # Head(queue)
  <2>1. ASSUME NEW i \in 1..(n - 1), queue'[i] = s PROVE Queued(s) /\ s # Head(queue)
    <3>1. queue[i + 1] = s /\ i + 1 \in 1..n /\ i + 1 # 1
      BY <1>1, <1>2, <2>1 DEF n
    <3> QED  BY <1>1, <1>2, <3>1 DEF Queued, n
  <2>2. ASSUME NEW i \in 1..n, queue[i] = s, s # Head(queue)
        PROVE  \E j \in 1..(n - 1) : queue'[j] = s
    <3>1. i # 1
      BY <1>1, <2>2
    <3>2. i - 1 \in 1..(n - 1) /\ (i - 1) + 1 = i
      BY <1>1, <3>1 DEF n
    <3>3. queue'[i - 1] = s
      BY <1>1, <2>2, <3>2 DEF n
    <3> QED  BY <3>2, <3>3
  <2> QED  BY <1>1, <2>1, <2>2 DEF Queued, n
<1>4. ASSUME NEW i \in 1..(n - 1), NEW j \in 1..(n - 1), queue'[i] = queue'[j] PROVE i = j
  <2>1. queue[i + 1] = queue[j + 1] /\ i + 1 \in 1..n /\ j + 1 \in 1..n
    BY <1>1, <1>2, <1>4 DEF n
  <2>2. i + 1 = j + 1
    BY <2>1 DEF n
  <2> QED  BY <1>1, <2>2 DEF n
<1>5. Queued(Head(queue))
  BY <1>1, <1>2 DEF Queued, n
<1> QED  BY <1>1, <1>3, <1>4, <1>5 DEF n

\* http2_request_unref() of the requests S, each with a reference to drop.
LEMMA UnrefFacts ==
    ASSUME NEW f \in [Reqs -> Requests], NEW S, S \subseteq Reqs,
           \A r \in S : f[r].ref >= 1
    PROVE  /\ Unref(f, S) \in [Reqs -> Requests]
           /\ \A r \in Reqs \ S : Unref(f, S)[r] = f[r]
           /\ \A r \in S :
                 /\ Unref(f, S)[r].ref = f[r].ref - 1
                 /\ Unref(f, S)[r].freed <=> f[r].ref = 1
                 /\ Unref(f, S)[r].pc = f[r].pc /\ Unref(f, S)[r].fin = f[r].fin
                 /\ Unref(f, S)[r].ret = f[r].ret
<1>1. ASSUME NEW q \in Requests, q.ref >= 1
      PROVE  LET u == Released([q EXCEPT !.ref = @ - 1])
             IN  /\ u \in Requests
                 /\ u.ref = q.ref - 1 /\ (u.freed <=> q.ref = 1)
                 /\ u.pc = q.pc /\ u.fin = q.fin /\ u.ret = q.ret
  <2> DEFINE p == [q EXCEPT !.ref = @ - 1]
             u == Released(p)
  <2>1. p \in Requests /\ p.ref = q.ref - 1 /\ p.pc = q.pc /\ p.fin = q.fin /\ p.ret = q.ret
    BY <1>1 DEF Requests
  <2> HIDE DEF p
  <2>2. u = [p EXCEPT !.freed = (p.ref = 0)]
    BY DEF Released
  <2>3. CASE p.ref = 0
    <3>1. u = [p EXCEPT !.freed = TRUE]
      BY <2>2, <2>3
    <3>2. u \in Requests /\ u.freed = TRUE /\ u.ref = p.ref /\ u.pc = p.pc /\ u.fin = p.fin /\ u.ret = p.ret
      BY <2>1, <3>1 DEF Requests
    <3>3. q.ref = 1
      BY <2>1, <2>3 DEF Requests
    <3> QED  BY <2>1, <3>2, <3>3 DEF p
  <2>4. CASE p.ref # 0
    <3>1. u = [p EXCEPT !.freed = FALSE]
      BY <2>2, <2>4
    <3>2. u \in Requests /\ u.freed = FALSE /\ u.ref = p.ref /\ u.pc = p.pc /\ u.fin = p.fin /\ u.ret = p.ret
      BY <2>1, <3>1 DEF Requests
    <3>3. q.ref # 1
      BY <2>1, <2>4 DEF Requests
    <3> QED  BY <2>1, <3>2, <3>3 DEF p
  <2> QED  BY <2>3, <2>4
<1>2. \A r \in Reqs : f[r] \in Requests
  OBVIOUS
<1>3. \A r \in Reqs :
         Unref(f, S)[r] = IF r \in S THEN Released([f[r] EXCEPT !.ref = @ - 1]) ELSE f[r]
  BY DEF Unref
<1>4. \A r \in S : r \in Reqs /\ Unref(f, S)[r] = Released([f[r] EXCEPT !.ref = @ - 1])
  BY <1>3
<1>5. Unref(f, S) \in [Reqs -> Requests]
  <2>1. \A r \in Reqs : Unref(f, S)[r] \in Requests
    BY <1>1, <1>2, <1>3
  <2>2. Unref(f, S) = [r \in Reqs |-> Unref(f, S)[r]]
    BY DEF Unref
  <2> QED  BY <2>1, <2>2
<1> QED  BY <1>1, <1>2, <1>3, <1>4, <1>5

\* A request that a step does not touch.
LEMMA RefKept ==
    ASSUME NEW s \in Reqs, RefInv(s), req'[s] = req[s], Held(s)' <=> Held(s),
           s \in dropped' <=> s \in dropped
    PROVE  RefInv(s)'
BY DEF RefInv

\* The references and the wakeups are right in a network that was created.
LEMMA RequestsInitInv == RequestsInit => IndInv
<1> SUFFICES ASSUME RequestsInit PROVE IndInv
  OBVIOUS
<1>1. Len(queue) = 0 /\ queue \in Seq(Reqs)
  BY EmptySeq DEF RequestsInit
<1>2. HoldersInv
  BY <1>1 DEF RequestsInit, HoldersInv, NoReq, Requests, PCs
<1>3. ASSUME NEW r \in Reqs PROVE RefInv(r)
  BY <1>1 DEF RequestsInit, RefInv, NoReq, Held, Queued
<1>4. ThreadInv
  BY DEF RequestsInit, ThreadInv, NoReq
<1> QED  BY <1>2, <1>3, <1>4 DEF IndInv

\* Every step of a sender, the thread and http2_network_free() keeps them so.
LEMMA RequestsStep == IndInv /\ [RequestsNext]_requestVars => IndInv'
<1> SUFFICES ASSUME IndInv, [RequestsNext]_requestVars PROVE IndInv'
  OBVIOUS
<1>0. /\ HoldersInv /\ ThreadInv /\ \A r \in Reqs : RefInv(r)
      /\ req \in [Reqs -> Requests] /\ queue \in Seq(Reqs) /\ hlist \subseteq Reqs
      /\ \A i, j \in 1..Len(queue) : queue[i] = queue[j] => i = j
      /\ \A r \in Reqs : req[r] \in Requests
  BY DEF IndInv, HoldersInv
<1>1. \* a step of the creator of r that hands nothing over
      ASSUME NEW r \in Reqs, req' \in [Reqs -> Requests],
             \A s \in Reqs : s # r => req'[s] = req[s],
             UNCHANGED <<queue, hlist, dropped>>, RefInv(r)', ThreadInv'
      PROVE  IndInv'
  <2>1. HoldersInv'
    BY <1>0, <1>1 DEF HoldersInv
  <2>2. \A s \in Reqs : Held(s)' <=> Held(s)
    BY <1>1 DEF Held, Queued
  <2>3. ASSUME NEW s \in Reqs PROVE RefInv(s)'
    BY <1>0, <1>1, <2>2, RefKept
  <2> QED  BY <1>1, <2>1, <2>3 DEF IndInv
<1>2. \* a step that leaves the requests and their holders alone
      ASSUME UNCHANGED <<req, queue, hlist, dropped>>, ThreadInv' PROVE IndInv'
  <2>1. HoldersInv'
    BY <1>0, <1>2 DEF HoldersInv
  <2>2. \A s \in Reqs : Held(s)' <=> Held(s)
    BY <1>2 DEF Held, Queued
  <2>3. ASSUME NEW s \in Reqs PROVE RefInv(s)'
    BY <1>0, <1>2, <2>2, RefKept
  <2> QED  BY <1>2, <2>1, <2>3 DEF IndInv
<1>3. CASE StartNetwork
  <2>1. ThreadInv'
    BY <1>0, <1>3 DEF StartNetwork, ThreadInv
  <2> QED  BY <1>2, <1>3, <2>1 DEF StartNetwork
<1>4. CASE Free
  <2>1. ThreadInv'
    BY <1>0, <1>4 DEF Free, ThreadInv
  <2> QED  BY <1>2, <1>4, <2>1 DEF Free
<1>5. CASE Joined
  <2>1. /\ queue' = <<>> /\ UNCHANGED <<req, fd, net, hlist>> /\ net.pc = "exited"
        /\ dropped' = dropped \cup {queue[i] : i \in 1..Len(queue)} /\ free' = "done"
    BY <1>5 DEF Joined
  <2>2. queue' \in Seq(Reqs) /\ Len(queue') = 0
    BY <2>1, EmptySeq
  <2>3. HoldersInv'
    BY <1>0, <2>1, <2>2 DEF HoldersInv
  <2>4. ASSUME NEW s \in Reqs PROVE RefInv(s)'
    <3>1. /\ ~Queued(s)' /\ (Held(s)' <=> s \in hlist)
          /\ s \in dropped' <=> s \in dropped \/ Queued(s)
      BY <2>1, <2>2 DEF Held, Queued
    <3>2. Queued(s) => s \notin hlist
      BY <1>0 DEF HoldersInv, Queued
    <3> QED  BY <1>0, <2>1, <3>1, <3>2 DEF RefInv, Held
  <2>5. ThreadInv'
    BY <1>0, <2>1 DEF ThreadInv
  <2> QED  BY <2>3, <2>4, <2>5 DEF IndInv
<1>6. CASE LoopStarts
  <2>1. ThreadInv'
    BY <1>0, <1>6 DEF LoopStarts, ThreadInv
  <2> QED  BY <1>2, <1>6, <2>1 DEF LoopStarts
<1>7. CASE Performs
  <2>1. ThreadInv'
    BY <1>0, <1>7 DEF Performs, ThreadInv
  <2> QED  BY <1>2, <1>7, <2>1 DEF Performs
<1>8. CASE WaitReturns
  <2>1. ThreadInv'
    BY <1>0, <1>8 DEF WaitReturns, ThreadInv
  <2> QED  BY <1>2, <1>8, <2>1 DEF WaitReturns
<1>9. CASE Drains
  <2>1. net.pc = "drain" /\ UNCHANGED <<req, fd, free>>
    BY <1>9 DEF Drains
  <2>2. CASE queue = <<>> /\ net' = [net EXCEPT !.pc = "perform"] /\ UNCHANGED <<queue, hlist, dropped>>
    <3>1. ThreadInv'
      BY <1>0, <2>1, <2>2 DEF ThreadInv
    <3> QED  BY <1>2, <2>1, <2>2, <3>1
  <2>3. CASE /\ queue # <<>> /\ queue' = Tail(queue) /\ net' = net
             /\ \/ hlist' = hlist \cup {Head(queue)} /\ dropped' = dropped
                \/ hlist' = hlist /\ dropped' = dropped \cup {Head(queue)}
    <3>1. /\ queue' \in Seq(Reqs) /\ Head(queue) \in Reqs /\ Queued(Head(queue))
          /\ \A s : Queued(s)' <=> Queued(s) /\ s # Head(queue)
          /\ \A i, j \in 1..Len(queue') : queue'[i] = queue'[j] => i = j
      BY <1>0, <2>3, TakeFacts
    <3>2. \A s : (\E i \in 1..Len(queue') : queue'[i] = s) => Queued(s)'
      BY DEF Queued
    <3>3. \A s : Queued(s) => s \notin hlist
      BY <1>0 DEF HoldersInv, Queued
    <3>4. HoldersInv'
      BY <1>0, <2>1, <2>3, <3>1, <3>2, <3>3 DEF HoldersInv
    <3>5. ASSUME NEW s \in Reqs PROVE RefInv(s)'
      <4>1. CASE s # Head(queue)
        <5>1. Held(s)' <=> Held(s)
          BY <2>3, <3>1, <4>1 DEF Held
        <5>2. s \in dropped' <=> s \in dropped
          BY <2>3, <4>1
        <5> QED  BY <1>0, <2>1, <5>1, <5>2, RefKept
      <4>2. CASE s = Head(queue)
        <5>1. Held(s)
          BY <3>1, <4>2 DEF Held
        <5>2. \/ Held(s)' /\ dropped' = dropped
              \/ ~Held(s)'
          BY <2>3, <3>1, <3>3, <4>2 DEF Held
        <5> QED  BY <1>0, <2>1, <5>1, <5>2 DEF RefInv
      <4> QED  BY <4>1, <4>2
    <3>6. ThreadInv'
      BY <1>0, <2>1, <2>3 DEF ThreadInv
    <3> QED  BY <3>4, <3>5, <3>6 DEF IndInv
  <2> QED  BY <1>9, <2>2, <2>3 DEF Drains
<1>10. CASE LoopEnds
  <2>1. /\ net.pc = "perform" /\ net' = [net EXCEPT !.pc = "exited", !.handle = FALSE]
        /\ req' = Unref(req, hlist) /\ hlist' = {} /\ dropped' = dropped \cup hlist
        /\ UNCHANGED <<queue, fd, free>>
    BY <1>10 DEF LoopEnds
  <2>2. \A r \in hlist : Held(r) /\ req[r].ref >= 1
    BY <1>0 DEF RefInv, Held, Requests, PCs
  <2>3. /\ req' \in [Reqs -> Requests]
        /\ \A r \in Reqs \ hlist : req'[r] = req[r]
        /\ \A r \in hlist :
              /\ req'[r].ref = req[r].ref - 1 /\ (req'[r].freed <=> req[r].ref = 1)
              /\ req'[r].pc = req[r].pc /\ req'[r].fin = req[r].fin
    BY <1>0, <2>1, <2>2, UnrefFacts
  <2>4. HoldersInv'
    BY <1>0, <2>1, <2>3 DEF HoldersInv
  <2>5. \A s : (Queued(s)' <=> Queued(s)) /\ (Held(s)' <=> Queued(s))
    BY <2>1 DEF Queued, Held
  <2>6. \A s : Queued(s) => s \notin hlist
    BY <1>0 DEF HoldersInv, Queued
  <2>7. ASSUME NEW s \in Reqs PROVE RefInv(s)'
    <3>1. CASE s \notin hlist
      <4>1. (Held(s)' <=> Held(s)) /\ (s \in dropped' <=> s \in dropped) /\ req'[s] = req[s]
        BY <2>1, <2>3, <2>5, <3>1 DEF Held
      <4> QED  BY <1>0, <4>1, RefKept
    <3>2. CASE s \in hlist
      <4>1. Held(s) /\ ~Held(s)' /\ req[s] \in Requests
        BY <1>0, <2>5, <2>6, <3>2 DEF Held
      <4>2. /\ req'[s].ref = req[s].ref - 1 /\ (req'[s].freed <=> req[s].ref = 1)
            /\ req'[s].pc = req[s].pc /\ req'[s].fin = req[s].fin
        BY <2>3, <3>2
      <4> QED  BY <1>0, <4>1, <4>2 DEF RefInv, Requests
    <3> QED  BY <3>1, <3>2
  <2>8. ThreadInv'
    <3>1. /\ net' \in [started : BOOLEAN, running : BOOLEAN, handle : BOOLEAN,
                       pc : {"none", "init", "perform", "wait", "drain", "exited"}]
          /\ net'.pc = "exited" /\ net'.started = net.started /\ net.started
      BY <1>0, <2>1 DEF ThreadInv
    <3> QED  BY <1>0, <2>1, <3>1 DEF ThreadInv
  <2> QED  BY <2>4, <2>7, <2>8 DEF IndInv
<1>11. ASSUME NEW r \in Reqs, NewRequest(r) PROVE IndInv'
  <2>1. /\ req[r].pc = "none" /\ req' = [req EXCEPT ![r].pc = "new", ![r].ref = 1]
        /\ UNCHANGED <<queue, fd, net, hlist, free, dropped>>
    BY <1>11 DEF NewRequest
  <2>2. /\ req' \in [Reqs -> Requests] /\ \A s \in Reqs : s # r => req'[s] = req[s]
        /\ req'[r] = [req[r] EXCEPT !.pc = "new", !.ref = 1]
    <3> DEFINE v == [req[r] EXCEPT !.pc = "new", !.ref = 1]
    <3>1. req' = [req EXCEPT ![r] = v]
      BY <2>1
    <3>2. v \in Requests
      <4> DEFINE w == [req[r] EXCEPT !.pc = "new"]
      <4>1. w \in Requests
        BY <1>0 DEF Requests, PCs
      <4>2. v = [w EXCEPT !.ref = 1]
        OBVIOUS
      <4> HIDE DEF w, v
      <4> QED  BY <4>1, <4>2 DEF Requests
    <3> HIDE DEF v
    <3>3. req' \in [Reqs -> Requests] /\ req'[r] = v /\ \A s \in Reqs : s # r => req'[s] = req[s]
      BY <1>0, <3>1, <3>2
    <3> QED  BY <3>3 DEF v
  <2>3. /\ req'[r].pc = "new" /\ req'[r].ref = 1
        /\ req'[r].fin = req[r].fin /\ req'[r].freed = req[r].freed
    BY <1>0, <2>2 DEF Requests
  <2>4. RefInv(r)'
    BY <1>0, <2>1, <2>3 DEF RefInv, Held, Queued
  <2>5. ThreadInv'
    BY <1>0, <2>1, <2>2, <2>3 DEF ThreadInv
  <2> QED  BY <1>1, <2>1, <2>2, <2>4, <2>5
<1>12. ASSUME NEW r \in Reqs, AddRequest(r) PROVE IndInv'
  <2>1. /\ req[r].pc = "new" /\ UNCHANGED <<queue, fd, net, hlist, free, dropped>>
        /\ \/ net.handle /\ req' = [req EXCEPT ![r].pc = "checked"]
           \/ req' = [req EXCEPT ![r].pc = "refused", ![r].ret = 0]
    BY <1>12 DEF AddRequest
  <2>2. /\ req' \in [Reqs -> Requests] /\ \A s \in Reqs : s # r => req'[s] = req[s]
    BY <1>0, <2>1 DEF Requests, PCs
  <2>3. /\ (req'[r].pc = "checked" /\ net.handle) \/ req'[r].pc = "refused"
        /\ req'[r].ref = req[r].ref
        /\ req'[r].fin = req[r].fin /\ req'[r].freed = req[r].freed
    BY <1>0, <2>1 DEF Requests
  <2>4. RefInv(r)'
    BY <1>0, <2>1, <2>3 DEF RefInv, Held, Queued
  <2>5. ThreadInv'
    BY <1>0, <2>1, <2>2, <2>3 DEF ThreadInv
  <2> QED  BY <1>1, <2>1, <2>2, <2>4, <2>5
<1>13. ASSUME NEW r \in Reqs, QueueRequest(r) PROVE IndInv'
  <2>1. /\ req[r].pc = "checked" /\ req' = [req EXCEPT ![r] = [Ref(@) EXCEPT !.pc = "pushed"]]
        /\ queue' = Append(queue, r) /\ UNCHANGED <<fd, net, hlist, free, dropped>>
    BY <1>13 DEF QueueRequest
  <2>2. req[r].ref = 1 /\ ~Held(r) /\ req[r].fin = 0 /\ ~req[r].freed /\ r \notin dropped
    BY <1>0, <2>1 DEF RefInv
  <2>3. /\ req' \in [Reqs -> Requests] /\ \A s \in Reqs : s # r => req'[s] = req[s]
        /\ req'[r].pc = "pushed" /\ req'[r].ref = 2
        /\ req'[r].fin = req[r].fin /\ req'[r].freed = req[r].freed
    <3> DEFINE w == Ref(req[r])
               v == [w EXCEPT !.pc = "pushed"]
    <3>1. req' = [req EXCEPT ![r] = v]
      BY <2>1
    <3>2. w \in Requests /\ w.ref = 2 /\ w.fin = req[r].fin /\ w.freed = req[r].freed
      BY <1>0, <2>2 DEF Ref, Requests
    <3> HIDE DEF w
    <3>3. /\ v \in Requests /\ v.pc = "pushed" /\ v.ref = 2
          /\ v.fin = req[r].fin /\ v.freed = req[r].freed
      BY <3>2 DEF Requests, PCs
    <3> HIDE DEF v
    <3> QED  BY <1>0, <3>1, <3>3
  <2>4. /\ queue' \in Seq(Reqs) /\ queue' # <<>>
        /\ \A s : Queued(s)' <=> Queued(s) \/ s = r
        /\ \A i, j \in 1..Len(queue') : queue'[i] = queue'[j] => i = j
    BY <1>0, <2>1, <2>2, PushFacts DEF Held
  <2>5. \A s : Queued(s) \/ s = r => s \notin hlist
    BY <1>0, <2>2 DEF HoldersInv, Queued, Held
  <2>6. \A s : (\E i \in 1..Len(queue') : queue'[i] = s) => Queued(s)'
    BY DEF Queued
  <2>7. HoldersInv'
    BY <1>0, <2>1, <2>3, <2>4, <2>5, <2>6 DEF HoldersInv
  <2>8. ASSUME NEW s \in Reqs PROVE RefInv(s)'
    <3>1. CASE s = r
      BY <2>1, <2>2, <2>3, <3>1 DEF RefInv
    <3>2. CASE s # r
      <4>1. Held(s)' <=> Held(s)
        BY <2>1, <2>4, <3>2 DEF Held
      <4> QED  BY <1>0, <2>1, <2>3, <3>2, <4>1, RefKept
    <3> QED  BY <3>1, <3>2
  <2>9. ThreadInv'
    <3>1. net.pc \notin {"none", "init"}
      BY <1>0, <2>1 DEF ThreadInv
    <3> QED  BY <1>0, <2>1, <2>3, <3>1 DEF ThreadInv
  <2> QED  BY <2>7, <2>8, <2>9 DEF IndInv
<1>14. ASSUME NEW r \in Reqs, Wakeup(r) PROVE IndInv'
  <2>1. /\ req[r].pc = "pushed" /\ fd' = TRUE /\ req' = [req EXCEPT ![r].pc = "written"]
        /\ UNCHANGED <<queue, net, hlist, free, dropped>>
    BY <1>14 DEF Wakeup
  <2>2. /\ req' \in [Reqs -> Requests] /\ \A s \in Reqs : s # r => req'[s] = req[s]
        /\ req'[r].pc = "written" /\ req'[r].ref = req[r].ref
        /\ req'[r].fin = req[r].fin /\ req'[r].freed = req[r].freed
    BY <1>0, <2>1 DEF Requests, PCs
  <2>3. RefInv(r)'
    BY <1>0, <2>1, <2>2 DEF RefInv, Held, Queued
  <2>4. ThreadInv'
    BY <1>0, <2>1, <2>2 DEF ThreadInv
  <2> QED  BY <1>1, <2>1, <2>2, <2>3, <2>4
<1>15. ASSUME NEW r \in Reqs, SendWithFree(r) PROVE IndInv'
  <2> DEFINE u == Unref(req, {r})
  <2>1. /\ req[r].pc = "written" /\ req' = [u EXCEPT ![r].pc = "sent", ![r].ret = 0]
        /\ UNCHANGED <<queue, fd, net, hlist, free, dropped>>
    BY <1>15 DEF SendWithFree
  <2>2. req[r].ref >= 1 /\ (Held(r) => req[r].ref = 2) /\ req[r] \in Requests
    BY <1>0, <2>1 DEF RefInv
  <2>3. /\ u \in [Reqs -> Requests] /\ \A s \in Reqs : s # r => u[s] = req[s]
        /\ u[r].ref = req[r].ref - 1 /\ (u[r].freed <=> req[r].ref = 1)
        /\ u[r].fin = req[r].fin
    BY <1>0, <2>2, UnrefFacts
  <2> HIDE DEF u
  <2>4. /\ req' \in [Reqs -> Requests] /\ \A s \in Reqs : s # r => req'[s] = u[s]
        /\ req'[r].pc = "sent" /\ req'[r].ref = u[r].ref
        /\ req'[r].fin = u[r].fin /\ req'[r].freed = u[r].freed
    <3> DEFINE v == [u[r] EXCEPT !.pc = "sent", !.ret = 0]
    <3>1. req' = [u EXCEPT ![r] = v]
      BY <2>1, <2>3
    <3>2. /\ v \in Requests /\ v.pc = "sent" /\ v.ref = u[r].ref
          /\ v.fin = u[r].fin /\ v.freed = u[r].freed
      <4> DEFINE w == [u[r] EXCEPT !.pc = "sent"]
      <4>1. u[r] \in Requests
        BY <2>3
      <4>2. /\ w \in Requests /\ w.pc = "sent" /\ w.ref = u[r].ref
            /\ w.fin = u[r].fin /\ w.freed = u[r].freed
        BY <4>1 DEF Requests, PCs
      <4>3. v = [w EXCEPT !.ret = 0]
        OBVIOUS
      <4> HIDE DEF w, v
      <4> QED  BY <4>2, <4>3 DEF Requests
    <3> HIDE DEF v
    <3> QED  BY <2>3, <3>1, <3>2
  <2>5. RefInv(r)'
    <3>1. /\ Held(r)' <=> Held(r)
          /\ dropped' = dropped
      BY <2>1 DEF Held, Queued
    <3>2. req[r].ref \in 1..2 /\ req'[r].ref = req[r].ref - 1
      BY <2>2, <2>3, <2>4 DEF Requests
    <3>3. req'[r].freed <=> req'[r].ref = 0
      BY <2>3, <2>4, <3>2
    <3> QED  BY <1>0, <2>2, <2>3, <2>4, <3>1, <3>2, <3>3 DEF RefInv
  <2>6. ThreadInv'
    BY <1>0, <2>1, <2>3, <2>4 DEF ThreadInv
  <2> QED  BY <1>1, <2>1, <2>3, <2>4, <2>5, <2>6
<1>16. ASSUME NEW r \in Reqs, Completes(r) PROVE IndInv'
  <2> DEFINE f == [req EXCEPT ![r] = EmitCompleted(@)]
  <2>1. /\ r \in hlist /\ hlist' = hlist \ {r} /\ req' = Unref(f, {r})
        /\ UNCHANGED <<queue, fd, net, free, dropped>>
    BY <1>16 DEF Completes
  <2>2. Held(r) /\ req[r].fin = 0 /\ r \notin dropped /\ req[r] \in Requests /\ req[r].ref >= 1
    BY <1>0, <2>1 DEF RefInv, Held, Requests, PCs
  <2>3. /\ f \in [Reqs -> Requests] /\ \A s \in Reqs : s # r => f[s] = req[s]
        /\ f[r].ref = req[r].ref /\ f[r].fin = 1 /\ f[r].pc = req[r].pc
    <3> DEFINE v == [req[r] EXCEPT !.fin = 1]
    <3>1. f = [req EXCEPT ![r] = v]
      BY <2>2 DEF EmitCompleted
    <3>2. v \in Requests /\ v.fin = 1 /\ v.ref = req[r].ref /\ v.pc = req[r].pc
      BY <2>2 DEF Requests
    <3> HIDE DEF v, f
    <3> QED  BY <1>0, <3>1, <3>2
  <2> HIDE DEF f
  <2>4. /\ req' \in [Reqs -> Requests] /\ \A s \in Reqs : s # r => req'[s] = f[s]
        /\ req'[r].ref = f[r].ref - 1 /\ (req'[r].freed <=> f[r].ref = 1)
        /\ req'[r].pc = f[r].pc /\ req'[r].fin = f[r].fin
    BY <2>1, <2>2, <2>3, UnrefFacts
  <2>5. \A s : Queued(s) => s \notin hlist
    BY <1>0 DEF HoldersInv, Queued
  <2>6. ~Held(r)' /\ \A s : s # r => (Held(s)' <=> Held(s))
    BY <2>1, <2>5 DEF Held, Queued
  <2>7. HoldersInv'
    BY <1>0, <2>1, <2>4 DEF HoldersInv
  <2>8. ASSUME NEW s \in Reqs PROVE RefInv(s)'
    <3>1. CASE s = r
      <4>1. req'[r].ref = req[r].ref - 1 /\ (req'[r].freed <=> req[r].ref = 1)
            /\ req'[r].pc = req[r].pc
        BY <2>3, <2>4
      <4> QED  BY <1>0, <2>2, <2>6, <3>1, <4>1 DEF RefInv, Requests
    <3>2. CASE s # r
      BY <1>0, <2>1, <2>3, <2>4, <2>6, <3>2, RefKept
    <3> QED  BY <3>1, <3>2
  <2>9. ThreadInv'
    <3>1. \A s \in Reqs : req'[s].pc = req[s].pc
      BY <2>3, <2>4
    <3> QED  BY <1>0, <2>1, <3>1 DEF ThreadInv
  <2> QED  BY <2>7, <2>8, <2>9 DEF IndInv
<1>17. CASE UNCHANGED requestVars
  <2>1. ThreadInv'
    BY <1>0, <1>17 DEF requestVars, ThreadInv
  <2> QED  BY <1>2, <1>17, <2>1 DEF requestVars
<1> QED
  BY <1>3, <1>4, <1>5, <1>6, <1>7, <1>8, <1>9, <1>10, <1>11, <1>12, <1>13, <1>14,
     <1>15, <1>16, <1>17
  DEF RequestsNext, Loop, Send

----------------------------------------------------------------------------
\* The invariant holds in every reachable state.
LEMMA RequestsInv == RequestsSpec => []IndInv
  BY RequestsInitInv, RequestsStep, PTL DEF RequestsSpec

\* Whoever holds a request (its creator, the queue, curl) has a reference of
\* his own and the request is not freed, for any number of requests and
\* whatever curl refuses or drops (http2_request_ref(), http2_request_unref()).
THEOREM RequestsHeldIsAlive == RequestsSpec => []HeldIsAlive
<1>1. IndInv => HeldIsAlive
  <2> SUFFICES ASSUME IndInv, NEW r \in Reqs
               PROVE  /\ Creating(r) \/ Queued(r) \/ r \in hlist => ~req[r].freed
                      /\ req[r].ref >= Cardinality({h \in {"creator", "queue", "curl"} :
                                        \/ h = "creator" /\ Creating(r)
                                        \/ h = "queue" /\ Queued(r)
                                        \/ h = "curl" /\ r \in hlist})
    BY DEF HeldIsAlive
  <2> DEFINE H == {h \in {"creator", "queue", "curl"} :
                      \/ h = "creator" /\ Creating(r)
                      \/ h = "queue" /\ Queued(r)
                      \/ h = "curl" /\ r \in hlist}
  <2>1. RefInv(r) /\ req[r] \in Requests /\ ~(Queued(r) /\ r \in hlist)
    BY DEF IndInv, HoldersInv, Queued
  <2>2. Creating(r) \/ Queued(r) \/ r \in hlist => ~req[r].freed
    BY <2>1 DEF RefInv, Held, Creating, Requests, PCs
  <2>3. req[r].ref \in 0..2
    BY <2>1 DEF Requests
  <2>4. /\ Creating(r) /\ Held(r) => req[r].ref = 2
        /\ Creating(r) \/ Held(r) => req[r].ref >= 1
    BY <2>1 DEF RefInv, Creating, Requests, PCs
  <2>5. \/ H = {} \/ (H = {"creator"} /\ Creating(r))
        \/ (H = {"queue"} /\ Held(r)) \/ (H = {"curl"} /\ Held(r))
        \/ (H = {"creator", "queue"} /\ Creating(r) /\ Held(r))
        \/ (H = {"creator", "curl"} /\ Creating(r) /\ Held(r))
    BY <2>1 DEF Held
  <2>6. /\ Cardinality({}) = 0
        /\ \A x : Cardinality({x}) = 1
        /\ Cardinality({"creator", "queue"}) = 2 /\ Cardinality({"creator", "curl"}) = 2
    <3>1. \A x : IsFiniteSet({x}) /\ Cardinality({x}) = 1
      BY FS_Singleton
    <3>2. ASSUME NEW x, NEW y, x # y PROVE Cardinality({x, y}) = 2
      <4>1. y \notin {x} /\ {x, y} = {x} \cup {y}
        BY <3>2
      <4>2. Cardinality({x} \cup {y}) = Cardinality({x}) + 1
        BY <3>1, <4>1, FS_AddElement
      <4>3. Cardinality({x}) = 1
        BY <3>1
      <4>4. Cardinality({x} \cup {y}) = 2
        BY <4>2, <4>3
      <4>5. {x, y} = {x} \cup {y}
        BY <4>1
      <4> QED  BY <4>4, <4>5, Zenon
    <3> QED  BY <3>1, <3>2, FS_EmptySet
  <2> HIDE DEF H
  <2>7. req[r].ref >= Cardinality(H)
    <3>1. CASE H = {}
      BY <2>3, <2>6, <3>1
    <3>2. CASE (\E x : H = {x}) /\ (Creating(r) \/ Held(r))
      <4>1. Cardinality(H) = 1
        BY <2>6, <3>2
      <4> QED  BY <2>3, <2>4, <3>2, <4>1
    <3>3. CASE H \in {{"creator", "queue"}, {"creator", "curl"}} /\ Creating(r) /\ Held(r)
      <4>1. Cardinality(H) = 2
        BY <2>6, <3>3
      <4> QED  BY <2>3, <2>4, <3>3, <4>1
    <3> QED  BY <2>5, <3>1, <3>2, <3>3
  <2> QED  BY <2>2, <2>7 DEF H
<1> QED  BY RequestsInv, <1>1, PTL

\* When the thread waits in curl_multi_wait(), a queued request has its eventfd
\* set, or its sender is about to write it.
THEOREM RequestsNoLostWakeup == RequestsSpec => []NoLostWakeup
<1>1. IndInv => NoLostWakeup
  BY DEF IndInv, ThreadInv, NoLostWakeup
<1> QED  BY RequestsInv, <1>1, PTL

\* Both, as they are checked
THEOREM RequestsAreSafe == RequestsSpec => []RequestsSafe
<1>1. HeldIsAlive /\ NoLostWakeup => RequestsSafe
  BY DEF RequestsSafe
<1> QED  BY RequestsHeldIsAlive, RequestsNoLostWakeup, <1>1, PTL

(***************************************************************************)
(* The refinement of RequestService.  Its last conjunct, that a pending    *)
(* request settles, is a liveness property and not proved here.            *)
(***************************************************************************)

\* A network that was created is a service that is on.
LEMMA ServiceInit == RequestsInit => Service!Init
BY EmptySeq DEF RequestsInit, Service!Init, Status, NoReq

\* Every step of the network is one of the service or leaves it as it is.
LEMMA ServiceStep ==
    ASSUME "addfail" \notin Inputs, "curlfail" \notin Inputs
    PROVE  IndInv /\ IndInv' /\ [RequestsNext]_requestVars => [Service!Next]_(Service!vars)
<1> SUFFICES ASSUME IndInv, IndInv', [RequestsNext]_requestVars PROVE [Service!Next]_(Service!vars)
  OBVIOUS
<1> DEFINE on == free = "no"
<1>0. /\ HoldersInv /\ ThreadInv /\ \A r \in Reqs : RefInv(r)
      /\ req \in [Reqs -> Requests] /\ req' \in [Reqs -> Requests]
      /\ \A r \in Reqs : req[r] \in Requests
  BY DEF IndInv, HoldersInv
<1>1. ASSUME Status' = Status, free' = free PROVE [Service!Next]_(Service!vars)
  BY <1>1 DEF Service!vars
<1>2. ASSUME UNCHANGED <<dropped, free>>,
             \A r \in Reqs : req'[r].pc = req[r].pc /\ req'[r].fin = req[r].fin
      PROVE  [Service!Next]_(Service!vars)
  <2>1. Status' = Status
    BY <1>2 DEF Status
  <2> QED  BY <1>1, <1>2, <2>1
<1>3. \* one request changes its status
      ASSUME NEW r \in Reqs, NEW st, free' = free,
             Status' = [Status EXCEPT ![r] = st],
             \/ Status[r] = "idle" /\ st \in {"pending", "refused"}
             \/ Status[r] = "pending" /\ st = "done"
      PROVE  [Service!Next]_(Service!vars)
  <2>1. Service!Accept(r) \/ Service!Refuse(r) \/ Service!Complete(r)
    BY <1>3 DEF Service!Accept, Service!Refuse, Service!Complete
  <2> QED  BY <2>1 DEF Service!Next
<1>4. \* requests are dropped
      ASSUME NEW S, S \subseteq Reqs, \A r \in S : Status[r] = "pending",
             free # "no", free' # "no", req' = req \/ (\A r \in Reqs : req'[r].pc = req[r].pc /\ req'[r].fin = req[r].fin),
             dropped' = dropped \cup S
      PROVE  [Service!Next]_(Service!vars)
  <2>1. Status' = [r \in Reqs |-> IF r \in S THEN "dropped" ELSE Status[r]]
    BY <1>4 DEF Status
  <2>2. S \in SUBSET {r \in Reqs : Status[r] = "pending"}
    BY <1>4
  <2>3. (free = "no")' = (free = "no")
    BY <1>4
  <2>4. Service!Drop
    BY <1>4, <2>1, <2>2, <2>3 DEF Service!Drop
  <2> QED  BY <2>4 DEF Service!Next
<1>5. \A r \in Reqs : Held(r) => Status[r] = "pending"
  BY <1>0 DEF RefInv, Status, Requests, PCs
<1>6. CASE Free
  <2>1. UNCHANGED <<req, dropped>> /\ free = "no" /\ free' = "join"
    BY <1>6 DEF Free
  <2>2. Status' = Status
    BY <2>1 DEF Status
  <2>3. Service!End
    BY <2>1, <2>2 DEF Service!End
  <2> QED  BY <2>3 DEF Service!Next
<1>7. CASE Joined
  <2> DEFINE S == {queue[i] : i \in 1..Len(queue)}
  <2>1. /\ free = "join" /\ free' = "done" /\ dropped' = dropped \cup S /\ req' = req
    BY <1>7 DEF Joined
  <2>2. \A r \in S : r \in Reqs /\ Held(r)
    BY <1>0, ElementOfSeq DEF HoldersInv, Held, Queued
  <2> HIDE DEF S
  <2> QED  BY <1>4, <1>5, <2>1, <2>2
<1>8. CASE LoopEnds
  <2>1. /\ net.pc = "perform" /\ ~net.running
        /\ req' = Unref(req, hlist) /\ dropped' = dropped \cup hlist /\ free' = free
    BY <1>8 DEF LoopEnds
  <2>2. free # "no"
    BY <1>0, <2>1 DEF ThreadInv
  <2>3. hlist \subseteq Reqs /\ \A r \in hlist : Held(r) /\ req[r].ref >= 1
    BY <1>0 DEF HoldersInv, RefInv, Held, Requests, PCs
  <2>4. \A r \in Reqs : req'[r].pc = req[r].pc /\ req'[r].fin = req[r].fin
    BY <1>0, <2>1, <2>3, UnrefFacts
  <2> QED  BY <1>4, <1>5, <2>1, <2>2, <2>3, <2>4
<1>9. CASE StartNetwork \/ LoopStarts \/ Performs \/ WaitReturns
  BY <1>2, <1>9 DEF StartNetwork, LoopStarts, Performs, WaitReturns
<1>10. CASE Drains
  BY <1>2, <1>10 DEF Drains
<1>11. ASSUME NEW r \in Reqs, NewRequest(r) PROVE [Service!Next]_(Service!vars)
  <2>1. /\ req[r].pc = "none" /\ req' = [req EXCEPT ![r].pc = "new", ![r].ref = 1]
        /\ UNCHANGED <<dropped, free>>
    BY <1>11 DEF NewRequest
  <2>2. /\ \A s \in Reqs : s # r => req'[s] = req[s]
        /\ req'[r].pc = "new" /\ req'[r].fin = req[r].fin
    BY <1>0, <2>1 DEF Requests
  <2>3. Status' = Status
    BY <2>1, <2>2 DEF Status
  <2> QED  BY <1>1, <2>1, <2>3
<1>12. ASSUME NEW r \in Reqs, AddRequest(r) PROVE [Service!Next]_(Service!vars)
  <2>1. /\ req[r].pc = "new" /\ UNCHANGED <<dropped, free>>
        /\ \/ req' = [req EXCEPT ![r].pc = "checked"]
           \/ req' = [req EXCEPT ![r].pc = "refused", ![r].ret = 0]
    BY <1>12 DEF AddRequest
  <2>2. /\ \A s \in Reqs : s # r => req'[s] = req[s]
        /\ req'[r].pc \in {"checked", "refused"} /\ req'[r].fin = req[r].fin
    BY <1>0, <2>1 DEF Requests
  <2>3. r \notin dropped /\ req[r].fin = 0 /\ Status[r] = "idle"
    BY <1>0, <2>1 DEF RefInv, Status
  <2>4. CASE req'[r].pc = "checked"
    <3>1. Status' = Status
      BY <2>1, <2>2, <2>4 DEF Status
    <3> QED  BY <1>1, <2>1, <3>1
  <2>5. CASE req'[r].pc = "refused"
    <3>1. Status' = [Status EXCEPT ![r] = "refused"]
      BY <2>1, <2>2, <2>3, <2>5 DEF Status
    <3> QED  BY <1>3, <2>1, <2>3, <3>1
  <2> QED  BY <2>2, <2>4, <2>5
<1>13. ASSUME NEW r \in Reqs, QueueRequest(r) PROVE [Service!Next]_(Service!vars)
  <2>1. /\ req[r].pc = "checked" /\ UNCHANGED <<dropped, free>>
        /\ req' = [req EXCEPT ![r] = [Ref(@) EXCEPT !.pc = "pushed"]]
    BY <1>13 DEF QueueRequest
  <2>2. /\ \A s \in Reqs : s # r => req'[s] = req[s]
        /\ req'[r].pc = "pushed" /\ req'[r].fin = req[r].fin
    BY <1>0, <2>1 DEF Ref, Requests
  <2>3. r \notin dropped /\ req[r].fin = 0 /\ Status[r] = "idle"
    BY <1>0, <2>1 DEF RefInv, Status
  <2>4. Status' = [Status EXCEPT ![r] = "pending"]
    BY <2>1, <2>2, <2>3 DEF Status
  <2> QED  BY <1>3, <2>1, <2>3, <2>4
<1>14. ASSUME NEW r \in Reqs, Wakeup(r) PROVE [Service!Next]_(Service!vars)
  <2>1. /\ req[r].pc = "pushed" /\ UNCHANGED <<dropped, free>>
        /\ req' = [req EXCEPT ![r].pc = "written"]
    BY <1>14 DEF Wakeup
  <2>2. /\ \A s \in Reqs : s # r => req'[s] = req[s]
        /\ req'[r].pc = "written" /\ req'[r].fin = req[r].fin
    BY <1>0, <2>1 DEF Requests
  <2>3. Status' = Status
    BY <2>1, <2>2 DEF Status
  <2> QED  BY <1>1, <2>1, <2>3
<1>15. ASSUME NEW r \in Reqs, SendWithFree(r) PROVE [Service!Next]_(Service!vars)
  <2> DEFINE u == Unref(req, {r})
  <2>1. /\ req[r].pc = "written" /\ UNCHANGED <<dropped, free>>
        /\ req' = [u EXCEPT ![r].pc = "sent", ![r].ret = 0]
    BY <1>15 DEF SendWithFree
  <2>2. req[r].ref >= 1
    BY <1>0, <2>1 DEF RefInv
  <2>3. /\ u \in [Reqs -> Requests] /\ \A s \in Reqs : s # r => u[s] = req[s]
        /\ u[r].fin = req[r].fin
    BY <1>0, <2>2, UnrefFacts
  <2> HIDE DEF u
  <2>4. /\ \A s \in Reqs : s # r => req'[s] = req[s]
        /\ req'[r].pc = "sent" /\ req'[r].fin = req[r].fin
    BY <2>1, <2>3 DEF Requests
  <2>5. Status' = Status
    BY <2>1, <2>4 DEF Status
  <2> QED  BY <1>1, <2>1, <2>5
<1>16. ASSUME NEW r \in Reqs, Completes(r) PROVE [Service!Next]_(Service!vars)
  <2> DEFINE f == [req EXCEPT ![r] = EmitCompleted(@)]
  <2>1. /\ r \in hlist /\ req' = Unref(f, {r}) /\ UNCHANGED <<dropped, free>>
    BY <1>16 DEF Completes
  <2>2. Held(r) /\ req[r].fin = 0 /\ r \notin dropped /\ req[r].ref >= 1 /\ req[r] \in Requests
    BY <1>0, <2>1 DEF RefInv, Held, Requests, PCs
  <2>3. /\ f \in [Reqs -> Requests] /\ \A s \in Reqs : s # r => f[s] = req[s]
        /\ f[r].fin = 1 /\ f[r].pc = req[r].pc /\ f[r].ref = req[r].ref
    <3> DEFINE v == [req[r] EXCEPT !.fin = 1]
    <3>1. f = [req EXCEPT ![r] = v]
      BY <2>2 DEF EmitCompleted
    <3>2. v \in Requests /\ v.fin = 1 /\ v.ref = req[r].ref /\ v.pc = req[r].pc
      BY <2>2 DEF Requests
    <3> HIDE DEF v, f
    <3> QED  BY <1>0, <3>1, <3>2
  <2> HIDE DEF f
  <2>4. /\ \A s \in Reqs : s # r => req'[s] = req[s]
        /\ req'[r].pc = req[r].pc /\ req'[r].fin = 1
    BY <2>1, <2>2, <2>3, UnrefFacts
  <2>5. Status' = [Status EXCEPT ![r] = "done"]
    <3>1. /\ Status'[r] = "done"
          /\ \A s \in Reqs : s # r => Status'[s] = Status[s]
      BY <2>1, <2>2, <2>4 DEF Status
    <3>2. /\ Status = [s \in Reqs |-> Status[s]]
          /\ Status' = [s \in Reqs |-> Status'[s]]
      BY DEF Status
    <3> QED  BY <3>1, <3>2
  <2> QED  BY <1>3, <1>5, <2>1, <2>2, <2>5
<1>17. CASE UNCHANGED requestVars
  BY <1>2, <1>17 DEF requestVars
<1> QED
  BY <1>6, <1>7, <1>8, <1>9, <1>10, <1>11, <1>12, <1>13, <1>14, <1>15, <1>16, <1>17
  DEF RequestsNext, Loop, Send

\* While curl neither refuses a request nor fails, the network does step by step
\* what RequestService promises: a request is accepted or refused, completes at
\* most once, and is dropped only after http2_network_free() was called.
THEOREM RequestsImplementService ==
    ASSUME "addfail" \notin Inputs, "curlfail" \notin Inputs
    PROVE  RequestsSpec => Service!Init /\ [][Service!Next]_(Service!vars)
<1>1. RequestsSpec => []IndInv
  BY RequestsInv
<1>2. RequestsSpec => RequestsInit /\ [][RequestsNext]_requestVars
  BY DEF RequestsSpec
<1> QED  BY ServiceInit, ServiceStep, <1>1, <1>2, PTL

----------------------------------------------------------------------------
(***************************************************************************)
(* The upload of speech.                                                   *)
(***************************************************************************)

Syncs == {Quiet, "LISTENING", "SPEECH_START", "SPEECH_END", "TIMEOUT", "FAILED", "DONE"}

ThreadPCs == {"wait", "woken", "frame", "data", "build", "send", "count", "epd", "stop",
              "loop", "enter", "exited"}

Threads == [pc : ThreadPCs, ev : Nat, frames : Nat]

Attachments == [seq : Nat, end : BOOLEAN]

UploadTypes ==
    /\ MaxEvents \in Nat /\ created \in 0..MaxEvents /\ rec_event \in 0..created
    /\ numbers \in [Events -> Nat] /\ attached \in [Events -> Seq(Attachments)]
    /\ sync \in Syncs /\ thread \in Threads /\ thread.ev <= created

\* The thread that reports a state waits where it goes on; an ASR agent that is
\* destroyed has no event.
ReportInv ==
    /\ sync # Quiet => thread.pc \in {"frame", "stop", "loop"}
    /\ sync = "SPEECH_END" => thread.pc = "stop"
    /\ thread.pc = "loop" /\ sync # Quiet => sync = "DONE"
    /\ asr_destroy \in BOOLEAN
    /\ asr_destroy => caller # "up" /\ rec_event = None

NumberedSeq(q) == \A i \in 1..Len(q) : q[i].seq = i - 1 /\ (q[i].end => i = Len(q))

Ended(q) == \E i \in 1..Len(q) : q[i].end

\* The event's number counts its attachments, the one that is being counted not
\* yet; an event whose last attachment was sent is not the thread's any more,
\* and as long as it is the agent's the thread is on its way to DONE.
Counted(e) ==
    /\ attached[e] \in Seq(Attachments) /\ NumberedSeq(attached[e])
    /\ Len(attached[e]) =
          IF thread.pc = "count" /\ thread.ev = e THEN numbers[e] + 1 ELSE numbers[e]
    /\ attached[e] # <<>> => e <= created

Leaves(e) ==
    /\ thread.pc \in {"send", "count"} => thread.ev # e
    /\ rec_event = e => \/ thread.pc = "stop" /\ sync = Quiet
                        \/ thread.pc = "loop" /\ sync = "DONE"

EventInv(e) == Counted(e) /\ (Ended(attached[e]) => Leaves(e))

UploadInv ==
    /\ UploadTypes /\ ReportInv
    /\ thread.pc = "count" => thread.ev # None
    /\ \A e \in Events : EventInv(e)

\* Where nobody restarts or destroys, the thread's event is the agent's.
AliveInv ==
    /\ thread.pc \in {"send", "count"} => thread.ev = rec_event
    /\ misuse = FALSE

\* One more attachment, with the next number
LEMMA AttachmentAdded ==
    ASSUME NEW q \in Seq(Attachments), NumberedSeq(q), ~Ended(q), NEW last \in BOOLEAN,
           NEW n, n = Len(q), NEW r, r = Append(q, [seq |-> n, end |-> last])
    PROVE  /\ r \in Seq(Attachments) /\ NumberedSeq(r) /\ Len(r) = n + 1
           /\ Ended(r) => last
<1>1. PICK a : a = [seq |-> n, end |-> last]
  OBVIOUS
<1>2. a \in Attachments /\ a.seq = n /\ a.end = last /\ n \in Nat
  BY <1>1 DEF Attachments
<1>3. /\ r \in Seq(Attachments) /\ Len(r) = n + 1 /\ r[n + 1] = a
      /\ \A i \in 1..n : r[i] = q[i]
  BY <1>1, <1>2
<1>4. ASSUME NEW i \in 1..(n + 1)
      PROVE  r[i].seq = i - 1 /\ (r[i].end => i = n + 1) /\ (r[i].end => last)
  <2>1. CASE i = n + 1
    BY <1>2, <1>3, <2>1
  <2>2. CASE i # n + 1
    <3>1. i \in 1..n /\ r[i] = q[i]
      BY <1>2, <1>3, <2>2
    <3>2. ~q[i].end /\ q[i].seq = i - 1
      BY <3>1 DEF Ended, NumberedSeq
    <3> QED  BY <3>1, <3>2
  <2> QED  BY <2>1, <2>2
<1> QED  BY <1>3, <1>4 DEF NumberedSeq, Ended

\* A step that sends nothing keeps what is said of every event, if those whose
\* last attachment was sent are still left alone.
LEMMA NothingSent ==
    ASSUME UploadInv, attached' = attached, numbers' = numbers,
           thread.pc = "count" <=> thread'.pc = "count",
           thread.pc = "count" => thread'.ev = thread.ev,
           created' \in Nat, created <= created',
           \A e \in Events : Ended(attached[e]) /\ Leaves(e) /\ e <= created => Leaves(e)'
    PROVE  \A e \in Events : EventInv(e)'
<1> SUFFICES ASSUME NEW e \in Events PROVE EventInv(e)'
  OBVIOUS
<1>1. EventInv(e) /\ created \in Nat /\ e \in Nat
  BY DEF UploadInv, UploadTypes, Events
<1>2. Counted(e)'
  BY <1>1 DEF EventInv, Counted
<1>3. Ended(attached[e]) => e <= created
  <2>1. Ended(attached[e]) => attached[e] # <<>>
    BY DEF Ended
  <2> QED  BY <1>1, <2>1 DEF EventInv, Counted
<1> QED  BY <1>1, <1>2, <1>3 DEF EventInv

\* startListening(), stopListening(), ~ASRAgent(), and the network
LEMMA StartListeningInv == ASSUME UploadInv, StartListening PROVE UploadInv'
<1>1. /\ created < MaxEvents /\ created' = created + 1 /\ rec_event' = created'
      /\ thread' = Notified /\ caller = "up" /\ caller' = caller
      /\ asr_destroy' = asr_destroy /\ sync' = sync
      /\ attached' = attached /\ numbers' = numbers
  BY DEF StartListening, uploadVars
<1>2. /\ created \in Nat /\ rec_event \in 0..created /\ MaxEvents \in Nat
      /\ thread \in Threads /\ thread.ev <= created /\ sync \in Syncs
      /\ numbers \in [Events -> Nat] /\ attached \in [Events -> Seq(Attachments)]
  BY DEF UploadInv, UploadTypes
<1>3. /\ thread' \in Threads /\ thread'.ev = thread.ev
      /\ thread'.pc = IF thread.pc = "wait" THEN "woken" ELSE thread.pc
  BY <1>1, <1>2 DEF Notified, Threads, ThreadPCs
<1>4. UploadTypes'
  <2>1. created' \in 0..MaxEvents /\ rec_event' \in 0..created'
    BY <1>1, <1>2
  <2>2. thread'.ev <= created'
    BY <1>1, <1>2, <1>3 DEF Threads
  <2> QED  BY <1>1, <1>2, <1>3, <2>1, <2>2 DEF UploadTypes
<1>5. ReportInv'
  BY <1>1, <1>3 DEF UploadInv, ReportInv
<1>6. \A e \in Events : EventInv(e)'
  <2>1. ASSUME NEW e \in Events, Leaves(e), e <= created PROVE Leaves(e)'
    <3>1. rec_event' # e
      BY <1>1, <1>2, <2>1 DEF Events
    <3> QED  BY <1>3, <2>1, <3>1 DEF Leaves
  <2> QED  BY <1>1, <1>2, <1>3, <2>1, NothingSent
<1> QED  BY <1>3, <1>4, <1>5, <1>6 DEF UploadInv, None

LEMMA StopListeningInv ==
    ASSUME UploadInv, StopListening \/ RecognizerJoined \/ NetworkChanges
    PROVE  UploadInv'
<1>1. /\ created' = created /\ rec_event' = rec_event /\ thread' = thread /\ sync' = sync
      /\ attached' = attached /\ numbers' = numbers /\ asr_destroy' = asr_destroy
      /\ asr_destroy => caller' # "up" \/ caller' = caller
      /\ caller' = caller \/ caller' = "gone"
  BY DEF StopListening, RecognizerJoined, NetworkChanges, eventVars, uploadVars, mainVars
<1> QED
  BY <1>1 DEF UploadInv, UploadTypes, ReportInv, EventInv, Counted, Leaves

LEMMA DestroyInv == ASSUME UploadInv, Destroy PROVE UploadInv'
<1>1. /\ created' = created /\ rec_event' = None /\ thread' = Notified /\ sync' = sync
      /\ attached' = attached /\ numbers' = numbers /\ asr_destroy' = TRUE
      /\ caller' = "joining"
  BY DEF Destroy, uploadVars
<1>2. /\ created \in Nat /\ thread \in Threads /\ thread.ev <= created /\ sync \in Syncs
      /\ created \in 0..MaxEvents /\ MaxEvents \in Nat
      /\ numbers \in [Events -> Nat] /\ attached \in [Events -> Seq(Attachments)]
  BY DEF UploadInv, UploadTypes
<1>3. /\ thread' \in Threads /\ thread'.ev = thread.ev
      /\ thread'.pc = IF thread.pc = "wait" THEN "woken" ELSE thread.pc
  BY <1>1, <1>2 DEF Notified, Threads, ThreadPCs
<1>4. UploadTypes'
  BY <1>1, <1>2, <1>3 DEF UploadTypes, None
<1>5. ReportInv'
  BY <1>1, <1>3 DEF UploadInv, ReportInv
<1>6. \A e \in Events : EventInv(e)'
  <2>1. ASSUME NEW e \in Events, Leaves(e) PROVE Leaves(e)'
    <3>1. rec_event' # e
      BY <1>1 DEF Events, None
    <3> QED  BY <1>3, <2>1, <3>1 DEF Leaves
  <2> QED  BY <1>1, <1>2, <1>3, <2>1, NothingSent
<1> QED  BY <1>3, <1>4, <1>5, <1>6 DEF UploadInv

\* A step of the thread that sends nothing
LEMMA ThreadGoesOn ==
    ASSUME UploadInv, created' = created, rec_event' = rec_event,
           attached' = attached, numbers' = numbers, asr_destroy' = asr_destroy,
           caller' = caller, sync = Quiet, sync' \in Syncs,
           thread.pc # "count", thread'.pc # "count",
           thread' \in Threads, thread'.ev <= created,
           thread'.pc = "send" => thread'.ev = rec_event,
           sync' # Quiet => thread'.pc \in {"frame", "stop", "loop"},
           sync' = "SPEECH_END" => thread'.pc = "stop",
           thread'.pc = "loop" /\ sync' # Quiet => sync' = "DONE",
           thread.pc = "stop" =>
               thread'.pc = "loop" /\ (sync' = "DONE" \/ (asr_destroy /\ sync' = Quiet))
    PROVE  UploadInv'
<1>1. UploadTypes' /\ created \in Nat
  BY DEF UploadInv, UploadTypes
<1>2. ReportInv'
  BY DEF UploadInv, ReportInv
<1>3. \A e \in Events : EventInv(e)'
  <2>1. ASSUME NEW e \in Events, Leaves(e) PROVE Leaves(e)'
    <3>1. CASE rec_event # e
      BY <2>1, <3>1 DEF Leaves
    <3>2. CASE rec_event = e
      <4>1. thread.pc = "stop" /\ ~asr_destroy
        BY <2>1, <3>2 DEF Leaves, UploadInv, ReportInv, Events, None, Quiet
      <4> QED  BY <3>2, <4>1 DEF Leaves
    <3> QED  BY <3>1, <3>2
  <2> QED  BY <1>1, <2>1, NothingSent
<1> QED  BY <1>1, <1>2, <1>3 DEF UploadInv

\* All steps of the thread but the two that send and count an attachment
LEMMA ThreadQuietInv ==
    ASSUME UploadInv,
           \/ Wakes \/ Frame \/ ChecksEvent \/ BuildsEvent \/ EndPoint \/ Stops
           \/ LoopHead \/ Waits
    PROVE  UploadInv'
<1>1. /\ thread \in Threads /\ thread.ev <= created /\ created \in Nat
      /\ rec_event \in 0..created /\ sync \in Syncs
  BY DEF UploadInv, UploadTypes
<1>2. /\ created' = created /\ rec_event' = rec_event /\ attached' = attached
      /\ numbers' = numbers /\ asr_destroy' = asr_destroy /\ caller' = caller
      /\ sync = Quiet
  BY DEF Wakes, Frame, ChecksEvent, BuildsEvent, EndPoint, Stops, LoopHead, Waits,
     mainVars, eventVars, uploadVars, At
<1>3. ASSUME NEW pc \in ThreadPCs, Goes(pc)
      PROVE  thread' \in Threads /\ thread'.ev = thread.ev /\ thread'.pc = pc
  BY <1>1, <1>3 DEF Goes, Threads
<1>4. CASE Wakes
  <2>1. thread.pc = "woken"
    BY <1>4 DEF Wakes, At
  <2>2. CASE (Goes("loop") \/ Goes("exited")) /\ sync' = sync
    <3>1. PICK pc \in {"loop", "exited"} : Goes(pc)
      BY <2>2
    <3>2. pc \in ThreadPCs
      BY DEF ThreadPCs
    <3>3. thread' \in Threads /\ thread'.ev = thread.ev /\ thread'.pc = pc
      BY <1>3, <3>1, <3>2
    <3> QED  BY <1>1, <1>2, <2>1, <2>2, <3>3, ThreadGoesOn DEF Quiet, Syncs
  <2>3. CASE /\ thread' = [thread EXCEPT !.pc = "frame", !.frames = 0]
             /\ sync' = "LISTENING"
    <3>1. thread' \in Threads /\ thread'.ev = thread.ev /\ thread'.pc = "frame"
      BY <1>1, <2>3 DEF Threads, ThreadPCs
    <3> QED  BY <1>1, <1>2, <2>1, <2>3, <3>1, ThreadGoesOn DEF Quiet, Syncs
  <2> QED  BY <1>4, <2>2, <2>3 DEF Wakes
<1>5. CASE Frame
  <2>1. thread.pc = "frame"
    BY <1>5 DEF Frame, At
  <2>2. CASE Goes("stop") /\ (sync' = sync \/ sync' = "FAILED")
    <3>1. thread' \in Threads /\ thread'.ev = thread.ev /\ thread'.pc = "stop"
      BY <1>3, <2>2 DEF ThreadPCs
    <3> QED  BY <1>1, <1>2, <2>1, <2>2, <3>1, ThreadGoesOn DEF Quiet, Syncs
  <2>3. CASE /\ \E pc \in {"data", "epd"} :
                    thread' = [thread EXCEPT !.pc = pc, !.frames = @ + 1]
             /\ sync' = sync
    <3>1. PICK pc \in {"data", "epd"} :
             thread' = [thread EXCEPT !.pc = pc, !.frames = @ + 1]
      BY <2>3
    <3>2. thread.frames + 1 \in Nat /\ pc \in ThreadPCs
      BY <1>1 DEF Threads, ThreadPCs
    <3>3. thread' \in Threads /\ thread'.ev = thread.ev /\ thread'.pc = pc
      BY <1>1, <3>1, <3>2 DEF Threads
    <3> QED  BY <1>1, <1>2, <2>1, <2>3, <3>3, ThreadGoesOn DEF Quiet, Syncs
  <2> QED  BY <1>5, <2>2, <2>3 DEF Frame, Reports
<1>6. CASE BuildsEvent
  <2>1. /\ thread.pc = "build" /\ sync' = sync
        /\ thread' = [thread EXCEPT !.pc = "send", !.ev = rec_event]
    BY <1>6 DEF BuildsEvent, At
  <2>2. thread' \in Threads /\ thread'.ev = rec_event /\ thread'.pc = "send"
    <3>1. rec_event \in Nat /\ "send" \in ThreadPCs
      BY <1>1 DEF ThreadPCs
    <3> QED  BY <1>1, <2>1, <3>1 DEF Threads
  <2> QED  BY <1>1, <1>2, <2>1, <2>2, ThreadGoesOn DEF Quiet, Syncs
<1>7. CASE EndPoint
  <2>1. /\ thread.pc = "epd"
        /\ \/ Goes("frame") /\ (sync' = sync \/ sync' = "SPEECH_START")
           \/ Goes("stop") /\ (sync' = "SPEECH_END" \/ sync' = "TIMEOUT")
    BY <1>7 DEF EndPoint, At, Reports
  <2>2. CASE Goes("frame") /\ (sync' = sync \/ sync' = "SPEECH_START")
    <3>1. thread' \in Threads /\ thread'.ev = thread.ev /\ thread'.pc = "frame"
      BY <1>3, <2>2 DEF ThreadPCs
    <3> QED  BY <1>1, <1>2, <2>1, <2>2, <3>1, ThreadGoesOn DEF Quiet, Syncs
  <2>3. CASE Goes("stop") /\ (sync' = "SPEECH_END" \/ sync' = "TIMEOUT")
    <3>1. thread' \in Threads /\ thread'.ev = thread.ev /\ thread'.pc = "stop"
      BY <1>3, <2>3 DEF ThreadPCs
    <3> QED  BY <1>1, <1>2, <2>1, <2>3, <3>1, ThreadGoesOn DEF Quiet, Syncs
  <2> QED  BY <2>1, <2>2, <2>3
<1>8. CASE Stops
  <2>1. /\ thread.pc = "stop" /\ Goes("loop")
        /\ IF asr_destroy THEN sync' = sync ELSE sync' = "DONE"
    BY <1>8 DEF Stops, At, Reports
  <2>2. thread' \in Threads /\ thread'.ev = thread.ev /\ thread'.pc = "loop"
    BY <1>3, <2>1 DEF ThreadPCs
  <2>3. sync' = "DONE" \/ (asr_destroy /\ sync' = Quiet)
    BY <1>2, <2>1
  <2> QED  BY <1>1, <1>2, <2>1, <2>2, <2>3, ThreadGoesOn DEF Quiet, Syncs
<1>9. CASE ChecksEvent \/ LoopHead \/ Waits
  <2>1. PICK pc \in {"epd", "build", "exited", "enter", "wait"} : Goes(pc)
    BY <1>9 DEF ChecksEvent, LoopHead, Waits
  <2>2. thread.pc \in {"data", "loop", "enter"} /\ sync' = sync /\ pc \in ThreadPCs
    BY <1>9 DEF ChecksEvent, LoopHead, Waits, At, ThreadPCs
  <2>3. thread' \in Threads /\ thread'.ev = thread.ev /\ thread'.pc = pc
    BY <1>3, <2>1, <2>2
  <2> QED  BY <1>1, <1>2, <2>2, <2>3, ThreadGoesOn DEF Quiet, Syncs
<1> QED  BY <1>4, <1>5, <1>6, <1>7, <1>8, <1>9

\* The thread's attachment is sent to an event that has not ended, ...
LEMMA SendsAttachmentInv == ASSUME UploadInv, SendsAttachment PROVE UploadInv'
<1>1. /\ thread \in Threads /\ thread.ev <= created /\ created \in Nat
      /\ rec_event \in 0..created /\ sync \in Syncs /\ created \in 0..MaxEvents /\ MaxEvents \in Nat
      /\ numbers \in [Events -> Nat] /\ attached \in [Events -> Seq(Attachments)]
  BY DEF UploadInv, UploadTypes
<1>2. /\ created' = created /\ rec_event' = rec_event /\ asr_destroy' = asr_destroy
      /\ caller' = caller /\ sync = Quiet /\ sync' = sync /\ numbers' = numbers
      /\ thread.pc = "send"
  BY DEF SendsAttachment, mainVars, eventVars, At
<1>3. CASE Goes("epd") /\ attached' = attached
  <2>1. thread' \in Threads /\ thread'.ev = thread.ev /\ thread'.pc = "epd"
    BY <1>1, <1>3 DEF Goes, Threads, ThreadPCs
  <2> QED  BY <1>1, <1>2, <1>3, <2>1, ThreadGoesOn DEF Quiet, Syncs
<1>4. CASE /\ thread.ev # None
           /\ attached' = [attached EXCEPT ![thread.ev] =
                               Append(@, [seq |-> numbers[thread.ev], end |-> FALSE])]
           /\ Goes("count")
  <2>1. thread' \in Threads /\ thread'.ev = thread.ev /\ thread'.pc = "count"
    BY <1>1, <1>4 DEF Goes, Threads, ThreadPCs
  <2>2. PICK k \in Events : k = thread.ev
    BY <1>1, <1>4 DEF Events, None, Threads
  <2>3. EventInv(k) /\ ~Ended(attached[k]) /\ Len(attached[k]) = numbers[k]
    BY <1>2, <2>2 DEF UploadInv, EventInv, Counted, Leaves
  <2>4. attached'[k] = Append(attached[k], [seq |-> numbers[k], end |-> FALSE])
    BY <1>1, <1>4, <2>2
  <2>5. /\ attached'[k] \in Seq(Attachments) /\ NumberedSeq(attached'[k])
        /\ Len(attached'[k]) = numbers[k] + 1 /\ ~Ended(attached'[k])
    BY <2>3, <2>4, AttachmentAdded DEF EventInv, Counted
  <2>6. /\ \A e \in Events : e # k => attached'[e] = attached[e]
        /\ attached' \in [Events -> Seq(Attachments)]
    BY <1>1, <1>4, <2>2, <2>4, <2>5
  <2>7. ASSUME NEW e \in Events PROVE EventInv(e)'
    <3>1. CASE e = k
      BY <1>1, <1>2, <2>1, <2>2, <2>5, <3>1 DEF EventInv, Counted
    <3>2. CASE e # k
      <4>1. EventInv(e) /\ attached'[e] = attached[e] /\ thread.ev # e
        BY <2>2, <2>6, <3>2 DEF UploadInv
      <4>2. Counted(e)'
        BY <1>2, <2>1, <4>1 DEF EventInv, Counted
      <4>3. Leaves(e) => Leaves(e)'
        BY <1>2, <2>1, <4>1 DEF Leaves
      <4> QED  BY <4>1, <4>2, <4>3 DEF EventInv
    <3> QED  BY <3>1, <3>2
  <2>8. UploadTypes'
    BY <1>1, <1>2, <2>1, <2>6 DEF UploadTypes
  <2>9. ReportInv'
    BY <1>2, <2>1 DEF UploadInv, ReportInv
  <2> QED  BY <1>4, <2>1, <2>7, <2>8, <2>9 DEF UploadInv
<1> QED  BY <1>3, <1>4 DEF SendsAttachment

\* ... and counted.
LEMMA CountsAttachmentInv == ASSUME UploadInv, CountsAttachment PROVE UploadInv'
<1>1. /\ thread \in Threads /\ thread.ev <= created /\ created \in Nat
      /\ rec_event \in 0..created /\ sync \in Syncs /\ created \in 0..MaxEvents /\ MaxEvents \in Nat
      /\ numbers \in [Events -> Nat] /\ attached \in [Events -> Seq(Attachments)]
  BY DEF UploadInv, UploadTypes
<1>2. /\ created' = created /\ rec_event' = rec_event /\ asr_destroy' = asr_destroy
      /\ caller' = caller /\ sync = Quiet /\ sync' = sync /\ attached' = attached
      /\ thread.pc = "count" /\ Goes("epd")
      /\ numbers' = [numbers EXCEPT ![thread.ev] = @ + 1]
  BY DEF CountsAttachment, mainVars, eventVars, At
<1>3. thread' \in Threads /\ thread'.ev = thread.ev /\ thread'.pc = "epd"
  BY <1>1, <1>2 DEF Goes, Threads, ThreadPCs
<1>4. PICK k \in Events : k = thread.ev
  BY <1>1, <1>2 DEF UploadInv, Events, None, Threads
<1>5. /\ numbers' \in [Events -> Nat] /\ numbers'[k] = numbers[k] + 1
      /\ \A e \in Events : e # k => numbers'[e] = numbers[e]
  BY <1>1, <1>2, <1>4
<1>6. ASSUME NEW e \in Events PROVE EventInv(e)'
  <2>1. EventInv(e)
    BY DEF UploadInv
  <2>2. Counted(e)'
    BY <1>2, <1>3, <1>4, <1>5, <2>1 DEF EventInv, Counted
  <2>3. Leaves(e) => Leaves(e)'
    BY <1>2, <1>3 DEF Leaves
  <2> QED  BY <1>2, <2>1, <2>2, <2>3 DEF EventInv
<1>7. UploadTypes'
  BY <1>1, <1>2, <1>3, <1>5 DEF UploadTypes
<1>8. ReportInv'
  BY <1>2, <1>3 DEF UploadInv, ReportInv
<1> QED  BY <1>3, <1>6, <1>7, <1>8 DEF UploadInv

\* The main loop handles what the thread reported: the last attachment is sent
\* while the thread waits, and DONE lets go of the event.
LEMMA OnListeningStateInv == ASSUME UploadInv, OnListeningState PROVE UploadInv'
<1>1. /\ thread \in Threads /\ thread.ev <= created /\ created \in Nat
      /\ rec_event \in 0..created /\ sync \in Syncs /\ created \in 0..MaxEvents /\ MaxEvents \in Nat
      /\ numbers \in [Events -> Nat] /\ attached \in [Events -> Seq(Attachments)]
  BY DEF UploadInv, UploadTypes
<1>2. /\ created' = created /\ asr_destroy' = asr_destroy /\ caller' = caller
      /\ thread' = thread /\ sync # Quiet /\ sync' = Quiet
      /\ rec_event' = IF sync = "DONE" THEN None ELSE rec_event
  BY DEF OnListeningState
<1>3. ReportInv'
  BY <1>2 DEF UploadInv, ReportInv, Quiet
<1>4. thread.pc \in {"frame", "stop", "loop"}
  BY <1>2 DEF UploadInv, ReportInv
<1>5. CASE attached' = attached /\ numbers' = numbers
  <2>1. \A e \in Events : EventInv(e)'
    <3>1. ASSUME NEW e \in Events, Leaves(e) PROVE Leaves(e)'
      <4>1. rec_event' # e
        BY <1>2, <3>1 DEF Leaves, Events, None
      <4> QED  BY <1>2, <1>4, <4>1 DEF Leaves
    <3> QED  BY <1>1, <1>2, <1>5, <3>1, NothingSent
  <2>2. UploadTypes'
    BY <1>1, <1>2, <1>5 DEF UploadTypes, None, Quiet, Syncs
  <2> QED  BY <1>2, <1>3, <1>4, <2>1, <2>2 DEF UploadInv
<1>6. CASE /\ sync = "SPEECH_END" /\ rec_event # None
           /\ attached' = [attached EXCEPT ![rec_event] =
                               Append(@, [seq |-> numbers[rec_event], end |-> TRUE])]
           /\ numbers' = [numbers EXCEPT ![rec_event] = @ + 1]
  <2>1. thread.pc = "stop" /\ rec_event' = rec_event
    BY <1>2, <1>6 DEF UploadInv, ReportInv
  <2>2. PICK k \in Events : k = rec_event
    BY <1>1, <1>6 DEF Events, None
  <2>3. EventInv(k) /\ ~Ended(attached[k]) /\ Len(attached[k]) = numbers[k]
    BY <1>6, <2>1, <2>2 DEF UploadInv, EventInv, Counted, Leaves, Quiet
  <2>4. attached'[k] = Append(attached[k], [seq |-> numbers[k], end |-> TRUE])
    BY <1>1, <1>6, <2>2
  <2>5. /\ attached'[k] \in Seq(Attachments) /\ NumberedSeq(attached'[k])
        /\ Len(attached'[k]) = numbers[k] + 1
    BY <2>3, <2>4, AttachmentAdded DEF EventInv, Counted
  <2>6. /\ \A e \in Events : e # k => attached'[e] = attached[e] /\ numbers'[e] = numbers[e]
        /\ attached' \in [Events -> Seq(Attachments)]
        /\ numbers' \in [Events -> Nat] /\ numbers'[k] = numbers[k] + 1
    BY <1>1, <1>6, <2>2, <2>4, <2>5
  <2>7. ASSUME NEW e \in Events PROVE EventInv(e)'
    <3>1. Leaves(e)'
      BY <1>2, <2>1 DEF Leaves
    <3>2. CASE e = k
      BY <1>1, <1>2, <2>1, <2>2, <2>5, <2>6, <3>1, <3>2 DEF EventInv, Counted
    <3>3. CASE e # k
      <4>1. EventInv(e) /\ attached'[e] = attached[e] /\ numbers'[e] = numbers[e]
        BY <2>6, <3>3 DEF UploadInv
      <4> QED  BY <1>2, <2>1, <3>1, <4>1 DEF EventInv, Counted
    <3> QED  BY <3>2, <3>3
  <2>8. UploadTypes'
    BY <1>1, <1>2, <2>1, <2>6 DEF UploadTypes, Quiet, Syncs
  <2> QED  BY <1>2, <1>3, <1>4, <2>7, <2>8 DEF UploadInv
<1> QED  BY <1>5, <1>6 DEF OnListeningState, SendEventData

\* Nothing was sent yet.
LEMMA UploadInitInv == ASSUME UploadAssumption, UploadInit PROVE UploadInv
<1>1. /\ caller = "up" /\ asr_destroy = FALSE /\ rec_event = 0 /\ created = 0
      /\ numbers = [e \in Events |-> 0] /\ attached = [e \in Events |-> <<>>]
      /\ sync = Quiet /\ thread = [pc |-> "wait", ev |-> 0, frames |-> 0]
  BY DEF UploadInit, None
<1>2. <<>> \in Seq(Attachments) /\ Len(<<>>) = 0 /\ MaxEvents \in Nat
  BY EmptySeq, UploadAssumption DEF UploadAssumption
<1>3. UploadTypes
  BY <1>1, <1>2 DEF UploadTypes, Threads, ThreadPCs, Syncs, Quiet
<1>4. ReportInv
  BY <1>1 DEF ReportInv, Quiet
<1>5. ASSUME NEW e \in Events PROVE EventInv(e)
  <2>1. attached[e] = <<>> /\ numbers[e] = 0
    BY <1>1
  <2>2. ~Ended(attached[e]) /\ NumberedSeq(attached[e])
    BY <1>2, <2>1 DEF Ended, NumberedSeq
  <2> QED  BY <1>1, <1>2, <2>1, <2>2 DEF EventInv, Counted
<1> QED  BY <1>1, <1>3, <1>4, <1>5 DEF UploadInv

LEMMA UploadStep == UploadInv /\ [UploadNext]_sessionVars => UploadInv'
<1> SUFFICES ASSUME UploadInv, [UploadNext]_sessionVars PROVE UploadInv'
  OBVIOUS
<1>1. CASE UNCHANGED sessionVars
  BY <1>1 DEF sessionVars, UploadInv, UploadTypes, ReportInv, EventInv, Counted, Leaves
<1> QED
  BY <1>1, StartListeningInv, StopListeningInv, DestroyInv, OnListeningStateInv,
     ThreadQuietInv, SendsAttachmentInv, CountsAttachmentInv DEF UploadNext, Thread

\* The attachments of every Recognize event are numbered without a gap and end
\* with the last, for any number of sessions and frames, whoever stops, restarts
\* or destroys the recognizer and whenever the network comes and goes
\* (nugu_network_manager_send_event_data(), ASRAgent::onRecordData()).
THEOREM UploadNumbered == ASSUME UploadAssumption PROVE UploadSpec => []Numbered
<1>1. UploadInv => Numbered
  BY DEF UploadInv, EventInv, Counted, NumberedSeq, Numbered
<1> QED  BY UploadInitInv, UploadStep, <1>1, PTL DEF UploadSpec

\* Where nobody starts the recognizer before it has come to rest, or destroys
\* it, the event outlives every use by the recognizer's thread.
THEOREM UploadEventAlive ==
    ASSUME UploadAssumption, "restart" \notin UploadInputs, "destroy" \notin UploadInputs
    PROVE  UploadSpec => []EventAlive
<1>1. UploadInit => AliveInv
  BY DEF UploadInit, AliveInv
<1>2. UploadInv /\ AliveInv /\ [UploadNext]_sessionVars => AliveInv'
  <2> SUFFICES ASSUME UploadInv, AliveInv, [UploadNext]_sessionVars PROVE AliveInv'
    OBVIOUS
  <2>1. thread \in Threads
    BY DEF UploadInv, UploadTypes
  <2>2. CASE UNCHANGED sessionVars
    BY <2>2 DEF sessionVars, AliveInv
  <2>3. CASE StartListening
    <3>1. thread.pc = "wait" /\ thread' = Notified /\ misuse' = misuse
      BY <2>3 DEF StartListening, uploadVars
    <3>2. thread'.pc = "woken"
      BY <2>1, <3>1 DEF Notified, Threads
    <3> QED  BY <3>1, <3>2 DEF AliveInv
  <2>4. CASE StopListening \/ RecognizerJoined \/ NetworkChanges
    BY <2>4 DEF StopListening, RecognizerJoined, NetworkChanges, AliveInv, eventVars,
       uploadVars
  <2>5. CASE OnListeningState
    <3>1. thread' = thread /\ misuse' = misuse /\ thread.pc \in {"frame", "stop", "loop"}
      BY <2>5 DEF OnListeningState, UploadInv, ReportInv
    <3> QED  BY <3>1 DEF AliveInv
  <2>6. CASE SendsAttachment \/ CountsAttachment
    <3>1. /\ thread.pc \in {"send", "count"} /\ rec_event' = rec_event
          /\ misuse' = (misuse \/ thread.ev # rec_event)
          /\ Goes("count") \/ Goes("epd")
      BY <2>6 DEF SendsAttachment, CountsAttachment, At, eventVars
    <3>2. thread'.ev = thread.ev
      BY <2>1, <3>1 DEF Goes, Threads
    <3> QED  BY <3>1, <3>2 DEF AliveInv
  <2>7. CASE BuildsEvent
    <3>1. /\ rec_event' = rec_event /\ misuse' = misuse
          /\ thread' = [thread EXCEPT !.pc = "send", !.ev = rec_event]
      BY <2>7 DEF BuildsEvent, eventVars, uploadVars
    <3>2. thread'.ev = rec_event
      BY <2>1, <3>1 DEF Threads
    <3> QED  BY <3>1, <3>2 DEF AliveInv
  <2>8. CASE \/ Wakes \/ Frame \/ ChecksEvent \/ EndPoint \/ Stops \/ LoopHead \/ Waits
    <3>1. rec_event' = rec_event /\ misuse' = misuse
      BY <2>8 DEF Wakes, Frame, ChecksEvent, EndPoint, Stops, LoopHead, Waits, eventVars,
         uploadVars
    <3>2. thread'.pc \notin {"send", "count"}
      BY <2>1, <2>8 DEF Wakes, Frame, ChecksEvent, EndPoint, Stops, LoopHead, Waits, Goes,
         Reports, Threads
    <3> QED  BY <3>1, <3>2 DEF AliveInv
  <2> QED
    BY <2>2, <2>3, <2>4, <2>5, <2>6, <2>7, <2>8 DEF UploadNext, Thread, Destroy
<1>3. AliveInv => EventAlive
  BY DEF AliveInv, EventAlive
<1> QED  BY UploadInitInv, UploadStep, <1>1, <1>2, <1>3, PTL DEF UploadSpec

----------------------------------------------------------------------------
(***************************************************************************)
(* The directives in the sequencer.  A call of the sequencer works on a    *)
(* record w; the list of w holds what is alive, each once.                 *)
(***************************************************************************)

Places == {"server", "pending", "listed", "speaking", "dropped", "freed"}

Works == [place : [Directives -> Places], list : Seq(Directives),
          speak : Directives \cup {NoDirective}, fault : SUBSET {"stale", "twice"}]

In(d, s) == \E i \in 1..Len(s) : s[i] = d
Once(s) == \A i, j \in 1..Len(s) : s[i] = s[j] => i = j

\* The list and what it keeps alive, which holds within a call, too
ListHolds(w) ==
    /\ w \in Works /\ Once(w.list)
    /\ \A d \in Directives : w.place[d] \in {"listed", "speaking"} <=> In(d, w.list)

\* The one directive that the TTS agent keeps
SpeakHolds(w) == \A d \in Directives : w.place[d] = "speaking" <=> w.speak = d

DirectivesInv ==
    /\ SequencerTypeOK /\ Once(pending)
    /\ ListHolds(Work) /\ SpeakHolds(Work)
    /\ client # "running" => speak_dir = NoDirective
    /\ NothingWaits

LEMMA InRange == \A S : \A s \in Seq(S) : \A d : d \in Range(s) <=> In(d, s)
  BY DEF Range, In

\* g_list_remove() and g_list_delete_link() take d off, and nothing else.
LEMMA FirstRemoved ==
    ASSUME NEW S, NEW s \in Seq(S), Once(s), NEW d, In(d, s),
           NEW t, t = RemoveFirst(s, d)
    PROVE  t \in Seq(S) /\ Once(t) /\ \A e : In(e, t) <=> In(e, s) /\ e # d
<1>1. PICK k \in 1..Len(s) : s[k] = d  BY DEF In
<1>2. {i \in 1..Len(s) : s[i] = d} = {k}  BY <1>1 DEF Once
<1>3. Min({k}) = k  BY DEF Min
<1>4. SelectInSeq(s, LAMBDA v : v = d) = k  BY <1>2, <1>3 DEF SelectInSeq
<1>5. t = SubSeq(s, 1, k - 1) \o SubSeq(s, k + 1, Len(s))
  BY <1>1, <1>4 DEF RemoveFirst, RemoveAt
<1>6. Len(s) \in Nat /\ k \in Nat  BY <1>1
<1>a. PICK a, b : a = SubSeq(s, 1, k - 1) /\ b = SubSeq(s, k + 1, Len(s))  OBVIOUS
<1>7. a \in Seq(S) /\ Len(a) = k - 1 /\ \A i \in 1..(k - 1) : a[i] = s[i]
  BY <1>1, <1>6, <1>a
<1>8. b \in Seq(S) /\ Len(b) = Len(s) - k /\ \A i \in 1..(Len(s) - k) : b[i] = s[k + i]
  BY <1>1, <1>6, <1>a
<1>9. /\ t \in Seq(S) /\ Len(t) = Len(s) - 1
      /\ \A i \in 1..(Len(s) - 1) : t[i] = IF i < k THEN s[i] ELSE s[i + 1]
  <2>1. t \in Seq(S) /\ Len(t) = Len(a) + Len(b)
    BY <1>5, <1>a, <1>7, <1>8
  <2>2. Len(t) = Len(s) - 1  BY <2>1, <1>6, <1>7, <1>8
  <2>3. ASSUME NEW i \in 1..(Len(s) - 1)
        PROVE  t[i] = IF i < k THEN s[i] ELSE s[i + 1]
    <3>1. CASE i < k
      <4>1. i \in 1..Len(a)  BY <3>1, <1>6, <1>7
      <4>2. t[i] = a[i]  BY <4>1, <1>5, <1>a, <1>7, <1>8
      <4> QED  BY <4>2, <3>1, <1>6, <1>7
    <3>2. CASE ~(i < k)
      <4>1. i - Len(a) \in 1..Len(b) /\ i - Len(a) = i - k + 1 /\ i > Len(a)
        BY <3>2, <1>6, <1>7, <1>8
      <4>0. t = a \o b /\ a \in Seq(S) /\ b \in Seq(S)  BY <1>5, <1>a, <1>7, <1>8
      <4>4. i \in 1..(Len(a) + Len(b)) /\ Len(a) \in Nat
        BY <1>6, <1>7, <1>8
      <4>2. t[i] = b[i - Len(a)]  BY <4>0, <4>1, <4>4
      <4>3. b[i - k + 1] = s[k + (i - k + 1)]  BY <4>1, <1>8
      <4> QED  BY <4>1, <4>2, <4>3, <3>2, <1>6
    <3> QED  BY <3>1, <3>2
  <2> QED  BY <2>1, <2>2, <2>3
<1>10. Once(t)
  BY <1>9, <1>6, <1>1 DEF Once
<1>11. ASSUME NEW e PROVE In(e, t) <=> In(e, s) /\ e # d
  <2>1. ASSUME In(e, t) PROVE In(e, s) /\ e # d
    <3>1. PICK i \in 1..Len(t) : t[i] = e  BY <2>1 DEF In
    <3>2. PICK j \in 1..Len(s) : s[j] = e /\ j # k
      BY <3>1, <1>9, <1>6
    <3> QED  BY <3>2, <1>1 DEF In, Once
  <2>2. ASSUME In(e, s), e # d PROVE In(e, t)
    <3>1. PICK j \in 1..Len(s) : s[j] = e  BY <2>2 DEF In
    <3>2. j # k  BY <3>1, <2>2, <1>1
    <3>3. CASE j < k  BY <3>3, <3>1, <1>9, <1>6, <1>1 DEF In
    <3>4. CASE j > k
      <4>1. j - 1 \in 1..(Len(s) - 1) /\ ~(j - 1 < k) /\ (j - 1) + 1 = j
        BY <3>4, <3>1, <1>6, <1>1
      <4> QED  BY <4>1, <3>1, <1>9 DEF In
    <3> QED  BY <3>2, <3>3, <3>4, <3>1, <1>6
  <2> QED  BY <2>1, <2>2
<1> QED  BY <1>9, <1>10, <1>11

\* nugu_dirseq_complete() keeps the list; what was on it is freed.
LEMMA Completed ==
    ASSUME NEW w, ListHolds(w), NEW d \in Directives, NEW x, x = Complete(w, d)
    PROVE  /\ ListHolds(x) /\ x.speak = w.speak /\ x.fault = w.fault
           /\ \A e \in Directives \ {d} : x.place[e] = w.place[e]
           /\ x.place[d] = IF In(d, w.list) THEN "freed" ELSE w.place[d]
<1>0. w \in Works /\ w.list \in Seq(Directives)  BY DEF ListHolds, Works
<1>1. CASE ~In(d, w.list)
  <2>1. x = w  BY <1>0, <1>1, InRange DEF Complete, Listed
  <2> QED  BY <2>1, <1>1
<1>2. CASE In(d, w.list)
  <2>1. PICK t : t = RemoveFirst(w.list, d)  OBVIOUS
  <2>2. t \in Seq(Directives) /\ Once(t) /\ \A e : In(e, t) <=> In(e, w.list) /\ e # d
    BY <2>1, <1>0, <1>2, FirstRemoved DEF ListHolds
  <2>3. x = [w EXCEPT !.list = t, !.place[d] = "freed"]
    BY <1>0, <1>2, <2>1, InRange DEF Complete, Listed
  <2>4. /\ x \in Works /\ x.list = t /\ x.speak = w.speak /\ x.fault = w.fault
        /\ x.place = [w.place EXCEPT ![d] = "freed"]
    <3>1. x = [place |-> [w.place EXCEPT ![d] = "freed"], list |-> t,
               speak |-> w.speak, fault |-> w.fault]
      BY <2>3, <1>0 DEF Works
    <3>2. [w.place EXCEPT ![d] = "freed"] \in [Directives -> Places]
      BY <1>0 DEF Works, Places
    <3> QED  BY <3>1, <3>2, <2>2, <1>0 DEF Works
  <2>5. w.place \in [Directives -> Places]  BY <1>0 DEF Works
  <2>6. /\ \A e \in Directives \ {d} : x.place[e] = w.place[e]
        /\ x.place[d] = "freed"
    BY <2>4, <2>5
  <2>7. \A e \in Directives : x.place[e] \in {"listed", "speaking"} <=> In(e, x.list)
    BY <2>2, <2>4, <2>6 DEF ListHolds
  <2> QED  BY <2>2, <2>4, <2>6, <2>7, <1>2 DEF ListHolds
<1> QED  BY <1>1, <1>2

\* A listed directive that is neither spoken nor pending, given to a capability
LEMMA Processed ==
    ASSUME NEW w, ListHolds(w), SpeakHolds(w), NEW d \in Directives, w.place[d] = "listed",
           kind[d] \in {"quick", "speak", "broken"}, NEW x, x = ProcessDirective(w, d)
    PROVE  /\ ListHolds(x) /\ SpeakHolds(x) /\ x.fault = w.fault
           /\ \A e \in Directives : w.place[e] \notin {"listed", "speaking"} =>
                                        x.place[e] = w.place[e]
<1>0. w \in Works /\ In(d, w.list) /\ w.speak # d  BY DEF ListHolds, SpeakHolds
<1>1. CASE kind[d] = "quick"
  <2>1. x = Complete(w, d)  BY <1>1 DEF ProcessDirective
  <2> QED  BY <2>1, <1>0, Completed DEF SpeakHolds, ListHolds
<1>2. CASE kind[d] = "broken"
  BY <1>2 DEF ProcessDirective
<1>3. CASE kind[d] = "speak"
  <2>1. PICK y : y = IF w.speak = NoDirective THEN w ELSE Complete(w, w.speak)  OBVIOUS
  <2>2. x = [y EXCEPT !.speak = d, !.place[d] = "speaking"]
    BY <1>3, <2>1 DEF ProcessDirective
  <2>3. /\ ListHolds(y) /\ y.fault = w.fault
        /\ \A e \in Directives : e # w.speak => y.place[e] = w.place[e]
        /\ \A e \in Directives : e = w.speak => y.place[e] = "freed"
    <3>1. CASE w.speak = NoDirective
      <4>1. \A e \in Directives : e # w.speak
        BY <3>1 DEF Directives, NoDirective
      <4> QED  BY <3>1, <2>1, <4>1
    <3>2. CASE w.speak # NoDirective
      <4>1. w.speak \in Directives  BY <3>2, <1>0 DEF Works
      <4>2. w.place[w.speak] = "speaking"  BY <4>1 DEF SpeakHolds
      <4>3. In(w.speak, w.list)  BY <4>1, <4>2 DEF ListHolds
      <4> QED  BY <3>2, <2>1, <4>1, <4>3, Completed
    <3> QED  BY <3>1, <3>2
  <2>4. y \in Works /\ y.place[d] = "listed" /\ In(d, y.list)
    BY <2>3, <1>0 DEF ListHolds
  <2>5. /\ x \in Works /\ x.list = y.list /\ x.speak = d /\ x.fault = w.fault
        /\ x.place = [y.place EXCEPT ![d] = "speaking"]
    <3>1. x = [place |-> [y.place EXCEPT ![d] = "speaking"], list |-> y.list,
               speak |-> d, fault |-> y.fault]
      BY <2>2, <2>4 DEF Works
    <3>2. [y.place EXCEPT ![d] = "speaking"] \in [Directives -> Places]
      BY <2>4 DEF Works, Places
    <3> QED  BY <3>1, <3>2, <2>3, <2>4 DEF Works
  <2>6. y.place \in [Directives -> Places]  BY <2>4 DEF Works
  <2>7. /\ x.place[d] = "speaking"
        /\ \A e \in Directives \ {d} : x.place[e] = y.place[e]
    BY <2>5, <2>6
  <2>8. ListHolds(x)
    BY <2>3, <2>4, <2>5, <2>7 DEF ListHolds
  <2>9. ASSUME NEW e \in Directives PROVE x.place[e] = "speaking" <=> x.speak = e
    <3>1. CASE e = d  BY <3>1, <2>5, <2>7
    <3>2. CASE e # d /\ e = w.speak
      <4>1. y.place[e] = "freed"  BY <2>3, <3>2
      <4> QED  BY <4>1, <3>2, <2>5, <2>7
    <3>3. CASE e # d /\ e # w.speak
      <4>1. y.place[e] = w.place[e]  BY <2>3, <3>3
      <4> QED  BY <4>1, <3>3, <2>5, <2>7 DEF SpeakHolds
    <3> QED  BY <3>1, <3>2, <3>3
  <2>10. ASSUME NEW e \in Directives, w.place[e] \notin {"listed", "speaking"}
         PROVE  x.place[e] = w.place[e]
    <3>1. e # d /\ e # w.speak  BY <2>10, <1>0 DEF SpeakHolds
    <3> QED  BY <3>1, <2>3, <2>7
  <2> QED  BY <2>5, <2>8, <2>9, <2>10 DEF SpeakHolds
<1> QED  BY <1>1, <1>2, <1>3

\* A queue without its head
LEMMA TailOnce ==
    ASSUME NEW S, NEW s \in Seq(S), s # <<>>, Once(s)
    PROVE  /\ Tail(s) \in Seq(S) /\ Once(Tail(s)) /\ Head(s) \in S /\ In(Head(s), s)
           /\ \A d : In(d, Tail(s)) => In(d, s) /\ d # Head(s)
<1>1. /\ Len(s) \in Nat /\ Len(s) >= 1 /\ Tail(s) \in Seq(S) /\ Len(Tail(s)) = Len(s) - 1
      /\ \A i \in 1..(Len(s) - 1) : Tail(s)[i] = s[i + 1]
      /\ Head(s) = s[1] /\ Head(s) \in S
  OBVIOUS
<1>2. Once(Tail(s))  BY <1>1 DEF Once
<1>3. ASSUME NEW d, In(d, Tail(s)) PROVE In(d, s) /\ d # Head(s)
  <2>1. PICK i \in 1..(Len(s) - 1) : s[i + 1] = d  BY <1>1, <1>3 DEF In
  <2>2. i + 1 \in 1..Len(s) /\ 1 \in 1..Len(s) /\ i + 1 # 1  BY <1>1
  <2> QED  BY <2>1, <2>2, <1>1 DEF In, Once
<1>4. In(Head(s), s)  BY <1>1 DEF In
<1> QED  BY <1>1, <1>2, <1>3, <1>4

\* A list or queue with one more
LEMMA AppendOnce ==
    ASSUME NEW S, NEW s \in Seq(S), Once(s), NEW d \in S, ~In(d, s)
    PROVE  /\ Append(s, d) \in Seq(S) /\ Once(Append(s, d))
           /\ \A e : In(e, Append(s, d)) <=> In(e, s) \/ e = d
<1> DEFINE t == Append(s, d)
<1>1. /\ Len(s) \in Nat /\ t \in Seq(S) /\ Len(t) = Len(s) + 1 /\ t[Len(s) + 1] = d
      /\ \A i \in 1..Len(s) : t[i] = s[i]
  OBVIOUS
<1>2. \A i \in 1..Len(t) : i \in 1..Len(s) \/ i = Len(s) + 1  BY <1>1
<1>3. \A i \in 1..Len(s) : s[i] # d  BY DEF In
<1>4. Once(t)
  <2> SUFFICES ASSUME NEW i \in 1..Len(t), NEW j \in 1..Len(t), t[i] = t[j] PROVE i = j
    BY DEF Once
  <2> QED  BY <1>1, <1>2, <1>3 DEF Once
<1>5. \A e : In(e, t) <=> In(e, s) \/ e = d
  <2> TAKE e
  <2>1. In(e, t) => In(e, s) \/ e = d  BY <1>1, <1>2 DEF In
  <2>2. In(e, s) => In(e, t)
    <3> SUFFICES ASSUME NEW i \in 1..Len(s), s[i] = e PROVE In(e, t)  BY DEF In
    <3> QED  BY <1>1 DEF In
  <2>3. e = d => In(e, t)
    <3>1. Len(s) + 1 \in 1..Len(t)  BY <1>1
    <3> QED  BY <3>1, <1>1 DEF In
  <2> QED  BY <2>1, <2>2, <2>3
<1> QED  BY <1>1, <1>4, <1>5

\* nugu_dirseq_push() of a directive that was not in the list
LEMMA Pushed ==
    ASSUME NEW w, ListHolds(w), SpeakHolds(w), NEW d \in Directives,
           w.place[d] = "pending", kind \in [Directives -> {"quick", "speak", "broken", "unknown"}],
           NEW garbage, NEW x, x = Push(w, d, garbage)
    PROVE  /\ ListHolds(x) /\ SpeakHolds(x)
           /\ \A e \in Directives \ {d} : w.place[e] = "pending" => x.place[e] = "pending"
           /\ x.speak # w.speak => client = "running"
<1>0. w \in Works /\ ~In(d, w.list) /\ w.list \in Seq(Directives)
  BY DEF ListHolds, Works
<1>1. PICK y : y = [w EXCEPT !.list = Append(@, d), !.place[d] = "listed"]  OBVIOUS
<1>2. PICK t : t = Append(w.list, d)  OBVIOUS
<1>3. t \in Seq(Directives) /\ Once(t) /\ \A e : In(e, t) <=> In(e, w.list) \/ e = d
  BY <1>0, <1>2, AppendOnce DEF ListHolds
<1>4. /\ y \in Works /\ y.list = t /\ y.speak = w.speak /\ y.fault = w.fault
      /\ y.place = [w.place EXCEPT ![d] = "listed"]
  <2>1. y = [place |-> [w.place EXCEPT ![d] = "listed"], list |-> t,
             speak |-> w.speak, fault |-> w.fault]
    BY <1>0, <1>1, <1>2 DEF Works
  <2>2. [w.place EXCEPT ![d] = "listed"] \in [Directives -> Places]
    BY <1>0 DEF Works, Places
  <2> QED  BY <2>1, <2>2, <1>3, <1>0 DEF Works
<1>5. w.place \in [Directives -> Places]  BY <1>0 DEF Works
<1>6. y.place[d] = "listed" /\ \A e \in Directives \ {d} : y.place[e] = w.place[e]
  BY <1>4, <1>5
<1>7. ListHolds(y)  BY <1>3, <1>4, <1>6 DEF ListHolds
<1>8. SpeakHolds(y)  BY <1>4, <1>6 DEF SpeakHolds
<1>9. CASE Removes(d, garbage)
  <2>1. x = [y EXCEPT !.list = RemoveFirst(@, d), !.place[d] = "dropped"]
    BY <1>9, <1>1 DEF Push
  <2>2. PICK r : r = RemoveFirst(t, d)  OBVIOUS
  <2>3. r \in Seq(Directives) /\ Once(r) /\ \A e : In(e, r) <=> In(e, t) /\ e # d
    BY <2>2, <1>3, FirstRemoved
  <2>4. /\ x \in Works /\ x.list = r /\ x.speak = w.speak
        /\ x.place = [y.place EXCEPT ![d] = "dropped"]
    <3>1. x = [place |-> [y.place EXCEPT ![d] = "dropped"], list |-> r,
               speak |-> y.speak, fault |-> y.fault]
      BY <1>4, <2>1, <2>2 DEF Works
    <3>2. [y.place EXCEPT ![d] = "dropped"] \in [Directives -> Places]
      BY <1>4 DEF Works, Places
    <3> QED  BY <3>1, <3>2, <2>3, <1>4 DEF Works
  <2>5. y.place \in [Directives -> Places]  BY <1>4 DEF Works
  <2>6. x.place[d] = "dropped" /\ \A e \in Directives \ {d} : x.place[e] = w.place[e]
    BY <2>4, <2>5, <1>6
  <2>7. ListHolds(x)  BY <2>3, <2>4, <2>6, <1>3, <1>0 DEF ListHolds
  <2>8. SpeakHolds(x)  BY <2>4, <2>6 DEF SpeakHolds
  <2> QED  BY <2>4, <2>6, <2>7, <2>8
<1>10. CASE ~Removes(d, garbage)
  <2>1. x = Emit(y, d)  BY <1>10, <1>1 DEF Push
  <2>2. CASE ~CapsListen \/ ~HasCapability(d)
    <3>1. x = y  BY <2>1, <2>2 DEF Emit
    <3> QED  BY <3>1, <1>4, <1>6, <1>7, <1>8
  <2>3. CASE CapsListen /\ HasCapability(d)
    <3>1. PICK z : z = ProcessDirective(y, d)  OBVIOUS
    <3>2. kind[d] \in {"quick", "speak", "broken"} /\ client = "running"
      BY <2>3 DEF HasCapability
    <3>3. /\ ListHolds(z) /\ SpeakHolds(z)
          /\ \A e \in Directives : y.place[e] \notin {"listed", "speaking"} =>
                                        z.place[e] = y.place[e]
      BY <3>1, <3>2, <1>6, <1>7, <1>8, Processed
    <3>4. PICK g : g = IF z.place[d] = "freed" /\ Last(callbacks) # "caps"
                       THEN z.fault \cup {"stale"} ELSE z.fault
      OBVIOUS
    <3>5. x = [z EXCEPT !.fault = g]
      BY <2>1, <2>3, <3>1, <3>4 DEF Emit
    <3>6. z \in Works  BY <3>3 DEF ListHolds
    <3>7. g \subseteq {"stale", "twice"}  BY <3>4, <3>6 DEF Works
    <3>8. x \in Works /\ x.list = z.list /\ x.speak = z.speak /\ x.place = z.place
      BY <3>5, <3>6, <3>7 DEF Works
    <3> QED  BY <3>2, <3>3, <3>8, <1>6 DEF ListHolds, SpeakHolds
  <2> QED  BY <2>2, <2>3
<1> QED  BY <1>9, <1>10

\* The work of a handler becomes the state.
LEMMA WorkDone ==
    ASSUME NEW x, Worked(x), ListHolds(x), SpeakHolds(x)
    PROVE  /\ ListHolds(Work)' /\ SpeakHolds(Work)'
           /\ place' = x.place /\ list_dir' = x.list /\ speak_dir' = x.speak /\ fault' = x.fault
<1>1. x \in Works  BY DEF ListHolds
<1>2. /\ place' = x.place /\ list_dir' = x.list /\ speak_dir' = x.speak
      /\ fault' = x.fault
  BY DEF Worked
<1>3. Work' = [place |-> place', list |-> list_dir', speak |-> speak_dir', fault |-> fault']
  BY DEF Work
<1>4. Work' = x  BY <1>1, <1>2, <1>3 DEF Works
<1>5. ListHolds(Work)' /\ SpeakHolds(Work)'
  BY <1>4 DEF ListHolds, SpeakHolds
<1> QED  BY <1>2, <1>5

\* The client's end: everything listed is freed, everything in the queue, too.
LEMMA ClientGone ==
    ASSUME DirectivesInv, DestroyClient
    PROVE  DirectivesInv'
<1>1. PICK w : w = [Work EXCEPT !.place = FreePending(@)]  OBVIOUS
<1>2. PICK x : x = DirseqDeinitialize(w)  OBVIOUS
<1>3. /\ client # "running" /\ client' = "gone" /\ callbacks' = <<>> /\ pending' = <<>>
      /\ Worked(x) /\ kind' = kind /\ speak_dir = NoDirective
  BY <1>1, <1>2 DEF DirectivesInv, DestroyClient
<1>4. /\ ListHolds(Work) /\ Work \in Works /\ list_dir \in Seq(Directives)
      /\ place \in [Directives -> Places] /\ fault \subseteq {"stale", "twice"}
  BY DEF DirectivesInv, ListHolds, Works, Work
<1>5. w = [place |-> FreePending(place), list |-> list_dir, speak |-> speak_dir,
           fault |-> fault]
  BY <1>1 DEF Work
<1>6. /\ x.list = <<>> /\ x.speak = NoDirective /\ x.fault \subseteq {"stale", "twice"}
      /\ x.place = [d \in Directives |->
            IF In(d, list_dir) \/ place[d] = "pending" THEN "freed" ELSE place[d]]
      /\ x = [place |-> x.place, list |-> x.list, speak |-> x.speak, fault |-> x.fault]
  <2>1. w.list = list_dir /\ w.place = FreePending(place) /\ w.speak = NoDirective /\ w.fault = fault
    BY <1>5, <1>3
  <2>2. PICK p : p = [d \in Directives |-> IF Listed(w, d) THEN "freed" ELSE w.place[d]]
    OBVIOUS
  <2>3. PICK g : g = IF w.list = <<>> THEN w.fault ELSE w.fault \cup {"twice"}  OBVIOUS
  <2>4. x = [w EXCEPT !.list = <<>>, !.place = p, !.fault = g]
    BY <1>2, <2>2, <2>3 DEF DirseqDeinitialize
  <2>5. x = [place |-> p, list |-> <<>>, speak |-> NoDirective, fault |-> g]
    BY <2>4, <1>5, <1>3
  <2>6. \A d \in Directives : Listed(w, d) <=> In(d, list_dir)
    BY <2>1, <1>4, InRange DEF Listed
  <2>7. \A d \in Directives : w.place[d] = IF place[d] = "pending" THEN "freed" ELSE place[d]
    BY <2>1 DEF FreePending
  <2>8. p = [d \in Directives |->
                IF In(d, list_dir) \/ place[d] = "pending" THEN "freed" ELSE place[d]]
    BY <2>2, <2>6, <2>7
  <2>9. g \subseteq {"stale", "twice"}  BY <2>1, <2>3, <1>4
  <2> QED  BY <2>5, <2>8, <2>9
<1>7. \A d \in Directives : x.place[d] \in {"server", "dropped", "freed"}
  BY <1>4, <1>6 DEF ListHolds, Work, Places
<1>8. \A d : ~In(d, <<>>)  BY DEF In
<1>9. <<>> \in Seq(Directives) /\ Once(<<>>)  BY DEF Once
<1>10. x \in Works
  <2>1. x.place \in [Directives -> Places]
    BY <1>6, <1>7, <1>4 DEF Places
  <2> QED  BY <2>1, <1>6, <1>9 DEF Works
<1>11. ListHolds(x)  BY <1>6, <1>7, <1>8, <1>9, <1>10 DEF ListHolds
<1>12. SpeakHolds(x)
  <2>1. \A d \in Directives : d # NoDirective  BY DEF Directives, NoDirective
  <2> QED  BY <1>6, <1>7, <2>1 DEF SpeakHolds
<1>13. ListHolds(Work)' /\ SpeakHolds(Work)' /\ place' = x.place /\ speak_dir' = NoDirective
       /\ list_dir' = <<>> /\ fault' = x.fault
  BY <1>3, <1>6, <1>11, <1>12, WorkDone
<1>14. NothingWaits'  BY <1>7, <1>13 DEF NothingWaits
<1>15. SequencerTypeOK'
  <2>1. place' \in [Directives -> Places]  BY <1>10, <1>13 DEF Works
  <2>2. kind' \in [Directives -> {"quick", "speak", "broken", "unknown"}]
    BY <1>3 DEF DirectivesInv, SequencerTypeOK
  <2>3. \A d : ~(d \in Range(<<>>))  BY <1>8, <1>9, InRange
  <2>4. <<>> \in Seq({"caps", "app"})  OBVIOUS
  <2> QED  BY <1>3, <1>6, <1>9, <1>13, <2>1, <2>2, <2>3, <2>4 DEF SequencerTypeOK, Places
<1> QED  BY <1>3, <1>9, <1>13, <1>14, <1>15 DEF DirectivesInv

LEMMA DirectivesInitInv == SequencerInit => DirectivesInv
<1> SUFFICES ASSUME SequencerInit PROVE DirectivesInv  OBVIOUS
<1>1. <<>> \in Seq(Directives) /\ <<>> \in Seq({"caps", "app"}) /\ Once(<<>>)
      /\ \A d : ~In(d, <<>>)
  BY DEF Once, In
<1>2. \A d : ~(d \in Range(<<>>))  BY <1>1, InRange
<1>3. \A d \in Directives : d # NoDirective  BY DEF Directives, NoDirective
<1>4. /\ Work = [place |-> [d \in Directives |-> "server"], list |-> <<>>,
                 speak |-> NoDirective, fault |-> {}]
      /\ Work \in Works
  BY <1>1 DEF SequencerInit, Work, Works, Places
<1>5. ListHolds(Work) /\ SpeakHolds(Work)
  BY <1>1, <1>3, <1>4 DEF ListHolds, SpeakHolds
<1>6. SequencerTypeOK  BY <1>1, <1>2 DEF SequencerInit, SequencerTypeOK
<1>7. NothingWaits  BY DEF NothingWaits, SequencerInit
<1> QED  BY <1>1, <1>5, <1>6, <1>7 DEF DirectivesInv, SequencerInit

\* A step that leaves list, speech and memory alone
LEMMA DirectivesQuiet ==
    ASSUME DirectivesInv, UNCHANGED <<place, list_dir, speak_dir, fault, kind, pending>>,
           client' \in {"created", "running", "stopped", "gone"},
           client' = "gone" => client = "gone",
           client = "running" => client' = "running",
           callbacks' \in Seq({"caps", "app"})
    PROVE  DirectivesInv'
<1>1. Work' = Work  BY DEF Work
<1>2. ListHolds(Work)' /\ SpeakHolds(Work)'
  BY <1>1 DEF DirectivesInv, ListHolds, SpeakHolds
<1>3. SequencerTypeOK'  BY DEF DirectivesInv, SequencerTypeOK
<1>4. NothingWaits'  BY DEF DirectivesInv, NothingWaits
<1>5. client' # "running" => speak_dir' = NoDirective  BY DEF DirectivesInv
<1> QED  BY <1>2, <1>3, <1>4, <1>5 DEF DirectivesInv

\* A step that completes the speech and nothing else
LEMMA SpeechCompleted ==
    ASSUME DirectivesInv, client = "running",
           client' \in {"running", "stopped"}, UNCHANGED <<kind, pending, callbacks>>,
           NEW x, Worked(x),
           x = IF speak_dir = NoDirective THEN Work
               ELSE [Complete(Work, speak_dir) EXCEPT !.speak = NoDirective]
    PROVE  DirectivesInv'
<1>0. ListHolds(Work) /\ SpeakHolds(Work) /\ Work \in Works /\ Work.speak = speak_dir
      /\ Work.place = place
  BY DEF DirectivesInv, ListHolds, Work
<1>n. \A d \in Directives : d # NoDirective  BY DEF Directives, NoDirective
<1>1. /\ ListHolds(x) /\ SpeakHolds(x) /\ x.speak = NoDirective
      /\ \A d \in Directives : place[d] = "pending" => x.place[d] = "pending"
  <2>1. CASE speak_dir = NoDirective
    BY <2>1, <1>0
  <2>2. CASE speak_dir # NoDirective
    <3>1. speak_dir \in Directives  BY <2>2, <1>0 DEF Works
    <3>2. PICK y : y = Complete(Work, speak_dir)  OBVIOUS
    <3>3. place[speak_dir] = "speaking" /\ In(speak_dir, Work.list)
      BY <3>1, <1>0 DEF ListHolds, SpeakHolds
    <3>4. /\ ListHolds(y) /\ y.place[speak_dir] = "freed"
          /\ \A e \in Directives \ {speak_dir} : y.place[e] = place[e]
      BY <3>1, <3>2, <3>3, <1>0, Completed
    <3>5. x = [y EXCEPT !.speak = NoDirective]  BY <2>2, <3>2
    <3>6. y \in Works  BY <3>4 DEF ListHolds
    <3>7. x \in Works /\ x.list = y.list /\ x.place = y.place /\ x.speak = NoDirective
      BY <3>5, <3>6 DEF Works
    <3>8. ListHolds(x)  BY <3>4, <3>7 DEF ListHolds
    <3>9. SpeakHolds(x)
      <4> SUFFICES ASSUME NEW d \in Directives PROVE x.place[d] # "speaking"
        BY <3>7, <1>n DEF SpeakHolds
      <4>1. CASE d = speak_dir  BY <4>1, <3>4, <3>7
      <4>2. CASE d # speak_dir  BY <4>2, <3>4, <3>7, <1>0 DEF SpeakHolds
      <4> QED  BY <4>1, <4>2
    <3> QED  BY <3>3, <3>4, <3>7, <3>8, <3>9
  <2> QED  BY <2>1, <2>2
<1>2. /\ ListHolds(Work)' /\ SpeakHolds(Work)' /\ place' = x.place /\ list_dir' = x.list
      /\ speak_dir' = NoDirective /\ fault' = x.fault
  BY <1>1, WorkDone
<1>3. x \in Works  BY <1>1 DEF ListHolds
<1>4. SequencerTypeOK'
  BY <1>1, <1>2, <1>3 DEF DirectivesInv, SequencerTypeOK, Works, Places
<1>5. NothingWaits'  BY DEF NothingWaits
<1> QED  BY <1>2, <1>4, <1>5 DEF DirectivesInv

LEMMA DirectivesStep ==
    ASSUME SequencerAssumption
    PROVE  DirectivesInv /\ [SequencerNext]_sequencerVars => DirectivesInv'
<1> SUFFICES ASSUME DirectivesInv, [SequencerNext]_sequencerVars PROVE DirectivesInv'
  OBVIOUS
<1>0. SequencerTypeOK /\ Once(pending) /\ ListHolds(Work) /\ SpeakHolds(Work)
      /\ Work \in Works /\ place \in [Directives -> Places]
      /\ Work.place = place /\ Work.list = list_dir /\ Work.speak = speak_dir
  BY DEF DirectivesInv, ListHolds, Work, SequencerTypeOK, Places
<1>q. /\ client \in {"created", "running", "stopped", "gone"}
      /\ callbacks \in Seq({"caps", "app"}) /\ pending \in Seq(Directives)
      /\ kind \in [Directives -> {"quick", "speak", "broken", "unknown"}]
      /\ \A d \in Directives : In(d, pending) => place[d] = "pending"
  BY <1>0, InRange DEF SequencerTypeOK
<1>1. CASE UNCHANGED sequencerVars
  BY <1>1, <1>q, DirectivesQuiet DEF sequencerVars
<1>2. ASSUME NEW d \in Directives, NEW k \in Kinds, Receive(d, k)
      PROVE  DirectivesInv'
  <2>1. /\ client # "gone" /\ place[d] = "server" /\ client' = client
        /\ kind' = [kind EXCEPT ![d] = k] /\ place' = [place EXCEPT ![d] = "pending"]
        /\ pending' = Append(pending, d)
        /\ UNCHANGED <<list_dir, callbacks, speak_dir, fault>>
    BY <1>2 DEF Receive
  <2>2. ~In(d, pending)  BY <2>1, <1>q
  <2>3. pending' \in Seq(Directives) /\ Once(pending') /\ \A e : In(e, pending') <=> In(e, pending) \/ e = d
    BY <2>1, <2>2, <1>0, <1>q, AppendOnce
  <2>4. /\ place' \in [Directives -> Places] /\ place'[d] = "pending"
        /\ \A e \in Directives \ {d} : place'[e] = place[e]
    BY <2>1, <1>0 DEF Places
  <2>5. Work' = [place |-> place', list |-> list_dir, speak |-> speak_dir, fault |-> fault]
    BY <2>1 DEF Work
  <2>6. Work' \in Works
    BY <2>5, <2>4, <1>0 DEF Works, Work
  <2>7. ListHolds(Work)'
    BY <2>5, <2>4, <2>6, <2>1, <1>0 DEF ListHolds
  <2>8. SpeakHolds(Work)'
    BY <2>5, <2>4, <2>1, <1>0 DEF SpeakHolds
  <2>9. kind' \in [Directives -> {"quick", "speak", "broken", "unknown"}]
    BY <2>1, <1>2, <1>q DEF SequencerAssumption
  <2>10. SequencerTypeOK'
    <3>1. \A e \in Directives : e \in Range(pending') => place'[e] = "pending"
      BY <2>3, <2>4, <1>q, InRange
    <3> QED  BY <2>1, <2>3, <2>4, <2>9, <3>1, <1>0, <1>q DEF SequencerTypeOK, Places
  <2> QED  BY <2>1, <2>3, <2>7, <2>8, <2>10 DEF DirectivesInv, NothingWaits
<1>3. ASSUME NEW garbage \in {"CONTINUE", "REMOVE"}, OnEvent(garbage) PROVE DirectivesInv'
  <2>1. PICK d, x : d = Head(pending) /\ x = Push(Work, d, garbage)  OBVIOUS
  <2>2. /\ client # "gone" /\ pending # <<>> /\ pending' = Tail(pending) /\ Worked(x)
        /\ UNCHANGED <<client, kind, callbacks>>
    BY <1>3, <2>1 DEF OnEvent
  <2>3. /\ Tail(pending) \in Seq(Directives) /\ Once(Tail(pending)) /\ d \in Directives
        /\ In(d, pending) /\ \A e : In(e, Tail(pending)) => In(e, pending) /\ e # d
    BY <2>1, <2>2, <1>0, <1>q, TailOnce
  <2>4. place[d] = "pending"  BY <2>3, <1>q
  <2>5. /\ ListHolds(x) /\ SpeakHolds(x)
        /\ \A e \in Directives \ {d} : place[e] = "pending" => x.place[e] = "pending"
        /\ x.speak # speak_dir => client = "running"
    BY <2>1, <2>3, <2>4, <1>0, <1>q, Pushed
  <2>6. /\ ListHolds(Work)' /\ SpeakHolds(Work)' /\ place' = x.place /\ list_dir' = x.list
        /\ speak_dir' = x.speak /\ fault' = x.fault
    BY <2>2, <2>5, WorkDone
  <2>7. x \in Works  BY <2>5 DEF ListHolds
  <2>8. SequencerTypeOK'
    <3>1. \A e \in Directives : e \in Range(pending') => place'[e] = "pending"
      BY <2>2, <2>3, <2>5, <2>6, <1>q, InRange
    <3> QED  BY <2>2, <2>3, <2>6, <2>7, <3>1, <1>q DEF SequencerTypeOK, Works, Places
  <2>9. client' # "running" => speak_dir' = NoDirective
    BY <2>2, <2>5, <2>6 DEF DirectivesInv
  <2> QED  BY <2>2, <2>3, <2>6, <2>8, <2>9 DEF DirectivesInv, NothingWaits
<1>4. CASE SpeakEnds
  BY <1>4, SpeechCompleted DEF SpeakEnds
<1>5. CASE AppAddsCallback
  <2>1. callbacks' \in Seq({"caps", "app"})
    BY <1>5, <1>q DEF AppAddsCallback
  <2> QED  BY <1>5, <1>q, <2>1, DirectivesQuiet DEF AppAddsCallback
<1>6. CASE Initialize
  <2>1. callbacks' \in Seq({"caps", "app"})
    BY <1>6, <1>q DEF Initialize
  <2> QED  BY <1>6, <1>q, <2>1, DirectivesQuiet DEF Initialize
<1>7. CASE DeInitialize
  BY <1>7, SpeechCompleted DEF DeInitialize
<1>8. CASE DestroyClient
  BY <1>8, ClientGone
<1> QED  BY <1>1, <1>2, <1>3, <1>4, <1>5, <1>6, <1>7, <1>8 DEF SequencerNext

\* However directives arrive, are replaced, removed and cut off, the list of the
\* sequencer holds those that are alive, each once, the TTS agent keeps one of them
\* or none, and nothing is left when the client is gone, for any number of
\* directives and callbacks (nugu_dirseq_push(), nugu_dirseq_complete(),
\* nugu_network_manager_free()).
THEOREM DirectivesAreSafe ==
    ASSUME SequencerAssumption PROVE SequencerSpec => []DirectivesSafe
<1>1. DirectivesInv => DirectivesSafe
  <2> SUFFICES ASSUME DirectivesInv PROVE DirectivesSafe  OBVIOUS
  <2>1. SequencerTypeOK /\ NothingWaits /\ ListHolds(Work) /\ SpeakHolds(Work)
        /\ list_dir \in Seq(Directives) /\ speak_dir \in Directives \cup {NoDirective}
    BY DEF DirectivesInv, SequencerTypeOK
  <2>2. ListIsLive
    <3>1. IsInjective(list_dir)
      BY <2>1 DEF ListHolds, Once, IsInjective, Work
    <3> QED  BY <3>1, <2>1, InRange DEF ListIsLive, ListHolds, Work
  <2>3. OneSpeech
    <3>1. \A d \in Directives : place[d] = "speaking" <=> speak_dir = d
      BY <2>1 DEF SpeakHolds, Work
    <3>2. \A d \in Directives : d # NoDirective  BY DEF Directives, NoDirective
    <3>3. {d \in Directives : place[d] = "speaking"} = {speak_dir} \ {NoDirective}
      BY <3>1, <3>2, <2>1
    <3>4. client # "running" => speak_dir = NoDirective  BY DEF DirectivesInv
    <3> QED  BY <3>3, <3>4 DEF OneSpeech
  <2> QED  BY <2>1, <2>2, <2>3 DEF DirectivesSafe
<1> QED  BY DirectivesInitInv, DirectivesStep, <1>1, PTL DEF SequencerSpec

----------------------------------------------------------------------------
(***************************************************************************)
(* The threads of the connection.                                          *)
(***************************************************************************)

CONSTANTS Servers, ConnectionInputs
VARIABLES nm, mg, idles, regIdle, reIdle, network, stream, conn, main, told, sender,
          dangling

Conn == INSTANCE Connection WITH Inputs <- ConnectionInputs, net <- network

Statuses == {"READY", "CONNECTING", "CONNECTED", "DISCONNECTED", "TOKEN_FAILED"}
Sources == {"conn", "http2"}
Reported == {"none", "CONNECTED", "DISCONNECTED", "TOKEN_ERROR"}

Nms == [h2 : BOOLEAN, cur : {"UNKNOWN", "DISCONNECTED", "CONNECTED", "TOKEN_ERROR"},
        discIdle : BOOLEAN]
Managers == [status : Statuses, cb : BOOLEAN, net : BOOLEAN, dir : BOOLEAN,
             ping : BOOLEAN, emit : BOOLEAN, idle_source : {"none", "conn", "http2"}]
Networks == [pc : {"poll", "wait", "exited"}, stop : BOOLEAN,
             reqs : SUBSET {"registry", "ping", "event"}]
MainStates == [pc : {"loop", "tell", "stop", "join", "freeing", "joinConn"},
               then : {"none", "loop", "stop", "report", "servers", "free"}, emit : BOOLEAN]
ConnStates == [pc : {"none", "next", "wait", "read", "connected", "stop", "stopToken",
                     "reported", "end"},
               left : 0..Servers, hdr : BOOLEAN, code : {"none", "ok", "fail", "token"}]

ConnTypes ==
    /\ nm \in Nms /\ mg \in Managers /\ network \in Networks
    /\ main \in MainStates /\ conn \in ConnStates
    /\ idles \subseteq Sources /\ regIdle \in {"none", "ok", "fail", "token", "bad"}
    /\ reIdle \in BOOLEAN /\ told.last \in Reported

\* The main loop is in the middle of something, and the connection thread runs,
\* only while there is a manager; without one nothing is left that could call
\* back, so that only a new connect starts a thread.
ConnInv ==
    /\ ConnTypes
    /\ main.pc = "tell" => main.then \in {"loop", "stop"}
    /\ main.pc # "loop" => nm.h2
    /\ conn.pc # "none" => nm.h2
    /\ ~mg.net => network.pc = "exited"
    /\ ~nm.h2 /\ dangling = {} => idles = {} /\ regIdle = "none" /\ ~mg.net

\* The main loop goes to p, and on as before or to q.
LEMMA MainGoes ==
    ASSUME NEW m \in MainStates, NEW p \in {"loop", "tell", "stop", "join", "freeing", "joinConn"}
    PROVE  /\ [m EXCEPT !.pc = p] \in MainStates
           /\ [m EXCEPT !.pc = p].pc = p /\ [m EXCEPT !.pc = p].then = m.then
  BY DEF MainStates

LEMMA MainGoesOn ==
    ASSUME NEW m \in MainStates, NEW p \in {"loop", "tell", "stop", "join", "freeing", "joinConn"},
           NEW q \in {"none", "loop", "stop", "report", "servers", "free"}
    PROVE  /\ [m EXCEPT !.pc = p, !.then = q] \in MainStates
           /\ [m EXCEPT !.pc = p, !.then = q].pc = p
  BY DEF MainStates

LEMMA MainFrees ==
    ASSUME NEW p \in {"loop", "tell", "stop", "join", "freeing", "joinConn"},
           NEW q \in {"none", "loop", "stop", "report", "servers", "free"},
           NEW e \in BOOLEAN
    PROVE  [pc |-> p, then |-> q, emit |-> e] \in MainStates
  BY DEF MainStates

LEMMA ConnGoes ==
    ASSUME NEW c \in ConnStates,
           NEW p \in {"none", "next", "wait", "read", "connected", "stop", "stopToken",
                      "reported", "end"},
           NEW code \in {"ok", "fail", "token"}
    PROVE  /\ [c EXCEPT !.pc = p] \in ConnStates /\ [c EXCEPT !.pc = p].pc = p
           /\ [c EXCEPT !.hdr = TRUE, !.code = code] \in ConnStates
           /\ [c EXCEPT !.hdr = TRUE, !.code = code].pc = c.pc
           /\ [c EXCEPT !.hdr = TRUE] \in ConnStates
           /\ [c EXCEPT !.hdr = TRUE].pc = c.pc
<1>1. [c EXCEPT !.pc = p] \in ConnStates /\ [c EXCEPT !.pc = p].pc = p  BY DEF ConnStates
<1>2. /\ [c EXCEPT !.hdr = TRUE, !.code = code] \in ConnStates
      /\ [c EXCEPT !.hdr = TRUE, !.code = code].pc = c.pc
  BY DEF ConnStates
<1>3. [c EXCEPT !.hdr = TRUE] \in ConnStates /\ [c EXCEPT !.hdr = TRUE].pc = c.pc
  BY DEF ConnStates
<1> QED  BY <1>1, <1>2, <1>3

\* What is done to a network: it is told to stop, its loop goes on, a request
\* comes or goes.
LEMMA NetworkGoes ==
    ASSUME NEW n \in Networks, NEW p \in {"poll", "wait"}, NEW r \in {"registry", "ping", "event"}
    PROVE  /\ [n EXCEPT !.stop = TRUE] \in Networks /\ [n EXCEPT !.stop = TRUE].pc = n.pc
           /\ [n EXCEPT !.pc = p] \in Networks
           /\ [n EXCEPT !.reqs = n.reqs \cup {r}] \in Networks
           /\ [n EXCEPT !.reqs = n.reqs \cup {r}].pc = n.pc
           /\ [n EXCEPT !.reqs = n.reqs \ {r}] \in Networks
           /\ [n EXCEPT !.reqs = n.reqs \ {r}].pc = n.pc
           /\ [n EXCEPT !.reqs = n.reqs \ {r}, !.pc = p] \in Networks
           /\ [n EXCEPT !.pc = "exited", !.reqs = {}] \in Networks
           /\ [n EXCEPT !.pc = "exited", !.reqs = {}].pc = "exited"
<1>1. [n EXCEPT !.stop = TRUE] \in Networks /\ [n EXCEPT !.stop = TRUE].pc = n.pc
  BY DEF Networks
<1>2. [n EXCEPT !.pc = p] \in Networks  BY DEF Networks
<1>3. /\ [n EXCEPT !.reqs = n.reqs \cup {r}] \in Networks
      /\ [n EXCEPT !.reqs = n.reqs \cup {r}].pc = n.pc
  BY DEF Networks
<1>4. /\ [n EXCEPT !.reqs = n.reqs \ {r}] \in Networks
      /\ [n EXCEPT !.reqs = n.reqs \ {r}].pc = n.pc
  BY DEF Networks
<1>5. [n EXCEPT !.reqs = n.reqs \ {r}, !.pc = p] \in Networks  BY DEF Networks
<1>6. /\ [n EXCEPT !.pc = "exited", !.reqs = {}] \in Networks
      /\ [n EXCEPT !.pc = "exited", !.reqs = {}].pc = "exited"
  BY DEF Networks
<1> QED  BY <1>1, <1>2, <1>3, <1>4, <1>5, <1>6

\* A report of the main loop, by the callback of nugu_network_manager.c
LEMMA ReportKept ==
    ASSUME ConnInv, nm.h2, NEW g \in Managers, NEW then \in {"loop", "stop"},
           Conn!StatusCallback(g, then)
    PROVE  /\ nm' \in Nms /\ nm'.h2 /\ mg' \in Managers /\ mg'.net = g.net
           /\ network' \in Networks /\ network'.pc = network.pc
           /\ main' \in MainStates
           /\ main'.pc = "tell" => main'.then \in {"loop", "stop"}
<1>0. nm \in Nms /\ network \in Networks /\ main \in MainStates  BY DEF ConnInv, ConnTypes
<1>a. Conn!StatusOf(g.status) \in {"CONNECTED", "TOKEN_ERROR", "DISCONNECTED"}
  BY DEF Conn!StatusOf
<1>1. CASE ~g.cb \/ g.status \in {"CONNECTING", "READY"}
  <2>1. mg' = g /\ main' = [main EXCEPT !.pc = then] /\ UNCHANGED <<nm, network>>
    BY <1>1 DEF Conn!StatusCallback
  <2> QED  BY <2>1, <1>0, MainGoes
<1>2. CASE /\ g.cb /\ g.status \notin {"CONNECTING", "READY"}
           /\ Conn!StatusOf(g.status) = "DISCONNECTED"
  <2>1. Conn!Disconnect(g)  BY <1>2 DEF Conn!StatusCallback
  <2>2. nm' = [nm EXCEPT !.cur = "DISCONNECTED"] /\ mg' = [g EXCEPT !.cb = FALSE]
    BY <2>1 DEF Conn!Disconnect
  <2>3. nm' \in Nms /\ nm'.h2  BY <2>2, <1>0 DEF Nms
  <2>4. mg' \in Managers /\ mg'.net = g.net  BY <2>2 DEF Managers
  <2>5. network' \in Networks /\ network'.pc = network.pc
    BY <2>1, <1>0, NetworkGoes DEF Conn!Disconnect
  <2>6. PICK p \in {"join", "freeing"}, e \in BOOLEAN :
            main' = [pc |-> p, then |-> "free", emit |-> e]
    BY <2>1 DEF Conn!Disconnect
  <2>7. main' \in MainStates /\ main'.pc # "tell"  BY <2>6, MainFrees
  <2> QED  BY <2>3, <2>4, <2>5, <2>7
<1>3. CASE /\ g.cb /\ g.status \notin {"CONNECTING", "READY"}
           /\ Conn!StatusOf(g.status) # "DISCONNECTED"
  <2>1. PICK s \in {"CONNECTED", "TOKEN_ERROR"} : s = Conn!StatusOf(g.status)
    BY <1>3, <1>a
  <2>2. /\ nm' = [nm EXCEPT !.cur = s, !.discIdle = @ \/ s = "TOKEN_ERROR"]
        /\ mg' = g /\ UNCHANGED network
        /\ main' = IF nm.cur = s THEN [main EXCEPT !.pc = then]
                   ELSE [pc |-> "tell", then |-> then, emit |-> FALSE]
    BY <1>3, <2>1 DEF Conn!StatusCallback
  <2>3. PICK b \in BOOLEAN : b = (nm.discIdle \/ s = "TOKEN_ERROR")  OBVIOUS
  <2>4. nm' = [nm EXCEPT !.cur = s, !.discIdle = b]  BY <2>2, <2>3
  <2>5. nm' \in Nms /\ nm'.h2  BY <2>4, <1>0 DEF Nms
  <2>6. main' \in MainStates /\ (main'.pc = "tell" => main'.then \in {"loop", "stop"})
    <3>1. CASE nm.cur = s  BY <3>1, <2>2, <1>0, MainGoes
    <3>2. CASE nm.cur # s
      <4>1. main' = [pc |-> "tell", then |-> then, emit |-> FALSE]  BY <3>2, <2>2
      <4> QED  BY <4>1, <1>0 DEF MainStates
    <3> QED  BY <3>1, <3>2
  <2> QED  BY <2>2, <2>5, <2>6, <1>0
<1> QED  BY <1>1, <1>2, <1>3

LEMMA StatusKept ==
    ASSUME ConnInv, NEW t \in Sources,
           NEW s \in {"CONNECTED", "DISCONNECTED", "TOKEN_FAILED"}, Conn!SetStatus(t, s)
    PROVE  mg' \in Managers /\ mg'.net = mg.net /\ idles' \subseteq Sources
<1>0. mg \in Managers /\ idles \subseteq Sources  BY DEF ConnInv, ConnTypes
<1>1. CASE mg.status = s  BY <1>0, <1>1 DEF Conn!SetStatus
<1>2. CASE mg.status # s
  <2>1. /\ mg' = [mg EXCEPT !.status = s, !.emit = FALSE, !.idle_source = t]
        /\ idles' = idles \cup {t}
    BY <1>2 DEF Conn!SetStatus
  <2>2. mg' \in Managers /\ mg'.net = mg.net  BY <2>1, <1>0 DEF Managers, Statuses, Sources
  <2> QED  BY <2>1, <2>2, <1>0
<1> QED  BY <1>1, <1>2

LEMMA ConnInitInv == ASSUME Conn!ConnectionAssumption PROVE Conn!Init => ConnInv
<1> SUFFICES ASSUME Conn!Init PROVE ConnInv  OBVIOUS
<1> USE DEF Conn!None
<1>1. nm \in Nms /\ ~nm.h2  BY DEF Conn!Init, Nms
<1>2. mg \in Managers /\ ~mg.net  BY DEF Conn!Init, Conn!NewManager, Managers, Statuses
<1>3. network \in Networks /\ network.pc = "exited"  BY DEF Conn!Init, Conn!Network, Networks
<1>4. main \in MainStates /\ main.pc = "loop"  BY DEF Conn!Init, MainStates
<1>5. conn \in ConnStates /\ conn.pc = "none"
  BY DEF Conn!Init, Conn!NoConn, ConnStates, Conn!ConnectionAssumption
<1>6. idles = {} /\ regIdle = "none" /\ reIdle = FALSE /\ told.last = "none"
  BY DEF Conn!Init
<1> QED  BY <1>1, <1>2, <1>3, <1>4, <1>5, <1>6 DEF ConnInv, ConnTypes, Reported

\* The main loop: only a connect makes a manager, only FreeManager ends it.
LEMMA MainStep ==
    ASSUME Conn!ConnectionAssumption, ConnInv, dangling = {}, Conn!MainNext PROVE ConnInv'
<1> USE DEF Conn!None
<1>0. /\ nm \in Nms /\ mg \in Managers /\ network \in Networks
      /\ main \in MainStates /\ conn \in ConnStates
  BY DEF ConnInv, ConnTypes
<1>1. CASE Conn!Connect
  <2>0. ~nm.h2 /\ idles = {} /\ regIdle = "none" /\ main.pc = "loop"
    BY <1>1 DEF Conn!Connect, ConnInv
  <2>1. nm' = [nm EXCEPT !.h2 = TRUE, !.cur = "UNKNOWN"]  BY <1>1 DEF Conn!Connect
  <2>2. nm' \in Nms /\ nm'.h2  BY <2>1, <1>0 DEF Nms
  <2>3. mg' \in Managers /\ mg'.net
    BY <1>1 DEF Conn!Connect, Conn!NewManager, Managers, Statuses
  <2>4. network' \in Networks
    <3>1. PICK s \in BOOLEAN, r \in SUBSET {"registry", "ping", "event"} :
              network' = [pc |-> "poll", stop |-> s, reqs |-> r]
      <4>1. network' = Conn!Network({"registry"})
            \/ network' = [Conn!Network({}) EXCEPT !.stop = TRUE]
        BY <1>1 DEF Conn!Connect, Conn!RegistryRequest
      <4> QED  BY <4>1 DEF Conn!Network
    <3> QED  BY <3>1 DEF Networks
  <2>5. main' \in MainStates /\ main'.pc # "tell"
    <3>1. main' = main \/ main' = [main EXCEPT !.pc = "join", !.then = "report"]
      BY <1>1 DEF Conn!Connect
    <3>2. [main EXCEPT !.pc = "join", !.then = "report"] \in MainStates
          /\ [main EXCEPT !.pc = "join", !.then = "report"].pc = "join"
      BY <1>0, MainGoesOn
    <3> QED  BY <3>1, <3>2, <2>0, <1>0
  <2>6. conn' \in ConnStates /\ conn'.pc = "none"
    BY <1>1 DEF Conn!Connect, Conn!NoConn, ConnStates, Conn!ConnectionAssumption
  <2>7. told'.last = "none" /\ UNCHANGED <<idles, regIdle, reIdle, dangling>>
    BY <1>1 DEF Conn!Connect, Conn!idleVars
  <2> QED  BY <2>2, <2>3, <2>4, <2>5, <2>6, <2>7 DEF ConnInv, ConnTypes, Reported
<1>2. CASE Conn!OnPolicy
  <2>0. nm.h2  BY <1>2 DEF Conn!OnPolicy, Conn!RegistryAnswers, ConnInv
  <2>1. regIdle' = "none" /\ UNCHANGED <<idles, reIdle, conn, told, dangling>>
    BY <1>2 DEF Conn!OnPolicy, Conn!RegistryAnswers
  <2>2. CASE Conn!StatusCallback([mg EXCEPT !.status = "TOKEN_FAILED"], "stop")
    <3>1. PICK g : g = [mg EXCEPT !.status = "TOKEN_FAILED"]  OBVIOUS
    <3>2. g \in Managers /\ g.net = mg.net  BY <3>1, <1>0 DEF Managers, Statuses
    <3>3. Conn!StatusCallback(g, "stop")  BY <2>2, <3>1
    <3> QED  BY <3>2, <3>3, <2>0, <2>1, ReportKept DEF ConnInv, ConnTypes
  <2>3. CASE /\ network' = [network EXCEPT !.stop = TRUE]
             /\ main' = [main EXCEPT !.pc = "join",
                            !.then = IF Conn!HasServers(regIdle) THEN "servers" ELSE "report"]
             /\ UNCHANGED <<nm, mg>>
    <3>1. network' \in Networks /\ network'.pc = network.pc  BY <2>3, <1>0, NetworkGoes
    <3>2. PICK q \in {"servers", "report"} : main' = [main EXCEPT !.pc = "join", !.then = q]
      BY <2>3
    <3>3. main' \in MainStates /\ main'.pc # "tell"  BY <3>2, <1>0, MainGoesOn
    <3> QED  BY <3>1, <3>3, <2>0, <2>1, <2>3 DEF ConnInv, ConnTypes
  <2> QED  BY <2>2, <2>3, <1>2 DEF Conn!OnPolicy
<1>3. CASE Conn!StopNetwork
  <2>1. network' \in Networks /\ network'.pc = network.pc
    BY <1>3, <1>0, NetworkGoes DEF Conn!StopNetwork
  <2>2. main' \in MainStates /\ main'.pc = "join"
    <3>1. main' = [main EXCEPT !.pc = "join", !.then = "loop"]  BY <1>3 DEF Conn!StopNetwork
    <3> QED  BY <3>1, <1>0, MainGoesOn
  <2>3. main.pc # "loop" /\ UNCHANGED <<nm, mg, idles, regIdle, reIdle, conn, told, dangling>>
    BY <1>3 DEF Conn!StopNetwork, Conn!idleVars
  <2> QED  BY <2>1, <2>2, <2>3 DEF ConnInv, ConnTypes
<1>4. CASE Conn!Joined
  <2>1. /\ network.pc = "exited" /\ main.pc = "join"
        /\ UNCHANGED <<idles, regIdle, reIdle, told>>
    BY <1>4 DEF Conn!Joined, Conn!idleVars
  <2>0. nm.h2  BY <2>1 DEF ConnInv
  <2>2. PICK g : g = [mg EXCEPT !.net = FALSE]  OBVIOUS
  <2>3. g \in Managers /\ ~g.net  BY <2>2, <1>0 DEF Managers
  <2>4. CASE main.then = "loop"
    <3>1. mg' = g /\ main' = [main EXCEPT !.pc = "loop"] /\ UNCHANGED <<nm, network, conn>>
      BY <1>4, <2>2, <2>4 DEF Conn!Joined
    <3>2. main' \in MainStates /\ main'.pc = "loop"  BY <3>1, <1>0, MainGoes
    <3> QED  BY <3>1, <3>2, <2>0, <2>1, <2>3 DEF ConnInv, ConnTypes
  <2>5. CASE main.then = "servers"
    <3>1. /\ mg' = g /\ main' = [main EXCEPT !.pc = "loop"]
          /\ conn' = Conn!ConnectionThread /\ UNCHANGED <<nm, network>>
      BY <1>4, <2>2, <2>5 DEF Conn!Joined
    <3>2. main' \in MainStates /\ main'.pc = "loop"  BY <3>1, <1>0, MainGoes
    <3>3. conn' = [pc |-> "next", left |-> Servers, hdr |-> FALSE, code |-> "none"]
      BY <3>1 DEF Conn!ConnectionThread, Conn!NoConn
    <3>a. conn' \in ConnStates
      <4>1. Servers \in 0..Servers  BY DEF Conn!ConnectionAssumption
      <4> QED  BY <3>3, <4>1 DEF ConnStates
    <3> QED  BY <3>1, <3>2, <3>a, <2>0, <2>1, <2>3 DEF ConnInv, ConnTypes
  <2>6. CASE main.then = "report"
    <3>1. PICK h : h = [g EXCEPT !.status = "DISCONNECTED"]  OBVIOUS
    <3>2. h \in Managers /\ ~h.net  BY <3>1, <2>3 DEF Managers, Statuses
    <3>3. Conn!StatusCallback(h, "loop") /\ UNCHANGED conn
      BY <1>4, <2>6, <2>2, <3>1 DEF Conn!Joined
    <3> QED  BY <3>2, <3>3, <2>0, <2>1, ReportKept DEF ConnInv, ConnTypes
  <2>7. CASE main.then = "free"
    <3>1. /\ mg' = [g EXCEPT !.status = "DISCONNECTED"]
          /\ main' = [main EXCEPT !.pc = "freeing"] /\ UNCHANGED <<nm, network, conn>>
      BY <1>4, <2>2, <2>7 DEF Conn!Joined
    <3>2. mg' \in Managers /\ ~mg'.net  BY <3>1, <2>3 DEF Managers, Statuses
    <3>3. main' \in MainStates /\ main'.pc = "freeing"  BY <3>1, <1>0, MainGoes
    <3> QED  BY <3>1, <3>2, <3>3, <2>0, <2>1 DEF ConnInv, ConnTypes
  <2> QED  BY <2>4, <2>5, <2>6, <2>7, <1>4 DEF Conn!Joined
<1>5. CASE Conn!FreeParts
  <2>1. /\ mg' = [mg EXCEPT !.ping = FALSE, !.dir = FALSE, !.idle_source = "none"]
        /\ reIdle' = FALSE /\ idles' \subseteq idles
        /\ main' = [main EXCEPT !.pc = "joinConn"]
        /\ main.pc # "loop" /\ UNCHANGED <<nm, regIdle, network, conn, told>>
    BY <1>5 DEF Conn!FreeParts
  <2>2. mg' \in Managers /\ mg'.net = mg.net  BY <2>1, <1>0 DEF Managers
  <2>3. main' \in MainStates /\ main'.pc = "joinConn"  BY <2>1, <1>0, MainGoes
  <2> QED  BY <2>1, <2>2, <2>3 DEF ConnInv, ConnTypes
<1>6. CASE Conn!FreeManager
  <2>1. /\ nm' = [nm EXCEPT !.h2 = FALSE] /\ conn.pc = "none"
        /\ main' = [main EXCEPT !.pc = "loop"]
        /\ UNCHANGED <<mg, idles, regIdle, reIdle, network, conn>>
    BY <1>6 DEF Conn!FreeManager, Conn!idleVars
  <2>2. nm' \in Nms /\ ~nm'.h2  BY <2>1, <1>0 DEF Nms
  <2>3. main' \in MainStates /\ main'.pc = "loop"  BY <2>1, <1>0, MainGoes
  <2>4. told'.last \in Reported
    BY <1>6 DEF Conn!FreeManager, Conn!Tell, ConnInv, ConnTypes, Reported
  <2>5. dangling' = {} => idles = {} /\ regIdle = "none" /\ ~mg.net
    <3>1. /\ {o \in {"network"} : mg.net} \subseteq dangling'
          /\ {o \in {"idle"} : idles # {}} \subseteq dangling'
          /\ {o \in {"registry"} : regIdle # "none"} \subseteq dangling'
      BY <1>6 DEF Conn!FreeManager
    <3> QED  BY <3>1
  <2> QED  BY <2>1, <2>2, <2>3, <2>4, <2>5 DEF ConnInv, ConnTypes
<1>7. ASSUME NEW t \in Sources, Conn!EmitInIdle(t) PROVE ConnInv'
  <2>0. nm.h2  BY <1>7 DEF Conn!EmitInIdle, ConnInv
  <2>1. PICK g : g = [mg EXCEPT !.emit = TRUE, !.idle_source = "none"]  OBVIOUS
  <2>2. g \in Managers /\ g.net = mg.net  BY <2>1, <1>0 DEF Managers
  <2>3. /\ Conn!StatusCallback(g, "loop") /\ idles' = idles \ {t}
        /\ UNCHANGED <<regIdle, reIdle, conn, told, dangling>>
    BY <1>7, <2>1 DEF Conn!EmitInIdle
  <2> QED  BY <2>2, <2>3, <2>0, ReportKept DEF ConnInv, ConnTypes
<1>8. CASE Conn!DisconnectInIdle
  <2>0. UNCHANGED <<idles, regIdle, reIdle, conn, told, dangling>>
    BY <1>8 DEF Conn!DisconnectInIdle, Conn!idleVars
  <2>1. CASE ~nm.h2
    <3>1. nm' = [nm EXCEPT !.discIdle = FALSE] /\ UNCHANGED <<mg, network, main>>
      BY <1>8, <2>1 DEF Conn!DisconnectInIdle
    <3>2. nm' \in Nms /\ nm'.h2 = nm.h2  BY <3>1, <1>0 DEF Nms
    <3> QED  BY <2>0, <3>1, <3>2 DEF ConnInv, ConnTypes
  <2>2. CASE nm.h2
    <3>1. /\ nm' = [nm EXCEPT !.discIdle = FALSE, !.cur = "DISCONNECTED"]
          /\ mg' = [mg EXCEPT !.cb = FALSE]
      BY <1>8, <2>2 DEF Conn!DisconnectInIdle
    <3>2. nm' \in Nms /\ nm'.h2  BY <2>2, <3>1, <1>0 DEF Nms
    <3>3. mg' \in Managers /\ mg'.net = mg.net  BY <3>1, <1>0 DEF Managers
    <3>4. network' \in Networks /\ network'.pc = network.pc
      BY <1>8, <2>2, <1>0, NetworkGoes DEF Conn!DisconnectInIdle
    <3>5. PICK p \in {"join", "freeing"}, e \in BOOLEAN :
              main' = [pc |-> p, then |-> "free", emit |-> e]
      BY <1>8, <2>2 DEF Conn!DisconnectInIdle
    <3>6. main' \in MainStates /\ main'.pc # "tell"  BY <3>5, MainFrees
    <3> QED  BY <2>0, <3>2, <3>3, <3>4, <3>6 DEF ConnInv, ConnTypes
  <2> QED  BY <2>1, <2>2
<1>9. CASE Conn!UserDisconnects
  <2>0. nm.h2 /\ UNCHANGED <<idles, regIdle, reIdle, conn, told, dangling>>
    BY <1>9 DEF Conn!UserDisconnects, Conn!idleVars
  <2>1. nm' = [nm EXCEPT !.cur = "DISCONNECTED"] /\ mg' = [mg EXCEPT !.cb = FALSE]
    BY <1>9 DEF Conn!UserDisconnects, Conn!Disconnect
  <2>2. nm' \in Nms /\ nm'.h2  BY <2>0, <2>1, <1>0 DEF Nms
  <2>3. mg' \in Managers /\ mg'.net = mg.net  BY <2>1, <1>0 DEF Managers
  <2>4. network' \in Networks /\ network'.pc = network.pc
    BY <1>9, <1>0, NetworkGoes DEF Conn!UserDisconnects, Conn!Disconnect
  <2>5. PICK p \in {"join", "freeing"}, e \in BOOLEAN :
            main' = [pc |-> p, then |-> "free", emit |-> e]
    BY <1>9 DEF Conn!UserDisconnects, Conn!Disconnect
  <2>6. main' \in MainStates /\ main'.pc # "tell"  BY <2>5, MainFrees
  <2> QED  BY <2>0, <2>2, <2>3, <2>4, <2>6 DEF ConnInv, ConnTypes
<1>10. CASE Conn!ReEstablish
  <2>1. reIdle' = FALSE /\ UNCHANGED <<nm, mg, idles, regIdle, network, conn, main, told, dangling>>
    BY <1>10 DEF Conn!ReEstablish
  <2> QED  BY <2>1 DEF ConnInv, ConnTypes
<1>11. CASE Conn!TellListener
  <2>1. /\ main.pc = "tell" /\ main' = [main EXCEPT !.pc = main.then]
        /\ UNCHANGED <<nm, mg, idles, regIdle, reIdle, network, conn, dangling>>
    BY <1>11 DEF Conn!TellListener, Conn!idleVars
  <2>2. told'.last \in Reported
    BY <1>11 DEF Conn!TellListener, Conn!Tell, Conn!StatusOf, Reported
  <2>3. PICK q \in {"loop", "stop"} : q = main.then  BY <2>1 DEF ConnInv
  <2>4. main' \in MainStates /\ main'.pc # "tell"  BY <2>1, <2>3, <1>0, MainGoes
  <2> QED  BY <2>1, <2>2, <2>4 DEF ConnInv, ConnTypes
<1>12. ASSUME NEW r \in {"ping", "event"}, Conn!SendRequest(r) PROVE ConnInv'
  <2>1. /\ network' = [network EXCEPT !.reqs = network.reqs \cup {r}]
        /\ UNCHANGED <<nm, mg, idles, regIdle, reIdle, conn, main, told, dangling>>
    BY <1>12 DEF Conn!SendRequest, Conn!idleVars
  <2>2. network' \in Networks /\ network'.pc = network.pc  BY <2>1, <1>0, NetworkGoes
  <2> QED  BY <2>1, <2>2 DEF ConnInv, ConnTypes
<1> QED  BY <1>1, <1>2, <1>3, <1>4, <1>5, <1>6, <1>7, <1>8, <1>9, <1>10, <1>11, <1>12
         DEF Conn!MainNext, Sources

\* The connection thread runs on a manager, and gives it a network.
LEMMA ConnStep ==
    ASSUME Conn!ConnectionAssumption, ConnInv, dangling = {}, Conn!ConnNext PROVE ConnInv'
<1> USE DEF Conn!None
<1>0. mg \in Managers /\ network \in Networks /\ conn \in ConnStates  BY DEF ConnInv, ConnTypes
<1>1. CASE Conn!TryServer
  <2>1. PICK g : g = [mg EXCEPT !.net = TRUE]  OBVIOUS
  <2>2. g \in Managers /\ g.net  BY <2>1, <1>0 DEF Managers
  <2>3. /\ mg' = [g EXCEPT !.dir = TRUE] /\ conn.pc # "none" /\ conn.left > 0
        /\ conn' = [pc |-> "wait", left |-> conn.left - 1, hdr |-> FALSE, code |-> "none"]
        /\ UNCHANGED <<nm, idles, regIdle, reIdle, main, told, dangling>>
    BY <1>1, <2>1 DEF Conn!TryServer, Conn!EstablishDirective, Conn!idleVars
  <2>4. mg' \in Managers /\ mg'.net  BY <2>2, <2>3 DEF Managers
  <2>5. network' \in Networks
    BY <1>1, <1>0 DEF Conn!TryServer, Conn!NetworkStart, Conn!Network, Networks
  <2>6. conn.left - 1 \in 0..Servers
    BY <2>3, <1>0 DEF ConnStates, Conn!ConnectionAssumption
  <2>7. conn' \in ConnStates  BY <2>3, <2>6 DEF ConnStates
  <2> QED  BY <2>3, <2>4, <2>5, <2>7 DEF ConnInv, ConnTypes
<1>2. CASE Conn!HeaderArrived \/ Conn!HeaderTimeout
  <2>1. /\ conn' = [conn EXCEPT !.pc = "read"] /\ conn.pc # "none"
        /\ UNCHANGED <<nm, mg, idles, regIdle, reIdle, network, main, told, dangling>>
    BY <1>2 DEF Conn!HeaderArrived, Conn!HeaderTimeout, Conn!idleVars
  <2>2. conn' \in ConnStates  BY <2>1, <1>0, ConnGoes
  <2> QED  BY <2>1, <2>2 DEF ConnInv, ConnTypes
<1>3. CASE Conn!ReadCode
  <2>0. conn.pc # "none" /\ UNCHANGED <<nm, regIdle, reIdle, main, told, dangling>>
    BY <1>3 DEF Conn!ReadCode
  <2>1. CASE conn.code = "ok"
    <3>1. /\ Conn!SetStatus("conn", "CONNECTED") /\ UNCHANGED network
          /\ conn' = [conn EXCEPT !.pc = "connected"]
      BY <1>3, <2>1 DEF Conn!ReadCode
    <3>2. conn' \in ConnStates  BY <3>1, <1>0, ConnGoes
    <3>3. mg' \in Managers /\ mg'.net = mg.net /\ idles' \subseteq Sources
      BY <3>1, StatusKept DEF Sources
    <3> QED  BY <2>0, <3>1, <3>2, <3>3 DEF ConnInv, ConnTypes
  <2>2. CASE conn.code # "ok"
    <3>1. mg' = [mg EXCEPT !.dir = FALSE] /\ UNCHANGED idles
      BY <1>3, <2>2 DEF Conn!ReadCode
    <3>2. mg' \in Managers /\ mg'.net = mg.net  BY <3>1, <1>0 DEF Managers
    <3>3. network' \in Networks /\ network'.pc = network.pc
      BY <1>3, <2>2, <1>0, NetworkGoes DEF Conn!ReadCode
    <3>4. PICK p \in {"stop", "stopToken"} : conn' = [conn EXCEPT !.pc = p]
      BY <1>3, <2>2 DEF Conn!ReadCode
    <3>5. conn' \in ConnStates  BY <3>4, <1>0, ConnGoes
    <3> QED  BY <2>0, <3>1, <3>2, <3>3, <3>5 DEF ConnInv, ConnTypes
  <2> QED  BY <2>1, <2>2
<1>4. CASE Conn!ServerFailed
  <2>0. /\ conn.pc # "none" /\ network.pc = "exited"
        /\ UNCHANGED <<nm, regIdle, reIdle, network, main, told>>
    BY <1>4 DEF Conn!ServerFailed
  <2>1. PICK p \in {"reported", "next"} : conn' = [conn EXCEPT !.pc = p]
    BY <1>4 DEF Conn!ServerFailed
  <2>2. conn' \in ConnStates  BY <2>1, <1>0, ConnGoes
  <2>3. mg' \in Managers /\ idles' \subseteq Sources
    <3>1. CASE mg' = [mg EXCEPT !.net = FALSE] /\ UNCHANGED idles
      <4>1. mg' \in Managers  BY <3>1, <1>0 DEF Managers
      <4> QED  BY <3>1, <4>1 DEF ConnInv, ConnTypes
    <3>2. CASE /\ mg' = [mg EXCEPT !.net = FALSE, !.status = "TOKEN_FAILED",
                                   !.emit = FALSE, !.idle_source = "conn"]
               /\ idles' = idles \cup {"conn"}
      <4>1. mg' \in Managers  BY <3>2, <1>0 DEF Managers, Statuses
      <4> QED  BY <3>2, <4>1 DEF ConnInv, ConnTypes, Sources
    <3> QED  BY <3>1, <3>2, <1>4 DEF Conn!ServerFailed
  <2> QED  BY <2>0, <2>2, <2>3 DEF ConnInv, ConnTypes
<1>5. CASE Conn!EstablishPing
  <2>1. /\ mg' = [mg EXCEPT !.ping = mg.net] /\ conn' = [conn EXCEPT !.pc = "end"]
        /\ conn.pc # "none"
        /\ UNCHANGED <<nm, idles, regIdle, reIdle, network, main, told, dangling>>
    BY <1>5 DEF Conn!EstablishPing, Conn!idleVars
  <2>2. mg' \in Managers /\ mg'.net = mg.net  BY <2>1, <1>0 DEF Managers
  <2>3. conn' \in ConnStates  BY <2>1, <1>0, ConnGoes
  <2> QED  BY <2>1, <2>2, <2>3 DEF ConnInv, ConnTypes
<1>6. CASE Conn!ConnectEnds
  <2>0. conn.pc # "none" /\ UNCHANGED <<nm, regIdle, reIdle, network, main, told, dangling>>
    BY <1>6 DEF Conn!ConnectEnds
  <2>1. CASE mg.status = "CONNECTING"
    <3>1. Conn!SetStatus("conn", "DISCONNECTED") /\ conn' = [conn EXCEPT !.pc = "reported"]
      BY <1>6, <2>1 DEF Conn!ConnectEnds
    <3>2. conn' \in ConnStates  BY <3>1, <1>0, ConnGoes
    <3>3. mg' \in Managers /\ mg'.net = mg.net /\ idles' \subseteq Sources
      BY <3>1, StatusKept DEF Sources
    <3> QED  BY <2>0, <3>2, <3>3 DEF ConnInv, ConnTypes
  <2>2. CASE mg.status # "CONNECTING"
    <3>1. conn' = [conn EXCEPT !.pc = "none"] /\ UNCHANGED <<mg, idles>>
      BY <1>6, <2>2 DEF Conn!ConnectEnds
    <3>2. conn' \in ConnStates /\ conn'.pc = "none"  BY <3>1, <1>0, ConnGoes
    <3> QED  BY <2>0, <3>1, <3>2 DEF ConnInv, ConnTypes
  <2> QED  BY <2>1, <2>2
<1> QED  BY <1>1, <1>2, <1>3, <1>4, <1>5, <1>6 DEF Conn!ConnNext

\* A report of the HTTP/2 thread, which is at work only while the manager has
\* its network
LEMMA Http2Reports ==
    ASSUME ConnInv, NEW s \in {"CONNECTED", "DISCONNECTED", "TOKEN_FAILED"},
           network.pc = "poll", dangling = {}, network' \in Networks,
           conn' \in ConnStates, conn'.pc = conn.pc,
           Conn!SetStatus("http2", s) \/ UNCHANGED <<mg, idles>>,
           UNCHANGED <<nm, regIdle, reIdle, main, told, dangling>>
    PROVE  ConnInv'
<1>1. mg.net /\ nm.h2  BY DEF ConnInv
<1>2. mg' \in Managers /\ mg'.net = mg.net /\ idles' \subseteq Sources
  BY StatusKept DEF Sources, ConnInv, ConnTypes
<1> QED  BY <1>1, <1>2 DEF ConnInv, ConnTypes

LEMMA Http2Step ==
    ASSUME ConnInv, dangling = {}, Conn!Http2Next PROVE ConnInv'
<1> USE DEF Conn!None
<1>0. network \in Networks /\ conn \in ConnStates  BY DEF ConnInv, ConnTypes
<1>1. CASE Conn!RegistryDone
  <2>1. /\ regIdle' \in {"ok", "fail", "token", "bad"} /\ network.pc = "poll"
        /\ network' = [network EXCEPT !.reqs = network.reqs \ {"registry"}]
        /\ UNCHANGED <<nm, mg, idles, reIdle, conn, main, told, dangling>>
    BY <1>1 DEF Conn!RegistryDone, Conn!Polls
  <2>2. network' \in Networks /\ network'.pc = "poll"  BY <2>1, <1>0, NetworkGoes
  <2>3. mg.net /\ nm.h2  BY <2>1 DEF ConnInv
  <2> QED  BY <2>1, <2>2, <2>3 DEF ConnInv, ConnTypes
<1>2. CASE Conn!ContentType
  <2>1. /\ Conn!SetStatus("http2", "CONNECTED") /\ network.pc = "poll"
        /\ network' = [network EXCEPT !.pc = "wait"]
        /\ UNCHANGED <<nm, regIdle, reIdle, conn, main, told, dangling>>
    BY <1>2 DEF Conn!ContentType, Conn!Polls
  <2>2. network' \in Networks  BY <2>1, <1>0, NetworkGoes
  <2> QED  BY <2>1, <2>2, <1>0, Http2Reports
<1>3. CASE Conn!StreamEnds
  <2>1. /\ reIdle' \in BOOLEAN
        /\ UNCHANGED <<nm, mg, idles, regIdle, network, conn, main, told, dangling>>
    BY <1>3 DEF Conn!StreamEnds
  <2> QED  BY <2>1 DEF ConnInv, ConnTypes
<1>4. CASE Conn!StreamLost
  <2>1. network.pc = "poll" /\ UNCHANGED <<nm, regIdle, reIdle, main, told, dangling>>
    BY <1>4 DEF Conn!StreamLost, Conn!Polls
  <2>2. conn' \in ConnStates /\ conn'.pc = conn.pc  BY <1>4, <1>0, ConnGoes DEF Conn!StreamLost
  <2>3. /\ network' = [network EXCEPT !.pc = "wait"] \/ UNCHANGED network
        /\ Conn!SetStatus("http2", "DISCONNECTED") \/ UNCHANGED <<mg, idles>>
    BY <1>4 DEF Conn!StreamLost
  <2>4. network' \in Networks  BY <2>3, <1>0, NetworkGoes
  <2> QED  BY <2>1, <2>2, <2>3, <2>4, Http2Reports
<1>5. CASE Conn!ReportDone
  <2>1. /\ network' = [network EXCEPT !.pc = "poll"] /\ network.pc = "wait"
        /\ UNCHANGED <<nm, mg, idles, regIdle, reIdle, conn, main, told, dangling>>
    BY <1>5 DEF Conn!ReportDone, Conn!idleVars
  <2>2. network' \in Networks  BY <2>1, <1>0, NetworkGoes
  <2> QED  BY <2>1, <2>2 DEF ConnInv, ConnTypes
<1>6. CASE Conn!LoopEnds
  <2>1. /\ network' = [network EXCEPT !.pc = "exited", !.reqs = {}]
        /\ UNCHANGED <<nm, mg, idles, regIdle, reIdle, conn, main, told, dangling>>
    BY <1>6 DEF Conn!LoopEnds, Conn!idleVars
  <2>2. network' \in Networks /\ network'.pc = "exited"  BY <2>1, <1>0, NetworkGoes
  <2> QED  BY <2>1, <2>2 DEF ConnInv, ConnTypes
<1>7. ASSUME NEW code \in {"ok", "fail", "token"}, Conn!StatusLine(code) PROVE ConnInv'
  <2>1. network.pc = "poll" /\ UNCHANGED <<nm, regIdle, reIdle, main, told, dangling>>
    BY <1>7 DEF Conn!StatusLine, Conn!Polls
  <2>2. conn' \in ConnStates /\ conn'.pc = conn.pc  BY <1>7, <1>0, ConnGoes DEF Conn!StatusLine
  <2>a. PICK s \in {"DISCONNECTED", "TOKEN_FAILED"} :
            s = IF code = "token" THEN "TOKEN_FAILED" ELSE "DISCONNECTED"  OBVIOUS
  <2>3. /\ network' = [network EXCEPT !.pc = "wait"] \/ UNCHANGED network
        /\ Conn!SetStatus("http2", s) \/ UNCHANGED <<mg, idles>>
    BY <1>7, <2>a DEF Conn!StatusLine
  <2>4. network' \in Networks  BY <2>3, <1>0, NetworkGoes
  <2> QED  BY <2>1, <2>2, <2>3, <2>4, Http2Reports
<1>8. ASSUME NEW r \in {"ping", "event"}, NEW code \in {"ok", "fail", "token"},
             Conn!RequestDone(r, code)
      PROVE  ConnInv'
  <2>1. network.pc = "poll" /\ UNCHANGED <<nm, regIdle, reIdle, conn, main, told, dangling>>
    BY <1>8 DEF Conn!RequestDone, Conn!Polls
  <2>a. PICK s \in {"DISCONNECTED", "TOKEN_FAILED"} :
            s = IF code = "token" THEN "TOKEN_FAILED" ELSE "DISCONNECTED"  OBVIOUS
  <2>3. /\ \/ network' = [network EXCEPT !.reqs = network.reqs \ {r}, !.pc = "wait"]
           \/ network' = [network EXCEPT !.reqs = network.reqs \ {r}]
        /\ Conn!SetStatus("http2", s) \/ UNCHANGED <<mg, idles>>
    BY <1>8, <2>a DEF Conn!RequestDone
  <2>4. CASE network' = [network EXCEPT !.reqs = network.reqs \ {r}, !.pc = "wait"]
    <3>1. network' \in Networks  BY <2>4, <1>0, NetworkGoes
    <3> QED  BY <2>1, <2>3, <3>1, <1>0, Http2Reports
  <2>5. CASE network' = [network EXCEPT !.reqs = network.reqs \ {r}]
    <3>1. network' \in Networks  BY <2>5, <1>0, NetworkGoes
    <3> QED  BY <2>1, <2>3, <3>1, <1>0, Http2Reports
  <2> QED  BY <2>3, <2>4, <2>5
<1> QED  BY <1>1, <1>2, <1>3, <1>4, <1>5, <1>6, <1>7, <1>8 DEF Conn!Http2Next

LEMMA ConnectionStep ==
    ASSUME Conn!ConnectionAssumption PROVE ConnInv /\ [Conn!Next]_(Conn!vars) => ConnInv'
<1> SUFFICES ASSUME ConnInv, [Conn!Next]_(Conn!vars) PROVE ConnInv'  OBVIOUS
<1>0. network \in Networks  BY DEF ConnInv, ConnTypes
<1>1. CASE Conn!SenderChecks \/ UNCHANGED Conn!vars
  <2>1. UNCHANGED <<nm, mg, idles, regIdle, reIdle, network, conn, main, told, dangling>>
    BY <1>1 DEF Conn!SenderChecks, Conn!idleVars, Conn!vars
  <2> QED  BY <2>1 DEF ConnInv, ConnTypes
<1>2. CASE Conn!SenderSends
  <2>1. /\ \/ network' = [network EXCEPT !.reqs = network.reqs \cup {"event"}]
           \/ UNCHANGED network
        /\ UNCHANGED <<nm, mg, idles, regIdle, reIdle, conn, main, told, dangling>>
    BY <1>2 DEF Conn!SenderSends, Conn!idleVars
  <2>2. network' \in Networks /\ network'.pc = network.pc  BY <2>1, <1>0, NetworkGoes
  <2> QED  BY <2>1, <2>2 DEF ConnInv, ConnTypes
<1> QED  BY <1>1, <1>2, MainStep, ConnStep, Http2Step DEF Conn!Next

\* The connection thread never outlives the manager it works on
\* (h2manager_free() joins it), for any number of servers, whatever fails, in
\* whatever order the three threads and the application take their steps.
THEOREM ConnectionThreadJoined ==
    ASSUME Conn!ConnectionAssumption
    PROVE  Conn!Spec => [](Conn!TypeOK /\ Conn!ThreadJoined)
<1>1. ConnInv => Conn!TypeOK /\ Conn!ThreadJoined
  <2> SUFFICES ASSUME ConnInv PROVE Conn!TypeOK /\ Conn!ThreadJoined  OBVIOUS
  <2>1. conn.left \in 0..Servers  BY DEF ConnInv, ConnTypes, ConnStates
  <2>2. Conn!TypeOK
    BY <2>1 DEF ConnInv, ConnTypes, Nms, Managers, Networks, Statuses, Sources, Reported,
                Conn!TypeOK, Conn!None
  <2>3. Conn!ThreadJoined  BY DEF ConnInv, Conn!ThreadJoined, Conn!None
  <2> QED  BY <2>2, <2>3
<1> QED  BY ConnInitInv, ConnectionStep, <1>1, PTL DEF Conn!Spec

(***************************************************************************)
(* When nothing dangles: no failure overtakes the connection thread, no    *)
(* wait times out, and the application neither disconnects nor sends from  *)
(* another thread.                                                         *)
(***************************************************************************)
Calm == ConnectionInputs \cap {"slow", "sender", "disconnect", "curlfail", "overtake",
                               "streamtoken", "reqtoken"} = {}

Streams == [st : {"none", "sent", "ok", "fail", "token", "ended", "lost"},
            cbs : BOOLEAN, sync : BOOLEAN]

\* Before a connection has a directive stream
Unopened == stream.st = "none" /\ ~mg.ping /\ ~reIdle

\* The registry is asked before anything else happens.
Registry ==
    regIdle # "none" \/ "registry" \in network.reqs =>
        /\ regIdle = "none" \/ "registry" \notin network.reqs
        /\ network.reqs \subseteq {"registry"}
        /\ main.pc = "loop" /\ conn.pc = "none" /\ nm.h2
        /\ mg.status = "CONNECTING" /\ idles = {} /\ Unopened

\* While the connection thread looks for a server, the main loop has nothing to
\* do; a server that answered makes it CONNECTED, and it reports nothing but
\* the end.
Search ==
    /\ conn.pc \in {"next", "stop", "stopToken"} =>
          mg.status = "CONNECTING" /\ idles = {} /\ main.pc = "loop" /\ ~reIdle
    /\ conn.pc \in {"next", "reported"} => ~mg.net
    /\ conn.pc \in {"stop", "stopToken"} => network.stop
    /\ conn.pc \in {"wait", "read"} =>
          /\ mg.net /\ network.pc # "exited" /\ ~network.stop
          /\ mg.status = "CONNECTING" => idles = {} /\ main.pc = "loop"
          /\ \/ stream.st = "sent" /\ stream.sync /\ conn.code = "none" /\ ~reIdle
                /\ mg.status = "CONNECTING"
             \/ stream.st \notin {"sent", "ok"} /\ conn.code # "ok" /\ ~reIdle
                /\ mg.status = "CONNECTING"
             \/ conn.code = "ok" /\ (stream.st = "sent" => ~stream.sync)
                /\ mg.status \in {"CONNECTING", "CONNECTED"}
    /\ conn.pc \in {"connected", "end"} => mg.status = "CONNECTED"
    /\ conn.pc = "reported" => mg.status \in {"DISCONNECTED", "TOKEN_FAILED"}

\* The manager holds the id of the only idle source.
SourceHeld ==
    /\ idles \subseteq {mg.idle_source}
    /\ "conn" \in idles => conn.pc \in {"connected", "reported"} /\ main.pc = "loop" /\ ~mg.emit

\* After a token error nothing happens any more but the disconnect.
TokenLost ==
    /\ nm.discIdle => /\ mg.status = "TOKEN_FAILED" /\ idles = {} /\ nm.h2
                      /\ main.pc \in {"loop", "tell", "stop", "join"}
                      /\ main.pc = "join" => main.then = "loop"
    /\ mg.status = "TOKEN_FAILED" =>
          \/ ~mg.net
          \/ conn.pc = "none" /\ network.reqs = {} /\ Unopened
    /\ main.pc = "stop" \/ (main.pc = "tell" /\ main.then = "stop") =>
          /\ conn.pc = "none" /\ mg.status = "TOKEN_FAILED" /\ idles = {}
          /\ network.reqs = {} /\ Unopened

\* The main loop joins the registry's network before the connection thread
\* starts, or another when it ends.
Joining ==
    main.pc = "join" =>
        \/ /\ main.then \in {"loop", "servers", "report"}
           /\ conn.pc = "none" /\ idles = {} /\ network.reqs = {} /\ Unopened
           /\ mg.status = IF main.then = "loop" THEN "TOKEN_FAILED" ELSE "CONNECTING"
        \/ main.then = "free" /\ conn.pc \in {"none", "reported"}

Freed ==
    /\ main.pc \in {"freeing", "joinConn"} => conn.pc \in {"none", "reported"} /\ ~mg.net
    /\ main.pc = "joinConn" => idles = {} /\ ~mg.ping /\ ~reIdle
    /\ ~nm.h2 => ~reIdle

CalmInv ==
    /\ sender = "idle" /\ dangling = {} /\ stream \in Streams
    /\ Registry /\ Search /\ SourceHeld /\ TokenLost /\ Joining /\ Freed

LEMMA CalmTypes ==
    ASSUME ConnInv
    PROVE  /\ nm \in Nms /\ mg \in Managers /\ network \in Networks
           /\ main \in MainStates /\ conn \in ConnStates
           /\ idles \subseteq {"conn", "http2"} /\ reIdle \in BOOLEAN
           /\ nm.discIdle \in BOOLEAN /\ mg.ping \in BOOLEAN /\ mg.net \in BOOLEAN
           /\ mg.emit \in BOOLEAN /\ mg.cb \in BOOLEAN /\ nm.h2 \in BOOLEAN
           /\ network.stop \in BOOLEAN
  BY DEF ConnInv, ConnTypes, Nms, Managers, Networks, Sources

\* Whether and how a report of the main loop goes on
LEMMA CallbackGoes ==
    ASSUME ConnInv, NEW g \in Managers, NEW then \in {"loop", "stop"},
           Conn!StatusCallback(g, then)
    PROVE  /\ nm'.h2 = nm.h2
           /\ mg'.status = g.status /\ mg'.net = g.net /\ mg'.ping = g.ping
           /\ mg'.emit = g.emit /\ mg'.idle_source = g.idle_source
           /\ network'.pc = network.pc /\ network'.reqs = network.reqs
           /\ \/ /\ main'.pc = then /\ nm'.discIdle = nm.discIdle /\ UNCHANGED network
                 /\ ~g.cb \/ g.status \in {"CONNECTING", "READY"}
              \/ /\ g.status \in {"CONNECTED", "TOKEN_FAILED"} /\ UNCHANGED network
                 /\ nm'.discIdle = (nm.discIdle \/ g.status = "TOKEN_FAILED")
                 /\ main'.pc = then \/ (main'.pc = "tell" /\ main'.then = then)
              \/ /\ g.status = "DISCONNECTED" /\ nm'.discIdle = nm.discIdle
                 /\ main'.pc = (IF g.net THEN "join" ELSE "freeing") /\ main'.then = "free"
<1>0. /\ nm \in Nms /\ network \in Networks /\ main \in MainStates /\ nm.discIdle \in BOOLEAN
      /\ g.status \in Statuses
  BY CalmTypes DEF Managers
<1>1. CASE ~g.cb \/ g.status \in {"CONNECTING", "READY"}
  <2>1. mg' = g /\ main' = [main EXCEPT !.pc = then] /\ UNCHANGED <<nm, network>>
    BY <1>1 DEF Conn!StatusCallback
  <2>2. main'.pc = then  BY <2>1, <1>0 DEF MainStates
  <2> QED  BY <1>1, <2>1, <2>2
<1>2. CASE g.cb /\ g.status = "DISCONNECTED"
  <2>1. Conn!Disconnect(g)  BY <1>2 DEF Conn!StatusCallback, Conn!StatusOf
  <2>2. /\ nm' = [nm EXCEPT !.cur = "DISCONNECTED"] /\ mg' = [g EXCEPT !.cb = FALSE]
        /\ network' = network \/ network' = [network EXCEPT !.stop = TRUE]
        /\ main' = [pc |-> IF g.net THEN "join" ELSE "freeing", then |-> "free",
                    emit |-> nm.cur # "DISCONNECTED"]
    BY <2>1 DEF Conn!Disconnect
  <2>3. nm'.h2 = nm.h2 /\ nm'.discIdle = nm.discIdle  BY <2>2, <1>0 DEF Nms
  <2>4. /\ mg'.status = g.status /\ mg'.net = g.net /\ mg'.ping = g.ping
        /\ mg'.emit = g.emit /\ mg'.idle_source = g.idle_source
    BY <2>2 DEF Managers
  <2>5. network'.pc = network.pc /\ network'.reqs = network.reqs  BY <2>2, <1>0 DEF Networks
  <2>6. main'.pc = (IF g.net THEN "join" ELSE "freeing") /\ main'.then = "free"  BY <2>2
  <2> QED  BY <1>2, <2>3, <2>4, <2>5, <2>6
<1>3. CASE g.cb /\ g.status \in {"CONNECTED", "TOKEN_FAILED"}
  <2>1. PICK s \in {"CONNECTED", "TOKEN_ERROR"} :
            s = Conn!StatusOf(g.status) /\ (s = "TOKEN_ERROR" <=> g.status = "TOKEN_FAILED")
    BY <1>3 DEF Conn!StatusOf
  <2>2. /\ nm' = [nm EXCEPT !.cur = s, !.discIdle = @ \/ s = "TOKEN_ERROR"]
        /\ mg' = g /\ UNCHANGED network
        /\ main' = IF nm.cur = s THEN [main EXCEPT !.pc = then]
                   ELSE [pc |-> "tell", then |-> then, emit |-> FALSE]
    BY <1>3, <2>1 DEF Conn!StatusCallback
  <2>3. PICK b \in BOOLEAN : b = (nm.discIdle \/ s = "TOKEN_ERROR")  OBVIOUS
  <2>4. nm' = [nm EXCEPT !.cur = s, !.discIdle = b]  BY <2>2, <2>3
  <2>5. nm'.h2 = nm.h2 /\ nm'.discIdle = b  BY <2>4, <1>0 DEF Nms
  <2>6. main'.pc = then \/ (main'.pc = "tell" /\ main'.then = then)
    <3>1. CASE nm.cur = s
      <4>1. main' = [main EXCEPT !.pc = then]  BY <3>1, <2>2
      <4> QED  BY <4>1, <1>0 DEF MainStates
    <3>2. CASE nm.cur # s
      <4>1. main' = [pc |-> "tell", then |-> then, emit |-> FALSE]  BY <3>2, <2>2
      <4> QED  BY <4>1
    <3> QED  BY <3>1, <3>2
  <2>7. nm'.discIdle = (nm.discIdle \/ g.status = "TOKEN_FAILED")  BY <2>1, <2>3, <2>5
  <2> QED  BY <1>3, <2>2, <2>5, <2>6, <2>7
<1> QED  BY <1>0, <1>1, <1>2, <1>3 DEF Statuses

\* A thread's report: its source is the only one.
LEMMA StatusGoes ==
    ASSUME ConnInv, NEW t \in {"conn", "http2"},
           NEW s \in {"CONNECTED", "DISCONNECTED", "TOKEN_FAILED"}, Conn!SetStatus(t, s)
    PROVE  /\ mg'.status = s /\ mg'.net = mg.net /\ mg'.ping = mg.ping
           /\ \/ UNCHANGED <<mg, idles>>
              \/ /\ mg.status # s /\ ~mg'.emit /\ mg'.idle_source = t
                 /\ idles' = idles \cup {t}
<1>0. mg \in Managers  BY CalmTypes
<1>1. CASE mg.status = s  BY <1>1 DEF Conn!SetStatus
<1>2. CASE mg.status # s
  <2>1. /\ mg' = [mg EXCEPT !.status = s, !.emit = FALSE, !.idle_source = t]
        /\ idles' = idles \cup {t}
    BY <1>2 DEF Conn!SetStatus
  <2>2. /\ mg'.status = s /\ mg'.net = mg.net /\ mg'.ping = mg.ping
        /\ ~mg'.emit /\ mg'.idle_source = t
    BY <2>1, <1>0 DEF Managers
  <2> QED  BY <1>2, <2>1, <2>2
<1> QED  BY <1>1, <1>2

LEMMA CalmInit ==
    ASSUME Conn!Init PROVE CalmInv
<1> USE DEF Conn!None
<1>1. /\ ~nm.h2 /\ ~nm.discIdle /\ mg.status = "READY" /\ ~mg.ping /\ ~mg.net
      /\ idles = {} /\ regIdle = "none" /\ ~reIdle /\ network.reqs = {}
      /\ conn.pc = "none" /\ main.pc = "loop" /\ sender = "idle" /\ dangling = {}
  BY DEF Conn!Init, Conn!NewManager, Conn!Network, Conn!NoConn
<1>2. stream \in Streams  BY DEF Conn!Init, Conn!NoStream, Streams
<1> QED  BY <1>1, <1>2 DEF CalmInv, Registry, Search, SourceHeld, TokenLost, Joining, Freed

LEMMA CalmMain ==
    ASSUME Calm, ConnInv, CalmInv, ConnInv', Conn!MainNext PROVE CalmInv'
<1> USE DEF Conn!None
<1>0. /\ nm \in Nms /\ mg \in Managers /\ network \in Networks
      /\ main \in MainStates /\ conn \in ConnStates
      /\ nm.discIdle \in BOOLEAN
  BY CalmTypes
<1>1. CASE Conn!Connect
  <2>0. /\ ~nm.h2 /\ idles = {} /\ regIdle = "none" /\ main.pc = "loop" /\ conn.pc = "none"
        /\ ~reIdle /\ ~nm.discIdle
    BY <1>1 DEF Conn!Connect, ConnInv, CalmInv, Freed, TokenLost
  <2>1. nm' = [nm EXCEPT !.h2 = TRUE, !.cur = "UNKNOWN"]  BY <1>1 DEF Conn!Connect
  <2>2. nm'.h2 /\ ~nm'.discIdle  BY <2>0, <2>1, <1>0 DEF Nms
  <2>3. mg'.status = "CONNECTING" /\ ~mg'.ping /\ mg'.net
    BY <1>1 DEF Conn!Connect, Conn!NewManager
  <2>4. \/ main'.pc = "loop" /\ network'.reqs = {"registry"}
        \/ main'.pc = "join" /\ main'.then = "report" /\ network'.reqs = {}
    <3>1. CASE network' = Conn!RegistryRequest /\ UNCHANGED main
      BY <3>1, <2>0 DEF Conn!RegistryRequest, Conn!Network
    <3>2. CASE /\ network' = [Conn!Network({}) EXCEPT !.stop = TRUE]
               /\ main' = [main EXCEPT !.pc = "join", !.then = "report"]
      <4>1. network'.reqs = {}  BY <3>2 DEF Conn!Network
      <4>2. main'.pc = "join" /\ main'.then = "report"  BY <3>2, <1>0 DEF MainStates
      <4> QED  BY <4>1, <4>2
    <3> QED  BY <3>1, <3>2, <1>1 DEF Conn!Connect
  <2>5. conn'.pc = "none" /\ stream' \in Streams /\ stream'.st = "none"
    BY <1>1 DEF Conn!Connect, Conn!NoConn, Conn!NoStream, Streams
  <2>6. UNCHANGED <<idles, regIdle, reIdle, dangling, sender>>
    BY <1>1 DEF Conn!Connect, Conn!idleVars
  <2> QED  BY <2>0, <2>2, <2>3, <2>4, <2>5, <2>6
           DEF CalmInv, Registry, Unopened, Search, SourceHeld, TokenLost, Joining, Freed
<1>2. CASE Conn!OnPolicy
  <2>1. /\ main.pc = "loop" /\ regIdle # "none" /\ regIdle' = "none"
        /\ UNCHANGED <<idles, reIdle, stream, conn, dangling, sender>>
    BY <1>2 DEF Conn!OnPolicy, Conn!RegistryAnswers
  <2>2. /\ network.reqs = {} /\ conn.pc = "none" /\ nm.h2 /\ mg.status = "CONNECTING"
        /\ idles = {} /\ Unopened /\ ~nm.discIdle
    BY <2>1 DEF CalmInv, Registry, TokenLost
  <2>3. CASE Conn!StatusCallback([mg EXCEPT !.status = "TOKEN_FAILED"], "stop")
    <3>1. PICK g : g = [mg EXCEPT !.status = "TOKEN_FAILED"]  OBVIOUS
    <3>2. g \in Managers /\ g.status = "TOKEN_FAILED" /\ g.ping = mg.ping
      BY <3>1, <1>0 DEF Managers, Statuses
    <3>3. Conn!StatusCallback(g, "stop")  BY <2>3, <3>1
    <3>4. /\ nm'.h2 /\ mg'.status = "TOKEN_FAILED" /\ ~mg'.ping /\ network'.reqs = {}
          /\ main'.pc = "stop" \/ (main'.pc = "tell" /\ main'.then = "stop")
      BY <3>2, <3>3, <2>2, CallbackGoes DEF Unopened
    <3> QED  BY <2>1, <2>2, <3>4
             DEF CalmInv, Registry, Unopened, Search, SourceHeld, TokenLost, Joining, Freed
  <2>4. CASE /\ network' = [network EXCEPT !.stop = TRUE]
             /\ main' = [main EXCEPT !.pc = "join",
                            !.then = IF Conn!HasServers(regIdle) THEN "servers" ELSE "report"]
             /\ UNCHANGED <<nm, mg>>
    <3>1. network'.reqs = {}  BY <2>2, <2>4, <1>0 DEF Networks
    <3>2. main'.pc = "join" /\ main'.then \in {"servers", "report"}
      BY <2>4, <1>0 DEF MainStates
    <3> QED  BY <2>1, <2>2, <2>4, <3>1, <3>2
             DEF CalmInv, Registry, Unopened, Search, SourceHeld, TokenLost, Joining, Freed
  <2> QED  BY <2>3, <2>4, <1>2 DEF Conn!OnPolicy
<1>3. CASE Conn!StopNetwork
  <2>1. /\ main.pc = "stop" /\ network' = [network EXCEPT !.stop = TRUE]
        /\ main' = [main EXCEPT !.pc = "join", !.then = "loop"]
        /\ UNCHANGED <<nm, mg, idles, regIdle, reIdle, stream, conn, dangling, sender>>
    BY <1>3 DEF Conn!StopNetwork, Conn!idleVars
  <2>2. network'.reqs = network.reqs  BY <2>1, <1>0 DEF Networks
  <2>3. main'.pc = "join" /\ main'.then = "loop"  BY <2>1, <1>0 DEF MainStates
  <2> QED  BY <2>1, <2>2, <2>3
           DEF CalmInv, Registry, Unopened, Search, SourceHeld, TokenLost, Joining, Freed
<1>4. CASE Conn!Joined
  <2>1. /\ main.pc = "join"
        /\ dangling' = dangling \cup {o \in {"network"} : conn.pc \in {"stop", "stopToken"}}
        /\ UNCHANGED <<idles, regIdle, reIdle, stream, sender>>
    BY <1>4 DEF Conn!Joined, Conn!idleVars
  <2>2. dangling' = {}  BY <2>1 DEF CalmInv, Search
  <2>a. nm.h2 /\ regIdle = "none" /\ "registry" \notin network.reqs /\ "conn" \notin idles
    BY <2>1 DEF CalmInv, Registry, SourceHeld, ConnInv
  <2>3. PICK g : g = [mg EXCEPT !.net = FALSE]  OBVIOUS
  <2>4. /\ g \in Managers /\ ~g.net /\ g.status = mg.status /\ g.ping = mg.ping
        /\ g.idle_source = mg.idle_source
    BY <2>3, <1>0 DEF Managers
  <2>5. CASE main.then = "loop"
    <3>1. mg' = g /\ main' = [main EXCEPT !.pc = "loop"] /\ UNCHANGED <<nm, network, conn>>
      BY <1>4, <2>3, <2>5 DEF Conn!Joined
    <3>2. main'.pc = "loop"  BY <3>1, <1>0 DEF MainStates
    <3> QED  BY <2>1, <2>2, <2>a, <2>4, <2>5, <3>1, <3>2
             DEF CalmInv, Registry, Unopened, Search, SourceHeld, TokenLost, Joining, Freed
  <2>6. CASE main.then = "servers"
    <3>1. /\ mg' = g /\ main' = [main EXCEPT !.pc = "loop"]
          /\ conn' = Conn!ConnectionThread /\ UNCHANGED <<nm, network>>
      BY <1>4, <2>3, <2>6 DEF Conn!Joined
    <3>2. main'.pc = "loop"  BY <3>1, <1>0 DEF MainStates
    <3>3. conn'.pc = "next"  BY <3>1 DEF Conn!ConnectionThread, Conn!NoConn
    <3> QED  BY <2>1, <2>2, <2>a, <2>4, <2>6, <3>1, <3>2, <3>3
             DEF CalmInv, Registry, Unopened, Search, SourceHeld, TokenLost, Joining, Freed
  <2>7. CASE main.then = "report"
    <3>1. PICK h : h = [g EXCEPT !.status = "DISCONNECTED"]  OBVIOUS
    <3>2. h \in Managers /\ ~h.net /\ h.status = "DISCONNECTED"
      BY <3>1, <2>4 DEF Managers, Statuses
    <3>3. Conn!StatusCallback(h, "loop") /\ UNCHANGED conn
      BY <1>4, <2>7, <2>3, <3>1 DEF Conn!Joined
    <3>4. conn.pc = "none" /\ idles = {} /\ ~reIdle /\ ~nm.discIdle
      BY <2>1, <2>7 DEF CalmInv, Joining, Unopened, TokenLost
    <3>5. /\ nm'.h2 /\ mg'.status = "DISCONNECTED" /\ ~mg'.net
          /\ network'.reqs = network.reqs /\ ~nm'.discIdle
          /\ main'.pc \in {"loop", "freeing"}
      BY <3>2, <3>3, <3>4, <2>a, CallbackGoes
    <3> QED  BY <2>1, <2>2, <2>a, <3>3, <3>4, <3>5
             DEF CalmInv, Registry, Unopened, Search, SourceHeld, TokenLost, Joining, Freed
  <2>8. CASE main.then = "free"
    <3>1. /\ mg' = [g EXCEPT !.status = "DISCONNECTED"]
          /\ main' = [main EXCEPT !.pc = "freeing"] /\ UNCHANGED <<nm, network, conn>>
      BY <1>4, <2>3, <2>8 DEF Conn!Joined
    <3>2. /\ mg'.status = "DISCONNECTED" /\ ~mg'.net /\ mg'.idle_source = mg.idle_source
      BY <3>1, <2>4 DEF Managers
    <3>3. main'.pc = "freeing"  BY <3>1, <1>0 DEF MainStates
    <3>4. conn.pc \in {"none", "reported"} /\ ~nm.discIdle
      BY <2>1, <2>8 DEF CalmInv, Joining, TokenLost
    <3> QED  BY <2>1, <2>2, <2>a, <3>1, <3>2, <3>3, <3>4
             DEF CalmInv, Registry, Unopened, Search, SourceHeld, TokenLost, Joining, Freed
  <2> QED  BY <2>5, <2>6, <2>7, <2>8, <1>4 DEF Conn!Joined
<1>5. CASE Conn!FreeParts
  <2>1. /\ main.pc = "freeing"
        /\ mg' = [mg EXCEPT !.ping = FALSE, !.dir = FALSE, !.idle_source = "none"]
        /\ reIdle' = FALSE /\ idles' = idles \ {mg.idle_source}
        /\ dangling' = dangling \cup {o \in {"directives"} : conn.pc \in {"wait", "read"}}
        /\ main' = [main EXCEPT !.pc = "joinConn"]
        /\ UNCHANGED <<nm, regIdle, network, stream, conn, sender>>
    BY <1>5 DEF Conn!FreeParts
  <2>2. /\ conn.pc \in {"none", "reported"} /\ ~mg.net /\ regIdle = "none" /\ nm.h2
        /\ "registry" \notin network.reqs /\ ~nm.discIdle
    BY <2>1 DEF CalmInv, Freed, Registry, TokenLost, ConnInv
  <2>3. dangling' = {}  BY <2>1, <2>2 DEF CalmInv
  <2>4. idles' = {}  BY <2>1 DEF CalmInv, SourceHeld
  <2>5. ~mg'.ping /\ mg'.net = mg.net /\ mg'.status = mg.status  BY <2>1, <1>0 DEF Managers
  <2>6. main'.pc = "joinConn"  BY <2>1, <1>0 DEF MainStates
  <2> QED  BY <2>1, <2>2, <2>3, <2>4, <2>5, <2>6
           DEF CalmInv, Registry, Unopened, Search, SourceHeld, TokenLost, Joining, Freed
<1>6. CASE Conn!FreeManager
  <2>1. /\ main.pc = "joinConn" /\ conn.pc = "none"
        /\ nm' = [nm EXCEPT !.h2 = FALSE]
        /\ main' = [main EXCEPT !.pc = "loop"]
        /\ dangling' = dangling \cup
              {o \in {"network"} : mg.net} \cup {o \in {"ping"} : mg.ping}
              \cup {o \in {"idle"} : idles # {}} \cup {o \in {"registry"} : regIdle # "none"}
              \cup {o \in {"sender"} : sender = "checked"}
        /\ UNCHANGED <<mg, idles, regIdle, reIdle, network, stream, conn, sender>>
    BY <1>6 DEF Conn!FreeManager, Conn!idleVars
  <2>2. /\ ~mg.net /\ ~mg.ping /\ idles = {} /\ regIdle = "none" /\ ~reIdle /\ sender = "idle"
        /\ ~nm.discIdle /\ "registry" \notin network.reqs
    BY <2>1 DEF CalmInv, Freed, Registry, TokenLost
  <2>3. dangling' = {}  BY <2>1, <2>2 DEF CalmInv
  <2>4. ~nm'.h2 /\ ~nm'.discIdle  BY <2>1, <2>2, <1>0 DEF Nms
  <2>5. main'.pc = "loop"  BY <2>1, <1>0 DEF MainStates
  <2> QED  BY <2>1, <2>2, <2>3, <2>4, <2>5
           DEF CalmInv, Registry, Unopened, Search, SourceHeld, TokenLost, Joining, Freed
<1>7. ASSUME NEW t \in Sources, Conn!EmitInIdle(t) PROVE CalmInv'
  <2>1. PICK g : g = [mg EXCEPT !.emit = TRUE, !.idle_source = "none"]  OBVIOUS
  <2>2. /\ g \in Managers /\ g.net = mg.net /\ g.status = mg.status /\ g.ping = mg.ping
    BY <2>1, <1>0 DEF Managers
  <2>3. /\ main.pc = "loop" /\ t \in idles /\ idles' = idles \ {t}
        /\ Conn!StatusCallback(g, "loop")
        /\ UNCHANGED <<regIdle, reIdle, stream, conn, dangling, sender>>
    BY <1>7, <2>1 DEF Conn!EmitInIdle
  <2>4. /\ idles' = {} /\ nm.h2 /\ ~nm.discIdle /\ regIdle = "none"
        /\ "registry" \notin network.reqs
        /\ conn.pc \notin {"next", "stop", "stopToken"}
        /\ conn.pc \in {"wait", "read"} => mg.status = "CONNECTED"
    BY <2>3 DEF CalmInv, SourceHeld, ConnInv, TokenLost, Registry, Search
  <2>5. /\ nm'.h2 /\ mg'.status = mg.status /\ mg'.net = mg.net /\ mg'.ping = mg.ping
        /\ network'.pc = network.pc /\ network'.reqs = network.reqs
        /\ \/ /\ mg.status # "DISCONNECTED" /\ UNCHANGED network
              /\ nm'.discIdle => mg.status = "TOKEN_FAILED"
              /\ main'.pc = "loop" \/ (main'.pc = "tell" /\ main'.then = "loop")
           \/ main'.pc = "loop" /\ ~nm'.discIdle /\ UNCHANGED network
           \/ /\ mg.status = "DISCONNECTED" /\ ~nm'.discIdle
              /\ main'.pc = (IF mg.net THEN "join" ELSE "freeing") /\ main'.then = "free"
    BY <2>2, <2>3, <2>4, CallbackGoes
  <2>6. mg.status = "DISCONNECTED" => conn.pc \in {"none", "reported"}
    BY <2>4, <1>0 DEF CalmInv, Search, ConnStates
  <2> QED  BY <2>3, <2>4, <2>5, <2>6
           DEF CalmInv, Registry, Unopened, Search, SourceHeld, TokenLost, Joining, Freed
<1>8. CASE Conn!DisconnectInIdle
  <2>1. /\ main.pc = "loop" /\ nm.discIdle
        /\ UNCHANGED <<idles, regIdle, reIdle, stream, conn, dangling, sender>>
    BY <1>8 DEF Conn!DisconnectInIdle, Conn!idleVars
  <2>2. nm.h2 /\ mg.status = "TOKEN_FAILED" /\ idles = {}  BY <2>1 DEF CalmInv, TokenLost
  <2>3. /\ regIdle = "none" /\ "registry" \notin network.reqs
        /\ conn.pc \in {"none", "reported"}
    BY <2>2, <1>0 DEF CalmInv, Registry, Search, ConnStates
  <2>4. /\ nm' = [nm EXCEPT !.discIdle = FALSE, !.cur = "DISCONNECTED"]
        /\ mg' = [mg EXCEPT !.cb = FALSE]
        /\ network' = network \/ network' = [network EXCEPT !.stop = TRUE]
        /\ main' = [pc |-> IF mg.net THEN "join" ELSE "freeing", then |-> "free",
                    emit |-> nm.cur # "DISCONNECTED"]
    BY <1>8, <2>2 DEF Conn!DisconnectInIdle
  <2>5. nm'.h2 /\ ~nm'.discIdle  BY <2>2, <2>4, <1>0 DEF Nms
  <2>6. mg'.status = mg.status /\ mg'.net = mg.net /\ mg'.ping = mg.ping
    BY <2>4, <1>0 DEF Managers
  <2>7. network'.reqs = network.reqs  BY <2>4, <1>0 DEF Networks
  <2>8. main'.pc = (IF mg.net THEN "join" ELSE "freeing") /\ main'.then = "free"  BY <2>4
  <2> QED  BY <2>1, <2>2, <2>3, <2>5, <2>6, <2>7, <2>8
           DEF CalmInv, Registry, Unopened, Search, SourceHeld, TokenLost, Joining, Freed
<1>9. CASE Conn!UserDisconnects  BY <1>9 DEF Conn!UserDisconnects, Calm
<1>10. CASE Conn!ReEstablish
  <2>1. /\ main.pc = "loop" /\ reIdle /\ ~reIdle' /\ stream' = Conn!NewStream(FALSE)
        /\ UNCHANGED <<nm, mg, idles, regIdle, network, conn, main, dangling, sender>>
    BY <1>10 DEF Conn!ReEstablish
  <2>2. stream' \in Streams /\ stream'.st = "sent" /\ ~stream'.sync
    BY <2>1 DEF Conn!NewStream, Streams
  <2> QED  BY <2>1, <2>2
           DEF CalmInv, Registry, Unopened, Search, SourceHeld, TokenLost, Joining, Freed
<1>11. CASE Conn!TellListener
  <2>1. /\ main.pc = "tell" /\ main' = [main EXCEPT !.pc = main.then]
        /\ UNCHANGED <<nm, mg, idles, regIdle, reIdle, network, stream, conn, dangling, sender>>
    BY <1>11 DEF Conn!TellListener, Conn!idleVars
  <2>2. main.then \in {"loop", "stop"}  BY <2>1 DEF ConnInv
  <2>3. main'.pc = main.then  BY <2>1, <1>0 DEF MainStates
  <2>4. "conn" \notin idles  BY <2>1 DEF CalmInv, SourceHeld
  <2> QED  BY <2>1, <2>2, <2>3, <2>4
           DEF CalmInv, Registry, Unopened, Search, SourceHeld, TokenLost, Joining, Freed
<1>12. ASSUME NEW r \in {"ping", "event"}, Conn!SendRequest(r) PROVE CalmInv'
  <2>1. /\ network' = [network EXCEPT !.reqs = network.reqs \cup {r}]
        /\ main.pc = "loop" /\ mg.net /\ (mg.ping \/ mg.status = "CONNECTED")
        /\ UNCHANGED <<nm, mg, idles, regIdle, reIdle, stream, conn, main, dangling, sender>>
    BY <1>12 DEF Conn!SendRequest, Conn!idleVars
  <2>2. /\ network'.reqs = network.reqs \cup {r} /\ network'.stop = network.stop
        /\ network'.pc = network.pc
    BY <2>1, <1>0 DEF Networks
  <2>3. regIdle = "none" /\ "registry" \notin network'.reqs /\ mg.status # "TOKEN_FAILED"
    BY <2>1, <2>2 DEF CalmInv, Registry, Unopened, TokenLost
  <2> QED  BY <2>1, <2>2, <2>3
           DEF CalmInv, Registry, Unopened, Search, SourceHeld, TokenLost, Joining, Freed
<1> QED  BY <1>1, <1>2, <1>3, <1>4, <1>5, <1>6, <1>7, <1>8, <1>9, <1>10, <1>11, <1>12
         DEF Conn!MainNext, Sources

LEMMA CalmConn ==
    ASSUME Calm, ConnInv, CalmInv, ConnInv', Conn!ConnNext PROVE CalmInv'
<1> USE DEF Conn!None
<1>0. mg \in Managers /\ network \in Networks /\ conn \in ConnStates  BY CalmTypes
<1>a. conn.pc # "none" => /\ regIdle = "none" /\ "registry" \notin network.reqs /\ nm.h2
                          /\ main.pc = "stop" \/ (main.pc = "tell" /\ main.then = "stop") => FALSE
  BY DEF CalmInv, Registry, TokenLost, ConnInv
<1>1. CASE Conn!TryServer
  <2>1. /\ conn.pc = "next" /\ mg' = [[mg EXCEPT !.net = TRUE] EXCEPT !.dir = TRUE]
        /\ network' = IF mg.net THEN network ELSE Conn!Network({})
        /\ conn' = [pc |-> "wait", left |-> conn.left - 1, hdr |-> FALSE, code |-> "none"]
        /\ stream' = Conn!NewStream(TRUE)
        /\ UNCHANGED <<nm, idles, regIdle, reIdle, main, dangling, sender>>
    BY <1>1 DEF Conn!TryServer, Conn!EstablishDirective, Conn!NetworkStart, Conn!idleVars
  <2>2. ~mg.net /\ mg.status = "CONNECTING" /\ idles = {} /\ main.pc = "loop" /\ ~reIdle
    BY <2>1 DEF CalmInv, Search
  <2>3. mg'.net /\ mg'.status = mg.status /\ mg'.ping = mg.ping
        /\ mg'.idle_source = mg.idle_source /\ mg'.emit = mg.emit
    <3>1. PICK g : g = [mg EXCEPT !.net = TRUE]  OBVIOUS
    <3>2. /\ g \in Managers /\ g.net /\ g.status = mg.status /\ g.ping = mg.ping
          /\ g.idle_source = mg.idle_source /\ g.emit = mg.emit
      BY <3>1, <1>0 DEF Managers
    <3>3. mg' = [g EXCEPT !.dir = TRUE]  BY <2>1, <3>1
    <3> QED  BY <3>2, <3>3 DEF Managers
  <2>4. network'.pc = "poll" /\ ~network'.stop /\ network'.reqs = {}
    BY <2>1, <2>2 DEF Conn!Network
  <2>5. conn'.pc = "wait" /\ conn'.code = "none"  BY <2>1
  <2>6. stream' \in Streams /\ stream'.st = "sent" /\ stream'.sync
    BY <2>1 DEF Conn!NewStream, Streams
  <2>7. ~nm.discIdle /\ nm.h2 /\ regIdle = "none"  BY <2>1, <2>2, <1>a DEF CalmInv, TokenLost
  <2> QED  BY <2>1, <2>2, <2>3, <2>4, <2>5, <2>6, <2>7
           DEF CalmInv, Registry, Unopened, Search, SourceHeld, TokenLost, Joining, Freed
<1>2. CASE Conn!HeaderArrived
  <2>1. /\ conn.pc = "wait" /\ conn' = [conn EXCEPT !.pc = "read"]
        /\ UNCHANGED <<nm, mg, idles, regIdle, reIdle, network, stream, main, dangling, sender>>
    BY <1>2 DEF Conn!HeaderArrived, Conn!idleVars
  <2>2. conn'.pc = "read" /\ conn'.code = conn.code  BY <2>1, <1>0 DEF ConnStates
  <2> QED  BY <2>1, <2>2
           DEF CalmInv, Registry, Unopened, Search, SourceHeld, TokenLost, Joining, Freed
<1>3. CASE Conn!HeaderTimeout
  BY <1>3 DEF Conn!HeaderTimeout, Calm, CalmInv, Search
<1>4. CASE Conn!ReadCode
  <2>1. /\ conn.pc = "read" /\ stream' = [stream EXCEPT !.sync = FALSE]
        /\ UNCHANGED <<nm, regIdle, reIdle, main, dangling, sender>>
    BY <1>4 DEF Conn!ReadCode
  <2>2. stream' \in Streams  BY <2>1 DEF CalmInv, Streams
  <2>a. /\ mg.net /\ regIdle = "none" /\ "registry" \notin network.reqs /\ nm.h2
        /\ mg.status \in {"CONNECTING", "CONNECTED"} /\ ~nm.discIdle
        /\ mg.status = "CONNECTING" => idles = {} /\ main.pc = "loop"
        /\ main.pc \notin {"stop", "join", "freeing", "joinConn"}
        /\ main.pc = "tell" => main.then # "stop"
    BY <2>1, <1>a DEF CalmInv, Search, TokenLost, Joining, Freed
  <2>3. CASE conn.code = "ok"
    <3>1. /\ Conn!SetStatus("conn", "CONNECTED") /\ UNCHANGED network
          /\ conn' = [conn EXCEPT !.pc = "connected"]
      BY <1>4, <2>3 DEF Conn!ReadCode
    <3>2. conn'.pc = "connected"  BY <3>1, <1>0 DEF ConnStates
    <3>3. /\ mg'.status = "CONNECTED"
          /\ \/ UNCHANGED <<mg, idles>>
             \/ /\ mg.status # "CONNECTED" /\ ~mg'.emit /\ mg'.idle_source = "conn"
                /\ idles' = idles \cup {"conn"}
      BY <3>1, StatusGoes
    <3>4. idles' \subseteq {mg'.idle_source}
          /\ ("conn" \in idles' => main.pc = "loop" /\ ~mg'.emit)
      BY <3>3, <2>a DEF CalmInv, SourceHeld
    <3> QED  BY <2>1, <2>2, <2>a, <3>1, <3>2, <3>3, <3>4
             DEF CalmInv, Registry, Search, SourceHeld, TokenLost, Joining, Freed
  <2>4. CASE conn.code # "ok"
    <3>1. /\ mg' = [mg EXCEPT !.dir = FALSE] /\ UNCHANGED idles
          /\ network' = IF mg.net THEN [network EXCEPT !.stop = TRUE] ELSE network
          /\ conn' = [conn EXCEPT !.pc = IF conn.code = "token" THEN "stopToken" ELSE "stop"]
      BY <1>4, <2>4 DEF Conn!ReadCode
    <3>2. conn'.pc \in {"stop", "stopToken"}  BY <3>1, <1>0 DEF ConnStates
    <3>3. /\ mg'.status = mg.status /\ mg'.idle_source = mg.idle_source
          /\ mg'.emit = mg.emit /\ mg'.net = mg.net
      BY <3>1, <1>0 DEF Managers
    <3>4. network'.stop /\ network'.reqs = network.reqs  BY <3>1, <2>a, <1>0 DEF Networks
    <3>5. mg.status = "CONNECTING" /\ ~reIdle  BY <2>1, <2>4 DEF CalmInv, Search
    <3> QED  BY <2>1, <2>2, <2>a, <3>1, <3>2, <3>3, <3>4, <3>5
             DEF CalmInv, Registry, Search, SourceHeld, TokenLost, Joining, Freed
  <2> QED  BY <2>3, <2>4
<1>5. CASE Conn!ServerFailed
  <2>1. /\ conn.pc \in {"stop", "stopToken"}
        /\ dangling' = dangling \cup {o \in {"network"} : main.pc = "join"}
        /\ UNCHANGED <<nm, regIdle, reIdle, network, stream, main, sender>>
    BY <1>5 DEF Conn!ServerFailed
  <2>2. /\ mg.status = "CONNECTING" /\ idles = {} /\ main.pc = "loop" /\ ~reIdle
        /\ ~nm.discIdle
    BY <2>1 DEF CalmInv, Search, TokenLost
  <2>3. dangling' = {}  BY <2>1, <2>2 DEF CalmInv
  <2>4. CASE conn.pc = "stopToken"
    <3>1. /\ conn' = [conn EXCEPT !.pc = "reported"]
          /\ mg' = [mg EXCEPT !.net = FALSE, !.status = "TOKEN_FAILED",
                              !.emit = FALSE, !.idle_source = "conn"]
          /\ idles' = idles \cup {"conn"}
      BY <1>5, <2>2, <2>4 DEF Conn!ServerFailed
    <3>2. conn'.pc = "reported"  BY <3>1, <1>0 DEF ConnStates
    <3>3. /\ ~mg'.net /\ mg'.status = "TOKEN_FAILED" /\ ~mg'.emit
          /\ mg'.idle_source = "conn"
      BY <3>1, <1>0 DEF Managers
    <3> QED  BY <2>1, <2>2, <2>3, <1>a, <3>1, <3>2, <3>3
             DEF CalmInv, Registry, Search, SourceHeld, TokenLost, Joining, Freed
  <2>5. CASE conn.pc = "stop"
    <3>1. /\ conn' = [conn EXCEPT !.pc = "next"]
          /\ mg' = [mg EXCEPT !.net = FALSE] /\ UNCHANGED idles
      BY <1>5, <2>5 DEF Conn!ServerFailed
    <3>2. conn'.pc = "next"  BY <3>1, <1>0 DEF ConnStates
    <3>3. ~mg'.net /\ mg'.status = mg.status  BY <3>1, <1>0 DEF Managers
    <3> QED  BY <2>1, <2>2, <2>3, <1>a, <3>1, <3>2, <3>3
             DEF CalmInv, Registry, Search, SourceHeld, TokenLost, Joining, Freed
  <2> QED  BY <2>1, <2>4, <2>5
<1>6. CASE Conn!EstablishPing
  <2>1. /\ conn.pc = "connected" /\ (mg.emit \/ main.pc # "loop")
        /\ mg' = [mg EXCEPT !.ping = mg.net] /\ conn' = [conn EXCEPT !.pc = "end"]
        /\ UNCHANGED <<nm, idles, regIdle, reIdle, network, stream, main, dangling, sender>>
    BY <1>6 DEF Conn!EstablishPing, Conn!WaitEnds, Conn!idleVars, Calm
  <2>2. conn'.pc = "end"  BY <2>1, <1>0 DEF ConnStates
  <2>3. /\ mg'.status = mg.status /\ mg'.net = mg.net /\ mg'.idle_source = mg.idle_source
        /\ mg'.emit = mg.emit
    BY <2>1, <1>0 DEF Managers
  <2>4. mg.status = "CONNECTED" /\ "conn" \notin idles
    BY <2>1 DEF CalmInv, Search, SourceHeld
  <2> QED  BY <2>1, <2>2, <2>3, <2>4, <1>a
           DEF CalmInv, Registry, Search, SourceHeld, TokenLost, Joining, Freed
<1>7. CASE Conn!ConnectEnds
  <2>1. /\ conn.pc = "next" \/ (conn.pc = "reported" /\ (mg.emit \/ main.pc # "loop"))
           \/ conn.pc = "end"
        /\ UNCHANGED <<nm, regIdle, reIdle, network, stream, main, dangling, sender>>
    BY <1>7 DEF Conn!ConnectEnds, Conn!WaitEnds, Calm
  <2>2. CASE mg.status = "CONNECTING"
    <3>1. Conn!SetStatus("conn", "DISCONNECTED") /\ conn' = [conn EXCEPT !.pc = "reported"]
      BY <1>7, <2>2 DEF Conn!ConnectEnds
    <3>2. conn.pc = "next"  BY <2>1, <2>2 DEF CalmInv, Search
    <3>3. idles = {} /\ main.pc = "loop" /\ ~mg.net /\ ~nm.discIdle
      BY <3>2, <2>2 DEF CalmInv, Search, TokenLost
    <3>4. conn'.pc = "reported"  BY <3>1, <1>0 DEF ConnStates
    <3>5. /\ mg'.status = "DISCONNECTED" /\ ~mg'.net /\ ~mg'.emit
          /\ mg'.idle_source = "conn" /\ idles' = {"conn"}
      BY <3>1, <3>3, <2>2, StatusGoes
    <3> QED  BY <2>1, <1>a, <3>2, <3>3, <3>4, <3>5
             DEF CalmInv, Registry, Search, SourceHeld, TokenLost, Joining, Freed
  <2>3. CASE mg.status # "CONNECTING"
    <3>1. conn' = [conn EXCEPT !.pc = "none"] /\ UNCHANGED <<mg, idles>>
      BY <1>7, <2>3 DEF Conn!ConnectEnds
    <3>2. conn'.pc = "none"  BY <3>1, <1>0 DEF ConnStates
    <3>3. "conn" \notin idles  BY <2>1, <2>3 DEF CalmInv, Search, SourceHeld
    <3> QED  BY <2>1, <1>a, <3>1, <3>2, <3>3
             DEF CalmInv, Registry, Unopened, Search, SourceHeld, TokenLost, Joining, Freed
  <2> QED  BY <2>2, <2>3
<1> QED  BY <1>1, <1>2, <1>3, <1>4, <1>5, <1>6, <1>7 DEF Conn!ConnNext

\* The HTTP/2 thread reports an end only when the connection thread is done, and
\* before a token error.
LEMMA CalmReports ==
    ASSUME ConnInv, CalmInv, NEW s \in {"CONNECTED", "DISCONNECTED"},
           Conn!SetStatus("http2", s), network.pc = "poll", ~network.stop,
           stream.st \in {"sent", "ok"} \/ ~(network.reqs \subseteq {"registry"}),
           s = "CONNECTED" => stream.st = "ok" /\ mg.status # "CONNECTED",
           s = "DISCONNECTED" => conn.pc = "none",
           stream' \in Streams, network'.reqs \subseteq network.reqs, ~network'.stop,
           network'.pc # "exited",
           s = "CONNECTED" => UNCHANGED stream,
           UNCHANGED <<nm, regIdle, reIdle, conn, main, dangling, sender>>
    PROVE  CalmInv'
<1>0. conn \in ConnStates /\ mg.net /\ nm.h2  BY CalmTypes DEF ConnInv, CalmInv
<1>1. /\ mg'.status = s /\ mg'.net = mg.net /\ mg'.ping = mg.ping
      /\ \/ UNCHANGED <<mg, idles>>
         \/ /\ mg.status # s /\ ~mg'.emit /\ mg'.idle_source = "http2"
            /\ idles' = idles \cup {"http2"}
  BY StatusGoes
<1>2. /\ mg.status # "TOKEN_FAILED" /\ ~nm.discIdle
      /\ regIdle = "none" /\ "registry" \notin network.reqs
      /\ main.pc # "stop" /\ (main.pc = "tell" => main.then # "stop")
      /\ main.pc \notin {"freeing", "joinConn"} /\ (main.pc = "join" => main.then = "free")
  BY <1>0 DEF CalmInv, Registry, TokenLost, Joining, Freed, Unopened
<1>3. conn.pc \notin {"next", "reported", "stop", "stopToken"}
  BY <1>0 DEF CalmInv, Search
<1>4. "conn" \notin idles  BY <1>3 DEF CalmInv, SourceHeld, Search
<1>5. conn.pc \in {"wait", "read"} => conn.code = "ok"
  BY DEF CalmInv, Search
<1>6. idles' \subseteq {mg'.idle_source} /\ "conn" \notin idles'
  BY <1>1, <1>4 DEF CalmInv, SourceHeld, ConnInv, ConnTypes, Sources
<1>7. conn.pc \in {"connected", "end"} => s = "CONNECTED"  OBVIOUS
<1> QED  BY <1>0, <1>1, <1>2, <1>3, <1>5, <1>6, <1>7
         DEF CalmInv, Registry, Search, SourceHeld, TokenLost, Joining, Freed

LEMMA CalmHttp2 ==
    ASSUME Calm, ConnInv, CalmInv, ConnInv', Conn!Http2Next PROVE CalmInv'
<1> USE DEF Conn!None
<1>0. /\ network \in Networks /\ conn \in ConnStates /\ stream \in Streams
      /\ reIdle \in BOOLEAN
  BY CalmTypes DEF CalmInv
<1>a. network.pc = "poll" => mg.net /\ nm.h2  BY DEF ConnInv, CalmInv
<1>1. CASE Conn!RegistryDone
  <2>1. /\ "registry" \in network.reqs
        /\ network' = [network EXCEPT !.reqs = network.reqs \ {"registry"}]
        /\ UNCHANGED <<nm, mg, idles, reIdle, stream, conn, main, dangling, sender>>
    BY <1>1 DEF Conn!RegistryDone
  <2>2. network'.reqs = network.reqs \ {"registry"}  BY <2>1, <1>0 DEF Networks
  <2> QED  BY <2>1, <2>2
           DEF CalmInv, Registry, Unopened, Search, SourceHeld, TokenLost, Joining, Freed
<1>2. CASE Conn!ContentType
  <2>1. /\ network.pc = "poll" /\ ~network.stop /\ stream.st = "ok"
        /\ mg.status # "CONNECTED" /\ Conn!SetStatus("http2", "CONNECTED")
        /\ network' = [network EXCEPT !.pc = "wait"]
        /\ UNCHANGED <<nm, regIdle, reIdle, stream, conn, main, dangling, sender>>
    BY <1>2 DEF Conn!ContentType, Conn!Polls
  <2>2. network'.reqs = network.reqs /\ network'.stop = network.stop /\ network'.pc = "wait"
    BY <2>1, <1>0 DEF Networks
  <2> QED  BY <2>1, <2>2, <1>0, CalmReports
<1>3. CASE Conn!StreamEnds
  <2>1. /\ network.pc = "poll" /\ ~network.stop /\ stream.st = "ok"
        /\ stream' = [stream EXCEPT !.st = "ended", !.cbs = FALSE, !.sync = FALSE]
        /\ UNCHANGED <<nm, mg, idles, regIdle, network, conn, main, dangling, sender>>
    BY <1>3 DEF Conn!StreamEnds, Conn!Polls
  <2>2. stream' \in Streams /\ stream'.st = "ended"  BY <2>1, <1>0 DEF Streams
  <2> QED  BY <2>1, <2>2, <1>a
           DEF CalmInv, Registry, Unopened, Search, SourceHeld, TokenLost, Joining, Freed
<1>4. CASE Conn!StreamLost
  <2>1. /\ network.pc = "poll" /\ ~network.stop /\ stream.st = "sent"
        /\ stream' = [stream EXCEPT !.st = "lost", !.cbs = FALSE]
        /\ stream.sync \/ conn.pc = "none"
        /\ UNCHANGED <<nm, regIdle, reIdle, main, dangling, sender>>
    BY <1>4 DEF Conn!StreamLost, Conn!Polls, Conn!Later, Calm
  <2>2. stream' \in Streams /\ stream'.st = "lost" /\ stream'.sync = stream.sync
    BY <2>1, <1>0 DEF Streams
  <2>3. CASE stream.cbs /\ ~stream.sync
    <3>1. /\ Conn!SetStatus("http2", "DISCONNECTED") /\ UNCHANGED conn
          /\ network' = [network EXCEPT !.pc = "wait"]
      BY <1>4, <2>3 DEF Conn!StreamLost
    <3>2. network'.reqs = network.reqs /\ network'.stop = network.stop /\ network'.pc = "wait"
      BY <3>1, <1>0 DEF Networks
    <3> QED  BY <2>1, <2>2, <2>3, <3>1, <3>2, CalmReports
  <2>4. CASE ~(stream.cbs /\ ~stream.sync)
    <3>1. UNCHANGED <<mg, idles, network>>  BY <1>4, <2>4 DEF Conn!StreamLost
    <3>2. conn'.pc = conn.pc /\ conn'.code = conn.code
      BY <1>4, <1>0 DEF Conn!StreamLost, ConnStates
    <3> QED  BY <2>1, <2>2, <3>1, <3>2, <1>a
             DEF CalmInv, Registry, Unopened, Search, SourceHeld, TokenLost, Joining, Freed
  <2> QED  BY <2>3, <2>4
<1>5. CASE Conn!ReportDone
  <2>1. /\ network' = [network EXCEPT !.pc = "poll"]
        /\ UNCHANGED <<nm, mg, idles, regIdle, reIdle, stream, conn, main, dangling, sender>>
    BY <1>5 DEF Conn!ReportDone, Conn!idleVars
  <2>2. network'.pc = "poll" /\ network'.reqs = network.reqs /\ network'.stop = network.stop
    BY <2>1, <1>0 DEF Networks
  <2> QED  BY <2>1, <2>2
           DEF CalmInv, Registry, Unopened, Search, SourceHeld, TokenLost, Joining, Freed
<1>6. CASE Conn!LoopEnds
  <2>1. /\ network' = [network EXCEPT !.pc = "exited", !.reqs = {}] /\ network.stop
        /\ UNCHANGED <<nm, mg, idles, regIdle, reIdle, conn, main, dangling, sender>>
    BY <1>6 DEF Conn!LoopEnds, Conn!idleVars, Calm
  <2>2. network'.reqs = {} /\ network'.stop = network.stop  BY <2>1, <1>0 DEF Networks
  <2>3. /\ stream' \in Streams
        /\ stream.st = "none" => stream'.st = "none"
    <3>1. CASE stream.st \in {"sent", "ok"}
      <4>1. PICK e \in {"ended", "lost"} : stream' = [stream EXCEPT !.st = e, !.cbs = FALSE]
        BY <1>6, <3>1 DEF Conn!LoopEnds
      <4> QED  BY <3>1, <4>1, <1>0 DEF Streams
    <3>2. CASE stream.st \notin {"sent", "ok"}
      BY <1>6, <3>2, <1>0 DEF Conn!LoopEnds
    <3> QED  BY <3>1, <3>2
  <2>4. conn.pc \notin {"wait", "read"}  BY <2>1 DEF CalmInv, Search
  <2> QED  BY <2>1, <2>2, <2>3, <2>4
           DEF CalmInv, Registry, Unopened, Search, SourceHeld, TokenLost, Joining, Freed
<1>7. ASSUME NEW code \in {"ok", "fail", "token"}, Conn!StatusLine(code) PROVE CalmInv'
  <2>1. /\ network.pc = "poll" /\ ~network.stop /\ stream.st = "sent"
        /\ code = "ok" \/ stream.sync \/ (conn.pc = "none" /\ code = "fail")
        /\ stream' = [stream EXCEPT !.st = code, !.cbs = stream.cbs /\ code = "ok"]
        /\ conn' = IF stream.sync THEN [conn EXCEPT !.hdr = TRUE, !.code = code] ELSE conn
        /\ UNCHANGED <<nm, regIdle, reIdle, main, dangling, sender>>
    BY <1>7 DEF Conn!StatusLine, Conn!Polls, Conn!Later, Calm
  <2>2. stream' \in Streams /\ stream'.st = code /\ stream'.sync = stream.sync
    <3>1. PICK c \in BOOLEAN : c = (stream.cbs /\ code = "ok")  OBVIOUS
    <3>2. stream' = [stream EXCEPT !.st = code, !.cbs = c]  BY <2>1, <3>1
    <3> QED  BY <3>2, <1>0 DEF Streams
  <2>3. conn'.pc = conn.pc /\ conn'.code = IF stream.sync THEN code ELSE conn.code
    BY <2>1, <1>0 DEF ConnStates
  <2>4. CASE code = "ok" \/ stream.sync \/ ~stream.cbs
    <3>1. UNCHANGED <<mg, idles, network>>  BY <1>7, <2>4 DEF Conn!StatusLine
    <3> QED  BY <2>1, <2>2, <2>3, <3>1, <1>a
             DEF CalmInv, Registry, Unopened, Search, SourceHeld, TokenLost, Joining, Freed
  <2>5. CASE ~(code = "ok" \/ stream.sync \/ ~stream.cbs)
    <3>1. /\ Conn!SetStatus("http2", "DISCONNECTED") /\ UNCHANGED conn
          /\ network' = [network EXCEPT !.pc = "wait"]
      BY <1>7, <2>1, <2>5 DEF Conn!StatusLine
    <3>2. network'.reqs = network.reqs /\ network'.stop = network.stop /\ network'.pc = "wait"
      BY <3>1, <1>0 DEF Networks
    <3> QED  BY <2>1, <2>2, <2>5, <3>1, <3>2, CalmReports
  <2> QED  BY <2>4, <2>5
<1>8. ASSUME NEW r \in {"ping", "event"}, NEW code \in {"ok", "fail", "token"},
             Conn!RequestDone(r, code)
      PROVE  CalmInv'
  <2>1. /\ network.pc = "poll" /\ ~network.stop /\ r \in network.reqs
        /\ UNCHANGED <<nm, regIdle, reIdle, stream, conn, main, dangling, sender>>
    BY <1>8 DEF Conn!RequestDone, Conn!Polls
  <2>2. CASE code = "ok"
    <3>1. network' = [network EXCEPT !.reqs = network.reqs \ {r}] /\ UNCHANGED <<mg, idles>>
      BY <1>8, <2>2 DEF Conn!RequestDone
    <3>2. /\ network'.reqs = network.reqs \ {r} /\ network'.stop = network.stop
          /\ network'.pc = network.pc
      BY <3>1, <1>0 DEF Networks
    <3> QED  BY <2>1, <3>1, <3>2
             DEF CalmInv, Registry, Unopened, Search, SourceHeld, TokenLost, Joining, Freed
  <2>3. CASE code # "ok"
    <3>1. /\ Conn!SetStatus("http2", "DISCONNECTED") /\ conn.pc = "none"
          /\ network' = [network EXCEPT !.reqs = network.reqs \ {r}, !.pc = "wait"]
      BY <1>8, <2>3 DEF Conn!RequestDone, Conn!Later, Calm
    <3>2. /\ network'.reqs = network.reqs \ {r} /\ network'.stop = network.stop
          /\ network'.pc = "wait"
      BY <3>1, <1>0 DEF Networks
    <3> QED  BY <2>1, <3>1, <3>2, <1>0, CalmReports
  <2> QED  BY <2>2, <2>3
<1> QED  BY <1>1, <1>2, <1>3, <1>4, <1>5, <1>6, <1>7, <1>8 DEF Conn!Http2Next

LEMMA CalmStep ==
    ASSUME Calm, ConnInv, ConnInv', CalmInv, [Conn!Next]_(Conn!vars) PROVE CalmInv'
<1>1. CASE UNCHANGED Conn!vars
  <2>1. UNCHANGED <<nm, mg, idles, regIdle, reIdle, network, stream, conn, main, dangling, sender>>
    BY <1>1 DEF Conn!idleVars, Conn!vars
  <2> QED  BY <2>1
           DEF CalmInv, Registry, Unopened, Search, SourceHeld, TokenLost, Joining, Freed
<1>2. CASE Conn!SenderChecks \/ Conn!SenderSends
  BY <1>2 DEF Conn!SenderChecks, Conn!SenderSends, Calm, CalmInv
<1> QED  BY <1>1, <1>2, CalmMain, CalmConn, CalmHttp2 DEF Conn!Next

\* Nothing refers to a manager that was freed, neither a thread nor a timer, an
\* idle source or the registry's answer, and a disconnect leaves no network
\* running (h2manager_free(), nugu_network_manager_disconnect()), for any number
\* of servers and all failures that come while the threads are at rest.
THEOREM ConnectionLeavesNothing ==
    ASSUME Conn!ConnectionAssumption, Calm
    PROVE  Conn!Spec => [](Conn!NothingDangles /\ Conn!DisconnectDisconnects)
<1>1. ConnInv /\ CalmInv => Conn!NothingDangles /\ Conn!DisconnectDisconnects
  <2> SUFFICES ASSUME ConnInv, CalmInv
               PROVE  Conn!NothingDangles /\ Conn!DisconnectDisconnects
    OBVIOUS
  <2>1. Conn!NothingDangles  BY DEF CalmInv, Conn!NothingDangles
  <2>2. Conn!DisconnectDisconnects
    BY DEF ConnInv, CalmInv, Conn!DisconnectDisconnects
  <2> QED  BY <2>1, <2>2
<1>2. Conn!Init => ConnInv /\ CalmInv  BY ConnInitInv, CalmInit
<1>3. ConnInv /\ CalmInv /\ [Conn!Next]_(Conn!vars) => (ConnInv /\ CalmInv)'
  <2> SUFFICES ASSUME ConnInv, CalmInv, [Conn!Next]_(Conn!vars) PROVE ConnInv' /\ CalmInv'
    OBVIOUS
  <2>1. ConnInv'  BY ConnectionStep
  <2> QED  BY <2>1, CalmStep
<1> QED  BY <1>1, <1>2, <1>3, PTL DEF Conn!Spec

=============================================================================
