---------------------------- MODULE Http2Requests ----------------------------
(***************************************************************************)
(* The requests of one HTTP2Network (http2_network.c): events, attachments *)
(* and pings are created with one reference, handed to the network's       *)
(* thread through a queue and an eventfd, and completed or dropped there.  *)
(* http2_network_free() stops and joins the thread.                        *)
(***************************************************************************)
EXTENDS Integers, Sequences, FiniteSets

CONSTANTS
    Reqs,       \* requests
    Inputs      \* which of "slow" (the thread needs more than 5 s to start),
                \* "addfail" (curl refuses a request) and "curlfail" (curl's
                \* loop fails) happen

Http2RequestsAssumption == Inputs \subseteq {"slow", "addfail", "curlfail"}

VARIABLES
    req,        \* the requests: pc of the sender, ref_count, freed, fin (calls
                \* of finish_cb), ret (what the sender returned)
    queue,      \* net->requests
    fd,         \* the eventfd is readable
    net,        \* the network: started (thread created), pc of the thread,
                \* running, handle
    hlist,      \* the requests curl works on
    free,       \* http2_network_free(): "no", "join", "done"
    dropped,    \* requests that ended without a completion
    seq         \* the event's attachment counter

requestVars == <<req, queue, fd, net, hlist, free, dropped, seq>>

NoReq == [pc |-> "none", ref |-> 0, freed |-> FALSE, fin |-> 0, ret |-> 1]

\* http2_network_new()
RequestsInit ==
    /\ req = [r \in Reqs |-> NoReq]
    /\ queue = <<>> /\ fd = FALSE
    /\ net = [started |-> FALSE, pc |-> "none", running |-> FALSE, handle |-> FALSE]
    /\ hlist = {} /\ free = "no" /\ dropped = {} /\ seq = 0

\* http2_request_ref()
Ref(q) == [q EXCEPT !.ref = @ + 1]

\* http2_request_free() of a request nobody holds any more
Released(q) == [q EXCEPT !.freed = (q.ref = 0)]

\* http2_request_unref() of the requests S
Unref(f, S) ==
    [r \in Reqs |-> IF r \in S THEN Released([f[r] EXCEPT !.ref = @ - 1]) ELSE f[r]]

\* http2_request_emit_completed(): finish_cb
EmitCompleted(q) == [q EXCEPT !.fin = @ + 1]

----------------------------------------------------------------------------
(***************************************************************************)
(* The main thread                                                         *)
(***************************************************************************)

\* http2_network_start() creates the thread ...
StartNetwork ==
    /\ ~net.started /\ free = "no"
    /\ net' = [net EXCEPT !.started = TRUE, !.pc = "init"]
    /\ UNCHANGED <<req, queue, fd, hlist, free, dropped, seq>>

\* ... and waits for it, 5 s at most.
Started == net.started /\ (net.pc # "init" \/ "slow" \in Inputs)

Sending == \E r \in Reqs : req[r].pc \in {"new", "checked", "pushed", "written"}

\* v1_event_new(), v1_event_attachment_new(), http2_request_new()
NewRequest(r) ==
    /\ Started /\ free = "no" /\ ~Sending
    /\ req[r].pc = "none"
    /\ req' = [req EXCEPT ![r].pc = "new", ![r].ref = 1]
    /\ UNCHANGED <<queue, fd, net, hlist, free, dropped, seq>>

\* http2_network_add_request() looks at the handle.  Refused, the request
\* stays with its creator, who returns success all the same.
AddRequest(r) ==
    /\ req[r].pc = "new"
    /\ \/ /\ net.handle
          /\ req' = [req EXCEPT ![r].pc = "checked"]
          /\ UNCHANGED seq
       \/ /\ ~net.handle
          /\ req' = [req EXCEPT ![r].pc = "refused", ![r].ret = 0]
          /\ seq' = seq + 1
    /\ UNCHANGED <<queue, fd, net, hlist, free, dropped>>

\* Faulty QueueRequest: the queue's reference is not counted.
QueueRequestUncounted(r) ==
    /\ req[r].pc = "checked"
    /\ req' = [req EXCEPT ![r].pc = "pushed"]
    /\ queue' = Append(queue, r)
    /\ UNCHANGED <<fd, net, hlist, free, dropped, seq>>

QueueRequest(r) ==
    /\ req[r].pc = "checked"
    /\ req' = [req EXCEPT ![r] = [Ref(@) EXCEPT !.pc = "pushed"]]
    /\ queue' = Append(queue, r)
    /\ UNCHANGED <<fd, net, hlist, free, dropped, seq>>

\* Faulty Wakeup: the thread is not woken.
WakeupForgotten(r) ==
    /\ req[r].pc = "pushed"
    /\ req' = [req EXCEPT ![r].pc = "written"]
    /\ UNCHANGED <<queue, fd, net, hlist, free, dropped, seq>>

Wakeup(r) ==
    /\ req[r].pc = "pushed"
    /\ fd' = TRUE
    /\ req' = [req EXCEPT ![r].pc = "written"]
    /\ UNCHANGED <<queue, net, hlist, free, dropped, seq>>

\* v1_event_send_with_free(): the creator's reference is dropped.
SendWithFree(r) ==
    /\ req[r].pc = "written"
    /\ req' = [Unref(req, {r}) EXCEPT ![r].pc = "sent", ![r].ret = 0]
    /\ seq' = seq + 1
    /\ UNCHANGED <<queue, fd, net, hlist, free, dropped>>

\* Faulty Free: the loop is woken and not told to end.
FreeOnlyWakes ==
    /\ Started /\ free = "no" /\ ~Sending
    /\ free' = "join"
    /\ fd' = (fd \/ net.running)
    /\ UNCHANGED <<req, queue, net, hlist, dropped, seq>>

\* http2_network_free() up to pthread_join()
Free ==
    /\ Started /\ free = "no" /\ ~Sending
    /\ free' = "join"
    /\ fd' = (fd \/ net.running)
    /\ net' = [net EXCEPT !.running = FALSE]
    /\ UNCHANGED <<req, queue, hlist, dropped, seq>>

\* The thread is joined: the items still queued are freed, their requests are
\* not touched.
Joined ==
    /\ free = "join" /\ net.pc = "exited"
    /\ free' = "done"
    /\ dropped' = dropped \cup {queue[i] : i \in 1..Len(queue)}
    /\ queue' = <<>>
    /\ UNCHANGED <<req, fd, net, hlist, seq>>

----------------------------------------------------------------------------
(***************************************************************************)
(* The thread: _loop()                                                     *)
(***************************************************************************)

LoopStarts ==
    /\ net.pc = "init"
    /\ net' = [net EXCEPT !.pc = "perform", !.running = TRUE, !.handle = TRUE]
    /\ UNCHANGED <<req, queue, fd, hlist, free, dropped, seq>>

\* The head of the loop: curl_multi_perform(), then the completed requests
Performs ==
    /\ net.pc = "perform" /\ net.running
    /\ net' = [net EXCEPT !.pc = "wait"]
    /\ UNCHANGED <<req, queue, fd, hlist, free, dropped, seq>>

\* Faulty Completes: the request stays with curl.
CompletesKeeps(r) ==
    /\ net.pc = "wait" /\ r \in hlist
    /\ req' = Unref([req EXCEPT ![r].fin = IF @ < 2 THEN @ + 1 ELSE @], {r})
    /\ UNCHANGED <<queue, fd, net, hlist, free, dropped, seq>>

\* A request is done (an answer, or its 5 s are over): removed, finish_cb,
\* unref
Completes(r) ==
    /\ net.pc = "wait" /\ r \in hlist
    /\ hlist' = hlist \ {r}
    /\ req' = Unref([req EXCEPT ![r] = EmitCompleted(@)], {r})
    /\ UNCHANGED <<queue, fd, net, free, dropped, seq>>

\* curl_multi_wait() returns: with the eventfd the queue is drained, without
\* it (timeout, network activity) the loop goes on.
WaitReturns ==
    /\ net.pc = "wait"
    /\ net' = [net EXCEPT !.pc = IF fd THEN "drain" ELSE "perform"]
    /\ fd' = FALSE
    /\ UNCHANGED <<req, queue, hlist, free, dropped, seq>>

\* One item of the queue: _process_add(); if curl refuses it, its reference
\* is never dropped.
Drains ==
    /\ net.pc = "drain"
    /\ \/ /\ queue = <<>>
          /\ net' = [net EXCEPT !.pc = "perform"]
          /\ UNCHANGED <<queue, hlist, dropped>>
       \/ /\ queue # <<>>
          /\ hlist' = hlist \cup {Head(queue)}
          /\ queue' = Tail(queue)
          /\ UNCHANGED <<net, dropped>>
       \/ /\ queue # <<>> /\ "addfail" \in Inputs
          /\ dropped' = dropped \cup {Head(queue)}
          /\ queue' = Tail(queue)
          /\ UNCHANGED <<net, hlist>>
    /\ UNCHANGED <<req, fd, free, seq>>

\* The loop ends when it shall, or when curl fails: what curl still works on
\* is dropped.
LoopEnds ==
    /\ net.pc = "perform" /\ (~net.running \/ "curlfail" \in Inputs)
    /\ net' = [net EXCEPT !.pc = "exited", !.handle = FALSE]
    /\ req' = Unref(req, hlist)
    /\ dropped' = dropped \cup hlist
    /\ hlist' = {}
    /\ UNCHANGED <<queue, fd, free, seq>>

Send(r) == NewRequest(r) \/ AddRequest(r) \/ QueueRequest(r) \/ Wakeup(r) \/ SendWithFree(r)

Loop == LoopStarts \/ Performs \/ WaitReturns \/ Drains \/ LoopEnds

RequestsNext ==
    \/ StartNetwork \/ Free \/ Joined \/ Loop
    \/ \E r \in Reqs : Send(r) \/ Completes(r)
    \/ free = "done" /\ UNCHANGED requestVars

RequestsSpec == RequestsInit /\ [][RequestsNext]_requestVars

\* The threads run; every request ends within its timeout of 5 s.
RequestsFairSpec ==
    /\ RequestsSpec
    /\ WF_requestVars(Joined) /\ WF_requestVars(Loop)
    /\ \A r \in Reqs : /\ SF_requestVars(Completes(r))
                       /\ WF_requestVars(req[r].pc # "none" /\ Send(r))

----------------------------------------------------------------------------
(***************************************************************************)
(* Properties                                                              *)
(***************************************************************************)

RequestsTypeOK ==
    /\ \A r \in Reqs : req[r].ref \in 0..2 /\ req[r].fin \in 0..1
    /\ queue \in Seq(Reqs) /\ hlist \subseteq Reqs /\ fd \in BOOLEAN
    /\ seq \in 0..Cardinality(Reqs)

Queued(r) == \E i \in 1..Len(queue) : queue[i] = r
Creating(r) == req[r].pc \in {"new", "checked", "pushed", "written"}

\* A request is never used after it was freed: whoever holds it (its creator,
\* the queue, curl) has a reference of his own, in every interleaving of the
\* creator's unref with the thread's.
HeldIsAlive ==
    \A r \in Reqs :
        /\ Creating(r) \/ Queued(r) \/ r \in hlist => ~req[r].freed
        /\ req[r].ref >= Cardinality({h \in {"creator", "queue", "curl"} :
                                        \/ h = "creator" /\ Creating(r)
                                        \/ h = "queue" /\ Queued(r)
                                        \/ h = "curl" /\ r \in hlist})

\* No wakeup is lost: when the thread waits, a queued request has its eventfd
\* set or about to be.
NoLostWakeup ==
    net.pc = "wait" /\ queue # <<>> => fd \/ \E r \in Reqs : req[r].pc = "pushed"

\* Both: no sender, and not http2_network_free(), can make the thread use a
\* request that is gone or sleep over one that waits (http2_request_unref(),
\* http2_network_add_request()).
RequestsSafe == HeldIsAlive /\ NoLostWakeup

\* What has become of every request, in the words of RequestService
Status ==
    [r \in Reqs |->
        IF r \in dropped THEN "dropped"
        ELSE IF req[r].fin > 0 THEN "done"
        ELSE IF req[r].pc \in {"pushed", "written", "sent"} THEN "pending"
        ELSE IF req[r].pc = "refused" THEN "refused" ELSE "idle"]

\* The network implements the service its users rely on: requests settle once,
\* and none is forgotten.
Service == INSTANCE RequestService WITH on <- free = "no", status <- Status
ImplementsService == Service!Spec

\* http2_network_free() returns, whatever the thread is doing.
FreeReturns == free = "join" ~> free = "done"

\* "Remove requests that are not yet passed to the thread loop": once the
\* network is freed every request it took is gone.
NothingLeft ==
    free = "done" => \A r \in Reqs : req[r].pc = "sent" => req[r].freed

\* "0 success": what nugu_network_manager_send_event_data() reports as sent,
\* and numbers, has been handed to the network.
SuccessMeansQueued == \A r \in Reqs : req[r].ret = 0 => req[r].pc # "refused"

============================================================================
