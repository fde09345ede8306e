----------------------------- MODULE MCNetwork ------------------------------
(***************************************************************************)
(* The network for model checking: the connection with its threads, the    *)
(* requests of one HTTP/2 network, the parser of the directive stream, the *)
(* directives in the sequencer and the upload of speech. In a behaviour    *)
(* one part is at work and the others stay as they were created. The       *)
(* requests, the directives and the upload are extended: their theorems    *)
(* speak of what is checked.                                               *)
(***************************************************************************)
EXTENDS Http2Requests, SpeechUpload, DirectiveSequencer

\* Streams of two parts: JSON bodies have no CR, opus bodies may hold line ends
\* and bytes of the boundary.
Headers == {<<"json">>, <<"opus", "m1", "more">>, <<"m2", "opus", "end">>, <<"text">>}
Bodies(h) ==
    IF h[1] = "json" THEN UNION {[1..n -> {"x", "LF", "-"}] : n \in 1..2}
    ELSE {<<"x">>, <<"b">>, <<"CR">>, <<"x", "CR">>, <<"CR", "b">>, <<"CR", "CR">>,
          <<"CR", "LF", "x">>, <<"CR", "LF", "CR", "x">>}
AllParts == UNION {{[header |-> h, body |-> b] : b \in Bodies(h)} : h \in Headers}
Streams == {<<p, q>> : p \in AllParts, q \in {r \in AllParts : Len(r.body) = 1}}
Preambles == {<<>>, <<"-", "x">>, <<"-", "-", "b", "x">>}

\* Failures while the connection is set up and kept, one thread at a time
Failures ==
    {"noregistry", "registryfail", "registrytoken", "badpolicy", "hostfail", "hosttoken",
     "streamend", "streamfail", "reqfail"}

\* What may come in between the steps of the threads
Races ==
    {"noregistry", "hostfail", "streamend", "streamtoken", "reqtoken", "slow", "sender",
     "disconnect", "curlfail", "overtake"}

VARIABLES
    part,       \* the part that is at work
    nm, mg, idles, regIdle, reIdle, network, stream, conn, main, told, sender,
    dangling,
    parts, bytes, pos, parser, bpos, dir, got, mismatch

connectionVars == <<nm, mg, idles, regIdle, reIdle, network, stream, conn, main, told,
                    sender, dangling>>
parserVars == <<parts, bytes, pos, parser, bpos, dir, got, mismatch>>

vars == <<part, connectionVars, requestVars, parserVars, sequencerVars, sessionVars>>

\* Two servers and every failure, the threads at rest when the next one comes
Connection == INSTANCE Connection WITH
    Servers <- 2, Inputs <- Failures, net <- network

\* One server, with the application, senders and late answers in between the
\* threads' steps
Threads == INSTANCE Connection WITH
    Servers <- 1, Inputs <- Races, net <- network

\* The requests while curl works: what those who send can rely on
Served == INSTANCE Http2Requests WITH Reqs <- Reqs, Inputs <- {}

\* Every stream, cut anywhere but inside a boundary
Parser == INSTANCE MultipartParser WITH
    Boundary <- <<"b", "c">>, Streams <- Streams, Preambles <- Preambles,
    Cuts <- {"outside"}, stream <- bytes

\* Two sessions that nobody restarts: what becomes of their events
Sessions == INSTANCE SpeechUpload WITH
    MaxEvents <- 2, MaxFrames <- 2, UploadInputs <- {"stop", "network", "fail"}

ASSUME Instances ==
    /\ Connection!ConnectionAssumption
    /\ Threads!ConnectionAssumption
    /\ Http2RequestsAssumption
    /\ Served!Http2RequestsAssumption
    /\ Parser!MultipartParserAssumption
    /\ SequencerAssumption
    /\ UploadAssumption
    /\ Sessions!UploadAssumption

-----------------------------------------------------------------------------
Init ==
    /\ part \in {"connection", "threads", "requests", "served", "parser",
                  "sequencer", "upload", "sessions"}
    /\ Connection!Init
    /\ RequestsInit
    /\ Parser!Init
    /\ part # "parser" => bytes = Parser!Sent(<<[header |-> <<"text">>, body |-> <<"x">>],
                                            [header |-> <<"text">>, body |-> <<"x">>]>>)
    /\ SequencerInit
    /\ UploadInit

ConnectionStep ==
    /\ part = "connection" /\ Connection!Next
    /\ UNCHANGED <<part, requestVars, parserVars, sequencerVars, sessionVars>>

ThreadsStep ==
    /\ part = "threads" /\ Threads!Next
    /\ UNCHANGED <<part, requestVars, parserVars, sequencerVars, sessionVars>>

RequestsStep ==
    /\ part = "requests" /\ RequestsNext
    /\ UNCHANGED <<part, connectionVars, parserVars, sequencerVars, sessionVars>>

ServedStep ==
    /\ part = "served" /\ Served!RequestsNext
    /\ UNCHANGED <<part, connectionVars, parserVars, sequencerVars, sessionVars>>

ParserStep ==
    /\ part = "parser" /\ Parser!Next
    /\ UNCHANGED <<part, connectionVars, requestVars, sequencerVars, sessionVars>>

SequencerStep ==
    /\ part = "sequencer" /\ SequencerNext
    /\ UNCHANGED <<part, connectionVars, requestVars, parserVars, sessionVars>>

UploadStep ==
    /\ part = "upload" /\ UploadNext
    /\ UNCHANGED <<part, connectionVars, requestVars, parserVars, sequencerVars>>

SessionsStep ==
    /\ part = "sessions" /\ Sessions!UploadNext
    /\ UNCHANGED <<part, connectionVars, requestVars, parserVars, sequencerVars>>

\* The directives and sessions of a run are finite; nothing is said of a
\* program whose memory is broken.
Ended == part \in {"threads", "sequencer", "upload", "sessions"} /\ UNCHANGED vars

Next ==
    \/ ConnectionStep \/ ThreadsStep \/ RequestsStep \/ ServedStep \/ ParserStep
    \/ SequencerStep \/ UploadStep \/ SessionsStep \/ Ended

Spec == Init /\ [][Next]_vars

\* The main loop dispatches what is attached to it, the threads run, a request
\* ends within its timeout and the microphone delivers frames.
FairSpec ==
    /\ Spec
    /\ WF_connectionVars(part = "connection" /\ Connection!MainProceeds)
    /\ \A t \in {"conn", "http2"} :
          WF_connectionVars(part = "connection" /\ Connection!EmitInIdle(t))
    /\ WF_connectionVars(part = "connection" /\ Connection!DisconnectInIdle)
    /\ WF_connectionVars(part = "connection" /\ Connection!ReEstablish)
    /\ WF_connectionVars(part = "connection" /\ Connection!ConnNext)
    /\ WF_connectionVars(part = "connection" /\ Connection!RegistryDone)
    /\ WF_connectionVars(part = "connection" /\ Connection!ReportDone)
    /\ WF_connectionVars(part = "connection" /\ network.stop /\ Connection!LoopEnds)
    /\ WF_connectionVars(part = "connection" /\ Connection!Answered)
    /\ WF_connectionVars(part = "connection" /\ Connection!ContentType)
    /\ WF_requestVars(part = "served" /\ Served!Joined)
    /\ WF_requestVars(part = "served" /\ Served!Loop)
    /\ \A r \in Reqs :
          /\ SF_requestVars(part = "served" /\ Served!Completes(r))
          /\ WF_requestVars(part = "served" /\ req[r].pc # "none" /\ Served!Send(r))
    /\ WF_sessionVars(part = "sessions" /\ Sessions!Thread)
    /\ WF_sessionVars(part = "sessions" /\ Sessions!OnListeningState)
    /\ WF_sessionVars(part = "sessions" /\ Sessions!RecognizerJoined)

-----------------------------------------------------------------------------
\* The connection thread never outlives the manager it works on, whatever the
\* application, the servers and the other threads do. Where failures come while
\* the threads are at rest, nothing that refers to the manager survives it, and
\* a disconnect leaves no network running (h2manager_free(),
\* nugu_network_manager_disconnect()). And the Recognize event of a session that
\* nobody restarts outlives its use by the recognizer's thread
\* (ASRAgent::onRecordData()). However the directive stream is cut into chunks
\* outside its boundaries, the parts come out in order, whole and with their own
\* headers (multipart_parser_parse()).
TransportSafe ==
    /\ Connection!TypeOK /\ RequestsTypeOK
    /\ Parser!TypeOK /\ Parser!PartsDelivered
    /\ Connection!ThreadJoined
    /\ part = "connection" => Connection!NothingDangles /\ Connection!DisconnectDisconnects
    /\ part = "sessions" => Sessions!EventAlive

\* While curl works the network implements the service its users rely on:
\* requests settle once, and none is forgotten.
Users == INSTANCE RequestService WITH
    on <- part # "served" \/ free = "no",
    status <- IF part = "served" THEN Served!Status ELSE [r \in Reqs |-> "idle"]
ServesUsers == Users!Spec

\* Every connect is answered with a connection, its failure or a token error,
\* which frees the manager, and a directive stream that ended is opened again
\* while the manager stays CONNECTED (_re_establish()); http2_network_free()
\* returns, whatever the thread is doing; the Recognize event of every session
\* that began to listen is freed again.
NetworkLive ==
    /\ part = "connection" => /\ Connection!ConnectAnswered
                              /\ Connection!TokenErrorEnds
                              /\ Connection!StreamReopened
    /\ part = "served" => Served!FreeReturns
    /\ part = "sessions" => Sessions!EventEnds

=============================================================================
