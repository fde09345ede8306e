----------------------------- MODULE Connection -----------------------------
(***************************************************************************)
(* The connection to the NUGU servers: nugu_network_manager.c on top of    *)
(* http2_manage.c, the gateway registry, the directive stream, pings and   *)
(* events.  Three threads work on one H2Manager:                           *)
(*   - the main loop: connect, disconnect, idle callbacks, timers;         *)
(*   - the connection thread (conn): tries the servers one by one;         *)
(*   - the HTTP/2 thread of the current network (http2): completes the     *)
(*     requests; http2_network_free() stops and joins it.                  *)
(* A thread reports a status with h2manager_set_status(): it attaches an   *)
(* idle source to the main loop and waits at most 5 s for it to run.       *)
(***************************************************************************)
EXTENDS Naturals, FiniteSets

CONSTANTS
    Servers,    \* length of the registry's server list
    Inputs      \* which failures happen and what the application does

ConnectionAssumption ==
    /\ Servers \in Nat \ {0}
    /\ Inputs \subseteq {"noregistry", "registryfail", "registrytoken", "badpolicy",
                         "hostfail", "hosttoken", "slow", "streamend", "streamfail",
                         "streamtoken", "reqfail", "reqtoken", "sender", "disconnect", "curlfail",
                         "overtake"}

None == "none"

VARIABLES
    nm,         \* _network: h2 (is there a manager?), cur_status, discIdle (the
                \* idle source that disconnects)
    mg,         \* the H2Manager: status, cb (callback set), net, dir, ping,
                \* emit (emit_in_idle), idle_source
    idles,      \* the idle sources of _emit_callback_in_idle(), by thread
    regIdle,    \* the idle source of the registry's answer: its code
    reIdle,     \* the idle source of _re_establish()
    net,        \* the HTTP/2 thread: pc, whether it shall stop, its requests
    stream,     \* the directive request: st, cbs (callbacks set), sync (the
                \* connection thread's request, is_sync)
    conn,       \* the connection thread: pc, servers left, hdr (its request's
                \* header_received), code (its request's response code)
    main,       \* the main loop: pc, then (what follows), emit
    told,       \* the listeners: the last report, whether one was repeated
    sender,     \* a thread in h2manager_send_event_attachment()
    dangling    \* what outlived the object it points to

vars == <<nm, mg, idles, regIdle, reIdle, net, stream, conn, main, told, sender, dangling>>
idleVars == <<idles, regIdle, reIdle>>

NoStream == [st |-> None, cbs |-> FALSE, sync |-> FALSE]
NoConn == [pc |-> None, left |-> 0, hdr |-> FALSE, code |-> None]
NewStream(sync) == [st |-> "sent", cbs |-> TRUE, sync |-> sync]
Network(reqs) == [pc |-> "poll", stop |-> FALSE, reqs |-> reqs]
NewManager == [status |-> "CONNECTING", cb |-> TRUE, net |-> TRUE, dir |-> FALSE,
               ping |-> FALSE, emit |-> FALSE, idle_source |-> None]

Init ==
    /\ nm = [h2 |-> FALSE, cur |-> "UNKNOWN", discIdle |-> FALSE]
    /\ mg = [NewManager EXCEPT !.status = "READY", !.cb = FALSE, !.net = FALSE]
    /\ idles = {} /\ regIdle = None /\ reIdle = FALSE
    /\ net = [Network({}) EXCEPT !.pc = "exited"]
    /\ stream = NoStream
    /\ conn = NoConn
    /\ main = [pc |-> "loop", then |-> None, emit |-> FALSE]
    /\ told = [last |-> None, repeated |-> FALSE]
    /\ sender = "idle" /\ dangling = {}

----------------------------------------------------------------------------
(***************************************************************************)
(* Reports to the application                                              *)
(***************************************************************************)

\* nugu_network_manager_get_status() of manager status s
StatusOf(s) == CASE s = "CONNECTED"    -> "CONNECTED"
                 [] s = "TOKEN_FAILED" -> "TOKEN_ERROR"
                 [] OTHER              -> "DISCONNECTED"

\* The callback of service/network_manager.cc: tells its listeners.
Tell(status) == told' = [last |-> status, repeated |-> told.repeated \/ told.last = status]

\* h2manager_set_status() on thread t: store, then attach the idle source.
SetStatus(t, s) ==
    IF mg.status = s
      THEN UNCHANGED <<mg, idles>>
      ELSE /\ mg' = [mg EXCEPT !.status = s, !.emit = FALSE, !.idle_source = t]
           /\ idles' = idles \cup {t}

\* How its wait ends: the callback ran, or 5 s passed.
WaitEnds == mg.emit \/ "slow" \in Inputs \/ main.pc # "loop"

\* Faulty Disconnect: the network is left to itself.
DisconnectKeepsNetwork(g) ==
    /\ nm' = [nm EXCEPT !.cur = "DISCONNECTED"]
    /\ mg' = [g EXCEPT !.cb = FALSE, !.net = FALSE]
    /\ UNCHANGED net
    /\ main' = [pc |-> "freeing", then |-> "free", emit |-> nm.cur # "DISCONNECTED"]

\* nugu_network_manager_disconnect() of manager g, up to the first join
Disconnect(g) ==
    /\ nm' = [nm EXCEPT !.cur = "DISCONNECTED"]
    /\ mg' = [g EXCEPT !.cb = FALSE]
    /\ net' = IF g.net THEN [net EXCEPT !.stop = TRUE] ELSE net
    /\ main' = [pc |-> IF g.net THEN "join" ELSE "freeing", then |-> "free",
                emit |-> nm.cur # "DISCONNECTED"]

\* _status_callback() and _emit_event(): on DISCONNECTED the manager is freed,
\* on a token error that is left to an idle source.  Then the main loop goes
\* on with `then'.
StatusCallback(g, then) ==
    LET status == StatusOf(g.status)
    IN  CASE ~g.cb \/ g.status \in {"CONNECTING", "READY"} ->
               mg' = g /\ main' = [main EXCEPT !.pc = then] /\ UNCHANGED <<nm, net>>
          [] g.cb /\ g.status \notin {"CONNECTING", "READY"} /\ status = "DISCONNECTED" ->
               Disconnect(g)
          [] OTHER ->
               /\ nm' = [nm EXCEPT !.cur = status,
                                   !.discIdle = @ \/ status = "TOKEN_ERROR"]
               /\ mg' = g
               /\ main' = IF nm.cur = status THEN [main EXCEPT !.pc = then]
                          ELSE [pc |-> "tell", then |-> then, emit |-> FALSE]
               /\ UNCHANGED net

\* The listener asks for the status again when it is called.
TellListener ==
    /\ main.pc = "tell"
    /\ Tell(StatusOf(mg.status))
    /\ main' = [main EXCEPT !.pc = main.then]
    /\ UNCHANGED <<nm, mg, idleVars, net, stream, conn, sender, dangling>>

----------------------------------------------------------------------------
(***************************************************************************)
(* The main loop                                                           *)
(***************************************************************************)

\* gateway_registry_new() has no address to ask
NoRegistry == "noregistry" \in Inputs

\* gateway_registry_policy()
RegistryRequest == Network({"registry"})

\* nugu_network_manager_connect() and h2manager_connect()
Connect ==
    /\ main.pc = "loop" /\ ~nm.h2
    /\ nm' = [nm EXCEPT !.h2 = TRUE, !.cur = "UNKNOWN"]
    /\ mg' = NewManager
    /\ told' = [last |-> None, repeated |-> told.repeated]
    /\ \/ /\ net' = RegistryRequest
          /\ UNCHANGED main
       \/ /\ NoRegistry
          /\ net' = [Network({}) EXCEPT !.stop = TRUE]
          /\ main' = [main EXCEPT !.pc = "join", !.then = "report"]
    /\ stream' = NoStream /\ conn' = NoConn
    /\ UNCHANGED <<idleVars, sender, dangling>>

\* _callback_in_idle() of the gateway registry
RegistryAnswers ==
    /\ main.pc = "loop" /\ regIdle # None
    /\ regIdle' = None

\* gateway_registry_get_health_policy() and gateway_registry_get_servers():
\* an answer without a policy or servers is as good as none
HasServers(code) == code = "ok"

\* on_policy()
OnPolicy ==
    /\ RegistryAnswers
    /\ \/ /\ regIdle = "token"
          /\ StatusCallback([mg EXCEPT !.status = "TOKEN_FAILED"], "stop")
       \/ /\ regIdle # "token"
          /\ net' = [net EXCEPT !.stop = TRUE]
          /\ main' = [main EXCEPT !.pc = "join",
                                  !.then = IF HasServers(regIdle) THEN "servers" ELSE "report"]
          /\ UNCHANGED <<nm, mg>>
    /\ UNCHANGED <<idles, reIdle, stream, conn, told, sender, dangling>>

\* Behind the report of a token error, on_policy() stops the network.
StopNetwork ==
    /\ main.pc = "stop"
    /\ net' = [net EXCEPT !.stop = TRUE]
    /\ main' = [main EXCEPT !.pc = "join", !.then = "loop"]
    /\ UNCHANGED <<nm, mg, idleVars, stream, conn, told, sender, dangling>>

\* _h2manager_connect_to_servers()
ConnectionThread == [NoConn EXCEPT !.pc = "next", !.left = Servers]

\* http2_network_free() has joined the thread; what follows depends on the
\* caller of _h2manager_network_stop().  Two threads may free one network.
Joined ==
    /\ main.pc = "join" /\ net.pc = "exited"
    /\ LET g == [mg EXCEPT !.net = FALSE]
       IN  \/ /\ main.then = "loop"
              /\ mg' = g /\ main' = [main EXCEPT !.pc = "loop"]
              /\ UNCHANGED <<nm, net, conn>>
           \/ /\ main.then = "servers"
              /\ conn' = ConnectionThread
              /\ mg' = g /\ main' = [main EXCEPT !.pc = "loop"]
              /\ UNCHANGED <<nm, net>>
           \/ /\ main.then = "report"
              /\ StatusCallback([g EXCEPT !.status = "DISCONNECTED"], "loop")
              /\ UNCHANGED conn
           \/ /\ main.then = "free"
              /\ mg' = [g EXCEPT !.status = "DISCONNECTED"]
              /\ main' = [main EXCEPT !.pc = "freeing"]
              /\ UNCHANGED <<nm, net, conn>>
    /\ dangling' = dangling \cup {o \in {"network"} : conn.pc \in {"stop", "stopToken"}}
    /\ UNCHANGED <<idleVars, stream, told, sender>>

\* h2manager_disconnect() and h2manager_free() up to the join: they remove
\* the ping timer, the directive object with its idle source, and the idle
\* source whose id the manager holds.  The connection thread still uses the
\* directive object until its wait for the header is over.
FreeParts ==
    /\ main.pc = "freeing"
    /\ mg' = [mg EXCEPT !.ping = FALSE, !.dir = FALSE, !.idle_source = None]
    /\ reIdle' = FALSE
    /\ idles' = idles \ {mg.idle_source}
    /\ dangling' = dangling \cup {o \in {"directives"} : conn.pc \in {"wait", "read"}}
    /\ main' = [main EXCEPT !.pc = "joinConn"]
    /\ UNCHANGED <<nm, regIdle, net, stream, conn, told, sender>>

\* Faulty FreeManager: does not wait for the connection thread.
FreeManagerUnjoined ==
    /\ main.pc = "joinConn"
    /\ nm' = [nm EXCEPT !.h2 = FALSE]
    /\ dangling' = dangling \cup
          {o \in {"connection"} : conn.pc # "none"} \cup {o \in {"network"} : mg.net}
          \cup {o \in {"ping"} : mg.ping} \cup {o \in {"idle"} : idles # {}}
          \cup {o \in {"registry"} : regIdle # None} \cup {o \in {"sender"} : sender = "checked"}
    /\ IF main.emit THEN Tell("DISCONNECTED") ELSE UNCHANGED told
    /\ main' = [main EXCEPT !.pc = "loop"]
    /\ UNCHANGED <<mg, idleVars, net, stream, conn, sender>>

\* The end of h2manager_free() and of nugu_network_manager_disconnect():
\* whatever still refers to the manager now dangles.
FreeManager ==
    /\ main.pc = "joinConn" /\ conn.pc = "none"
    /\ nm' = [nm EXCEPT !.h2 = FALSE]
    /\ dangling' = dangling \cup
          {o \in {"network"} : mg.net} \cup {o \in {"ping"} : mg.ping}
          \cup {o \in {"idle"} : idles # {}} \cup {o \in {"registry"} : regIdle # None}
          \cup {o \in {"sender"} : sender = "checked"}
    /\ IF main.emit THEN Tell("DISCONNECTED") ELSE UNCHANGED told
    /\ main' = [main EXCEPT !.pc = "loop"]
    /\ UNCHANGED <<mg, idleVars, net, stream, conn, sender>>

\* _emit_callback_in_idle() of the source that thread t attached
EmitInIdle(t) ==
    /\ main.pc = "loop" /\ t \in idles
    /\ idles' = idles \ {t}
    /\ StatusCallback([mg EXCEPT !.emit = TRUE, !.idle_source = None], "loop")
    /\ UNCHANGED <<regIdle, reIdle, stream, conn, told, sender, dangling>>

\* _disconnect_network_in_idle()
DisconnectInIdle ==
    /\ main.pc = "loop" /\ nm.discIdle
    /\ \/ /\ ~nm.h2
          /\ nm' = [nm EXCEPT !.discIdle = FALSE] /\ UNCHANGED <<mg, net, main>>
       \/ /\ nm.h2
          /\ nm' = [nm EXCEPT !.discIdle = FALSE, !.cur = "DISCONNECTED"]
          /\ mg' = [mg EXCEPT !.cb = FALSE]
          /\ net' = IF mg.net THEN [net EXCEPT !.stop = TRUE] ELSE net
          /\ main' = [pc |-> IF mg.net THEN "join" ELSE "freeing", then |-> "free",
                      emit |-> nm.cur # "DISCONNECTED"]
    /\ UNCHANGED <<idleVars, stream, conn, told, sender, dangling>>

\* The application calls nugu_network_manager_disconnect().
UserDisconnects ==
    /\ "disconnect" \in Inputs /\ main.pc = "loop" /\ nm.h2
    /\ Disconnect(mg)
    /\ UNCHANGED <<idleVars, stream, conn, told, sender, dangling>>

\* _re_establish(): a new directive request, not waited for.
ReEstablish ==
    /\ main.pc = "loop" /\ reIdle
    /\ reIdle' = FALSE
    /\ stream' = NewStream(FALSE)
    /\ UNCHANGED <<nm, mg, idles, regIdle, net, conn, main, told, sender, dangling>>

\* v1_ping.c _on_timeout(); h2manager_send_event() of a connected manager
SendRequest(r) ==
    /\ main.pc = "loop" /\ nm.h2 /\ mg.net /\ net.pc # "exited"
    /\ \/ r = "ping" /\ mg.ping
       \/ r = "event" /\ mg.status = "CONNECTED"
    /\ r \notin net.reqs
    /\ net' = [net EXCEPT !.reqs = @ \cup {r}]
    /\ UNCHANGED <<nm, mg, idleVars, stream, conn, main, told, sender, dangling>>

\* h2manager_send_event_attachment() on the recognizer's thread: the status
\* is checked first, manager and network are used later.
SenderChecks ==
    /\ "sender" \in Inputs /\ sender = "idle"
    /\ nm.h2 /\ mg.status = "CONNECTED"
    /\ sender' = "checked"
    /\ UNCHANGED <<nm, mg, idleVars, net, stream, conn, main, told, dangling>>

SenderSends ==
    /\ sender = "checked"
    /\ sender' = "idle"
    /\ net' = IF nm.h2 /\ mg.net THEN [net EXCEPT !.reqs = @ \cup {"event"}] ELSE net
    /\ UNCHANGED <<nm, mg, idleVars, stream, conn, main, told, dangling>>

----------------------------------------------------------------------------
(***************************************************************************)
(* The connection thread: _connect_in_thread()                             *)
(***************************************************************************)

\* _h2manager_network_start()
NetworkStart == IF mg.net THEN net ELSE Network({})

\* _h2manager_establish_directive(), which replaces the directive object
EstablishDirective(g) == [g EXCEPT !.dir = TRUE]

\* _h2manager_connect_to_server() up to the wait for the response header
TryServer ==
    /\ conn.pc = "next" /\ conn.left > 0
    /\ conn' = [pc |-> "wait", left |-> conn.left - 1, hdr |-> FALSE, code |-> None]
    /\ mg' = EstablishDirective([mg EXCEPT !.net = TRUE])
    /\ net' = NetworkStart
    /\ stream' = NewStream(TRUE)
    /\ UNCHANGED <<nm, idleVars, main, told, sender, dangling>>

HeaderArrived ==
    /\ conn.pc = "wait" /\ conn.hdr
    /\ conn' = [conn EXCEPT !.pc = "read"]
    /\ UNCHANGED <<nm, mg, idleVars, net, stream, main, told, sender, dangling>>

\* http2_request_wait_response() times out and clears the callbacks.
HeaderTimeout ==
    /\ conn.pc = "wait" /\ ~conn.hdr
    /\ "slow" \in Inputs \/ net.pc = "exited"
    /\ conn' = [conn EXCEPT !.pc = "read"]
    /\ stream' = [stream EXCEPT !.cbs = FALSE]
    /\ UNCHANGED <<nm, mg, idleVars, net, main, told, sender, dangling>>

\* The response code is read: 200 connects; any other, or none, frees the
\* directive object and stops the network.
ReadCode ==
    /\ conn.pc = "read"
    /\ stream' = [stream EXCEPT !.sync = FALSE]
    /\ \/ /\ conn.code = "ok"
          /\ SetStatus("conn", "CONNECTED")
          /\ conn' = [conn EXCEPT !.pc = "connected"]
          /\ UNCHANGED net
       \/ /\ conn.code # "ok"
          /\ mg' = [mg EXCEPT !.dir = FALSE]
          /\ net' = IF mg.net THEN [net EXCEPT !.stop = TRUE] ELSE net
          /\ conn' = [conn EXCEPT !.pc = IF conn.code = "token" THEN "stopToken" ELSE "stop"]
          /\ UNCHANGED idles
    /\ UNCHANGED <<nm, regIdle, reIdle, main, told, sender, dangling>>

\* The network is joined; a token failure is reported and ends the search.
ServerFailed ==
    /\ conn.pc \in {"stop", "stopToken"} /\ net.pc = "exited"
    /\ \/ /\ conn.pc = "stopToken"
          /\ conn' = [conn EXCEPT !.pc = "reported"]
          /\ IF mg.status = "TOKEN_FAILED" THEN mg' = [mg EXCEPT !.net = FALSE] /\ UNCHANGED idles
             ELSE /\ mg' = [mg EXCEPT !.net = FALSE, !.status = "TOKEN_FAILED",
                                      !.emit = FALSE, !.idle_source = "conn"]
                  /\ idles' = idles \cup {"conn"}
       \/ /\ conn.pc = "stop"
          /\ conn' = [conn EXCEPT !.pc = "next"]
          /\ mg' = [mg EXCEPT !.net = FALSE] /\ UNCHANGED idles
    /\ dangling' = dangling \cup {o \in {"network"} : main.pc = "join"}
    /\ UNCHANGED <<nm, regIdle, reIdle, net, stream, main, told, sender>>

\* Behind the report of CONNECTED: _h2manager_establish_ping(), which needs
\* the network.
EstablishPing ==
    /\ conn.pc = "connected" /\ WaitEnds
    /\ mg' = [mg EXCEPT !.ping = mg.net]
    /\ conn' = [conn EXCEPT !.pc = "end"]
    /\ UNCHANGED <<nm, idleVars, net, stream, main, told, sender, dangling>>

\* The end of the thread: still CONNECTING means DISCONNECTED.
ConnectEnds ==
    /\ \/ conn.pc = "next" /\ conn.left = 0
       \/ conn.pc = "reported" /\ WaitEnds
       \/ conn.pc = "end"
    /\ IF mg.status = "CONNECTING"
         THEN /\ SetStatus("conn", "DISCONNECTED")
              /\ conn' = [conn EXCEPT !.pc = "reported"]
         ELSE /\ conn' = [conn EXCEPT !.pc = "none"]
              /\ UNCHANGED <<mg, idles>>
    /\ UNCHANGED <<nm, regIdle, reIdle, net, stream, main, told, sender, dangling>>

----------------------------------------------------------------------------
(***************************************************************************)
(* The HTTP/2 thread: _loop(), with the callbacks of its requests          *)
(***************************************************************************)

Polls == net.pc = "poll" /\ ~net.stop

\* A failure takes a round trip to a server: unless "overtake" is allowed, the
\* connection thread has finished when it is reported.
Later == conn.pc = None \/ "overtake" \in Inputs

\* _on_finish() of the registry's request
RegistryDone ==
    /\ Polls /\ "registry" \in net.reqs
    /\ \/ regIdle' = "ok"
       \/ "registryfail" \in Inputs /\ regIdle' = "fail"
       \/ "registrytoken" \in Inputs /\ regIdle' = "token"
       \/ "badpolicy" \in Inputs /\ regIdle' = "bad"
    /\ net' = [net EXCEPT !.reqs = @ \ {"registry"}]
    /\ UNCHANGED <<nm, mg, idles, reIdle, stream, conn, main, told, sender, dangling>>

\* The status line: an error clears the callbacks and, unless the connection
\* thread waits for it, is reported; then the waiter is released.
StatusLine(code) ==
    /\ Polls /\ stream.st = "sent"
    /\ code = "ok" \/ stream.sync \/ Later
    /\ \/ code = "ok"
       \/ code = "fail" /\ (IF stream.sync THEN "hostfail" ELSE "streamfail") \in Inputs
       \/ code = "token" /\ (IF stream.sync THEN "hosttoken" ELSE "streamtoken") \in Inputs
    /\ stream' = [stream EXCEPT !.st = code, !.cbs = @ /\ code = "ok"]
    /\ conn' = IF stream.sync THEN [conn EXCEPT !.hdr = TRUE, !.code = code] ELSE conn
    /\ IF code = "ok" \/ stream.sync \/ ~stream.cbs
         THEN UNCHANGED <<mg, idles, net>>
         ELSE /\ SetStatus("http2", IF code = "token" THEN "TOKEN_FAILED" ELSE "DISCONNECTED")
              /\ net' = [net EXCEPT !.pc = "wait"]
    /\ UNCHANGED <<nm, regIdle, reIdle, main, told, sender, dangling>>

\* The Content-Type line of a 200 response: the boundary is known.
ContentType ==
    /\ Polls /\ stream.st = "ok" /\ stream.cbs
    /\ mg.status # "CONNECTED"
    /\ SetStatus("http2", "CONNECTED")
    /\ net' = [net EXCEPT !.pc = "wait"]
    /\ UNCHANGED <<nm, regIdle, reIdle, stream, conn, main, told, sender, dangling>>

\* Faulty StreamEnds: the stream is not re-established.
StreamEndsForGood ==
    /\ Polls /\ stream.st = "ok" /\ "streamend" \in Inputs
    /\ stream' = [stream EXCEPT !.st = "ended", !.cbs = FALSE, !.sync = FALSE]
    /\ UNCHANGED <<nm, mg, idles, regIdle, reIdle, net, conn, main, told, sender, dangling>>

\* _on_finish() of a directive request that was answered with 200, whether
\* the server closed it or the link was lost.
StreamEnds ==
    /\ Polls /\ stream.st = "ok" /\ "streamend" \in Inputs
    /\ stream' = [stream EXCEPT !.st = "ended", !.cbs = FALSE, !.sync = FALSE]
    /\ reIdle' = (reIdle \/ stream.cbs)
    /\ UNCHANGED <<nm, mg, idles, regIdle, net, conn, main, told, sender, dangling>>

\* _on_finish() of a directive request that got no answer at all
StreamLost ==
    /\ Polls /\ stream.st = "sent"
    /\ (IF stream.sync THEN "hostfail" ELSE "streamfail") \in Inputs
    /\ stream.sync \/ Later
    /\ stream' = [stream EXCEPT !.st = "lost", !.cbs = FALSE]
    /\ conn' = IF stream.sync /\ stream.cbs THEN [conn EXCEPT !.hdr = TRUE] ELSE conn
    /\ IF stream.cbs /\ ~stream.sync
         THEN SetStatus("http2", "DISCONNECTED") /\ net' = [net EXCEPT !.pc = "wait"]
         ELSE UNCHANGED <<mg, idles, net>>
    /\ UNCHANGED <<nm, regIdle, reIdle, main, told, sender, dangling>>

\* _on_finish() of a ping or an event
RequestDone(r, code) ==
    /\ Polls /\ r \in net.reqs \ {"registry"}
    /\ \/ code = "ok"
       \/ code = "fail" /\ "reqfail" \in Inputs /\ Later
       \/ code = "token" /\ "reqtoken" \in Inputs /\ Later
    /\ IF code = "ok"
         THEN net' = [net EXCEPT !.reqs = @ \ {r}] /\ UNCHANGED <<mg, idles>>
         ELSE /\ net' = [net EXCEPT !.reqs = @ \ {r}, !.pc = "wait"]
              /\ SetStatus("http2", IF code = "token" THEN "TOKEN_FAILED" ELSE "DISCONNECTED")
    /\ UNCHANGED <<nm, regIdle, reIdle, stream, conn, main, told, sender, dangling>>

\* The wait of h2manager_set_status() is over (or was not needed).
ReportDone ==
    /\ net.pc = "wait"
    /\ WaitEnds \/ "http2" \notin idles
    /\ net' = [net EXCEPT !.pc = "poll"]
    /\ UNCHANGED <<nm, mg, idleVars, stream, conn, main, told, sender, dangling>>

\* The loop ends when it shall stop, or when curl fails; open requests are
\* dropped without a callback.
LoopEnds ==
    /\ net.pc = "poll" /\ (net.stop \/ "curlfail" \in Inputs)
    /\ net' = [net EXCEPT !.pc = "exited", !.reqs = {}]
    /\ stream' = IF stream.st \in {"sent", "ok"}
                   THEN [stream EXCEPT !.st = IF @ = "ok" THEN "ended" ELSE "lost", !.cbs = FALSE]
                   ELSE stream
    /\ UNCHANGED <<nm, mg, idleVars, conn, main, told, sender, dangling>>

----------------------------------------------------------------------------
MainNext ==
    \/ Connect \/ OnPolicy \/ StopNetwork \/ Joined \/ FreeParts \/ FreeManager
    \/ \E t \in {"conn", "http2"} : EmitInIdle(t)
    \/ DisconnectInIdle \/ UserDisconnects \/ ReEstablish \/ TellListener
    \/ \E r \in {"ping", "event"} : SendRequest(r)

ConnNext ==
    TryServer \/ HeaderArrived \/ HeaderTimeout \/ ReadCode \/ ServerFailed
    \/ EstablishPing \/ ConnectEnds

Http2Next ==
    \/ RegistryDone \/ ContentType \/ StreamEnds \/ StreamLost \/ ReportDone \/ LoopEnds
    \/ \E code \in {"ok", "fail", "token"} : StatusLine(code)
    \/ \E r \in {"ping", "event"}, code \in {"ok", "fail", "token"} : RequestDone(r, code)

\* Once something dangles, what the process does is undefined: no next step.
Next ==
    /\ dangling = {}
    /\ MainNext \/ ConnNext \/ Http2Next \/ SenderChecks \/ SenderSends

\* The main loop in the middle of a callback; the answer to a request for the
\* directive stream, or its loss
MainProceeds ==
    OnPolicy \/ StopNetwork \/ Joined \/ FreeParts \/ FreeManager \/ TellListener
Answered == StreamLost \/ \E code \in {"ok", "fail", "token"} : StatusLine(code)

Spec == Init /\ [][Next]_vars

\* The main loop dispatches what is attached to it and the threads run; that
\* the servers answer is not assumed of the directive stream once it is open.
FairSpec ==
    /\ Spec
    /\ WF_vars(MainProceeds)
    /\ \A t \in {"conn", "http2"} : WF_vars(EmitInIdle(t))
    /\ WF_vars(DisconnectInIdle) /\ WF_vars(ReEstablish)
    /\ WF_vars(ConnNext)
    /\ WF_vars(RegistryDone) /\ WF_vars(ReportDone) /\ WF_vars(net.stop /\ LoopEnds)
    /\ WF_vars(Answered)
    /\ WF_vars(ContentType)

----------------------------------------------------------------------------
(***************************************************************************)
(* Properties                                                              *)
(***************************************************************************)

TypeOK ==
    /\ nm \in [h2 : BOOLEAN, cur : {"UNKNOWN", "DISCONNECTED", "CONNECTED", "TOKEN_ERROR"},
               discIdle : BOOLEAN]
    /\ mg \in [status : {"READY", "CONNECTING", "CONNECTED", "DISCONNECTED", "TOKEN_FAILED"},
               cb : BOOLEAN, net : BOOLEAN, dir : BOOLEAN, ping : BOOLEAN, emit : BOOLEAN,
               idle_source : {None, "conn", "http2"}]
    /\ idles \subseteq {"conn", "http2"} /\ regIdle \in {None, "ok", "fail", "token", "bad"}
    /\ reIdle \in BOOLEAN /\ conn.left \in 0..Servers
    /\ net \in [pc : {"poll", "wait", "exited"}, stop : BOOLEAN,
                reqs : SUBSET {"registry", "ping", "event"}]
    /\ told.last \in {None, "CONNECTED", "DISCONNECTED", "TOKEN_ERROR"}

\* Nothing that refers to the manager (its network's thread, ping timer, idle
\* sources, the registry's answer, the connection thread, a sender) survives
\* the manager, whatever failures arrive while it is set up and torn down.
NothingDangles == dangling = {}

\* The connection thread never outlives the manager it works on, whatever the
\* application, the servers and the other threads do: h2manager_free() joins it.
ThreadJoined == conn.pc # None => nm.h2

\* "Disconnect from server": once nugu_network_manager_disconnect() is done,
\* no network of the manager is left running.
DisconnectDisconnects == ~nm.h2 /\ main.pc = "loop" => net.pc = "exited"

\* "Prevent event emit for same status": the listeners never get the same
\* report twice in a row from one connection.
NoRepeatedReport == ~told.repeated

\* Every connect is answered: the listeners are told of a connection, of its
\* failure or of a token error, whatever fails on the way.
ConnectAnswered == (nm.h2 /\ told.last = None) ~> (told.last # None)

\* A token error ends the connection: the manager is freed.
TokenErrorEnds == (nm.h2 /\ told.last = "TOKEN_ERROR") ~> ~nm.h2

\* "Re-establish long-polling": while the manager stays CONNECTED, a directive
\* stream that ended is opened again.
StreamReopened ==
    (mg.status = "CONNECTED" /\ nm.h2 /\ conn.pc = "none" /\ stream.st = "ended")
        ~> (mg.status # "CONNECTED" \/ ~nm.h2 \/ stream.st # "ended")

============================================================================
