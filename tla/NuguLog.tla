------------------------------ MODULE NuguLog ------------------------------
(***************************************************************************)
(* The log (src/nugu_log.c).  Its settings are global variables that every *)
(* thread reads and that three parties write without a lock: the           *)
(* application, the first message of the process, which looks at the       *)
(* environment (NUGU_LOG, NUGU_LOG_MODULE), and the HTTP/2 thread, which   *)
(* takes file name and line out of the prefix while it traces the network  *)
(* (src/http2/http2_request.c, src/http2/v1_directives.cc) and then puts   *)
(* back what it found.                                                     *)
(*                                                                         *)
(* The text of a message is left out; a message is what was printed        *)
(* where, with which fields before it.  Writing a line to stderr is one    *)
(* step: _log_mutex is held.                                               *)
(***************************************************************************)
EXTENDS Naturals

CONSTANTS
    Handlers,   \* custom handlers; the user data of handler h is h too
    EnvSystems, \* values of NUGU_LOG
    EnvModules, \* values of NUGU_LOG_MODULE
    FieldSets,  \* arguments of nugu_log_set_prefix_fields()
    Late,       \* TRUE: the application also configures the log while the
                \* network thread prints, which may print the first message
    MaxLogs,    \* bound: messages
    MaxCalls    \* bound: calls of the application

Unset == "unset"
None == 0
Known == {"stderr", "syslog", "none"}
Systems == Known \cup {"custom"}
Modules == {"default", "network", "network_trace"}
Fields == {"TIMESTAMP", "PID", "TID", "LEVEL", "FILEPATH", "FILENAME", "FUNCTION", "LINE"}
DefaultFields == Fields \ {"FILEPATH", "FUNCTION"}
Threads == {"main", "http2"}

LogAssumption ==
    /\ Handlers \subseteq Nat \ {None}
    /\ EnvSystems \subseteq STRING
    /\ \A m \in EnvModules : m \subseteq Modules
    /\ FieldSets \subseteq SUBSET Fields
    /\ Late \in BOOLEAN /\ MaxLogs \in Nat /\ MaxCalls \in Nat

VARIABLES
    env,     \* NUGU_LOG and NUGU_LOG_MODULE
    log,     \* the globals of nugu_log.c
    app,     \* history: what the application asked for last
    pc, msg, \* pc[t] in nugu_log_print(); msg[t]: its module and prefix
    call,    \* what the main thread is setting
    back,    \* the http2 thread: the fields it took away, and whether it traces
    out,     \* history: the last message that was printed
    logs, calls

vars == <<env, log, app, pc, msg, call, back, out, logs, calls>>

NoOut == [to |-> Unset, asked |-> Unset, handler |-> None, data |-> None,
          prefix |-> {}, fields |-> {}]

Init ==
    /\ env \in [system : EnvSystems \cup {Unset}, modules : EnvModules \cup {Modules}]
    /\ log = [system |-> "stderr", handler |-> None, data |-> None, fields |-> DefaultFields,
              modules |-> Modules, enabled |-> FALSE, checked |-> FALSE]
    /\ app = [system |-> "stderr", fields |-> DefaultFields]
    /\ pc = [t \in Threads |-> "idle"]
    /\ msg = [t \in Threads |-> [module |-> "default", prefix |-> {}]]
    /\ call = [set |-> Unset, value |-> None]
    /\ back = [on |-> FALSE, fields |-> {}]
    /\ out = NoOut
    /\ logs = 0 /\ calls = 0

Goes(t, p) == pc' = [pc EXCEPT ![t] = p]

\* Where a message has to go: the environment decides, else the application.
Asked == IF env.system \in Known THEN env.system ELSE app.system

----------------------------------------------------------------------------
(***************************************************************************)
(* nugu_log_print()                                                        *)
(***************************************************************************)

\* Unless Late, the http2 thread starts when the main thread has printed something.
LogPrint(t, module) ==
    /\ pc[t] = "idle"
    /\ t = "main" \/ ~Late => call.set = Unset
    /\ logs < MaxLogs
    /\ t = "http2" /\ ~Late => log.checked /\ pc["main"] # "check" /\ pc["main"] # "env"
    /\ logs' = logs + 1
    /\ msg' = [msg EXCEPT ![t].module = module]
    /\ Goes(t, IF log.checked THEN "filter" ELSE "check")
    /\ UNCHANGED <<env, log, app, call, back, out, calls>>

\* _log_check_override() sets the flag ...
CheckOverride(t) ==
    /\ pc[t] = "check"
    /\ log' = [log EXCEPT !.checked = TRUE]
    /\ Goes(t, IF log.checked THEN "filter" ELSE "env")
    /\ UNCHANGED <<env, app, msg, call, back, out, logs, calls>>

\* _log_check_override_system()
OverrideSystem(l) ==
    IF env.system \in Known THEN [l EXCEPT !.system = env.system, !.enabled = TRUE] ELSE l

\* _log_check_override_module()
OverrideModule(l) == IF env.modules = Modules THEN l ELSE [l EXCEPT !.modules = env.modules]

\* ... and then looks at the environment.
Override(t) ==
    /\ pc[t] = "env"
    /\ log' = OverrideModule(OverrideSystem(log))
    /\ Goes(t, "filter")
    /\ UNCHANGED <<env, app, msg, call, back, out, logs, calls>>

\* The module is switched off, nothing is logged, or the message goes to syslog
\* or is formatted.
Filter(t) ==
    /\ pc[t] = "filter"
    /\ LET silent == msg[t].module \notin log.modules \/ log.system = "none"
       IN  /\ Goes(t, IF silent \/ log.system = "syslog" THEN "idle" ELSE "format")
           /\ out' = IF silent \/ log.system # "syslog" THEN out
                     ELSE [NoOut EXCEPT !.to = "syslog", !.asked = Asked]
    /\ UNCHANGED <<env, log, app, msg, call, back, logs, calls>>

\* _log_make_prefix(): the path goes before the file name.
MakePrefix(fields) ==
    IF "FILEPATH" \in fields THEN fields \ {"FILENAME"} ELSE fields

Format(t) ==
    /\ pc[t] = "format"
    /\ msg' = [msg EXCEPT ![t].prefix = MakePrefix(log.fields)]
    /\ Goes(t, "write")
    /\ UNCHANGED <<env, log, app, call, back, out, logs, calls>>

\* _log_formatted() looks at the system again.
LogFormatted(t) ==
    /\ pc[t] = "write"
    /\ Goes(t, "idle")
    /\ LET line == [NoOut EXCEPT !.to = log.system, !.asked = Asked, !.prefix = msg[t].prefix,
                                 !.fields = IF t = "main" THEN MakePrefix(app.fields)
                                            ELSE msg[t].prefix]
       IN  out' = CASE log.system = "stderr" -> line
                    [] log.system = "custom" /\ log.handler # None ->
                         [line EXCEPT !.handler = log.handler, !.data = log.data]
                    [] OTHER -> out
    /\ UNCHANGED <<env, log, app, msg, call, back, logs, calls>>

----------------------------------------------------------------------------
(***************************************************************************)
(* The HTTP/2 thread's trace                                               *)
(***************************************************************************)
Masked(fields) == fields \ {"FILENAME", "LINE"}

\* _debug_callback(), _request_body_cb(), _body_json() and _body_opus() take
\* fields away ...
Trace ==
    /\ pc["http2"] = "idle" /\ ~back.on
    /\ Late \/ log.checked
    /\ back' = [on |-> TRUE, fields |-> log.fields]
    /\ log' = [log EXCEPT !.fields = Masked(log.fields)]
    /\ UNCHANGED <<env, app, pc, msg, call, out, logs, calls>>

\* Faulty Restore: what is there is put back.
RestoreMasked ==
    /\ pc["http2"] = "idle" /\ back.on
    /\ back' = [on |-> FALSE, fields |-> {}]
    /\ log' = [log EXCEPT !.fields = Masked(back.fields)]
    /\ UNCHANGED <<env, app, pc, msg, call, out, logs, calls>>

\* ... and behind the message put them back.
Restore ==
    /\ pc["http2"] = "idle" /\ back.on
    /\ back' = [on |-> FALSE, fields |-> {}]
    /\ log' = [log EXCEPT !.fields = back.fields]
    /\ UNCHANGED <<env, app, pc, msg, call, out, logs, calls>>

----------------------------------------------------------------------------
(***************************************************************************)
(* The application, on the main thread                                     *)
(***************************************************************************)
Calls ==
    /\ pc["main"] = "idle" /\ call.set = Unset
    /\ Late \/ (~back.on /\ pc["http2"] = "idle")
    /\ calls < MaxCalls
    /\ calls' = calls + 1

\* Faulty SetSystem: the override is not looked at.
SetSystemAlways(system) ==
    /\ Calls
    /\ app' = [app EXCEPT !.system = system]
    /\ call' = [set |-> "system", value |-> system]
    /\ UNCHANGED <<env, log, pc, msg, back, out, logs>>

\* nugu_log_set_system(): the override is looked at, then the system assigned.
SetSystem(system) ==
    /\ Calls
    /\ app' = [app EXCEPT !.system = system]
    /\ call' = IF log.enabled THEN call ELSE [set |-> "system", value |-> system]
    /\ UNCHANGED <<env, log, pc, msg, back, out, logs>>

\* Faulty SetHandler: the handler gets the user data of the last one.
SetHandlerOldData(h) ==
    /\ Calls
    /\ app' = [app EXCEPT !.system = "custom"]
    /\ log' = IF log.enabled THEN log ELSE [log EXCEPT !.system = "custom", !.handler = h]
    /\ UNCHANGED <<env, pc, msg, call, back, out, logs>>

\* nugu_log_set_handler(): three assignments follow.
SetHandler(h) ==
    /\ Calls
    /\ app' = [app EXCEPT !.system = "custom"]
    /\ call' = IF log.enabled THEN call ELSE [set |-> "custom", value |-> h]
    /\ UNCHANGED <<env, log, pc, msg, back, out, logs>>

Assign ==
    /\ call.set # Unset
    /\ \/ /\ call.set = "system"
          /\ log' = [log EXCEPT !.system = call.value]
          /\ call' = [set |-> Unset, value |-> None]
       \/ /\ call.set = "custom"
          /\ log' = [log EXCEPT !.system = "custom"]
          /\ call' = [call EXCEPT !.set = "handler"]
       \/ /\ call.set = "handler"
          /\ log' = [log EXCEPT !.handler = call.value]
          /\ call' = [call EXCEPT !.set = "data"]
       \/ /\ call.set = "data"
          /\ log' = [log EXCEPT !.data = call.value]
          /\ call' = [set |-> Unset, value |-> None]
    /\ UNCHANGED <<env, app, pc, msg, back, out, logs, calls>>

\* nugu_log_set_prefix_fields()
SetPrefixFields(fields) ==
    /\ Calls
    /\ app' = [app EXCEPT !.fields = fields]
    /\ log' = [log EXCEPT !.fields = fields]
    /\ UNCHANGED <<env, pc, msg, call, back, out, logs>>

\* nugu_log_set_modules()
SetModules(modules) ==
    /\ Calls
    /\ log' = [log EXCEPT !.modules = modules]
    /\ UNCHANGED <<env, app, pc, msg, call, back, out, logs>>

Next ==
    \/ \E t \in Threads :
          \/ \E module \in Modules : LogPrint(t, module)
          \/ CheckOverride(t) \/ Override(t) \/ Filter(t) \/ Format(t) \/ LogFormatted(t)
    \/ Trace \/ Restore \/ Assign
    \/ \E system \in Systems : SetSystem(system)
    \/ \E h \in Handlers : SetHandler(h)
    \/ \E fields \in FieldSets : SetPrefixFields(fields)
    \/ \E modules \in EnvModules : SetModules(modules)

Spec == Init /\ [][Next]_vars

----------------------------------------------------------------------------
(***************************************************************************)
(* nugu_log.h: the log "supports setting logs at runtime using the         *)
(* environment variables": every message goes where NUGU_LOG says, and     *)
(* without it where the application said last, whichever of the two was    *)
(* looked at first.                                                        *)
(***************************************************************************)
WhereAsked == out.to = out.asked

(***************************************************************************)
(* nugu_log.h, nugu_log_set_handler(): user_data is "the user data to be   *)
(* passed to the callback function": a handler never sees that of another. *)
(***************************************************************************)
HandlerWhole == out.to = "custom" => out.data = out.handler

(***************************************************************************)
(* The trace of the network leaves the prefix as the application set it,   *)
(* however it interleaves with the messages of the main thread.            *)
(***************************************************************************)
FieldsRestored == ~back.on => log.fields = app.fields

(***************************************************************************)
(* nugu_log.h: nugu_log_set_prefix_fields() sets "the additional           *)
(* information fields": every message of the main thread has them.         *)
(***************************************************************************)
PrefixAsSet == out.prefix = out.fields

=============================================================================
