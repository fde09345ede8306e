------------------------------ MODULE MCClient ------------------------------
(***************************************************************************)
(* The client and its utilities for model checking: the plugins and the    *)
(* devices made with their drivers, the configuration, the log, the time   *)
(* based identifiers, the byte buffer and the timer. In a behaviour one    *)
(* part is at work and the others stay as they were created.  The buffer   *)
(* and the timer are extended: their theorems speak of what is checked.    *)
(***************************************************************************)
EXTENDS Integers, FiniteSets, NuguBuffer, NuguTimer

AllFiles == {"portaudio", "opus", "gstreamer", "filedump"}

\* Seconds around the carries of the bytes of the time, up to half its range
Secs == {0, 1, 9, 14, 15, 2073, 2074, 298597, 298598, 21499083}

VARIABLES
    part,       \* the part that is at work
    heap, plugins, opened, client, wakeup, cycles, remotes,
    env, exists, config_map, defaults, hash, created, up, requested,
    chosen, clients, inits, sets,
    logEnv, log, app, pc, msg, call, back, out, logs, calls,
    clock, config, phase, uuid, made, dumped

pluginVars == <<heap, plugins, opened, client, wakeup, cycles, remotes>>
configVars == <<env, exists, config_map, defaults, hash, created, up, requested,
                chosen, clients, inits, sets>>
logVars == <<logEnv, log, app, pc, msg, call, back, out, logs, calls>>
uuidVars == <<clock, config, phase, uuid, made, dumped>>

vars == <<part, pluginVars, configVars, logVars, uuidVars, bufferVars, timerVars>>

\* A client that starts and stops three times, any plugin failing
Plugins == INSTANCE Plugins WITH
    Files <- AllFiles, MayFail <- AllFiles, Remote <- FALSE, MaxCycles <- 3,
    MaxRemote <- 0

\* Plugins added and removed over D-Bus while the client works
Remote == INSTANCE Plugins WITH
    Files <- AllFiles, MayFail <- {"portaudio"}, Remote <- TRUE, MaxCycles <- 2,
    MaxRemote <- 3

\* One client, configured in every order and initialised once
Config == INSTANCE Configuration WITH
    ServerTypes <- {"PRD", "STG", "DEV"}, MaxClients <- 1, MaxCycles <- 1,
    MaxSets <- 3, client <- exists, asked <- requested, cycles <- inits

\* Three messages of two threads and two calls of an application that
\* configures the log before the network is up
Log == INSTANCE NuguLog WITH
    Handlers <- {1, 2}, EnvSystems <- {"stderr", "syslog", "none", "other"},
    EnvModules <- {{"default"}, {"network", "network_trace"}},
    FieldSets <- {{"TIMESTAMP", "FILENAME", "LINE"}, {"FILEPATH", "FILENAME", "LEVEL"}},
    Late <- FALSE, MaxLogs <- 3, MaxCalls <- 2, env <- logEnv

\* Identifiers in base 12
Uuid == INSTANCE TimeUuid WITH
    Base <- 12, Secs <- Secs, Millis <- {0, 198, 199, 200, 1998, 1999},
    Phases <- {0, 1, 143}

ASSUME Instances ==
    /\ Plugins!PluginsAssumption
    /\ Remote!PluginsAssumption
    /\ Config!ConfigurationAssumption
    /\ Log!LogAssumption
    /\ Uuid!UuidAssumption

-----------------------------------------------------------------------------
Init ==
    /\ part \in {"plugins", "remote", "config", "log", "uuid", "buffer", "timer"}
    /\ Plugins!Init
    /\ Config!Init
    /\ part # "config" => env = Config!Unset
    /\ Log!Init
    /\ part # "log" => logEnv = [system |-> Log!Unset, modules |-> Log!Modules]
    /\ Uuid!Init
    /\ part # "uuid" => clock = [sec |-> 0, half |-> 0] /\ config = 0
    /\ BufferInit
    /\ TimerInit
    /\ part # "timer" => repeat = 0

PluginsStep ==
    /\ part = "plugins" /\ Plugins!Next
    /\ UNCHANGED <<part, configVars, logVars, uuidVars, bufferVars, timerVars>>

RemoteStep ==
    /\ part = "remote" /\ Remote!Next
    /\ UNCHANGED <<part, configVars, logVars, uuidVars, bufferVars, timerVars>>

ConfigStep ==
    /\ part = "config" /\ Config!Next
    /\ UNCHANGED <<part, pluginVars, logVars, uuidVars, bufferVars, timerVars>>

LogStep ==
    /\ part = "log" /\ Log!Next
    /\ UNCHANGED <<part, pluginVars, configVars, uuidVars, bufferVars, timerVars>>

UuidStep ==
    /\ part = "uuid" /\ Uuid!Next
    /\ UNCHANGED <<part, pluginVars, configVars, logVars, bufferVars, timerVars>>

BufferStep ==
    /\ part = "buffer" /\ BufferNext
    /\ UNCHANGED <<part, pluginVars, configVars, logVars, uuidVars, timerVars>>

TimerStep ==
    /\ part = "timer" /\ TimerNext
    /\ UNCHANGED <<part, pluginVars, configVars, logVars, uuidVars, bufferVars>>

\* Starts, calls and messages of a run are finite; nothing is said of a program
\* whose memory is broken.
Ended == part \in {"plugins", "remote", "config", "log"} /\ UNCHANGED vars

Next ==
    \/ PluginsStep \/ RemoteStep \/ ConfigStep \/ LogStep \/ UuidStep \/ BufferStep
    \/ TimerStep \/ Ended

Spec == Init /\ [][Next]_vars

-----------------------------------------------------------------------------
\* However the client starts and stops and whichever plugin fails, a device
\* never outlives its driver or the library its functions are in, speech goes
\* to the sound card whenever its plugin started, and deInitialize() leaves no
\* driver, registration or library behind. Whatever is added and removed over
\* D-Bus, no registry holds a freed driver, the default driver is a registered
\* one, and the count of a driver is the number of devices that use it
\* (nugu_plugin.c, nugu_pcm.c and the other registries, NuguClientImpl).
\* User agent and registry name one server type, that of the environment, else
\* the user's, else PRD, and the values the capabilities read are in the store
\* when they are initialised, in whatever order a client is configured
\* (NuguConfig::getDefaultValues(), NuguClientImpl::initialize()). Every
\* message goes where NUGU_LOG says, and without it where the application said
\* last; a handler never sees the user data of another; the trace of the
\* network leaves the prefix as the application set it (nugu_log_print(),
\* nugu_log_set_handler(), _debug_callback() of http2_request.c).
\* nugu_dump_timeuuid() shows the phase and the second an identifier was made
\* with, up to half the range of the time.
ClientSafe ==
    /\ Remote!TypeOK
    /\ part = "plugins" => /\ Plugins!DevicesUsable
                           /\ Plugins!SpeechIsHeard
                           /\ Plugins!NothingLeft
    /\ Remote!RegistryValid /\ Remote!CountsDevices
    /\ Config!GatewayMatches /\ Config!ConfigReady
    /\ Log!WhereAsked /\ Log!HandlerWhole /\ Log!FieldsRestored
    /\ Uuid!ShowsTime

=============================================================================
