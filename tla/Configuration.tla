--------------------------- MODULE Configuration ---------------------------
(***************************************************************************)
(* The configuration of the SDK: the key-value store (src/nugu_config.c),  *)
(* the default values and the server type that is worked into them         *)
(* (interface/nugu_configuration.cc), and the client that fills the store  *)
(* (interface/nugu_client_impl.cc).  The defaults are one map for the      *)
(* whole process and every call of getDefaultValues() changes them.        *)
(*                                                                         *)
(* The keys that are kept apart: server_type, user_agent and the           *)
(* registry's name (dns), which depend on each other, token, and epd for   *)
(* the keys the capabilities read when they are initialised.  A user agent *)
(* or registry name is the sequence of the server types added to it.       *)
(***************************************************************************)
EXTENDS Naturals, Sequences, TLC

CONSTANTS
    ServerTypes,    \* what users and the environment ask for besides nothing
    MaxClients,     \* bound: NuguClient objects, one after the other
    MaxCycles,      \* bound: calls of initialize()
    MaxSets         \* bound: calls of setConfig(), setConfigs(), construct()

ConfigurationAssumption ==
    /\ ServerTypes \subseteq STRING
    /\ MaxClients \in Nat /\ MaxCycles \in Nat /\ MaxSets \in Nat

Unset == ""
Empty == [k \in {} |-> Unset]
NoHash == [k \in {"no hash"} |-> Unset]
Has(map, k) == k \in DOMAIN map

VARIABLES
    env,         \* NUGU_SERVER_TYPE, Unset when it is not there
    client,      \* there is a NuguClient
    config_map,  \* NuguClientImpl::config_map
    defaults,    \* DEFAULT_VALUES: those that change
    hash,        \* _default_hash, NoHash for NULL
    created,     \* icapability_map is not empty
    up,          \* the capabilities are initialised
    asked,       \* history: the server type last asked for by this client
    chosen,      \* history: <<the user's server type>> when this client was first created
    clients, cycles, sets

vars == <<env, client, config_map, defaults, hash, created, up, asked, chosen,
          clients, cycles, sets>>
counters == <<clients, cycles, sets>>

Init ==
    /\ env \in ServerTypes \cup {Unset}
    /\ client = FALSE /\ created = FALSE /\ up = FALSE
    /\ config_map = Empty
    /\ defaults = [user_agent |-> <<>>, dns |-> <<>>, server_type |-> "PRD", epd |-> "CLIENT"]
    /\ hash = NoHash
    /\ asked = Unset /\ chosen = <<>>
    /\ clients = 0 /\ cycles = 0 /\ sets = 0

\* std::map::insert(): what is there stays.
Insert(map, more) == map @@ more

\* nugu_config_initialize()
ConfigInitialize == IF hash = NoHash THEN Empty ELSE hash

\* nugu_config_set() for every entry of the map; nothing without a table
ConfigSet(map) == IF hash = NoHash THEN hash ELSE map @@ hash

\* The server type: the environment's, else the user's, else the default.  The
\* user's map is read with operator[], which creates the key.
ReadServerType(map) ==
    IF env # Unset \/ Has(map, "server_type") THEN map ELSE Insert(map, [server_type |-> Unset])

\* Faulty ServerType: the user's server type goes before the environment's.
ServerTypeUserFirst(map) ==
    IF Has(map, "server_type") /\ map.server_type # Unset THEN map.server_type
    ELSE IF env # Unset THEN env ELSE "PRD"

ServerType(map) ==
    IF env # Unset THEN env
    ELSE IF Has(map, "server_type") /\ map.server_type # Unset THEN map.server_type ELSE "PRD"

\* NuguConfig::getDefaultValues(): the defaults grow.
GetDefaultValues(t) ==
    [defaults EXCEPT !.user_agent = Append(@, t),
                     !.dns = IF t = "PRD" THEN @ ELSE <<t>> \o @]

\* NuguClientImpl::setConfiguration()
SetConfiguration ==
    LET read == ReadServerType(config_map)
    IN  /\ defaults' = GetDefaultValues(ServerType(config_map))
        /\ config_map' = Insert(read, defaults')
        /\ hash' = ConfigSet(config_map')
        /\ chosen' = IF chosen # <<>> THEN chosen
                     ELSE <<IF Has(config_map, "server_type") THEN config_map.server_type
                            ELSE Unset>>
        /\ created' = TRUE

----------------------------------------------------------------------------
\* Faulty NewClient: the store is left to the capabilities.
NewClientBare ==
    /\ ~client /\ clients < MaxClients
    /\ client' = TRUE /\ clients' = clients + 1
    /\ config_map' = Empty /\ asked' = Unset /\ chosen' = <<>>
    /\ UNCHANGED <<env, defaults, hash, created, up, cycles, sets>>

\* NuguClientImpl()
NewClient ==
    /\ ~client /\ clients < MaxClients
    /\ client' = TRUE /\ clients' = clients + 1
    /\ config_map' = Empty /\ asked' = Unset /\ chosen' = <<>>
    /\ hash' = ConfigInitialize
    /\ UNCHANGED <<env, defaults, created, up, cycles, sets>>

\* setConfig(SERVER_TYPE, t)
SetConfig(t) ==
    /\ client /\ sets < MaxSets
    /\ sets' = sets + 1
    /\ asked' = t
    /\ config_map' = [server_type |-> t] @@ config_map
    /\ UNCHANGED <<env, client, defaults, hash, created, up, chosen, clients, cycles>>

\* setConfigs({SERVER_TYPE, t})
SetConfigs(t) ==
    /\ client /\ sets < MaxSets
    /\ sets' = sets + 1
    /\ asked' = t
    /\ config_map' = Insert(config_map, [server_type |-> t])
    /\ UNCHANGED <<env, client, defaults, hash, created, up, chosen, clients, cycles>>

SetAccessToken ==
    /\ client
    /\ hash' = ConfigSet([token |-> "token"])
    /\ UNCHANGED <<env, client, config_map, defaults, created, up, asked, chosen, counters>>

\* CapabilityBuilder::construct() and create()
Construct ==
    /\ client /\ sets < MaxSets
    /\ sets' = sets + 1
    /\ SetConfiguration
    /\ UNCHANGED <<env, client, up, asked, clients, cycles>>

\* initialize(): creates the capabilities unless construct() has.
Initialize ==
    /\ client /\ ~up /\ cycles < MaxCycles
    /\ cycles' = cycles + 1
    /\ up' = TRUE
    /\ IF created THEN UNCHANGED <<defaults, config_map, hash, chosen, created>>
       ELSE SetConfiguration
    /\ UNCHANGED <<env, client, asked, clients, sets>>

\* deInitialize(): nugu_config_deinitialize() drops the store.
DeInitialize ==
    /\ client /\ up
    /\ up' = FALSE /\ created' = FALSE
    /\ hash' = NoHash
    /\ UNCHANGED <<env, client, config_map, defaults, asked, chosen, counters>>

\* ~NuguClientImpl(), with nothing initialised: the store stays.
DeleteClient ==
    /\ client /\ ~up
    /\ client' = FALSE /\ created' = FALSE
    /\ UNCHANGED <<env, config_map, defaults, hash, up, asked, chosen, counters>>

Next ==
    \/ NewClient \/ SetAccessToken \/ Construct \/ Initialize \/ DeInitialize \/ DeleteClient
    \/ \E t \in ServerTypes : SetConfig(t) \/ SetConfigs(t)

Spec == Init /\ [][Next]_vars

----------------------------------------------------------------------------
(***************************************************************************)
(* The user agent names one server type, the environment's, else the       *)
(* user's, else PRD, and the registry that is asked is that of the same    *)
(* type, however often and in which order the client is configured,        *)
(* constructed and initialised ("set user defined SERVER_TYPE",            *)
(* nugu_configuration.cc).                                                 *)
(***************************************************************************)
GatewayMatches ==
    Has(hash, "dns") /\ client /\ chosen # <<>> =>
        LET type == CASE env # Unset -> env
                      [] env = Unset /\ chosen[1] # Unset -> chosen[1]
                      [] OTHER -> "PRD"
        IN  /\ hash.user_agent = <<type>>
            /\ hash.dns = IF type = "PRD" THEN <<>> ELSE <<type>>

(***************************************************************************)
(* nugu_client.hh, initialize(): "Request nugu sdk initialization".  When  *)
(* the capabilities are initialised the values they read are in the store  *)
(* (ASRAgent::initialize() copies them without looking).                   *)
(***************************************************************************)
ConfigReady == up => Has(hash, "epd") /\ Has(hash, "dns")

(***************************************************************************)
(* nugu_client.hh, setConfigs(): "Set configs to change nugu sdk internal  *)
(* behavior": the value that was set last is the one that counts.          *)
(***************************************************************************)
LastSetCounts == Has(config_map, "server_type") /\ asked # Unset => config_map.server_type = asked

=============================================================================
