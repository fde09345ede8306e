------------------------------ MODULE Plugins ------------------------------
(***************************************************************************)
(* The plugin manager (src/nugu_plugin.c), the driver registries of the    *)
(* four kinds of devices (nugu_pcm.c, nugu_recorder.c, nugu_decoder.c,     *)
(* nugu_player.c), the plugins of the repository that fill them, and the   *)
(* client facade that loads the plugins and whose capabilities create      *)
(* devices on the registered drivers.                                      *)
(*                                                                         *)
(* Everything here happens on the main thread; what is hard is who still   *)
(* points where.  A driver is a heap block: it is named by a number, and   *)
(* pointers to it are kept in the registry of its kind, as the default     *)
(* driver, in a static variable of the plugin's library (slot) and in the  *)
(* devices.  A pointer to a freed block is dangling: its number is not in  *)
(* DOMAIN mem.  ops is FALSE once the library that holds the driver's      *)
(* functions was unmapped.  Reading through a dangling pointer, calling    *)
(* into an unmapped library and freeing a block twice set fault, after     *)
(* which the behaviour of the program is not defined and the model stops.  *)
(***************************************************************************)
EXTENDS Integers, FiniteSets, Sequences, SequencesExt, Functions

CONSTANTS
    Files,       \* the plugins in the plugin directory
    MayFail,     \* plugins that may fail to load (dlopen()) or to start (Pa_Initialize())
    Remote,      \* TRUE: the D-Bus methods AddPlugin and RemovePlugin are called
    MaxCycles,   \* bound: initialisations of the client
    MaxRemote    \* bound: D-Bus calls

Kinds == {"pcm", "recorder", "decoder", "player"}
Devices == {"ttspcm", "ttsdec", "player", "rec_asr", "rec_kwd"}
None == 0

PluginsAssumption ==
    /\ Files \subseteq {"portaudio", "opus", "gstreamer", "filedump"}
    /\ MayFail \subseteq Files
    /\ Remote \in BOOLEAN
    /\ MaxCycles \in Nat
    /\ MaxRemote \in Nat

VARIABLES
    heap,     \* the record below: drivers and the pointers to them
    plugins,  \* _plugin_list: a sequence of [file, active]
    opened,   \* opened[f]: dlopen() calls of f that were not closed
    client,   \* "off", "running" (initialized), "stopped" (deinitialized)
    wakeup,   \* wakeup_handler: "null", "live", "freed"
    cycles, remotes

vars == <<heap, plugins, opened, client, wakeup, cycles, remotes>>

(***************************************************************************)
(* heap.mem: the live drivers; reg[k]: _pcm_drivers, _recorder_drivers,    *)
(* _decoder_drivers, _player_drivers; def[k]: the default driver of each;  *)
(* slot[f][k]: the static driver pointers of library f; dev[d]: the driver *)
(* of device d.  A decoder has no default driver.                          *)
(***************************************************************************)
Driver == [kind : Kinds, file : Files, refs : 0 .. 1, ops : BOOLEAN]

NoSlots == [k \in Kinds |-> None]
NoDevices == [d \in Devices |-> None]

\* A block for a new driver: the lowest number nothing points to.
Pointed(h) ==
    DOMAIN h.mem \cup UNION {Range(h.reg[k]) : k \in Kinds} \cup Range(h.def)
        \cup UNION {Range(h.slot[f]) : f \in Files} \cup Range(h.dev)

Fresh(h) == CHOOSE n \in 1 .. Cardinality(Pointed(h)) + 1 :
                /\ n \notin Pointed(h)
                /\ \A m \in 1 .. n - 1 : m \in Pointed(h)

Live(h, id) == id \in DOMAIN h.mem
Faulty(h) == [h EXCEPT !.fault = TRUE]
Name(h, id) == h.mem[id].file     \* each plugin names its drivers after itself

-----------------------------------------------------------------------------
(* The driver registries. *)

\* nugu_*_driver_new(): allocated, and stored in the plugin's static pointer
NewDriver(h, k, f) ==
    LET id == Fresh(h)
    IN  [h EXCEPT !.mem = (id :> [kind |-> k, file |-> f, refs |-> 0, ops |-> TRUE]) @@ @,
                  !.slot[f][k] = id]

\* nugu_*_driver_find() reads the names in the list until it finds the one it seeks
FindPcm(h, name) ==
    {i \in DOMAIN h.reg["pcm"] : Live(h, h.reg["pcm"][i]) /\ Name(h, h.reg["pcm"][i]) = name}

FindRecorder(h, name) ==
    {i \in DOMAIN h.reg["recorder"] :
        Live(h, h.reg["recorder"][i]) /\ Name(h, h.reg["recorder"][i]) = name}

FindDecoder(h, name) ==
    {i \in DOMAIN h.reg["decoder"] :
        Live(h, h.reg["decoder"][i]) /\ Name(h, h.reg["decoder"][i]) = name}

FindPlayer(h, name) ==
    {i \in DOMAIN h.reg["player"] :
        Live(h, h.reg["player"][i]) /\ Name(h, h.reg["player"][i]) = name}

Find(h, k, name) ==
    CASE k = "pcm"      -> FindPcm(h, name)
      [] k = "recorder" -> FindRecorder(h, name)
      [] k = "decoder"  -> FindDecoder(h, name)
      [] k = "player"   -> FindPlayer(h, name)

\* The walk meets a freed driver before a match.
FindFaults(h, k, name) ==
    \E i \in DOMAIN h.reg[k] :
        ~Live(h, h.reg[k][i]) /\ \A j \in Find(h, k, name) : i < j

\* nugu_*_driver_register(): refused when the name is taken; the first driver
\* becomes the default one.
Refused(h, k, id) == Find(h, k, Name(h, id)) # {}

Appended(h, k, id) == [h EXCEPT !.reg[k] = Append(@, id)]

RegisterDefault(h, k, id) ==
    IF FindFaults(h, k, Name(h, id)) THEN Faulty(h)
    ELSE IF Refused(h, k, id) THEN h
    ELSE [Appended(h, k, id) EXCEPT !.def[k] = IF @ = None THEN id ELSE @]

RegisterPcm(h, id) == RegisterDefault(h, "pcm", id)
RegisterRecorder(h, id) == RegisterDefault(h, "recorder", id)
RegisterPlayer(h, id) == RegisterDefault(h, "player", id)

RegisterDecoder(h, id) ==
    IF FindFaults(h, "decoder", Name(h, id)) THEN Faulty(h)
    ELSE IF Refused(h, "decoder", id) THEN h
    ELSE Appended(h, "decoder", id)

\* Faulty RemoveDefault: the default pointer keeps the removed driver.
RemoveDefaultKeeps(h, k, id) == [h EXCEPT !.reg[k] = Remove(@, id)]

\* nugu_*_driver_remove(): compares pointers; the head of the list replaces a
\* removed default.
RemoveDefault(h, k, id) ==
    LET rest == Remove(h.reg[k], id)
        left == IF h.def[k] = id THEN None ELSE h.def[k]
    IN  IF id \notin Range(h.reg[k]) THEN h
        ELSE [h EXCEPT !.reg[k] = rest,
                       !.def[k] = IF left = None /\ rest # <<>> THEN Head(rest) ELSE left]

RemovePcm(h, id) == RemoveDefault(h, "pcm", id)
RemoveRecorder(h, id) == RemoveDefault(h, "recorder", id)
RemovePlayer(h, id) == RemoveDefault(h, "player", id)
RemoveDecoder(h, id) == [h EXCEPT !.reg["decoder"] = Remove(@, id)]

\* nugu_*_driver_free()
Released(h, id) == [h EXCEPT !.mem = Restrict(@, DOMAIN @ \ {id})]
Forgotten(h, k, id) == [h EXCEPT !.def[k] = IF @ = id THEN None ELSE @]

FreePcm(h, id) ==
    CASE ~Live(h, id)          -> Faulty(h)
      [] h.mem[id].refs # 0    -> h
      [] OTHER                 -> Released(Forgotten(h, "pcm", id), id)

\* no count of the recorders that use it
FreeRecorder(h, id) ==
    IF Live(h, id) THEN Released(Forgotten(h, "recorder", id), id) ELSE Faulty(h)

FreeDecoder(h, id) ==
    CASE ~Live(h, id)          -> Faulty(h)
      [] h.mem[id].refs # 0    -> h
      [] OTHER                 -> Released(h, id)

\* the default pointer is left as it is
FreePlayer(h, id) ==
    CASE ~Live(h, id)          -> Faulty(h)
      [] h.mem[id].refs # 0    -> h
      [] OTHER                 -> Released(h, id)

-----------------------------------------------------------------------------
(* Devices.  The devices of a client are created once, so a driver has at   *)
(* most one device that counts.                                             *)

NewPcm(h, id) ==
    CASE id = None     -> h
      [] ~Live(h, id)  -> Faulty(h)
      [] OTHER         -> [h EXCEPT !.dev["ttspcm"] = id, !.mem[id].refs = @ + 1]

\* create() runs in the library
NewDecoder(h, id) ==
    CASE id = None     -> h
      [] ~Live(h, id) \/ ~h.mem[id].ops -> Faulty(h)
      [] OTHER         -> [h EXCEPT !.dev["ttsdec"] = id, !.mem[id].refs = @ + 1]

NewPlayer(h, id) ==
    CASE id = None     -> h
      [] ~Live(h, id) \/ ~h.mem[id].ops -> Faulty(h)
      [] OTHER         -> [h EXCEPT !.dev["player"] = id, !.mem[id].refs = @ + 1]

\* nugu_recorder_new(): the pointer is stored, nothing is counted
NewRecorder(h, d, id) == [h EXCEPT !.dev[d] = id]

\* The device's last stop, its driver's destroy() and the count need the driver.
\* Faulty FreePcmDevice: the count is not given back.
FreePcmDeviceCounted(h) == [h EXCEPT !.dev["ttspcm"] = None]

FreePcmDevice(h) ==
    LET id == h.dev["ttspcm"] IN
    CASE id = None     -> h
      [] ~Live(h, id) \/ ~h.mem[id].ops -> Faulty(h)
      [] OTHER         -> [h EXCEPT !.dev["ttspcm"] = None, !.mem[id].refs = @ - 1]

FreeDecoderDevice(h) ==
    LET id == h.dev["ttsdec"] IN
    CASE id = None     -> h
      [] ~Live(h, id) \/ ~h.mem[id].ops -> Faulty(h)
      [] OTHER         -> [h EXCEPT !.dev["ttsdec"] = None, !.mem[id].refs = @ - 1]

FreePlayerDevice(h) ==
    LET id == h.dev["player"] IN
    CASE id = None     -> h
      [] ~Live(h, id) \/ ~h.mem[id].ops -> Faulty(h)
      [] OTHER         -> [h EXCEPT !.dev["player"] = None, !.mem[id].refs = @ - 1]

FreeRecorderDevice(h, d) == [h EXCEPT !.dev[d] = None]

-----------------------------------------------------------------------------
(* The plugins: init() returns a result and the heap. *)

Ok(h) == [ok |-> TRUE, heap |-> h]
Failed(h) == [ok |-> FALSE, heap |-> h]
Slot(h, f, k) == h.slot[f][k]
ClearSlot(h, f, k) == [h EXCEPT !.slot[f][k] = None]

\* A refused pcm driver takes the recorder driver with it, which is freed but
\* stays in its registry.
InitPortaudio(h0) ==
    LET f  == "portaudio"
        h1 == NewDriver(h0, "recorder", f)
        r  == Slot(h1, f, "recorder")
        h2 == RegisterRecorder(h1, r)
        h3 == NewDriver(h2, "pcm", f)
        p  == Slot(h3, f, "pcm")
        h4 == RegisterPcm(h3, p)
    IN  IF Refused(h1, "recorder", r)
        THEN Failed(ClearSlot(FreeRecorder(h2, r), f, "recorder"))
        ELSE IF Refused(h3, "pcm", p)
        THEN Failed(ClearSlot(ClearSlot(FreePcm(FreeRecorder(h4, r), p),
                                        f, "recorder"), f, "pcm"))
        ELSE Ok(h4)

InitGstreamer(h0) ==
    LET f  == "gstreamer"
        h1 == NewDriver(h0, "player", f)
        id == Slot(h1, f, "player")
        h2 == RegisterPlayer(h1, id)
    IN  IF Refused(h1, "player", id)
        THEN Failed(ClearSlot(FreePlayer(h2, id), f, "player"))
        ELSE Ok(h2)

\* The static pointer keeps the freed driver.
InitOpus(h0) ==
    LET h1 == NewDriver(h0, "decoder", "opus")
        id == Slot(h1, "opus", "decoder")
        h2 == RegisterDecoder(h1, id)
    IN  IF Refused(h1, "decoder", id) THEN Failed(FreeDecoder(h2, id)) ELSE Ok(h2)

InitFiledump(h0) ==
    LET f  == "filedump"
        h1 == NewDriver(h0, "decoder", f)
        d  == Slot(h1, f, "decoder")
        h2 == RegisterDecoder(h1, d)
        h3 == NewDriver(h2, "pcm", f)
        p  == Slot(h3, f, "pcm")
        h4 == RegisterPcm(h3, p)
    IN  IF Refused(h1, "decoder", d) THEN Failed(FreeDecoder(h2, d))
        ELSE IF Refused(h3, "pcm", p)
        THEN Failed(FreeDecoder(RemoveDecoder(FreePcm(h4, p), d), d))
        ELSE Ok(h4)

\* A plugin in broken is not loaded or fails before it creates anything.
InitPlugin(h, f, broken) ==
    CASE f \in broken     -> Failed(h)
      [] f = "portaudio"  -> InitPortaudio(h)
      [] f = "gstreamer"  -> InitGstreamer(h)
      [] f = "opus"       -> InitOpus(h)
      [] f = "filedump"   -> InitFiledump(h)

UnloadPortaudio(h) ==
    LET r  == Slot(h, "portaudio", "recorder")
        p  == Slot(h, "portaudio", "pcm")
        h1 == IF r = None THEN h
              ELSE ClearSlot(FreeRecorder(RemoveRecorder(h, r), r), "portaudio", "recorder")
    IN  IF p = None THEN h1
        ELSE ClearSlot(FreePcm(RemovePcm(h1, p), p), "portaudio", "pcm")

UnloadGstreamer(h) ==
    LET id == Slot(h, "gstreamer", "player")
    IN  IF id = None THEN h
        ELSE ClearSlot(FreePlayer(RemovePlayer(h, id), id), "gstreamer", "player")

UnloadOpus(h) ==
    LET id == Slot(h, "opus", "decoder")
    IN  IF id = None THEN h
        ELSE ClearSlot(FreeDecoder(RemoveDecoder(h, id), id), "opus", "decoder")

UnloadFiledump(h) ==
    LET d  == Slot(h, "filedump", "decoder")
        p  == Slot(h, "filedump", "pcm")
        h1 == IF d = None THEN h
              ELSE ClearSlot(FreeDecoder(RemoveDecoder(h, d), d), "filedump", "decoder")
    IN  IF p = None THEN h1
        ELSE ClearSlot(FreePcm(RemovePcm(h1, p), p), "filedump", "pcm")

UnloadPlugin(h, f) ==
    CASE f = "portaudio"  -> UnloadPortaudio(h)
      [] f = "gstreamer"  -> UnloadGstreamer(h)
      [] f = "opus"       -> UnloadOpus(h)
      [] f = "filedump"   -> UnloadFiledump(h)

-----------------------------------------------------------------------------
(* The plugin manager.  w is a working state: [heap, opened, kept]. *)

\* dlclose(): the last one unmaps the library, its statics and its functions.
Closed(w, f) ==
    IF w.opened[f] > 1 THEN [w EXCEPT !.opened[f] = @ - 1]
    ELSE [w EXCEPT !.opened[f] = 0,
                   !.heap.slot[f] = NoSlots,
                   !.heap.mem = [id \in DOMAIN @ |->
                        IF @[id].file = f THEN [@[id] EXCEPT !.ops = FALSE] ELSE @[id]]]

\* nugu_plugin_new_from_file(): dlopen() and the plugin's load()
NewFromFile(w, f) ==
    [w EXCEPT !.opened[f] = @ + 1, !.kept = Append(@, [file |-> f, active |-> FALSE])]

\* Faulty FreePlugin: the library stays open.
FreePluginOpen(w, p) == [w EXCEPT !.heap = IF p.active THEN UnloadPlugin(@, p.file) ELSE @]

\* nugu_plugin_free()
FreePlugin(w, p) ==
    Closed([w EXCEPT !.heap = IF p.active THEN UnloadPlugin(@, p.file) ELSE @], p.file)

\* nugu_plugin_load_directory(): the files in the order the directory lists them
LoadDirectory(w, order) == FoldLeft(NewFromFile, w, order)

\* nugu_plugin_find(): the first of the list
PluginFind(f) ==
    {i \in DOMAIN plugins : plugins[i].file = f /\ \A j \in 1 .. i - 1 : plugins[j].file # f}

Priority(f) == IF f = "filedump" THEN "low" ELSE "default"

\* Faulty Sorted: the list is not sorted.
SortedNot(list) == list

\* g_list_sort() by priority; it is stable.
Sorted(list) ==
    SelectSeq(list, LAMBDA p : Priority(p.file) = "default")
        \o SelectSeq(list, LAMBDA p : Priority(p.file) = "low")

\* nugu_plugin_initialize(): every plugin of the list in turn; the ones whose
\* init() fails are freed and dropped.
PluginInitialize(w0, broken) ==
    FoldLeft(LAMBDA w, p :
                LET r == InitPlugin(w.heap, p.file, broken)
                    v == [w EXCEPT !.heap = r.heap]
                IN  IF r.ok THEN [v EXCEPT !.kept = Append(@, [p EXCEPT !.active = TRUE])]
                    ELSE FreePlugin(v, p),
             [w0 EXCEPT !.kept = <<>>],
             Sorted(w0.kept))

\* nugu_plugin_deinitialize(): all are unloaded, then all are freed.
PluginDeinitialize(w0) ==
    LET unloaded == FoldLeft(LAMBDA h, p : IF p.active THEN UnloadPlugin(h, p.file) ELSE h,
                             w0.heap, w0.kept)
    IN  FoldLeft(LAMBDA w, p : FreePlugin(w, [p EXCEPT !.active = FALSE]),
                 [w0 EXCEPT !.heap = unloaded, !.kept = <<>>], w0.kept)

-----------------------------------------------------------------------------
(* The client. *)

Init ==
    /\ heap = [mem |-> <<>>, reg |-> [k \in Kinds |-> <<>>], def |-> [k \in Kinds |-> None],
               slot |-> [f \in Files |-> NoSlots], dev |-> NoDevices, fault |-> FALSE]
    /\ plugins = <<>>
    /\ opened = [f \in Files |-> 0]
    /\ client = "off"
    /\ wakeup = "null"
    /\ cycles = 0
    /\ remotes = 0

Work == [heap |-> heap, opened |-> opened, kept |-> plugins]
Worked(w) == heap' = w.heap /\ opened' = w.opened /\ plugins' = w.kept

\* TTSAgent::initialize(), MediaPlayer(), SpeechRecognizer()
CreateDevices(h) ==
    LET opus == Find(h, "decoder", "opus")
        h1   == NewRecorder(h, "rec_asr", h.def["recorder"])
        h2   == NewPcm(h1, h1.def["pcm"])
        h3   == IF h.def["pcm"] = None THEN h2
                ELSE IF FindFaults(h, "decoder", "opus") THEN Faulty(h2)
                ELSE IF opus = {} THEN h2
                ELSE NewDecoder(h2, h2.reg["decoder"][CHOOSE i \in opus : TRUE])
    IN  NewPlayer(h3, h3.def["player"])

\* Faulty DeleteDevices: the player of the audio player agent is not deleted.
DeleteDevicesKeeps(h) == FreePcmDevice(FreeDecoderDevice(FreeRecorderDevice(h, "rec_asr")))

\* ~TTSAgent(), ~MediaPlayer(), ~SpeechRecognizer()
DeleteDevices(h) ==
    FreePlayerDevice(FreePcmDevice(FreeDecoderDevice(FreeRecorderDevice(h, "rec_asr"))))

\* NuguClientImpl::initialize(): the directory is read in any order.
Initialize ==
    /\ ~heap.fault
    /\ client # "running"
    /\ cycles < MaxCycles
    /\ cycles' = cycles + 1
    /\ \E order \in SetToSeqs(Files), broken \in SUBSET MayFail :
        LET w == PluginInitialize(LoadDirectory(Work, order), broken)
        IN  Worked([w EXCEPT !.heap = CreateDevices(@)])
    /\ client' = "running"
    /\ UNCHANGED <<wakeup, remotes>>

\* NuguClientImpl::deInitialize(): wakeup_handler keeps its value.
DeInitialize ==
    /\ ~heap.fault
    /\ client = "running"
    /\ LET h == [FreeRecorderDevice(DeleteDevices(heap), "rec_kwd")
                    EXCEPT !.fault = @ \/ wakeup = "freed"]
       IN  Worked(PluginDeinitialize([Work EXCEPT !.heap = h]))
    /\ wakeup' = IF wakeup = "null" THEN "null" ELSE "freed"
    /\ client' = "stopped"
    /\ UNCHANGED <<cycles, remotes>>

\* NuguClientImpl::getWakeupHandler(): created at the first call, with a
\* recorder on the default driver.
GetWakeupHandler ==
    /\ ~heap.fault
    /\ client = "running"
    /\ wakeup = "null"
    /\ heap' = NewRecorder(heap, "rec_kwd", heap.def["recorder"])
    /\ wakeup' = "live"
    /\ UNCHANGED <<plugins, opened, client, cycles, remotes>>

-----------------------------------------------------------------------------
(* The methods of the D-Bus object "/Plugins". *)

\* A plugin that starts is added to the list; one that does not is freed.
AddPlugin(f) ==
    /\ ~heap.fault
    /\ Remote
    /\ client = "running"
    /\ remotes < MaxRemote
    /\ remotes' = remotes + 1
    /\ \E broken \in SUBSET MayFail :
        LET w == NewFromFile(Work, f)
            r == InitPlugin(w.heap, f, broken)
        IN  Worked(IF r.ok
                   THEN [w EXCEPT !.heap = r.heap, !.kept[Len(w.kept)].active = TRUE]
                   ELSE FreePlugin([w EXCEPT !.heap = r.heap, !.kept = plugins],
                                   [file |-> f, active |-> FALSE]))
    /\ UNCHANGED <<client, wakeup, cycles>>

\* The first plugin of the name is removed and freed, whoever uses its drivers.
RemovePlugin(f) ==
    /\ ~heap.fault
    /\ Remote
    /\ client = "running"
    /\ remotes < MaxRemote
    /\ remotes' = remotes + 1
    /\ \E i \in PluginFind(f) :
        Worked(FreePlugin([Work EXCEPT !.kept = RemoveAt(@, i)], plugins[i]))
    /\ UNCHANGED <<client, wakeup, cycles>>

Next ==
    \/ Initialize
    \/ DeInitialize
    \/ GetWakeupHandler
    \/ \E f \in Files : AddPlugin(f)
    \/ \E f \in Files : RemovePlugin(f)

Spec == Init /\ [][Next]_vars

-----------------------------------------------------------------------------
(* Properties. *)

TypeOK ==
    /\ \A id \in DOMAIN heap.mem : heap.mem[id] \in Driver
    /\ heap.fault \in BOOLEAN
    /\ \A i \in DOMAIN plugins : plugins[i] \in [file : Files, active : BOOLEAN]
    /\ opened \in [Files -> Nat]
    /\ client \in {"off", "running", "stopped"}
    /\ wakeup \in {"null", "live", "freed"}

(***************************************************************************)
(* Whatever is added and removed over D-Bus, in whatever order, no         *)
(* registry holds a freed driver, and a kind that keeps a default driver   *)
(* has one exactly while a driver of the kind is registered, and it is a   *)
(* registered one (nugu_*_driver_register(), _remove(), _free() and the    *)
(* unwinding of every plugin's init()).                                    *)
(***************************************************************************)
RegistryValid ==
    \A k \in Kinds :
        /\ \A i \in DOMAIN heap.reg[k] : Live(heap, heap.reg[k][i])
        /\ heap.def[k] # None => heap.def[k] \in Range(heap.reg[k])
        /\ k # "decoder" /\ heap.reg[k] # <<>> => heap.def[k] # None

(***************************************************************************)
(* The count of a driver is the number of devices that use it: the guard   *)
(* of nugu_*_driver_free() sees every player, decoder and pcm device,      *)
(* including those whose plugin was removed under them.                    *)
(***************************************************************************)
CountsDevices ==
    ~heap.fault => \A id \in DOMAIN heap.mem :
        heap.mem[id].refs =
            Cardinality({d \in {"ttspcm", "ttsdec", "player"} : heap.dev[d] = id})

(***************************************************************************)
(* A device never outlives its driver or the library its driver's          *)
(* functions are in: the capabilities create their devices after           *)
(* nugu_plugin_initialize() and delete them before                         *)
(* nugu_plugin_deinitialize().                                             *)
(***************************************************************************)
DevicesUsable ==
    \A d \in Devices : heap.dev[d] # None =>
        Live(heap, heap.dev[d]) /\ heap.mem[heap.dev[d]].ops

(***************************************************************************)
(* Speech goes to the sound card whenever the sound card's plugin started: *)
(* the file dump driver, which registers a pcm driver as well, is not the  *)
(* default one, in whatever order the directory lists the plugins.         *)
(***************************************************************************)
SpeechIsHeard ==
    (\E i \in DOMAIN plugins : plugins[i] = [file |-> "portaudio", active |-> TRUE])
        /\ heap.dev["ttspcm"] # None
        => heap.mem[heap.dev["ttspcm"]].file = "portaudio"

(***************************************************************************)
(* After deInitialize() nothing is left: no driver, no registration, no    *)
(* mapped library, whichever plugins failed to start.                      *)
(***************************************************************************)
NothingLeft ==
    client = "stopped" =>
        /\ DOMAIN heap.mem = {}
        /\ \A k \in Kinds : heap.reg[k] = <<>> /\ heap.def[k] = None
        /\ plugins = <<>>
        /\ \A f \in Files : opened[f] = 0

(***************************************************************************)
(* The static pointer of a loaded plugin is NULL or points to its driver,  *)
(* so that unload() frees a driver once.  A second start of the plugin is  *)
(* refused by the registry; the pointer must survive that.                 *)
(***************************************************************************)
SlotsLive ==
    \A f \in Files : \A k \in Kinds :
        heap.slot[f][k] # None => Live(heap, heap.slot[f][k])

(***************************************************************************)
(* A running client's getWakeupHandler() returns an object that exists or  *)
(* creates one.                                                            *)
(***************************************************************************)
WakeupUsable == client = "running" => wakeup # "freed"

=============================================================================
