------------------------ MODULE DirectiveSequencer ------------------------
(***************************************************************************)
(* The life of the directives in the directive sequencer                   *)
(* (src/nugu_directive_sequencer.c) from the start of the client to its    *)
(* end: directives arrive on the network thread as soon as the client is   *)
(* connected, which may be before the capabilities exist, and until the    *)
(* network manager is gone, which is after the capabilities are.           *)
(*                                                                         *)
(* Ownership is by convention: the sequencer's list holds a directive      *)
(* until the capability that received it calls nugu_dirseq_complete(),     *)
(* which also frees it.  DirectivePipeline models the speech that hangs on *)
(* a directive; here a directive is only its owner and its memory.         *)
(***************************************************************************)
EXTENDS Naturals, Sequences, SequencesExt

CONSTANTS
    MaxDirectives,  \* bound: directives received
    Kinds,          \* the kinds of directives the server sends, see below
    MaxAppCallbacks \* bound: calls of nugu_dirseq_add_callback() by the application

(***************************************************************************)
(* "quick":   completed by processDirective() itself (all capabilities but *)
(*            the speech of TTS)                                           *)
(* "speak":   kept by the TTS agent until the speech is over               *)
(* "broken":  a Speak without its mandatory fields: not completed          *)
(* "unknown": of a namespace that no capability has                        *)
(***************************************************************************)
SequencerAssumption ==
    /\ MaxDirectives \in Nat
    /\ Kinds \subseteq {"quick", "speak", "broken", "unknown"}
    /\ MaxAppCallbacks \in Nat

Directives == 1 .. MaxDirectives
NoDirective == 0

VARIABLES
    client,      \* "created", "running", "stopped", "gone"
    place,       \* place[d]: "server", "pending", "listed", "speaking" (in the list
                 \* too, the TTS agent reads its data), "dropped", "freed"
    kind,        \* kind[d], once received
    pending,     \* recv_pendings
    list_dir,
    callbacks,   \* list_callbacks: a sequence of "caps" and "app"
    speak_dir,   \* TTSAgent::speak_dir
    appAdds,
    fault        \* what went wrong in memory: "stale" (a freed directive is
                 \* handed on), "twice" (memory is freed twice)

sequencerVars == <<client, place, kind, pending, list_dir, callbacks, speak_dir, appAdds, fault>>

SequencerInit ==
    /\ client = "created"
    /\ place = [d \in Directives |-> "server"]
    /\ kind = [d \in Directives |-> "quick"]
    /\ pending = <<>>
    /\ list_dir = <<>>
    /\ callbacks = <<>>
    /\ speak_dir = NoDirective
    /\ appAdds = 0
    /\ fault = {}

\* w: what a call of the sequencer works on
Work == [place |-> place, list |-> list_dir, speak |-> speak_dir, fault |-> fault]

Worked(w) ==
    /\ place' = w.place
    /\ list_dir' = w.list
    /\ speak_dir' = w.speak
    /\ fault' = w.fault

Listed(w, d) == d \in Range(w.list)

\* Faulty Complete: the directive is freed and stays in the list.
CompleteKeeps(w, d) ==
    IF Listed(w, d) THEN [w EXCEPT !.place[d] = "freed"] ELSE w

\* nugu_dirseq_complete(): found by its address, taken off the list and freed
Complete(w, d) ==
    IF Listed(w, d)
    THEN [w EXCEPT !.list = RemoveFirst(@, d), !.place[d] = "freed"]
    ELSE w

\* Faulty ProcessDirective: the speech before is forgotten, not completed.
ProcessDirectiveForgets(w, d) ==
    CASE kind[d] = "quick"  -> Complete(w, d)
      [] kind[d] = "broken" -> w
      [] kind[d] = "speak"  -> [w EXCEPT !.speak = d, !.place[d] = "speaking"]

\* ICapabilityInterface::processDirective(); a speech replaces the one before
ProcessDirective(w, d) ==
    CASE kind[d] = "quick"  -> Complete(w, d)
      [] kind[d] = "broken" -> w
      [] kind[d] = "speak"  ->
            [(IF w.speak = NoDirective THEN w ELSE Complete(w, w.speak))
                EXCEPT !.speak = d, !.place[d] = "speaking"]

\* The capabilities are there between initialize() and deInitialize().
HasCapability(d) == client = "running" /\ kind[d] # "unknown"

CapsListen == "caps" \in Range(callbacks)

\* What nugu_dirseq_emit_callback() does: the application's callback returns
\* DIRSEQ_CONTINUE, and so does the capability manager's, which is there once,
\* if it has a capability.  Callbacks behind it get whatever is left of d.
Emit(w, d) ==
    IF ~CapsListen \/ ~HasCapability(d) THEN w
    ELSE LET x == ProcessDirective(w, d)
         IN  [x EXCEPT !.fault = IF x.place[d] = "freed" /\ Last(callbacks) # "caps"
                                   THEN @ \cup {"stale"} ELSE @]

\* ... and what it returns: without a callback ret is not set.
Removes(d, garbage) ==
    IF callbacks = <<>> THEN garbage = "REMOVE" ELSE CapsListen /\ ~HasCapability(d)

\* nugu_dirseq_push(): a directive that is to be removed leaves the list and
\* nothing else happens to it.
Push(w0, d, garbage) ==
    LET w == [w0 EXCEPT !.list = Append(@, d), !.place[d] = "listed"]
    IN  IF Removes(d, garbage)
        THEN [w EXCEPT !.list = RemoveFirst(@, d), !.place[d] = "dropped"]
        ELSE Emit(w, d)

-----------------------------------------------------------------------------
(* nugu_network_manager_recv_directive(), on the network thread *)
Receive(d, k) ==
    /\ fault = {}
    /\ client # "gone"
    /\ place[d] = "server"
    /\ \A e \in Directives : e < d => place[e] # "server"
    /\ kind' = [kind EXCEPT ![d] = k]
    /\ place' = [place EXCEPT ![d] = "pending"]
    /\ pending' = Append(pending, d)
    /\ UNCHANGED <<client, list_dir, callbacks, speak_dir, appAdds, fault>>

\* on_event(): one directive of the queue
OnEvent(garbage) ==
    /\ fault = {}
    /\ client # "gone"
    /\ pending # <<>>
    /\ pending' = Tail(pending)
    /\ Worked(Push(Work, Head(pending), garbage))
    /\ UNCHANGED <<client, kind, callbacks, appAdds>>

\* The end of the speech: TTSAgent::directiveDataCallback() at the last data
SpeakEnds ==
    /\ fault = {}
    /\ client = "running"
    /\ speak_dir # NoDirective
    /\ Worked([Complete(Work, speak_dir) EXCEPT !.speak = NoDirective])
    /\ UNCHANGED <<client, kind, pending, callbacks, appAdds>>

\* nugu_dirseq_add_callback() by the application.  _compare_callback() takes the
\* list's data for a list element and never finds the callback again.
AppAddsCallback ==
    /\ fault = {}
    /\ client # "gone"
    /\ appAdds < MaxAppCallbacks
    /\ appAdds' = appAdds + 1
    /\ callbacks' = Append(callbacks, "app")
    /\ UNCHANGED <<client, place, kind, pending, list_dir, speak_dir, fault>>

\* NuguClientImpl::initialize(); CapabilityManager() registers its callback once,
\* the instance outlives deInitialize().
Initialize ==
    /\ fault = {}
    /\ client \in {"created", "stopped"}
    /\ client' = "running"
    /\ callbacks' = IF "caps" \in Range(callbacks) THEN callbacks ELSE Append(callbacks, "caps")
    /\ UNCHANGED <<place, kind, pending, list_dir, speak_dir, appAdds, fault>>

\* deInitialize(): the agents are deleted, ~TTSAgent() completes its directive.
DeInitialize ==
    /\ fault = {}
    /\ client = "running"
    /\ client' = "stopped"
    /\ Worked(IF speak_dir = NoDirective THEN Work
              ELSE [Complete(Work, speak_dir) EXCEPT !.speak = NoDirective])
    /\ UNCHANGED <<kind, pending, callbacks, appAdds>>

\* Faulty FreePending: the directives that wait in the queue are forgotten.
FreePendingNot(pl) == pl

\* nugu_network_manager_free(): the queue is emptied
FreePending(pl) == [d \in Directives |-> IF pl[d] = "pending" THEN "freed" ELSE pl[d]]

\* nugu_dirseq_deinitialize(): every directive is completed, which frees its
\* list element; then the elements are freed.
DirseqDeinitialize(w) ==
    [w EXCEPT !.list = <<>>,
              !.place = [d \in Directives |-> IF Listed(w, d) THEN "freed" ELSE @[d]],
              !.fault = IF w.list = <<>> THEN @ ELSE @ \cup {"twice"}]

\* ~NuguClientImpl(): CapabilityManagerHelper::destroyInstance(), which removes
\* its callback, and then ~NetworkManager(), which disconnects first
DestroyClient ==
    /\ fault = {}
    /\ client \in {"created", "stopped"}
    /\ client' = "gone"
    /\ callbacks' = <<>>
    /\ pending' = <<>>
    /\ Worked(DirseqDeinitialize([Work EXCEPT !.place = FreePending(@)]))
    /\ UNCHANGED <<kind, appAdds>>

SequencerNext ==
    \/ \E d \in Directives, k \in Kinds : Receive(d, k)
    \/ \E garbage \in {"CONTINUE", "REMOVE"} : OnEvent(garbage)
    \/ SpeakEnds
    \/ AppAddsCallback
    \/ Initialize
    \/ DeInitialize
    \/ DestroyClient

SequencerSpec == SequencerInit /\ [][SequencerNext]_sequencerVars

-----------------------------------------------------------------------------
(***************************************************************************)
(* The types, and the queue between the threads: a directive waits in it   *)
(* exactly while nobody else has it.                                       *)
(***************************************************************************)
SequencerTypeOK ==
    /\ client \in {"created", "running", "stopped", "gone"}
    /\ place \in [Directives ->
                    {"server", "pending", "listed", "speaking", "dropped", "freed"}]
    /\ kind \in [Directives -> {"quick", "speak", "broken", "unknown"}]
    /\ pending \in Seq(Directives)
    /\ list_dir \in Seq(Directives)
    /\ callbacks \in Seq({"caps", "app"})
    /\ speak_dir \in Directives \cup {NoDirective}
    /\ fault \subseteq {"stale", "twice"}
    /\ \A d \in Directives : d \in Range(pending) => place[d] = "pending"

(***************************************************************************)
(* The list holds the live directives and each of them once: completing a  *)
(* directive (nugu_dirseq_complete()) takes it off the list and frees it,  *)
(* whoever completes it and in whatever order.                             *)
(***************************************************************************)
ListIsLive ==
    /\ \A d \in Directives : place[d] \in {"listed", "speaking"} <=> d \in Range(list_dir)
    /\ IsInjective(list_dir)

(***************************************************************************)
(* The directive the TTS agent keeps is the only one whose speech is not   *)
(* over, and it is alive: a speech that is replaced, that ends or that is  *)
(* cut off by NuguClientImpl::deInitialize() is completed, once.           *)
(***************************************************************************)
OneSpeech ==
    /\ {d \in Directives : place[d] = "speaking"} = {speak_dir} \ {NoDirective}
    /\ client # "running" => speak_dir = NoDirective

(***************************************************************************)
(* When the client is gone no directive is left in the queue or in the     *)
(* list: the ones that arrived too late for a capability are freed too.    *)
(***************************************************************************)
NothingWaits ==
    client = "gone" => \A d \in Directives : place[d] \in {"server", "dropped", "freed"}

(***************************************************************************)
(* The directives are safe from the network's thread to the end of the     *)
(* client: every one has one owner, who frees it.                          *)
(***************************************************************************)
DirectivesSafe == SequencerTypeOK /\ ListIsLive /\ OneSpeech /\ NothingWaits

(***************************************************************************)
(* nugu_directive_sequencer.h: nugu_dirseq_deinitialize() is to "Remove    *)
(* all the directives in the sequencer".  complete() frees the list        *)
(* elements that g_list_free_full() then frees again.                      *)
(***************************************************************************)
NoDoubleFree == "twice" \notin fault

(***************************************************************************)
(* nugu_directive_sequencer.h: DIRSEQ_CONTINUE is to "Pass to the next     *)
(* callback".  CapabilityManager::dirseqCallback() returns it for a        *)
(* directive that processDirective() has freed.                            *)
(***************************************************************************)
PassesLiveDirective == "stale" \notin fault

(***************************************************************************)
(* nugu_directive_sequencer.c, nugu_dirseq_add_callback(): "callback       *)
(* already registered" for a callback that is in the list.                 *)
(***************************************************************************)
RegisteredOnce == Len(SelectSeq(callbacks, LAMBDA c : c = "app")) <= 1

(***************************************************************************)
(* nugu_directive_sequencer.h: DIRSEQ_REMOVE is to "Remove the directive". *)
(* A directive that leaves the list is freed.                              *)
(***************************************************************************)
RemovedIsFreed == \A d \in Directives : place[d] # "dropped"

=============================================================================
