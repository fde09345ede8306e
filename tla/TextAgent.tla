----------------------------- MODULE TextAgent -----------------------------
(***************************************************************************)
(* Requests by text: the text agent (service/capability/text_agent.cc),    *)
(* the response timer it starts with every request, the capability manager *)
(* that announces the dialog of every directive before the directive is    *)
(* handled, and the application's listener, which is called in the middle  *)
(* of the agent's handlers and may call back into the agent.               *)
(*                                                                         *)
(* A dialog id is a number; 0 is the empty string.  Directives of the      *)
(* server's own making (a TextSource from the user's phone) carry the id   *)
(* Foreign.  The handlers run to their end on the main loop.  A handler is *)
(* written as operators on a record of the agent's state; a call of the    *)
(* listener is Told(), and what the application does inside it is an       *)
(* argument of the handler.                                                *)
(***************************************************************************)
EXTENDS Naturals, Sequences

CONSTANTS
    MaxRequests,   \* bound: events sent
    MaxForeign,    \* bound: directives that belong to no request
    Early          \* TRUE: requests may come before initialize()

TextAssumption ==
    MaxRequests \in Nat /\ MaxForeign \in Nat /\ Early \in BOOLEAN

NoDialog == 0
Foreign == MaxRequests + 1

VARIABLES
    initialized,
    agent,     \* [state, dialog, armed]: cur_state, cur_dialog_id, the timer
    told,      \* the states reported to the listener, in order (the last two)
    outcome,   \* outcome[d]: what became of request d first
    sent,      \* the number of events sent
    foreign

textVars == <<initialized, agent, told, outcome, sent, foreign>>

Requests == 1 .. MaxRequests

TextInit ==
    /\ initialized = FALSE
    /\ agent = [state |-> "IDLE", dialog |-> NoDialog, armed |-> FALSE]
    /\ told = <<>>
    /\ outcome = [d \in Requests |-> "open"]
    /\ sent = 0
    /\ foreign = 0

\* w collects what a handler did: the agent, the reports, the events.
Work == [a |-> agent, told |-> told, sent |-> sent, out |-> outcome]

Worked(w) ==
    /\ agent' = w.a
    /\ told' = w.told
    /\ sent' = w.sent
    /\ outcome' = w.out

\* text_listener->onState()
Told(w, s) ==
    [w EXCEPT !.told = IF Len(@) = 2 THEN <<@[2], s>> ELSE Append(@, s)]

\* nugu_timer_start(): nothing happens to a timer that does not exist yet
StartTimer(w) == [w EXCEPT !.a.armed = initialized]
StopTimer(w) == [w EXCEPT !.a.armed = FALSE]

\* A new event has a new dialog id, which the agent remembers.
SendEventTextInput(w) == [w EXCEPT !.sent = @ + 1, !.a.dialog = w.sent + 1]

\* Faulty Ask: the timer of the last request is left running or off.
AskUntimed(w) ==
    IF w.a.state = "BUSY" \/ w.sent = MaxRequests THEN w
    ELSE SendEventTextInput(Told([w EXCEPT !.a.state = "BUSY"], "BUSY"))

\* What requestTextInput() and a TextSource directive have in common.
Ask(w) ==
    IF w.a.state = "BUSY" \/ w.sent = MaxRequests THEN w
    ELSE SendEventTextInput(Told([StartTimer(w) EXCEPT !.a.state = "BUSY"], "BUSY"))

\* The application is told of a state and may ask again inside the callback.
ToldAndAsks(w, s, again) == IF again THEN Ask(Told(w, s)) ELSE Told(w, s)

-----------------------------------------------------------------------------
Initialize ==
    /\ ~initialized
    /\ initialized' = TRUE
    /\ UNCHANGED <<agent, told, outcome, sent, foreign>>

\* ITextHandler::requestTextInput()
RequestTextInput ==
    /\ initialized \/ Early
    /\ sent < MaxRequests
    /\ Worked(Ask(Work))
    /\ UNCHANGED <<initialized, foreign>>

\* TextAgent::notifyResponseTimeout(): the error is reported while the agent is
\* still busy, so that a request made in onError() is refused.
NotifyResponseTimeout(again) ==
    /\ agent.armed
    /\ LET w0 == [Work EXCEPT !.a.armed = FALSE,
                              !.out = [d \in Requests |->
                                IF d = agent.dialog /\ @[d] = "open" THEN "timeout" ELSE @[d]]]
           w1 == IF again THEN Ask(w0) ELSE w0
       IN  Worked(ToldAndAsks([w1 EXCEPT !.a.state = "IDLE"], "IDLE", again))
    /\ UNCHANGED <<initialized, foreign>>

\* Faulty ReceiveCommandAll: the timer of an answered request keeps running.
ReceiveCommandAllTimed(w, d, again) ==
    IF d # w.a.dialog THEN w
    ELSE ToldAndAsks([w EXCEPT !.a.dialog = NoDialog, !.a.state = "IDLE"], "IDLE", again)

\* Faulty ReceiveCommandAll: the state is set after the listener was told, over what it asked for.
ReceiveCommandAllLate(w, d, again) ==
    IF d # w.a.dialog THEN w
    ELSE [ToldAndAsks([StopTimer(w) EXCEPT !.a.dialog = NoDialog, !.a.state = "IDLE"],
                      "IDLE", again) EXCEPT !.a.state = "IDLE"]

\* TextAgent::receiveCommandAll("directive_dialog_id")
ReceiveCommandAll(w, d, again) ==
    IF d # w.a.dialog THEN w
    ELSE ToldAndAsks([StopTimer(w) EXCEPT !.a.dialog = NoDialog, !.a.state = "IDLE"],
                     "IDLE", again)

\* CapabilityManager::dirseqCallback(): preprocessDirective() announces the
\* dialog to every capability, then the directive's capability handles it.
Announced(d, again) ==
    ReceiveCommandAll([Work EXCEPT !.out =
        IF d \in Requests /\ @[d] = "open" THEN [@ EXCEPT ![d] = "answered"] ELSE @], d, again)

\* A directive for another capability; one of an unsupported namespace is not
\* announced and is not an answer.
OtherDirective(d, again) ==
    /\ d \in 1 .. sent
    /\ Worked(Announced(d, again))
    /\ UNCHANGED <<initialized, foreign>>

\* TextAgent::processDirective(), parsingTextSource(); a directive without
\* text or token is dropped, which is what OtherDirective is.
TextSource(d, again) ==
    /\ initialized \/ Early
    /\ foreign < MaxForeign
    /\ foreign' = foreign + 1
    /\ d \in 1 .. sent \/ d = Foreign
    /\ Worked(Ask(Announced(d, again)))
    /\ UNCHANGED initialized

TextNext ==
    \/ Initialize
    \/ RequestTextInput
    \/ \E again \in BOOLEAN : NotifyResponseTimeout(again)
    \/ \E d \in Requests, again \in BOOLEAN : OtherDirective(d, again)
    \/ \E d \in Requests \cup {Foreign}, again \in BOOLEAN : TextSource(d, again)

TextSpec == TextInit /\ [][TextNext]_textVars

\* The main loop runs a source that is due; the server owes nothing.
TextFairSpec == TextSpec /\ WF_textVars(\E again \in BOOLEAN : NotifyResponseTimeout(again))

-----------------------------------------------------------------------------
TextTypeOK ==
    /\ initialized \in BOOLEAN
    /\ agent \in [state : {"IDLE", "BUSY"}, dialog : 0 .. MaxRequests, armed : BOOLEAN]
    /\ told \in Seq({"IDLE", "BUSY"})
    /\ outcome \in [Requests -> {"open", "answered", "timeout"}]
    /\ sent \in 0 .. MaxRequests
    /\ foreign \in 0 .. MaxForeign

(***************************************************************************)
(* A busy agent waits for the dialog of the last event it sent, which is   *)
(* not answered yet, with the timer running, and an idle agent has no      *)
(* timer running: whatever the application asks for inside the callbacks,  *)
(* no timeout is reported for an answered request and no request goes      *)
(* without one.                                                            *)
(***************************************************************************)
BusyIsTimed ==
    /\ agent.armed <=> agent.state = "BUSY"
    /\ agent.state = "BUSY" => agent.dialog = sent /\ outcome[sent] = "open"

(***************************************************************************)
(* The listener knows the agent's state: the last state it was told is the *)
(* one the agent is in, although a state may be left again inside the call *)
(* that reports it.                                                        *)
(***************************************************************************)
ListenerKnows == told # <<>> => told[Len(told)] = agent.state

(***************************************************************************)
(* The text agent is safe: no request goes without a timer, no timer       *)
(* without a request, and the listener knows.                              *)
(***************************************************************************)
TextSafe == TextTypeOK /\ BusyIsTimed /\ ListenerKnows

(***************************************************************************)
(* A busy agent does not stay busy: an answer or the response timeout ends *)
(* every request.                                                          *)
(***************************************************************************)
BusyEnds == \A n \in Requests : (agent.state = "BUSY" /\ sent = n) ~>
                ~(agent.state = "BUSY" /\ sent = n)

(***************************************************************************)
(* onState() reports a change of the state: no state is reported twice in  *)
(* a row.                                                                  *)
(***************************************************************************)
StateChanges == Len(told) = 2 => told[1] # told[2]

=============================================================================
