----------------------------- MODULE NuguFocus -----------------------------
(***************************************************************************)
(* The focus manager of src/src/nugu_focus.c: one list of focus items per  *)
(* resource (microphone, speaker).  The head of a list is what             *)
(* nugu_focus_peek_top() reports as the current owner, the rest are        *)
(* reserved requests kept by priority (a smaller type is more urgent).     *)
(*                                                                         *)
(* The listeners behind the three callbacks are the parameters of module   *)
(* FocusList.  Requests that a listener nests in a callback are the        *)
(* subject of module VoiceSession.                                         *)
(***************************************************************************)
EXTENDS FocusList

VARIABLES
    live,       \* the focus objects created and not yet freed
    stack,      \* stack[r]: _focus_stack[r], as the foci of its items
    focused     \* focused[r]: the foci last told by a callback that they own r

vars == <<live, stack, focused>>

----------------------------------------------------------------------------

Init ==
    /\ live = {}
    /\ stack = [r \in Resource |-> <<>>]
    /\ focused = [r \in Resource |-> {}]

\* nugu_focus_new()
New(f) ==
    /\ f \notin live
    /\ live' = live \cup {f}
    /\ UNCHANGED <<stack, focused>>

\* Faulty Free: the speaker's list is forgotten.
FreeMicOnly(f) ==
    /\ f \in live
    /\ live' = live \ {f}
    /\ stack' = [r \in Resource |->
                    IF r = "MIC" THEN RemoveItems(stack[r], f) ELSE stack[r]]
    /\ focused' = [r \in Resource |-> focused[r] \ {f}]

\* nugu_focus_free(): the items leave both lists, nobody is called back.
Free(f) ==
    /\ f \in live
    /\ live' = live \ {f}
    /\ stack' = [r \in Resource |-> RemoveItems(stack[r], f)]
    /\ focused' = [r \in Resource |-> focused[r] \ {f}]

\* nugu_focus_request() on an empty list: focus_cb right away, and the item
\* is taken off again when it does not answer OK.
RequestEmpty(f, r) ==
    /\ f \in live
    /\ stack[r] = <<>>
    /\ \E answer \in FocusAnswers(f) :
          /\ stack' = [stack EXCEPT ![r] = IF answer = "OK" THEN <<f>> ELSE <<>>]
          /\ focused' = [focused EXCEPT ![r] =
                            IF answer = "OK" THEN @ \cup {f} ELSE @]
    /\ UNCHANGED live

\* nugu_focus_request(), the top allows the steal: unfocus_cb of the top, the
\* requester's older items go, its new item becomes the top, focus_cb; the new
\* item is taken off again when focus_cb does not answer OK.
RequestSteal(f, r) ==
    /\ f \in live
    /\ stack[r] # <<>>
    /\ <<Head(stack[r]), r, f>> \notin Rejects
    /\ \E pause \in UnfocusAnswers(Head(stack[r])), answer \in FocusAnswers(f) :
          LET top  == Head(stack[r])
              rest == RemoveItems(Unfocused(Tail(stack[r]), top, pause), f)
          IN  /\ stack' = [stack EXCEPT ![r] =
                              IF answer = "OK" THEN Prepend(rest, f) ELSE rest]
              /\ focused' = [focused EXCEPT ![r] =
                                IF answer = "OK" THEN (@ \ {top}) \cup {f}
                                                 ELSE @ \ {top}]
    /\ UNCHANGED live

\* nugu_focus_request(), the top rejects the steal: the requester's older
\* items go and its new item is reserved by priority; no callback.
RequestReserve(f, r) ==
    /\ f \in live
    /\ stack[r] # <<>>
    /\ <<Head(stack[r]), r, f>> \in Rejects
    /\ stack' = [stack EXCEPT ![r] = InsertByPriority(RemoveItems(@, f), f)]
    /\ UNCHANGED <<live, focused>>

\* nugu_focus_release() by a focus that is not the top: its reserved items
\* go, without a callback.
ReleaseReserved(f, r) ==
    /\ f \in live
    /\ stack[r] # <<>>
    /\ Head(stack[r]) # f
    /\ stack' = [stack EXCEPT ![r] = RemoveItems(@, f)]
    /\ UNCHANGED <<live, focused>>

\* nugu_focus_release() by the top: unfocus_cb, and then focus_cb of the new
\* top unless that is the releasing focus itself; its answer is not looked at.
ReleaseTop(f, r) ==
    /\ f \in live
    /\ stack[r] # <<>>
    /\ Head(stack[r]) = f
    /\ \E pause \in UnfocusAnswers(f) :
          LET rest == Unfocused(Tail(stack[r]), f, pause)
          IN  /\ stack' = [stack EXCEPT ![r] = rest]
              /\ IF rest # <<>> /\ Head(rest) # f
                 THEN \E answer \in FocusAnswers(Head(rest)) :
                         focused' = [focused EXCEPT ![r] =
                                        IF answer = "OK"
                                        THEN (@ \ {f}) \cup {Head(rest)}
                                        ELSE @ \ {f}]
                 ELSE focused' = [focused EXCEPT ![r] = @ \ {f}]
    /\ UNCHANGED live

Next ==
    \/ \E f \in Focus : New(f) \/ Free(f)
    \/ \E f \in Focus, r \in Resource :
          \/ RequestEmpty(f, r)
          \/ RequestSteal(f, r)
          \/ RequestReserve(f, r)
          \/ ReleaseReserved(f, r)
          \/ ReleaseTop(f, r)

Spec == Init /\ [][Next]_vars

----------------------------------------------------------------------------
(***************************************************************************)
(* Properties.                                                             *)
(***************************************************************************)

\* Types, and no use after free: nugu_focus_free() leaves no item of the
\* freed object on any list and nobody else ever puts one there.
TypeOK ==
    /\ live \subseteq Focus
    /\ stack \in [Resource -> Seq(live)]
    /\ focused \in [Resource -> SUBSET live]

\* A focus has at most one item on a list, however often it requests, is
\* paused or is reserved: nugu_focus_request() and nugu_focus_release()
\* rely on it ("remove duplicated focus").
NoDuplicates == \A r \in Resource : Distinct(stack[r])

\* The foci that may ever wait on r behind another one: the ones somebody
\* rejects, and the ones that answer PAUSE.
Waiters(r) ==
    {f \in Focus : f \in CanPause \/ \E o \in Focus : <<o, r, f>> \in Rejects}

\* The listeners of r respect the priorities: a focus rejects another one only
\* when that is less urgent, and itself only when nothing that may wait on r
\* is more urgent.
Disciplined(r) ==
    \A o, f \in Focus : <<o, r, f>> \in Rejects =>
        IF o # f THEN Type[o] < Type[f]
                 ELSE \A w \in Waiters(r) : Type[o] <= Type[w]

\* Every focus in owners is the head of s.
OnTop(s, owners) == \A f \in owners : s # <<>> /\ Head(s) = f

\* From index k on, s is in priority order.
OrderedFrom(s, k) ==
    \A i, j \in k..Len(s) : i < j => Type[s[i]] <= Type[s[j]]

\* "Only one focus can be owned by a resource at the same time"
\* (nugu_focus.h): a focus that was told it owns r, and not since that it
\* lost r, is the top of the list, so no two listeners use r together and
\* every owner is asked, and told, before it loses r.
ExclusiveOwner ==
    \A r \in Resource : Disciplined(r) => OnTop(stack[r], focused[r])

\* "focus can be taken by priority" (nugu_focus.h): the reserved items stand
\* in priority order, so the head of the rest is always the most urgent one.
ReservedByPriority ==
    \A r \in Resource : Disciplined(r) => OrderedFrom(stack[r], 2)

\* What makes the two inductive: a list behind its top holds only foci that
\* may wait, so a top that rejects itself cannot be overtaken.
WaitersBehind ==
    \A r \in Resource : Disciplined(r) =>
        \A i \in 2..Len(stack[r]) : stack[r][i] \in Waiters(r)

\* The inductive invariant of the proofs in NuguFocusProofs: an owner is on
\* top, and nothing behind it could overtake it.
IndInv ==
    /\ TypeOK
    /\ NoDuplicates
    /\ ExclusiveOwner
    /\ ReservedByPriority
    /\ WaitersBehind

\* nugu_focus.h says of nugu_focus_peek_top(): "Get the current focused
\* object": the top of a list was told that it owns the resource.
TopIsFocused ==
    \A r \in Resource : stack[r] # <<>> => Head(stack[r]) \in focused[r]

============================================================================
