----------------------------- MODULE FocusList -----------------------------
(***************************************************************************)
(* The lists of focus items of src/src/nugu_focus.c and the answers of the *)
(* listeners behind its callbacks.  A list is a sequence of foci, one per  *)
(* item; a smaller type is more urgent.                                    *)
(*                                                                         *)
(* steal_cb is a function of (self, resource, target type) in every        *)
(* listener of this repository, hence the constant relation Rejects;       *)
(* focus_cb and unfocus_cb answer nondeterministically within CanFail and  *)
(* CanPause.                                                               *)
(***************************************************************************)
EXTENDS Integers, Sequences

CONSTANTS
    Focus,      \* the focus objects (nugu_focus_new)
    Resource,   \* NUGU_FOCUS_RESOURCE_MIC, NUGU_FOCUS_RESOURCE_SPK
    Type,       \* Type[f]: the NuguFocusType of f, a priority
    Rejects,    \* <<self, r, target>>: self's steal_cb answers REJECT
    CanFail,    \* the foci whose focus_cb may answer other than OK
    CanPause    \* the foci whose unfocus_cb may answer PAUSE

ASSUME FocusAssumption ==
    /\ Type \in [Focus -> Nat]
    /\ Rejects \subseteq Focus \X Resource \X Focus
    /\ CanFail \subseteq Focus
    /\ CanPause \subseteq Focus

(***************************************************************************)
(* List primitives.                                                        *)
(***************************************************************************)

\* Faulty InsertPosition: the comparison is the wrong way round.
InsertPositionReversed(s, f) ==
    LET lessUrgent == {i \in 1..Len(s) : Type[f] > Type[s[i]]}
    IN  IF lessUrgent = {} THEN Len(s) + 1
        ELSE CHOOSE i \in lessUrgent : \A j \in lessUrgent : i <= j

\* Faulty InsertPosition: a plain append.
InsertPositionLast(s, f) == Len(s) + 1

\* Where g_list_insert_sorted() puts an item of focus f: in front of the
\* first item that is not strictly more urgent, at the end if there is none.
InsertPosition(s, f) ==
    LET notMoreUrgent == {i \in 1..Len(s) : Type[f] <= Type[s[i]]}
    IN  IF notMoreUrgent = {} THEN Len(s) + 1
        ELSE CHOOSE i \in notMoreUrgent : \A j \in notMoreUrgent : i <= j

\* The APPEND macro: insert by priority, whatever the order of s.
InsertByPriority(s, f) ==
    LET p == InsertPosition(s, f)
    IN  [i \in 1..(Len(s) + 1) |->
            IF i < p THEN s[i] ELSE IF i = p THEN f ELSE s[i - 1]]

Distinct(s) == \A i, j \in 1..Len(s) : s[i] = s[j] => i = j

Prepend(s, f) ==
    [i \in 1..(Len(s) + 1) |-> IF i = 1 THEN f ELSE s[i - 1]]

DropAt(s, k) ==
    [i \in 1..(Len(s) - 1) |-> IF i < k THEN s[i] ELSE s[i + 1]]

\* Faulty Occurrences: the search starts behind the head.
OccurrencesBehindHead(s, f) == {i \in 2..Len(s) : s[i] = f}

Occurrences(s, f) == {i \in 1..Len(s) : s[i] = f}

\* _remove_items_by_focus().  Its loop looks the focus up again after each
\* removal; NoDuplicates shows that there is never a second item to find,
\* so one round is the whole loop.
RemoveItems(s, f) ==
    IF Occurrences(s, f) = {} THEN s
    ELSE DropAt(s, CHOOSE i \in Occurrences(s, f) : TRUE)

\* What becomes of the list s after unfocus_cb of the item of f, taken off
\* s, answers: PAUSE puts the item back by priority, REMOVE drops it.
Unfocused(s, f, answer) ==
    IF answer = "PAUSE" THEN InsertByPriority(s, f) ELSE s

UnfocusAnswers(f) == {"REMOVE"} \cup {a \in {"PAUSE"} : f \in CanPause}

FocusAnswers(f) == {"OK"} \cup {a \in {"FAIL"} : f \in CanFail}

============================================================================
