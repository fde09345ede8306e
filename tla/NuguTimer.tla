----------------------------- MODULE NuguTimer -----------------------------
(***************************************************************************)
(* The timer of the SDK (src/nugu_timer.c): a GLib timeout source that is  *)
(* attached by nugu_timer_start() and calls back repeat times.  The        *)
(* callback runs on the main loop and may itself start or stop the timer;  *)
(* the code counts the call after the callback returned.                   *)
(***************************************************************************)
EXTENDS Integers

CONSTANTS
    MaxRepeat,     \* bound: repeat counts that are asked for
    MaxStarts      \* bound: calls of nugu_timer_start()

ASSUME TimerAssumption == MaxRepeat \in Nat /\ MaxStarts \in Nat

VARIABLES
    source,  \* "none": NULL; "armed"; "spent": fired for the last time, not yet dropped
    repeat, count,
    fired,   \* history: the calls made since the last start
    plan,    \* history: the repeat count asked for last, by the start or while the
             \* timer runs (asked), the first call that can end it (least), and 1
             \* if its own callback started it (inside)
    starts

timerVars == <<source, repeat, count, fired, plan, starts>>

NoPlan == [asked |-> 0, least |-> 1, inside |-> 0]

TimerInit ==
    /\ source = "none"
    /\ repeat \in 0 .. MaxRepeat
    /\ count = 1
    /\ fired = 0
    /\ plan = NoPlan
    /\ starts = 0

\* nugu_timer_set_repeat(): also while the timer runs, where the next call
\* already compares with the new count.
SetRepeat(n) ==
    /\ repeat' = n
    /\ plan' = IF source = "armed" THEN [plan EXCEPT !.asked = n, !.least = fired + 1]
                                   ELSE plan
    /\ UNCHANGED <<source, count, fired, starts>>

\* nugu_timer_stop()
Stop ==
    /\ source' = "none"
    /\ count' = 0
    /\ fired' = 0 /\ plan' = NoPlan
    /\ UNCHANGED <<repeat, starts>>

\* Faulty Start: a started timer keeps the count of its last use.
StartKeeps ==
    /\ starts < MaxStarts
    /\ starts' = starts + 1
    /\ IF repeat = 0
       THEN UNCHANGED <<source, count, fired, plan>>
       ELSE /\ source' = "armed" /\ count' = count
            /\ fired' = 0 /\ plan' = [NoPlan EXCEPT !.asked = repeat]
    /\ UNCHANGED repeat

\* nugu_timer_start(): a timer that repeats 0 times is not started.
Start ==
    /\ starts < MaxStarts
    /\ starts' = starts + 1
    /\ IF repeat = 0
       THEN UNCHANGED <<source, count, fired, plan>>
       ELSE /\ source' = "armed" /\ count' = 0
            /\ fired' = 0 /\ plan' = [NoPlan EXCEPT !.asked = repeat]
    /\ UNCHANGED repeat

\* _nugu_timer_callback(), the callback leaves the source alone
Fires ==
    /\ source = "armed"
    /\ count' = count + 1
    /\ fired' = fired + 1
    /\ source' = IF repeat > count' THEN "armed" ELSE "spent"
    /\ UNCHANGED <<repeat, plan, starts>>

\* The callback stops the timer: the source is gone whatever is returned.
FiresAndStops ==
    /\ source = "armed"
    /\ source' = "none"
    /\ count' = 1
    /\ fired' = 0 /\ plan' = NoPlan
    /\ UNCHANGED <<repeat, starts>>

\* The callback starts the timer again: the result concerns the old source,
\* and the call is counted for the new one.
FiresAndStarts ==
    /\ source = "armed" /\ repeat # 0
    /\ starts < MaxStarts
    /\ starts' = starts + 1
    /\ count' = 1
    /\ fired' = 0 /\ plan' = [asked |-> repeat, least |-> 1, inside |-> 1]
    /\ UNCHANGED <<source, repeat>>

TimerNext ==
    \/ \E n \in 0 .. MaxRepeat : SetRepeat(n)
    \/ Start
    \/ Stop
    \/ Fires
    \/ FiresAndStops
    \/ FiresAndStarts

TimerSpec == TimerInit /\ [][TimerNext]_timerVars

-----------------------------------------------------------------------------
TimerTypeOK ==
    /\ source \in {"none", "armed", "spent"}
    /\ repeat \in Nat /\ count \in Nat /\ fired \in Nat /\ starts \in Nat
    /\ plan \in [asked : Nat, least : Nat, inside : 0 .. 1]

\* How often a timer calls back: as often as it was asked to last, one time
\* less if its own callback started it, and once more at least if less is asked
\* of it than it has done.
Owed == LET due == plan.asked - plan.inside IN IF due > plan.least THEN due ELSE plan.least

(***************************************************************************)
(* A timer that was started and not stopped calls back exactly as often as *)
(* it owes, over starts from inside and from outside of its callback and   *)
(* repeat counts changed while it runs: an armed timer still has calls to  *)
(* make, a spent one has made all of them (_nugu_timer_callback(),         *)
(* nugu_timer_start(), nugu_timer_set_repeat()).                           *)
(***************************************************************************)
FiresExactly ==
    /\ source = "armed" => fired < Owed
    /\ source = "spent" => fired = Owed

(***************************************************************************)
(* nugu_timer.h, nugu_timer_set_repeat(): "number of times to repeat". A   *)
(* timer calls back that often, unless less is asked of it than it has     *)
(* done. Not so when its own callback started it: the call that is running *)
(* is counted for the new start (_nugu_timer_callback()).                  *)
(***************************************************************************)
RepeatsAsAsked == source = "spent" /\ plan.asked >= plan.least => fired = plan.asked

\* What the count and the number of calls have to do with each other.
CountsCalls ==
    /\ source = "armed" =>
        /\ plan.asked = repeat
        /\ count = fired + plan.inside
        /\ plan.least <= fired + 1
        /\ fired < plan.least \/ count < repeat
    /\ source = "spent" => fired = Owed

=============================================================================
