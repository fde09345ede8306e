--------------------------- MODULE RecorderTimeout ---------------------------
(***************************************************************************)
(* The deadline nugu_recorder_get_frame_timeout() computes for             *)
(* pthread_cond_timedwait() from the time of day and a timeout in          *)
(* milliseconds.                                                           *)
(***************************************************************************)
EXTENDS Naturals

CONSTANTS Micros,       \* microseconds of the current second
          Timeouts      \* timeouts in milliseconds, not 0

RecorderTimeoutAssumption ==
    /\ Micros \subseteq 0..999999 /\ Timeouts \subseteq 1..1999

VARIABLES now,          \* curtime: [sec, usec]
          timeout, spec \* the argument; the timespec: [sec, nsec], sec 0 before

vars == <<now, timeout, spec>>

\* Faulty Deadline: the milliseconds are not carried into the seconds.
DeadlineUncarried(t, ms) ==
    [sec |-> t.sec + ms \div 1000, nsec |-> t.usec * 1000 + (ms % 1000) * 1000000]

\* The timespec the function fills in
Deadline(t, ms) ==
    [sec |-> t.sec + ms \div 1000, nsec |-> t.usec * 1000 + (ms % 1000)]

Init ==
    /\ now \in [sec : {1}, usec : Micros]
    /\ timeout \in Timeouts
    /\ spec = [sec |-> 0, nsec |-> 0]

GetFrameTimeout ==
    /\ spec.sec = 0
    /\ spec' = Deadline(now, timeout)
    /\ UNCHANGED <<now, timeout>>

Again == spec.sec # 0 /\ spec' = [sec |-> 0, nsec |-> 0] /\ UNCHANGED <<now, timeout>>

Next == GetFrameTimeout \/ Again

Spec == Init /\ [][Next]_vars

\* The deadline is a time pthread_cond_timedwait() accepts (the nanoseconds
\* are less than a second) and is not in the past, for every time of day.
DeadlineValid ==
    spec.sec # 0 =>
        /\ spec.nsec < 1000000000
        /\ spec.sec > now.sec \/ spec.nsec >= now.usec * 1000

\* "timeout milliseconds": the wait is not cut short.
DeadlineKept ==
    spec.sec # 0 =>
        (spec.sec - now.sec) * 1000 + spec.nsec \div 1000000 - now.usec \div 1000 >= timeout - 1

============================================================================
