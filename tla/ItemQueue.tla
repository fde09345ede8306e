------------------------------ MODULE ItemQueue ------------------------------
(***************************************************************************)
(* What nugu_ring_buffer keeps for its users: a stream of bytes is cut     *)
(* into items of a fixed size; complete items wait in order while the      *)
(* stream goes round the memory; when the memory is full of items, whole   *)
(* new ones take the place of the oldest. Nothing is said any more, until  *)
(* the next clear, once a push was beyond that (Kept).  The bytes of the   *)
(* stream are numbered from 1 since the last clear.                        *)
(***************************************************************************)
EXTENDS Integers, Sequences

CONSTANTS Geometries,   \* the [size, capacity] pairs the buffer may have
          Sizes         \* how many bytes a push may bring

VARIABLES geometry,     \* the current [size, capacity]
          bytes,        \* bytes pushed since the last clear
          queue,        \* the waiting items, each a sequence of bytes
          item,         \* the item handed out last since the clear, <<>> if there was none
          overrun       \* a push was beyond what is kept

vars == <<geometry, bytes, queue, item, overrun>>

\* The k-th item of the stream
ItemAt(k) == [i \in 1..geometry.size |-> (k - 1) * geometry.size + i]

\* A push is kept when the memory has room for it behind what waits, the item
\* begun included, or is full of items and whole items are pushed; and when the
\* reader has not just emptied a memory that was written to its very end.
Kept(n) ==
    LET memory == geometry.size * geometry.capacity
        unread == Len(queue) * geometry.size + (bytes % geometry.size)
    IN  /\ unread + n <= memory \/ (unread = memory /\ n % geometry.size = 0)
        /\ ~(queue = <<>> /\ bytes > 0 /\ bytes % memory = 0)

Init ==
    /\ geometry \in Geometries
    /\ bytes = 0 /\ queue = <<>> /\ item = <<>> /\ overrun = FALSE

\* What waits and, behind it, the items that n more bytes complete
Appended(n) ==
    LET old == bytes \div geometry.size
        new == (bytes + n) \div geometry.size
    IN  queue \o [i \in 1..(new - old) |-> ItemAt(old + i)]

Push ==
    \E n \in Sizes :
        /\ n <= geometry.size * geometry.capacity
        /\ bytes' = bytes + n /\ UNCHANGED geometry
        /\ IF ~overrun /\ Kept(n)
             THEN LET all == Appended(n)
                      drop == IF Len(all) > geometry.capacity
                                THEN Len(all) - geometry.capacity ELSE 0
                  IN  /\ queue' = SubSeq(all, drop + 1, Len(all))
                      /\ UNCHANGED <<item, overrun>>
             ELSE overrun' = TRUE

Read ==
    /\ ~overrun => IF queue = <<>> THEN item' = <<>> /\ UNCHANGED queue
                   ELSE item' = Head(queue) /\ queue' = Tail(queue)
    /\ UNCHANGED <<geometry, bytes, overrun>>

Clear ==
    /\ geometry' \in Geometries
    /\ bytes' = 0 /\ queue' = <<>> /\ item' = <<>> /\ overrun' = FALSE

Next == Push \/ Read \/ Clear

Spec == Init /\ [][Next]_vars

============================================================================
