----------------------------- MODULE RingBuffer -----------------------------
(***************************************************************************)
(* nugu_ringbuffer.c, called by one thread at a time: the arithmetic of    *)
(* read_index, count and woffset.  Bytes are numbered in the order they    *)
(* are pushed since the last clear; 0 stands for memory never written.     *)
(***************************************************************************)
EXTENDS Integers, Sequences, FiniteSets

CONSTANTS
    Geometries,     \* the [size, capacity] pairs given to new and resize
    Sizes,          \* the sizes given to push_data
    Limit           \* bound: bytes pushed between two clears

ASSUME RingBufferAssumption ==
    /\ Geometries \subseteq [size : Nat \ {0}, capacity : Nat \ {0}]
    /\ Sizes \subseteq Nat \ {0} /\ Limit \in Nat

VARIABLES
    rb,         \* the NuguRingBuffer
    pushed,     \* bytes pushed since the last clear
    item,       \* what read_item gave last since the clear, <<>> when *size was 0
    overrun     \* history: since the clear, a push was beyond what is kept

ringVars == <<rb, pushed, item, overrun>>

\* nugu_ring_buffer_new()
NewBuffer(g) ==
    [item_size |-> g.size, max_items |-> g.capacity, read_index |-> 0, count |-> 0,
     woffset |-> 0, buf |-> [o \in 0..(g.size * g.capacity - 1) |-> 0]]

\* The items touched by a push of `size' bytes, a partly written one included.
WriteItems(b, size) ==
    LET rest == (b.woffset % b.item_size) + (size % b.item_size)
    IN  size \div b.item_size + rest \div b.item_size
            + (IF (rest % b.item_size) # 0 THEN 1 ELSE 0)

\* Faulty CalculateCount: does not know of a reader ahead of the writer.
CalculateCountStraight(b, write_item, size) ==
    IF write_item + b.count > b.max_items THEN b.max_items
    ELSE (b.woffset + size) \div b.item_size

\* _calculate_count()
CalculateCount(b, write_item, size) ==
    LET write_index == b.woffset \div b.item_size
        new_write_index == (b.woffset + size) \div b.item_size
    IN  IF write_item + b.count > b.max_items THEN b.max_items
        ELSE IF b.read_index > write_index
               THEN b.max_items - (b.read_index - new_write_index)
               ELSE new_write_index - b.read_index

\* Where a full buffer moves its read index to.
SkipItems(b, write_item) ==
    LET r == b.read_index + write_item
    IN  IF write_item + b.count <= b.max_items THEN b.read_index
        ELSE IF r >= b.max_items THEN r - b.max_items ELSE r

\* The two memcpy() of push_data: a write that crosses the end goes on at 0,
\* one that just reaches the end does not.
CopyIn(b, size, first) ==
    LET cap == b.max_items * b.item_size
        wraps == b.woffset + size > cap
    IN  [buf |-> [o \in DOMAIN b.buf |->
                    IF o >= b.woffset /\ o < b.woffset + size THEN first + o - b.woffset
                    ELSE IF wraps /\ o < b.woffset + size - cap THEN first + o + cap - b.woffset
                    ELSE b.buf[o]],
         woffset |-> IF wraps THEN b.woffset + size - cap ELSE b.woffset + size]

\* nugu_ring_buffer_push_data()
PushData(b, size, first) ==
    LET w == WriteItems(b, size)
        m == CopyIn(b, size, first)
    IN  [b EXCEPT !.count = CalculateCount(b, w, size), !.read_index = SkipItems(b, w),
                  !.buf = m.buf, !.woffset = m.woffset]

\* The item at read position r
ItemAt(b, r) == [i \in 1..b.item_size |-> b.buf[r * b.item_size + i - 1]]

\* The buffer behind nugu_ring_buffer_read_item()
ReadItem(b) ==
    IF b.count <= 0 THEN b
    ELSE [b EXCEPT !.count = @ - 1,
                   !.read_index = IF @ + 1 = b.max_items THEN 0 ELSE @ + 1]

\* nugu_ring_buffer_clear_items()
ClearItems(b) == [b EXCEPT !.read_index = 0, !.woffset = 0, !.count = 0]

\* nugu_ring_buffer_resize(): the same geometry changes nothing.
Resized(b, g) ==
    IF b.item_size = g.size /\ b.max_items = g.capacity THEN b ELSE NewBuffer(g)

----------------------------------------------------------------------------
RingInit ==
    /\ \E g \in Geometries : rb = NewBuffer(g)
    /\ pushed = 0 /\ item = <<>> /\ overrun = FALSE

\* What the buffer has room for: the push fits behind the unread bytes, or
\* replaces the oldest items of a full buffer by whole ones; and read_index has
\* not gone to 0 while woffset stays at the end of the memory, where
\* _calculate_count() would count the whole lap again.
Keeps(size) ==
    LET cap == rb.max_items * rb.item_size
        unread == rb.count * rb.item_size + (rb.woffset % rb.item_size)
    IN  /\ unread + size <= cap \/ (unread = cap /\ size % rb.item_size = 0)
        /\ ~(rb.count = 0 /\ rb.woffset = cap)

\* A size beyond the buffer is refused.
Push(size) ==
    /\ pushed + size <= Limit
    /\ size <= rb.max_items * rb.item_size
    /\ rb' = PushData(rb, size, pushed + 1)
    /\ pushed' = pushed + size
    /\ overrun' = (overrun \/ ~Keeps(size))
    /\ UNCHANGED item

Read ==
    /\ item' = IF rb.count <= 0 THEN <<>> ELSE ItemAt(rb, rb.read_index)
    /\ rb' = ReadItem(rb)
    /\ UNCHANGED <<pushed, overrun>>

Clear == rb' = ClearItems(rb) /\ pushed' = 0 /\ item' = <<>> /\ overrun' = FALSE

Resize(g) ==
    /\ rb' = Resized(rb, g)
    /\ IF rb' = rb THEN UNCHANGED <<pushed, item, overrun>>
       ELSE pushed' = 0 /\ item' = <<>> /\ overrun' = FALSE

RingNext == (\E size \in Sizes : Push(size)) \/ Read \/ Clear \/ (\E g \in Geometries : Resize(g))

RingSpec == RingInit /\ [][RingNext]_ringVars

----------------------------------------------------------------------------
(***************************************************************************)
(* Properties                                                              *)
(***************************************************************************)

\* Every copy stays inside the memory: the item read_item() would copy and
\* the next byte push_data() would write are inside buf.
RingTypeOK ==
    /\ rb.read_index \in 0..(rb.max_items - 1)
    /\ rb.woffset \in 0..(rb.max_items * rb.item_size)
    /\ rb.count \in Int

\* The ring buffer is a queue of the stream's items, lap after lap, however the
\* stream is chunked and however far the reader is behind, until a push is
\* beyond what it keeps (Keeps); then again from the next clear on.
Queue == INSTANCE ItemQueue WITH
    geometry <- [size |-> rb.item_size, capacity |-> rb.max_items],
    bytes <- pushed,
    queue <- [i \in 1..(IF rb.count < 0 THEN 0 ELSE rb.count) |->
                 ItemAt(rb, (rb.read_index + i - 1) % rb.max_items)]
ImplementsQueue == Queue!Spec

\* The test of the ring ("Fill 5 bytes" into a full buffer of 10: the sixth
\* item is read first, ten are counted): never more than max_items wait.
CountBounded == rb.count <= rb.max_items

\* The same test reads the kept items in the order they were pushed: an item
\* handed out is never older than the one before.
InOrder == [][item # <<>> /\ item' # <<>> => item'[1] >= item[1]]_item

============================================================================
