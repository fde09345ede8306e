----------------------------- MODULE NuguBuffer -----------------------------
(***************************************************************************)
(* The byte buffer of nugu_buffer.c: one allocation that grows on demand.  *)
(* It holds the parts of the directive stream, response bodies, decoded    *)
(* speech and the PCM data.  The memory behind the data is Nul where it    *)
(* was cleared and Junk where realloc() added it.                          *)
(***************************************************************************)
EXTENDS Integers, Sequences

CONSTANTS
    Bytes,          \* the values of a byte that is not NUL
    Nul, Junk,      \* a cleared byte, an uninitialised one
    DefaultSize,    \* CONFIG_DEFAULT_BUFFER_SIZE
    MaxAdd,         \* bound: the longest addition
    MaxSize         \* bound: the most a buffer holds

ASSUME NuguBufferAssumption ==
    /\ DefaultSize \in Nat \ {0} /\ MaxAdd \in Nat \ {0} /\ MaxSize \in Nat
    /\ Nul \notin Bytes /\ Junk \notin Bytes /\ Nul # Junk

VARIABLES
    alloc,      \* alloc_size
    index,      \* index
    data,       \* the memory: a function on 0..alloc - 1
    content,    \* history: what was added and not taken out again
    popped      \* what nugu_buffer_pop() returned last

bufferVars == <<alloc, index, data, content, popped>>

Memory == Bytes \cup {Nul, Junk}

\* nugu_buffer_new()
BufferInit ==
    /\ alloc = DefaultSize /\ index = 0
    /\ data = [i \in 0..(DefaultSize - 1) |-> Nul]
    /\ content = <<>> /\ popped = <<>>

----------------------------------------------------------------------------

\* Faulty NewSize: doubles, whatever is needed.
NewSizeDoubles(needed) == alloc + alloc

\* _buffer_resize()
NewSize(needed) == alloc + (IF alloc < needed THEN needed * 2 ELSE alloc)

\* nugu_buffer_add()
Add(d) ==
    /\ Len(d) > 0 /\ index + Len(d) <= MaxSize
    /\ alloc' = IF alloc - index < Len(d) THEN NewSize(Len(d)) ELSE alloc
    /\ data' = [i \in 0..(alloc' - 1) |->
                    IF index <= i /\ i < index + Len(d) THEN d[i - index + 1]
                    ELSE IF i < alloc THEN data[i] ELSE Junk]
    /\ index' = index + Len(d)
    /\ content' = content \o d
    /\ UNCHANGED popped

\* nugu_buffer_clear()
Clear ==
    /\ data' = [i \in 0..(alloc - 1) |-> Nul]
    /\ index' = 0 /\ content' = <<>>
    /\ UNCHANGED <<alloc, popped>>

\* nugu_buffer_clear_from()
ClearFrom(pos) ==
    /\ pos <= index
    /\ data' = [i \in 0..(alloc - 1) |-> IF i < pos THEN data[i] ELSE Nul]
    /\ index' = pos
    /\ content' = [i \in 1..pos |-> content[i]]
    /\ UNCHANGED <<alloc, popped>>

\* Faulty Shifted: what is left of the tail stays behind the data.
ShiftedDirty(size) ==
    [i \in 0..(alloc - 1) |-> IF i < index - size THEN data[i + size] ELSE data[i]]

\* nugu_buffer_shift_left(): the rest moves to the front, NULs fill up.
Shifted(size) ==
    [i \in 0..(alloc - 1) |-> IF size < index /\ i < index - size THEN data[i + size]
                              ELSE IF i < index \/ index <= size THEN Nul ELSE data[i]]

DropFront(size) ==
    /\ data' = Shifted(size)
    /\ index' = IF size < index THEN index - size ELSE 0
    /\ content' = [i \in 1..index' |-> content[i + size]]
    /\ UNCHANGED alloc

ShiftLeft(size) == DropFront(size) /\ UNCHANGED popped

PopSize(size) == IF size = 0 \/ size > index THEN index ELSE size

\* Faulty Pop: the copy has no NUL.
PopUnterminated(size) ==
    /\ DropFront(PopSize(size))
    /\ popped' = [i \in 1..PopSize(size) |-> data[i - 1]]

\* nugu_buffer_pop(): the first bytes, with a NUL
Pop(size) ==
    /\ DropFront(PopSize(size))
    /\ popped' = [i \in 1..(PopSize(size) + 1) |->
                    IF i <= PopSize(size) THEN data[i - 1] ELSE Nul]

BufferNext ==
    \/ \E n \in 1..MaxAdd : \E d \in [1..n -> Bytes] : Add(d)
    \/ Clear
    \/ \E n \in 0..MaxSize : ClearFrom(n) \/ ShiftLeft(n) \/ Pop(n)

BufferSpec == BufferInit /\ [][BufferNext]_bufferVars

----------------------------------------------------------------------------
(***************************************************************************)
(* Properties                                                              *)
(***************************************************************************)

BufferTypeOK ==
    /\ alloc \in Nat /\ index \in Nat
    /\ data \in [0..(alloc - 1) -> Memory]
    /\ content \in Seq(Bytes)

\* The data never runs over the allocation, however additions and removals
\* follow each other, and is what was added and not removed: nothing that
\* realloc() or a shift left behind is ever part of it.
HoldsContent ==
    /\ index <= alloc /\ Len(content) = index
    /\ \A i \in 1..index : data[i - 1] = content[i]

\* Whoever shortens the data can read the rest as a string: the multipart
\* parser cuts the four last bytes off a body that the JSON reader then takes
\* up to its NUL.  What nugu_buffer_pop() returns are the first bytes, in the
\* order they were added and ended by a NUL.
CutIsTerminated ==
    [][/\ index' < index => index' < alloc' /\ data'[index'] = Nul
       /\ popped' # popped =>
             /\ popped'[Len(popped')] = Nul
             /\ content = SubSeq(popped', 1, Len(popped') - 1) \o content']_bufferVars

\* "g_assert_cmpstr(nugu_buffer_peek(buf), ==, ...)": the data can be read as a
\* string at any time.
PeekIsString == index < alloc /\ data[index] = Nul

============================================================================
