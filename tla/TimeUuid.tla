------------------------------ MODULE TimeUuid ------------------------------
(***************************************************************************)
(* The time based UUIDs that identify dialogs (src/nugu_uuid.c): four      *)
(* bytes of time in tenths of a second since 2019, a phase byte, then      *)
(* random bytes and the device, all written in base 16; and the dump that  *)
(* reads them back.                                                        *)
(*                                                                         *)
(* The base is a parameter: with 12 instead of 16 every value of the four  *)
(* bytes fits TLC's integers and both kinds of digits still occur.  The    *)
(* random bytes and the device are left out.                               *)
(***************************************************************************)
EXTENDS Integers, Sequences

CONSTANTS
    Base,    \* 16
    Secs,    \* seconds since BASE_TIMESTAMP the clock may show
    Millis,  \* tv_nsec, in half milliseconds
    Phases   \* values of NUGU_CONFIG_KEY_UUID_PHASE

UuidAssumption ==
    Base \in 11 .. 36 /\ Secs \subseteq Nat /\ Millis \subseteq 0 .. 1999 /\ Phases \subseteq Nat

Byte == Base * Base
NotSet == -1

VARIABLES
    clock,   \* CLOCK_REALTIME: seconds and half milliseconds
    config,  \* the configured phase
    phase,   \* _phase
    uuid,    \* the last UUID: its first ten characters
    made,    \* history: the clock and the phase when it was made
    dumped   \* history: seconds and phase as nugu_dump_timeuuid() shows them

vars == <<clock, config, phase, uuid, made, dumped>>

Init ==
    /\ clock \in [sec : Secs, half : Millis]
    /\ config \in Phases \cup {NotSet}
    /\ phase = NotSet /\ uuid = <<>>
    /\ made = [sec |-> 0, half |-> 0, phase |-> 0]
    /\ dumped = [sec |-> 0, phase |-> 0]

\* Characters by their codes: '0' = 48, 'A' = 65, 'a' = 97
\* Faulty CharOf: the letters begin one late.
CharOfShifted(nibble) == IF nibble > 9 THEN 97 + (nibble - 9) ELSE 48 + nibble

CharOf(nibble) == IF nibble > 9 THEN 97 + (nibble - 10) ELSE 48 + nibble

NibbleOf(char) ==
    IF char >= 97 THEN char - 97 + 10 ELSE IF char >= 65 THEN char - 65 + 10 ELSE char - 48

\* _convert_base16()
ConvertBase16(bytes) ==
    [i \in 1 .. 2 * Len(bytes) |->
        LET b == bytes[(i + 1) \div 2] IN CharOf(IF i % 2 = 1 THEN b \div Base ELSE b % Base)]

\* _convert_bytes()
ConvertBytes(chars) ==
    [i \in 1 .. Len(chars) \div 2 |->
        NibbleOf(chars[2 * i - 1]) * Base + NibbleOf(chars[2 * i])]

\* round(tv_nsec / 1.0e6) / 100, in tenths of a second
Tenths(half) == ((half + 1) \div 2) \div 100

\* The four bytes of the time; the rest of time_t is cut off.
TimeBytes(t) ==
    << (t \div (Byte * Byte * Byte)) % Byte, (t \div (Byte * Byte)) % Byte,
       (t \div Byte) % Byte, t % Byte >>

----------------------------------------------------------------------------
\* nugu_uuid_generate_time()
GenerateTime ==
    /\ phase' = IF phase = NotSet THEN config ELSE phase
    /\ uuid' = ConvertBase16(Append(TimeBytes(clock.sec * 10 + Tenths(clock.half)), phase' % Byte))
    /\ made' = [sec |-> clock.sec, half |-> clock.half, phase |-> phase' % Byte]
    /\ UNCHANGED <<clock, config, dumped>>

\* buf[0] << 24 is an int: from half its range on the time is negative, and
\* the division by 10 rounds toward 0.
Signed(b) ==
    LET t == ((b[1] * Byte + b[2]) * Byte + b[3]) * Byte + b[4]
    IN  IF 2 * b[1] >= Byte THEN t - Byte * Byte * Byte * Byte ELSE t
Tenth(t) == IF t < 0 THEN -((-t) \div 10) ELSE t \div 10

\* nugu_dump_timeuuid()
DumpTimeuuid ==
    /\ uuid # <<>>
    /\ LET b == ConvertBytes(uuid)
       IN  dumped' = [sec |-> Tenth(Signed(b)), phase |-> b[5]]
    /\ uuid' = <<>>
    /\ UNCHANGED <<clock, config, phase, made>>

Elapse ==
    /\ clock' \in [sec : Secs, half : Millis]
    /\ uuid = <<>>
    /\ UNCHANGED <<config, phase, uuid, made, dumped>>

Next == GenerateTime \/ DumpTimeuuid \/ Elapse

Spec == Init /\ [][Next]_vars

----------------------------------------------------------------------------
(***************************************************************************)
(* nugu_uuid.h: nugu_dump_timeuuid() parses "the time based UUID": it      *)
(* shows the phase and the second the UUID was made in, or the next one in *)
(* the last half millisecond of a second, which rounds up.                 *)
(***************************************************************************)
ShowsTime ==
    uuid = <<>> =>
        /\ dumped.phase = made.phase
        /\ dumped.sec = made.sec + (IF made.half = 1999 THEN 1 ELSE 0)

=============================================================================
