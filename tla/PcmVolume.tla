----------------------------- MODULE PcmVolume -----------------------------
(***************************************************************************)
(* The volume in nugu_pcm_get_data(): every byte of the data is taken as a *)
(* char (signed, as on x86), multiplied by volume / 100 and truncated,     *)
(* whatever the format of the samples.  Bytes are kept modulo 2^8.  The    *)
(* volumes used are those a float represents exactly.                      *)
(***************************************************************************)
EXTENDS Integers, Sequences

CONSTANTS Width,        \* bytes per sample of the format
          Bytes,        \* the byte values that occur
          Volumes       \* the values given to nugu_pcm_set_volume()

PcmVolumeAssumption ==
    Width \in 1..2 /\ Bytes \subseteq 0..255 /\ Volumes \subseteq Int

VARIABLES volume, data, out     \* the device's volume; a sample; what is played

vars == <<volume, data, out>>

\* Faulty SetVolume: the value is taken as it is.
SetVolumeRaw(v) == v

\* nugu_pcm_set_volume(): the volume is kept between 0 and 100.
SetVolume(v) == IF v < 0 THEN 0 ELSE IF v > 100 THEN 100 ELSE v

Signed(b) == IF b >= 128 THEN b - 256 ELSE b

\* C's conversion of n / 100 to an integer: towards zero
Truncated(n) == IF n >= 0 THEN n \div 100 ELSE -((-n) \div 100)

\* One byte of nugu_pcm_get_data()
Scaled(b) == Truncated(Signed(b) * volume) % 256

Init ==
    /\ \E v \in Volumes : volume = SetVolume(v)
    /\ data \in [1..Width -> Bytes]
    /\ out = <<>>

GetData ==
    /\ out = <<>>
    /\ out' = [i \in 1..Width |-> Scaled(data[i])]
    /\ UNCHANGED <<volume, data>>

Played == out # <<>> /\ UNCHANGED vars

Next == GetData \/ Played

Spec == Init /\ [][Next]_vars

\* The value of a little-endian sample
Value(s) == IF Width = 1 THEN Signed(s[1]) ELSE 256 * Signed(s[2]) + s[1]

Abs(n) == IF n < 0 THEN -n ELSE n

\* "Set volume of pcm": a sample is never louder than it was recorded, and keeps
\* its sign.
NeverLouder ==
    out # <<>> => /\ Abs(Value(out)) <= Abs(Value(data))
                  /\ Value(out) * Value(data) >= 0

============================================================================
