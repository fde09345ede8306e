----------------------------- MODULE OpusDecode -----------------------------
(***************************************************************************)
(* The decoding of speech (plugins/opus.c, src/nugu_decoder.c): the data   *)
(* of a Speak directive are packets [length, final range, payload], packed *)
(* one behind the other.  Attachments are buffered by the directive        *)
(* (src/nugu_directive.c) until the TTS agent reads them, however many     *)
(* there are by then, so the decoder sees packets in groups that depend on *)
(* when the speaker was free.                                              *)
(*                                                                         *)
(* A word is 4 bytes; lengths are in words.  The length a packet states    *)
(* may be wrong: then what follows it is read as something else.  What     *)
(* libopus makes of a payload is external: its first word stands for the   *)
(* final range the decoder computes, or says that it is corrupted.         *)
(***************************************************************************)
EXTENDS Naturals, Sequences, SequencesExt

CONSTANTS
    MaxPayload,  \* the longest payload (160 bytes)
    Sink,        \* TRUE: the decoder was created with a PCM sink
    Plays,       \* TRUE: nugu_decoder_play() is used as well
    MaxPackets   \* bound: packets of the directive

OpusAssumption ==
    MaxPayload \in Nat \ {0} /\ Sink \in BOOLEAN /\ Plays \in BOOLEAN /\ MaxPackets \in Nat

Corrupted == MaxPayload + 1
Words == 1 .. Corrupted
Payloads == UNION {[1 .. n -> Words] : n \in 1 .. MaxPayload}

\* opus_decode() and OPUS_GET_FINAL_RANGE: external
OpusDecodes(payload) == payload[1] # Corrupted
FinalRange(payload) == payload[1]

\* A packet is good, damaged (its range differs), corrupted or empty, or the
\* length it states is not that of its payload.
Packets ==
    [len : 0 .. Corrupted, range : Words, payload : Payloads]
        \cup {[len |-> 0, range |-> 0, payload |-> <<>>]}
Wrong(p) == p.len # Len(p.payload)
Encoded(p) == <<p.len, p.range>> \o p.payload
Bytes(ps) == FlattenSeq([i \in 1 .. Len(ps) |-> Encoded(ps[i])])

VARIABLES
    ndir,     \* the packets the directive buffers
    buf,      \* the decoder's buffer: samples
    pcm,      \* the samples that reached the device
    own,      \* history: what the last nugu_decoder_decode() should return
    out,      \* history: and what it returned
    heard,    \* history: the groups of packets that were read, and what was made of them
    packets

vars == <<ndir, buf, pcm, own, out, heard, packets>>

Init ==
    /\ ndir = <<>> /\ buf = <<>> /\ pcm = <<>> /\ own = <<>> /\ out = <<>> /\ heard = <<>>
    /\ packets = 0

\* Faulty DecoderDecode: a packet that is skipped is not stepped over.
DecoderDecodeInside(data, stray) ==
    LET from[i \in 1 .. Len(data) + 1] ==
            IF i > Len(data) THEN <<>>
            ELSE IF data[i] = 0 \/ data[i] > MaxPayload THEN from[i + 1]
            ELSE IF i + 1 + data[i] > Len(data) THEN stray
            ELSE LET payload == SubSeq(data, i + 2, i + 1 + data[i])
                 IN  IF ~OpusDecodes(payload) THEN <<>>
                     ELSE IF FinalRange(payload) # data[i + 1] THEN from[i + 2]
                     ELSE payload \o from[i + 2 + data[i]]
    IN  from[1]

\* _decoder_decode() from word i on: a length out of range is stepped over, and
\* only that; a payload that libopus refuses ends the loop; one with another
\* final range is dropped.  A length that reaches behind the data is not noticed:
\* the payload is what lies there (stray), and the loop ends.
DecoderDecode(data, stray) ==
    LET from[i \in 1 .. Len(data) + 1] ==
            IF i > Len(data) THEN <<>>
            ELSE IF data[i] = 0 \/ data[i] > MaxPayload THEN from[i + 1]
            ELSE IF i + 1 + data[i] > Len(data) THEN stray
            ELSE LET payload == SubSeq(data, i + 2, i + 1 + data[i])
                     next == from[i + 2 + data[i]]
                 IN  IF ~OpusDecodes(payload) THEN <<>>
                     ELSE IF FinalRange(payload) # data[i + 1] THEN next
                     ELSE payload \o next
    IN  from[1]

\* Memory behind the data is refused or dropped, or it is played.
Strays == {<<>>, <<0>>}

----------------------------------------------------------------------------
\* An attachment arrives: nugu_directive_add_data()
AddData(p) ==
    /\ packets < MaxPackets
    /\ packets' = packets + 1
    /\ ndir' = Append(ndir, p)
    /\ UNCHANGED <<buf, pcm, own, out, heard>>

\* What a group of packets was made into
Group(samples) == [packets |-> ndir, samples |-> samples]

\* TTSAgent::getAttachmentData(): nugu_directive_get_data(), then
\* nugu_decoder_decode(), then nugu_pcm_push_data()
GetAttachmentData(stray) ==
    /\ ndir # <<>>
    /\ ndir' = <<>>
    /\ own' = DecoderDecode(Bytes(ndir), stray)
    /\ out' = buf \o own'
    /\ buf' = <<>>
    /\ pcm' = pcm \o out'
    /\ heard' = Append(heard, Group(own'))
    /\ UNCHANGED packets

\* nugu_decoder_play(): without a sink the samples stay in the buffer.
DecoderPlay(stray) ==
    /\ Plays /\ ndir # <<>>
    /\ ndir' = <<>>
    /\ LET made == DecoderDecode(Bytes(ndir), stray)
       IN  /\ IF Sink THEN buf' = <<>> /\ pcm' = pcm \o buf \o made
              ELSE buf' = buf \o made /\ UNCHANGED pcm
           /\ heard' = Append(heard, Group(made))
    /\ UNCHANGED <<own, out, packets>>

Next ==
    \/ \E p \in Packets : AddData(p)
    \/ \E stray \in Strays : GetAttachmentData(stray) \/ DecoderPlay(stray)

Spec == Init /\ [][Next]_vars

----------------------------------------------------------------------------
\* The payloads of a group that can be played: those with the right range, up
\* to the first that is corrupted.
Good(p) == p.payload # <<>> /\ OpusDecodes(p.payload) /\ p.range = FinalRange(p.payload)
Before(ps) ==
    {i \in 1 .. Len(ps) : \A j \in 1 .. i : ps[j].payload # <<>> => OpusDecodes(ps[j].payload)}
Playable(ps) ==
    FlattenSeq([i \in 1 .. Len(ps) |->
                  IF Good(ps[i]) /\ i \in Before(ps) THEN ps[i].payload ELSE <<>>])

\* The packets of a group in front of the first with a wrong length
Sound(ps) ==
    SubSeq(ps, 1, SelectInSeq(ps, Wrong) - 1)
Unharmed(ps) == SelectInSeq(ps, Wrong) = 0

(***************************************************************************)
(* What reaches the device is what was made of the groups, in order, from  *)
(* the first sample to the last. A group whose lengths are right gives     *)
(* exactly its playable packets, each once: neither an empty nor a damaged *)
(* packet makes the decoder lose its place. Behind a wrong length it may,  *)
(* but what comes in front of it in the group, and every other group, is   *)
(* played as it should be (_decoder_decode(), nugu_decoder_decode()).      *)
(***************************************************************************)
PlaysPackets ==
    /\ pcm \o buf = FlattenSeq([i \in 1 .. Len(heard) |-> heard[i].samples])
    /\ \A i \in 1 .. Len(heard) :
          IF Unharmed(heard[i].packets)
          THEN heard[i].samples = Playable(heard[i].packets)
          ELSE IsPrefix(Playable(Sound(heard[i].packets)), heard[i].samples)

(***************************************************************************)
(* _decoder_decode() says "invalid payload length" and goes on: a packet   *)
(* whose length is wrong costs that packet. Not so: only its length is     *)
(* skipped, its payload is read as lengths, and one that is in range but   *)
(* wrong is not noticed.                                                   *)
(***************************************************************************)
SkipsWrong ==
    \A i \in 1 .. Len(heard) :
        heard[i].samples = Playable(SelectSeq(heard[i].packets, LAMBDA p : ~Wrong(p)))

(***************************************************************************)
(* nugu_decoder.h, nugu_decoder_decode(): "Decode the encoded data":       *)
(* what is returned was made of the data that were passed.                 *)
(***************************************************************************)
DecodesOwn == out = own

=============================================================================
