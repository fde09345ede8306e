---------------------------- MODULE FocusPolicy ----------------------------
(***************************************************************************)
(* The listeners of this repository: the focus names, types and            *)
(* onStealRequest() answers of WakeupHandler ("kwd"), ASRAgent ("asr",     *)
(* "expect"), TTSAgent ("cap_tts") and AudioPlayerAgent ("cap_audio").     *)
(***************************************************************************)
EXTENDS Integers

\* The addFocus() calls: focus name to NuguFocusType.
Priority ==
    [kwd |-> 0, asr |-> 1, cap_tts |-> 3, expect |-> 4, cap_audio |-> 5]

\* WakeupHandler::onStealRequest(): "reject self steal".
KwdRefuses(target) == Priority[target] = Priority["kwd"]

\* ASRFocusListener::onStealRequest(): the microphone is not given away.
AsrRefuses(r) == r = "MIC"

\* TTSAgent::onStealRequest(): only speech recognition interrupts speech.
TtsRefuses(target) == Priority[target] # Priority["asr"]

\* self, on r, refuses to give way to target; ExpectFocusListener and
\* AudioPlayerAgent always give way.
RefusesSteal(self, r, target) ==
    \/ self = "kwd" /\ KwdRefuses(target)
    \/ self = "asr" /\ AsrRefuses(r)
    \/ self = "cap_tts" /\ TtsRefuses(target)

PolicyRejects(names, resources) ==
    {t \in names \X resources \X names : RefusesSteal(t[1], t[2], t[3])}

============================================================================
