--------------------------- MODULE MCVoiceSession ---------------------------
(***************************************************************************)
(* VoiceSession with the foci of this repository.                          *)
(***************************************************************************)
EXTENDS VoiceSession

MCType == [f \in Focus |-> Priority[f]]

MCRejects == PolicyRejects(Focus, Resource)

=============================================================================
