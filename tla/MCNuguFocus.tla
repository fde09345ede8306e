---------------------------- MODULE MCNuguFocus ----------------------------
(***************************************************************************)
(* NuguFocus with the listeners of this repository.                        *)
(***************************************************************************)
EXTENDS NuguFocus, FocusPolicy

MCType == [f \in Focus |-> Priority[f]]

MCRejects == PolicyRejects(Focus, Resource)

============================================================================
