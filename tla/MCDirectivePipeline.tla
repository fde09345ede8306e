------------------------ MODULE MCDirectivePipeline ------------------------
(***************************************************************************)
(* DirectivePipeline on small streams; a directive is named for its kind.  *)
(***************************************************************************)
EXTENDS DirectivePipeline

KindOf == [speak1 |-> "Speak", speak2 |-> "Speak", bad |-> "BadSpeak",
           stop |-> "Stop", other |-> "Other", unknown |-> "Unknown"]

MCKind == [d \in Dirs |-> KindOf[d]]

============================================================================
