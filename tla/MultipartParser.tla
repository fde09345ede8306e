--------------------------- MODULE MultipartParser ---------------------------
(***************************************************************************)
(* The directive stream is a multipart body that libcurl hands over in     *)
(* chunks of any size (_on_body() of v1_directives.cc).  The parser        *)
(* (multipart_parser.c) goes through it byte by byte, and keeps its step   *)
(* between the chunks; the headers and the bodies it finds are handed to   *)
(* on_parsing_header() and _on_parsing_body().                             *)
(*                                                                         *)
(* A byte is CR, LF, "-", a byte of the boundary, another body byte, or a  *)
(* header field: a field and its value are one byte here.                  *)
(***************************************************************************)
EXTENDS Integers, Sequences, SequencesExt

CONSTANTS
    Boundary,   \* the boundary of the Content-Type header, a sequence
    Streams,    \* what the server sends: sequences of [header, body] records
    Preambles,  \* what may come before the first boundary
    Cuts        \* where a chunk may end: "outside" a boundary, "inside"

MultipartParserAssumption == Boundary # <<>> /\ Cuts \subseteq {"outside", "inside"}

VARIABLES
    parts,      \* the parts of the stream
    stream,     \* the bytes of the stream
    pos,        \* how many of them are parsed
    parser,     \* step, header, body
    bpos,       \* b_pos, local to one call of multipart_parser_parse()
    dir,        \* the V1Directives: ctype, parent, is_end
    got,        \* the bodies handed on, with what dir said of them
    mismatch    \* where "boundary mismatch !" was logged

vars == <<parts, stream, pos, parser, bpos, dir, got, mismatch>>

CRLF == <<"CR", "LF">>
Hyphens == <<"-", "-">>

\* One part as the server sends it, and the end of the stream
PartBytes(p) ==
    Hyphens \o Boundary \o CRLF
        \o FlattenSeq([i \in 1..Len(p.header) |-> <<p.header[i]>> \o CRLF]) \o CRLF
        \o p.body \o CRLF \o CRLF

Sent(ps) ==
    FlattenSeq([i \in 1..Len(ps) |-> PartBytes(ps[i])]) \o Hyphens \o Boundary \o Hyphens \o CRLF

\* multipart_parser_new(), v1_directives_establish()
Init ==
    /\ parts \in Streams
    /\ \E pre \in Preambles : stream = pre \o Sent(parts)
    /\ pos = 0 /\ bpos = 1 /\ got = <<>> /\ mismatch = {}
    /\ parser = [step |-> "READY", header |-> <<>>, body |-> <<>>]
    /\ dir = [ctype |-> "unknown", parent |-> "none", is_end |-> FALSE]

Byte == stream[pos + 1]

\* One turn of the loop in step s
In(s) == parser.step = s /\ pos < Len(stream) /\ pos' = pos + 1

Goto(s) == parser' = [parser EXCEPT !.step = s]
AddHeader(s) == parser' = [parser EXCEPT !.header = Append(@, Byte), !.step = s]
AddBody(s) == parser' = [parser EXCEPT !.body = Append(@, Byte), !.step = s]

Quiet == UNCHANGED <<parts, stream, dir, got, mismatch>>

\* A step that wants one byte and starts over without it
Wants(from, c, to) ==
    /\ In(from)
    /\ Goto(IF Byte = c THEN to ELSE "READY")
    /\ UNCHANGED bpos /\ Quiet

----------------------------------------------------------------------------
(***************************************************************************)
(* The boundary line                                                       *)
(***************************************************************************)

Ready ==
    /\ In("READY")
    /\ Goto(IF Byte = "-" THEN "START_HYPHEN" ELSE "READY")
    /\ UNCHANGED bpos /\ Quiet

StartHyphen ==
    /\ In("START_HYPHEN")
    /\ Goto(IF Byte = "-" THEN "CHECK_BOUNDARY" ELSE "READY")
    /\ bpos' = IF Byte = "-" THEN 1 ELSE bpos
    /\ Quiet

CheckBoundary ==
    /\ In("CHECK_BOUNDARY")
    /\ \/ /\ Byte # Boundary[bpos]
          /\ Goto("READY")
          /\ mismatch' = mismatch \cup {pos}
          /\ UNCHANGED bpos
       \/ /\ Byte = Boundary[bpos] /\ bpos < Len(Boundary)
          /\ bpos' = bpos + 1
          /\ UNCHANGED <<parser, mismatch>>
       \/ /\ Byte = Boundary[bpos] /\ bpos = Len(Boundary)
          /\ Goto("END_BOUNDARY")
          /\ UNCHANGED <<bpos, mismatch>>
    /\ UNCHANGED <<parts, stream, dir, got>>

EndBoundary ==
    /\ In("END_BOUNDARY")
    /\ Goto(CASE Byte = "CR" -> "END_CR" [] Byte = "-" -> "END_HYPHEN"
              [] OTHER -> "END_BOUNDARY")
    /\ UNCHANGED bpos /\ Quiet

EndLine ==
    \/ Wants("END_CR", "LF", "CONTENT_START")
    \/ Wants("END_HYPHEN", "-", "END_HYPHEN2")
    \/ Wants("END_HYPHEN2", "CR", "END_HYPHEN2_CR")
    \/ Wants("END_HYPHEN2_CR", "LF", "FINISH")

----------------------------------------------------------------------------
(***************************************************************************)
(* The header                                                              *)
(***************************************************************************)

ContentStart ==
    /\ In("CONTENT_START")
    /\ IF Byte # "CR" THEN AddHeader("HEADER") ELSE Goto("CONTENT_EMPTY_CR")
    /\ UNCHANGED bpos /\ Quiet

Header ==
    /\ \/ In("HEADER") /\ AddHeader(IF Byte = "CR" THEN "HEADER_CR" ELSE "HEADER")
       \/ In("HEADER_CR") /\ AddHeader(IF Byte = "LF" THEN "CONTENT_START" ELSE "HEADER")
    /\ UNCHANGED bpos /\ Quiet

\* on_parsing_header(): fields that are not there keep their last value.
OnParsingHeader(h) ==
    LET Has(f) == f \in {h[i] : i \in 1..Len(h)}
    IN  [dir EXCEPT !.ctype = CASE Has("json") -> "json" [] Has("opus") -> "opus"
                                [] Has("text") -> "unknown" [] OTHER -> @,
                    !.is_end = IF Has("end") THEN TRUE ELSE IF Has("more") THEN FALSE ELSE @,
                    !.parent = CASE Has("m1") -> "m1" [] Has("m2") -> "m2" [] OTHER -> @]

\* The empty line: whatever follows its CR, the header is complete.
ContentEmptyCr ==
    /\ In("CONTENT_EMPTY_CR")
    /\ dir' = OnParsingHeader(IF Byte # "LF" THEN Append(parser.header, Byte) ELSE parser.header)
    /\ parser' = [parser EXCEPT !.header = <<>>, !.step = "BODY"]
    /\ UNCHANGED <<parts, stream, bpos, got, mismatch>>

----------------------------------------------------------------------------
(***************************************************************************)
(* The body                                                                *)
(***************************************************************************)

Body ==
    /\ In("BODY")
    /\ AddBody(IF Byte = "CR" THEN "BODY_CR" ELSE "BODY")
    /\ UNCHANGED bpos /\ Quiet

\* Faulty BodyCr: a CR that follows a CR starts no line end.
BodyCrOnce ==
    /\ In("BODY_CR")
    /\ AddBody(IF Byte = "LF" THEN "BODY_ENDLINE" ELSE "BODY")
    /\ UNCHANGED bpos /\ Quiet

BodyCr ==
    /\ In("BODY_CR")
    /\ AddBody(CASE Byte = "LF" -> "BODY_ENDLINE" [] Byte = "CR" -> "BODY_CR"
                 [] OTHER -> "BODY")
    /\ UNCHANGED bpos /\ Quiet

BodyEndline ==
    /\ In("BODY_ENDLINE")
    /\ AddBody(IF Byte = "CR" THEN "BODY_ENDLINE_CR" ELSE "BODY")
    /\ UNCHANGED bpos /\ Quiet

\* _on_parsing_body(): JSON and opus bodies are handed on, others are not.
OnParsingBody(b) ==
    IF dir.ctype = "unknown" THEN got ELSE Append(got, dir @@ [body |-> b])

\* The empty line after the body: the body without its last four bytes
BodyEndlineCr ==
    /\ In("BODY_ENDLINE_CR")
    /\ \/ /\ Byte # "LF"
          /\ AddBody("BODY")
          /\ UNCHANGED got
       \/ /\ Byte = "LF"
          /\ parser' = [parser EXCEPT !.step = "READY", !.body = <<>>]
          /\ got' = OnParsingBody(SubSeq(parser.body, 1, Len(parser.body) - 3))
    /\ UNCHANGED <<parts, stream, bpos, dir, mismatch>>

----------------------------------------------------------------------------

\* A chunk ends and multipart_parser_parse() is called again: b_pos starts at
\* the boundary's first byte.
NextChunk ==
    /\ pos < Len(stream)
    /\ (IF parser.step = "CHECK_BOUNDARY" /\ bpos > 1 THEN "inside" ELSE "outside") \in Cuts
    /\ bpos' = 1
    /\ UNCHANGED <<parts, stream, pos, parser, dir, got, mismatch>>

Parsed == pos = Len(stream) /\ UNCHANGED vars

Next ==
    \/ Ready \/ StartHyphen \/ CheckBoundary \/ EndBoundary \/ EndLine
    \/ ContentStart \/ Header \/ ContentEmptyCr
    \/ Body \/ BodyCr \/ BodyEndline \/ BodyEndlineCr
    \/ NextChunk \/ Parsed

Spec == Init /\ [][Next]_vars

----------------------------------------------------------------------------
(***************************************************************************)
(* Properties                                                              *)
(***************************************************************************)

TypeOK ==
    /\ pos \in 0..Len(stream) /\ bpos \in 1..Len(Boundary)
    /\ parser.step \in {"READY", "BODY_ENDLINE_CR"} => parser.header = <<>>
    /\ parser.step \in {"READY", "HEADER", "FINISH"} => parser.body = <<>>
    /\ dir.is_end \in BOOLEAN

Fields(h) == {h[i] : i \in 1..Len(h)}

\* What part p of the stream means on its own
Meaning(p) ==
    LET f == Fields(p.header)
    IN  [ctype |-> IF "json" \in f THEN "json" ELSE "opus",
         is_end |-> "end" \in f,
         parent |-> IF "m1" \in f THEN "m1" ELSE IF "m2" \in f THEN "m2" ELSE "none",
         body |-> p.body]

Directives(ps) ==
    LET known == SelectSeq(ps, LAMBDA p : "text" \notin Fields(p.header))
    IN  [i \in 1..Len(known) |-> Meaning(known[i])]

\* However the stream is cut into chunks, the parts come out as they were
\* sent: in order, none lost, each with its own body and with the type, the
\* parent and the end mark of its own header, and nothing else comes out.
PartsDelivered ==
    /\ \A i \in 1..Len(got) : /\ i <= Len(Directives(parts))
                              /\ got[i].body = Directives(parts)[i].body
                              /\ got[i].ctype = Directives(parts)[i].ctype
                              /\ got[i].ctype = "opus" => got[i] = Directives(parts)[i]
    /\ pos = Len(stream) => Len(got) = Len(Directives(parts))

\* "Remove trailing (body)CRLF+(emptyline)CRLF": what is removed from the end
\* of a body is what the server put there, so a body comes out whole.
BodiesWhole ==
    \A i \in 1..Len(got) : i <= Len(Directives(parts)) /\ got[i].body = Directives(parts)[i].body

\* "boundary mismatch !" is logged only where the stream has "--" and something
\* else than the boundary.
MismatchIsReal ==
    \A q \in mismatch :
        ~ \E i \in 1..q : /\ i + 1 <= q
                          /\ i + 1 + Len(Boundary) <= Len(stream)
                          /\ q + 1 \in (i + 2)..(i + 1 + Len(Boundary))
                          /\ SubSeq(stream, i, i + 1 + Len(Boundary)) = Hyphens \o Boundary

============================================================================
