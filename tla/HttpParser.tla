---------------------------- MODULE HttpParser ----------------------------
(***************************************************************************)
(* The parser of one HTTP message: td7/impl/AbstractHttpParser.java with   *)
(* HttpRequestParser.java and HttpResponseParser.java.  It is fed one byte *)
(* after the other and keeps all it knows between the buffers it is given. *)
(* The text of a row of the head, a chunk size and a delimiter are one     *)
(* byte each: the parser looks at line ends, at a leading 0 and, for the   *)
(* head, at what a row says.                                               *)
(***************************************************************************)
EXTENDS Naturals, Sequences

CONSTANTS
    Byte,           \* "CR", "LF" and "0" among them
    ContentLength,  \* rows that announce a length: the text -> the number
    Chunked,        \* rows that announce a transfer encoding
    Multipart,      \* rows that announce a multipart body
    HostRow,        \* rows that name the host
    Bodyless,       \* status lines whose code is 1xx, 204 or 304
    Delimiter       \* the text of the row that closes a multipart body

ASSUME HttpParserAssumption ==
    /\ {"CR", "LF", "0"} \subseteq Byte
    /\ ContentLength \in [DOMAIN ContentLength -> Nat]
    /\ DOMAIN ContentLength \cup Chunked \cup Multipart \cup HostRow \cup Bodyless
          \cup {Delimiter} \subseteq Byte \ {"CR", "LF", "0"}

ParserState ==
    [rowContent : Seq(Byte), rowIndex : Nat, host : BOOLEAN, noBody : BOOLEAN,
     contentLength : Nat, isChunked : BOOLEAN, isByteRanges : BOOLEAN,
     headParsed : BOOLEAN, bodyLength : Nat, lastChunk : BOOLEAN,
     finished : BOOLEAN]

NewParser ==
    [rowContent |-> <<>>, rowIndex |-> 0, host |-> FALSE, noBody |-> FALSE,
     contentLength |-> 0, isChunked |-> FALSE, isByteRanges |-> FALSE,
     headParsed |-> FALSE, bodyLength |-> 0, lastChunk |-> FALSE,
     finished |-> FALSE]

-----------------------------------------------------------------------------
IsEmptyRow(row) == row = <<"LF">> \/ row = <<"CR", "LF">>

\* 1*("0") [ chunk-extension ] CRLF, as far as the parser looks.
IsLastChunkRow(row) ==
    /\ Len(row) > 2
    /\ row[1] = "0" /\ row[Len(row) - 1] = "CR" /\ row[Len(row)] = "LF"

\* Slip: the body is over one byte late.
BodyOverLate(p) == p.bodyLength > p.contentLength

BodyOver(p) == p.bodyLength >= p.contentLength

\* isMessageEnd, with the byte just read in the row.
IsMessageEnd(p) ==
    \/ p.noBody /\ IsEmptyRow(p.rowContent)
    \/ /\ p.headParsed
       /\ \/ p.isChunked /\ p.lastChunk /\ p.rowContent = <<"CR", "LF">>
          \/ ~p.isChunked /\ ~p.isByteRanges /\ BodyOver(p)
          \/ /\ ~p.isChunked /\ p.isByteRanges
             /\ p.rowContent = <<Delimiter, "CR", "LF">>

\* Its side effect: a row that may be the last chunk is noted, and forgotten
\* when the row after it turns out not to be empty.
NoteLastChunk(p) ==
    IF ~p.headParsed \/ ~p.isChunked THEN p
    ELSE [p EXCEPT !.lastChunk =
             IF @ THEN Len(p.rowContent) <= 2 ELSE IsLastChunkRow(p.rowContent)]

\* setStartLine and putHeader.
NoteRow(p) ==
    LET text == p.rowContent[1]
    IN  IF p.headParsed THEN p
        ELSE IF p.rowIndex = 0 THEN [p EXCEPT !.noBody = text \in Bodyless]
        ELSE [p EXCEPT
                 !.host          = @ \/ text \in HostRow,
                 !.contentLength = IF text \in DOMAIN ContentLength
                                   THEN ContentLength[text] ELSE @,
                 !.isChunked     = @ \/ text \in Chunked,
                 !.isByteRanges  = @ \/ text \in Multipart]

NextRow(p) == [p EXCEPT !.rowContent = <<>>, !.rowIndex = @ + 1]

\* The end of a row.  Empty rows before the start line do not count; the first
\* one after it ends the head, and with it a message that has no body.
EndRow(p) ==
    IF ~IsEmptyRow(p.rowContent) THEN NextRow(NoteRow(p))
    ELSE IF p.rowIndex = 0       THEN [p EXCEPT !.rowContent = <<>>]
    ELSE LET q == [p EXCEPT !.headParsed = TRUE]
         IN  IF IsMessageEnd(q) THEN [q EXCEPT !.finished = TRUE] ELSE NextRow(q)

\* One turn of the loop of parse.
TakeByte(p, b) ==
    LET q == [p EXCEPT !.rowContent = Append(@, b),
                       !.bodyLength = IF p.headParsed THEN @ + 1 ELSE @]
        r == NoteLastChunk(q)
    IN  IF IsMessageEnd(q) THEN [q EXCEPT !.finished = TRUE]
        ELSE IF b = "LF"   THEN EndRow(r) ELSE r
=============================================================================
