--------------------------- MODULE HttpExchange ---------------------------
(***************************************************************************)
(* One request through the dispatcher td7: the thread Action of            *)
(* AbstractBlockingConnector.java with DefaultSyncTransmitter.java, between *)
(* a client and the instance that is chosen.  Both send their bytes in     *)
(* pieces, and may stop or break the connection at any point; the thread   *)
(* parses what it has read, forwards the request and passes the response   *)
(* back.  Every connection has a thread, a parser and a connection to an   *)
(* instance of its own, so the threads do not meet here; the table they    *)
(* choose the instance from is CattleManager.                              *)
(***************************************************************************)
EXTENDS HttpParser, FiniteSetsExt

CONSTANTS
    Exchanges,   \* what a client may send on a connection, and an instance answer to it
    BufferSize,  \* the capacity of a buffer
    ChunkSize,   \* rows that begin a chunk other than the last: text -> size
    HeadMethod   \* start lines of requests whose responses have no body

ASSUME HttpExchangeAssumption ==
    /\ Exchanges \subseteq Seq(Byte) \X Seq(Byte)
    /\ BufferSize \in Nat \ {0}
    /\ ChunkSize \in [DOMAIN ChunkSize -> Nat \ {0}]

Code == {"404", "408", "500", "503"}

RepliesTo(request) == {e[2] : e \in {x \in Exchanges : x[1] = request}}

VARIABLES
    client,     \* the connection from the client
    server,     \* the connection to the instance
    pc,         \* what the thread does
    parser,     \* the parser of the message it reads
    body,       \* bodyBuffers: which of the bytes read writing will find there
    forwarded,  \* the request as the instance received it
    answer      \* what the client received

vars == <<client, server, pc, parser, body, forwarded, answer>>

-----------------------------------------------------------------------------
(* The two connections. *)

\* sent: bytes the peer has sent; read: those in buffers; first: where the last
\* buffer begins; parsed: those the parser has taken.
Connection == [bytes : Seq(Byte), sent : Nat, end : {"open", "closed", "reset"},
               read : Nat, first : Nat, parsed : Nat]

Opened(bytes) == [bytes |-> bytes, sent |-> 0, end |-> "open", read |-> 0,
                  first |-> 1, parsed |-> 0]

SentNext(s) ==
    {n \in (s.sent + 1) .. Len(s.bytes) : n - s.read <= BufferSize}

\* The peer sends some more bytes, closes its side, or breaks the connection.
\* Bytes sent ahead of what a buffer holds would only be seen by a later read.
Peer(s, sends) ==
    IF s.end # "open" THEN {}
    ELSE {[s EXCEPT !.sent = n] : n \in IF sends THEN SentNext(s) ELSE {}}
            \cup {[s EXCEPT !.end = e] : e \in {"closed", "reset"}}

\* A read fills a new buffer with some of the bytes that are there.
Reads(s) ==
    {[s EXCEPT !.read = n, !.first = s.read + 1] : n \in (s.read + 1) .. s.sent}

Parsed(s) == [s EXCEPT !.parsed = @ + 1]

NextByte(s) == s.bytes[s.parsed + 1]

AtEnd(s)  == s.read = s.sent /\ s.end = "closed"
Broken(s) == s.end = "reset"

-----------------------------------------------------------------------------
(* The thread. *)

\* The thread writes what it has and ends; the client may be gone.
Answers(bytes) ==
    /\ pc' = "done"
    /\ answer' \in {bytes} \cup (IF Broken(client) THEN {<<>>} ELSE {})

Fails(code) == Answers(<<code>>)

\* An IOException is only logged.
Drops == pc' = "done" /\ UNCHANGED answer

\* read: the time-out is looked at when some bytes have come.  Its handling of a
\* request that was begun ends in a null pointer (AbstractConnector.java:64).
ReadRequest ==
    /\ pc = "reading"
    /\ client' \in Reads(client)
    /\ \/ pc' = "parsing" /\ UNCHANGED answer
       \/ Fails(IF client.parsed = 0 THEN "408" ELSE "500")
    /\ UNCHANGED <<server, parser, body, forwarded>>

\* Slip: the buffer was not flipped and reaches to its capacity.
AppendUnflipped(s) == body \cup (s.parsed + 1) .. (s.first + BufferSize - 1)

\* bodyBuffers get the part of a buffer that belongs to the body.  Of the buffer
\* the head ends in that is a slice; any later buffer is put in as it is, and the
\* loop of parse goes on moving its position (AbstractHttpParser.java:323).
WholeBuffer(s, p) == p.bodyLength >= s.parsed + 1 - s.first

AppendSlice(s) == body \cup (s.parsed + 1) .. s.read

AppendBody(s, p) ==
    AppendSlice(s) \ (IF WholeBuffer(s, p) THEN {s.parsed + 1} ELSE {})

\* parse, one turn of its loop.
ParseRequest ==
    /\ pc = "parsing"
    /\ parser' = TakeByte(parser, NextByte(client))
    /\ body' = IF parser.headParsed THEN AppendBody(client, parser) ELSE body
    /\ client' = Parsed(client)
    /\ pc' = IF parser'.finished                  THEN "choosing"
             ELSE IF client'.parsed < client.read THEN "parsing" ELSE "reading"
    /\ UNCHANGED <<server, forwarded, answer>>

\* Slip: the end of the stream counts only when nothing has come before it.
RequestEndsEmpty ==
    /\ pc = "reading" /\ AtEnd(client) /\ client.parsed = 0
    /\ Fails("500")
    /\ UNCHANGED <<client, server, parser, body, forwarded>>

\* The end of the stream.  parser.end() fails when there was nothing to parse;
\* otherwise the request goes on, as far as it came.
RequestEnds ==
    /\ pc = "reading" /\ AtEnd(client)
    /\ IF client.parsed = 0 THEN Fails("500") ELSE pc' = "choosing" /\ UNCHANGED answer
    /\ UNCHANGED <<client, server, parser, body, forwarded>>

ClientBroken ==
    /\ pc = "reading" /\ Broken(client)
    /\ Drops
    /\ UNCHANGED <<client, server, parser, body, forwarded>>

\* select, and the connection to the instance it returns.  When that fails, open
\* only says so, and send ends in a null pointer.
Choose ==
    /\ pc = "choosing"
    /\ \/ Fails("404") /\ UNCHANGED server
       \/ /\ parser.host
          /\ \/ \E code \in {"500", "503"} : Fails(code) /\ UNCHANGED server
             \/ /\ server' \in {Opened(r) : r \in RepliesTo(client.bytes)}
                /\ pc' = "sending" /\ UNCHANGED answer
    /\ UNCHANGED <<client, parser, body, forwarded>>

\* writeTo: the rows of the head, and what is left in the buffers of the body.
Send ==
    /\ pc = "sending"
    /\ forwarded' = [whole |-> parser.finished, body |-> body]
    /\ pc' = "receiving"
    /\ parser' = NewParser
    /\ UNCHANGED <<client, server, body, answer>>

ServerBroken ==
    /\ pc \in {"sending", "receiving"} /\ Broken(server)
    /\ Drops
    /\ UNCHANGED <<client, server, parser, body, forwarded>>

ReadResponse ==
    /\ pc = "receiving"
    /\ server' \in Reads(server)
    /\ \/ pc' = "parsing response" /\ UNCHANGED answer
       \/ Fails("408")
    /\ UNCHANGED <<client, parser, body, forwarded>>

ParseResponse ==
    /\ pc = "parsing response"
    /\ parser' = TakeByte(parser, NextByte(server))
    /\ server' = Parsed(server)
    /\ pc' = IF parser'.finished                  THEN "answering"
             ELSE IF server'.parsed < server.read THEN "parsing response"
             ELSE "receiving"
    /\ UNCHANGED <<client, body, forwarded, answer>>

\* Slip: a response that breaks off is only logged.
ResponseEndsSilently ==
    /\ pc = "receiving" /\ AtEnd(server)
    /\ Drops
    /\ UNCHANGED <<client, server, parser, body, forwarded>>

\* The instance closes before its response is over.  Without any byte of it that
\* is an error; otherwise the response has no originalBytes, which is one, too.
ResponseEnds ==
    /\ pc = "receiving" /\ AtEnd(server)
    /\ Fails("500")
    /\ UNCHANGED <<client, server, parser, body, forwarded>>

\* Slip: all reads go into one buffer, which holds the last of them.
RespondLastBuffer ==
    /\ pc = "answering"
    /\ Answers(SubSeq(server.bytes, server.first, server.read))
    /\ UNCHANGED <<client, server, parser, body, forwarded>>

\* writeToClient: the buffers of the response as they were read.
Respond ==
    /\ pc = "answering"
    /\ Answers(SubSeq(server.bytes, 1, server.read))
    /\ UNCHANGED <<client, server, parser, body, forwarded>>

-----------------------------------------------------------------------------
\* What is sent is seen by the next read, so it may as well be sent just before.
ClientMoves ==
    /\ pc # "done"
    /\ client' \in Peer(client, pc = "reading")
    /\ UNCHANGED <<server, pc, parser, body, forwarded, answer>>

ServerMoves ==
    /\ pc \in {"sending", "receiving", "answering"}
    /\ server' \in Peer(server, pc = "receiving")
    /\ UNCHANGED <<client, pc, parser, body, forwarded, answer>>

Init ==
    /\ client \in {Opened(e[1]) : e \in Exchanges}
    /\ server = Opened(<<>>)
    /\ pc = "reading"
    /\ parser = NewParser
    /\ body = {}
    /\ forwarded = [whole |-> FALSE, body |-> {}]
    /\ answer = <<>>

Thread ==
    \/ ReadRequest \/ ParseRequest \/ RequestEnds \/ ClientBroken
    \/ Choose \/ Send \/ ServerBroken
    \/ ReadResponse \/ ParseResponse \/ ResponseEnds \/ Respond

Next == Thread \/ ClientMoves \/ ServerMoves

Spec == Init /\ [][Next]_vars

\* The thread runs, and an instance sends its response to the end or goes away:
\* nothing in the dispatcher can end a read that waits.  Once it has sent it, it
\* need not close.
FairSpec ==
    Spec /\ WF_vars(Thread) /\ WF_vars(server.sent < Len(server.bytes) /\ ServerMoves)

-----------------------------------------------------------------------------
(* How long a message is, by the rules quoted above isMessageEnd
   (AbstractHttpParser.java:175-217), and where the parser departs from them. *)

RowEnds(s, k) == s[k] = "LF"

EmptyRowEnds(s, k) ==
    RowEnds(s, k) /\ \/ k > 1 /\ s[k - 1] = "LF"
                     \/ k > 2 /\ s[k - 1] = "CR" /\ s[k - 2] = "LF"

StartLine(s) == Min({k \in DOMAIN s : s[k] \notin {"CR", "LF"}})

HeadLength(s) ==
    LET start == StartLine(s)
    IN  Min({k \in DOMAIN s : k > start /\ EmptyRowEnds(s, k)})

HeadSays(s, rows) == \E k \in 1 .. HeadLength(s) : s[k] \in rows

Announced(s) ==
    LET said == {ContentLength[s[k]] : k \in {j \in 1 .. HeadLength(s) :
                                                 s[j] \in DOMAIN ContentLength}}
    IN  IF said = {} THEN 0 ELSE Max(said)

\* Where the chunks end of which the first begins at k: after the last one, of
\* size 0, and an empty row.
ChunksEnd(s) ==
    LET end[k \in 1 .. Len(s)] ==
            IF s[k] = "0" THEN k + 4 ELSE end[k + 3 + ChunkSize[s[k]] + 2]
    IN  end[HeadLength(s) + 1]

\* The rules in their order; the last one is for a message that announces nothing.
MessageLength(s, bodyForbidden, otherwise) ==
    IF bodyForbidden                              THEN HeadLength(s)
    ELSE IF HeadSays(s, Chunked)                  THEN ChunksEnd(s)
    ELSE IF HeadSays(s, DOMAIN ContentLength)     THEN HeadLength(s) + Announced(s)
    ELSE IF HeadSays(s, Multipart)
         THEN Min({k \in DOMAIN s : k > 2 /\ SubSeq(s, k - 2, k) = <<Delimiter, "CR", "LF">>})
    ELSE otherwise

\* "Clients can't close the connection to signal the end": such a request has no body.
RequestLength == MessageLength(client.bytes, FALSE, HeadLength(client.bytes))

NoBody(s) == s[StartLine(s)] \in Bodyless

ToHead == client.bytes[StartLine(client.bytes)] \in HeadMethod

\* Such a response ends where the instance closes the connection.
ResponseLength ==
    MessageLength(server.bytes, ToHead \/ NoBody(server.bytes), Len(server.bytes))

\* A row of a chunk that begins with 0 is followed by the last chunk, or by an
\* empty row: the parser misses the last chunk, or takes it for that
\* (AbstractHttpParser.java:246-267).
LooksLast(s) ==
    LET last == ChunksEnd(s) - 4
    IN  \E k \in HeadLength(s) + 1 .. last - 1 :
           /\ s[k] = "0" /\ RowEnds(s, k - 1)
           /\ \E e \in k .. last - 1 :
                 /\ \A j \in k .. e - 1 : ~RowEnds(s, j)
                 /\ IsLastChunkRow(SubSeq(s, k, e))
                 /\ e + 1 = last \/ EmptyRowEnds(s, e + 1) \/ EmptyRowEnds(s, e + 2)

\* The length of a multipart message is not looked at (line 272).
Misread(s) ==
    \/ HeadSays(s, Chunked) /\ LooksLast(s)
    \/ HeadSays(s, Multipart) /\ HeadSays(s, DOMAIN ContentLength)

\* The parser does not know which request a response is for, and ends one that
\* announces nothing with its head (lines 240, 272 and 293).
ResponseMisread ==
    LET s == server.bytes
    IN  /\ ~NoBody(s)
        /\ \/ Misread(s)
           \/ ToHead /\ (HeadSays(s, Chunked \cup Multipart) \/ Announced(s) # 0)
           \/ ~ToHead /\ ~HeadSays(s, Chunked \cup Multipart \cup DOMAIN ContentLength)

-----------------------------------------------------------------------------
(* Messages without chunks and parts.                                       *)

\* The head of s begins at start, after blank rows, and has the given number of rows
\* and then an empty one.
RowsOfHead(s, start, rows) ==
    /\ \A k \in 1 .. start - 1 : s[k] = "LF" \/ (s[k] = "CR" /\ s[k + 1] = "LF")
    /\ \A j \in 0 .. rows - 1 : /\ s[start + 3 * j] \notin {"CR", "LF"}
                               /\ s[start + 3 * j + 1] = "CR" /\ s[start + 3 * j + 2] = "LF"
    /\ s[start + 3 * rows] = "CR" /\ s[start + 3 * rows + 1] = "LF"

\* What its rows say: its status has no body, or all of them that announce a length
\* announce the same, none anything else, and the body is there.  The length is 0 when
\* nothing is announced.
SaysLength(s, start, rows, length) ==
    /\ \A j \in 0 .. rows - 1 : s[start + 3 * j] \notin Chunked \cup Multipart
    /\ s[start] \notin DOMAIN ContentLength
    /\ \A j \in 1 .. rows - 1 :
          s[start + 3 * j] \in DOMAIN ContentLength => ContentLength[s[start + 3 * j]] = length
    /\ \/ length = 0
       \/ \E j \in 1 .. rows - 1 : s[start + 3 * j] \in DOMAIN ContentLength
    /\ start + 3 * rows + 1 + length <= Len(s)

Framing(s, start, rows, length) ==
    /\ start + 3 * rows + 1 <= Len(s)
    /\ RowsOfHead(s, start, rows)
    /\ s[start] \in Bodyless \/ SaysLength(s, start, rows, length)

WithoutParts(s) ==
    \E start, rows \in 1 .. Len(s), length \in 0 .. Len(s) : Framing(s, start, rows, length)

\* A response that announces nothing is not framed by a length, but by closing.
FramedByLength(s) == WithoutParts(s) /\ (NoBody(s) \/ HeadSays(s, DOMAIN ContentLength))

-----------------------------------------------------------------------------
(* Properties. *)

TypeOK ==
    /\ client \in Connection /\ server \in Connection
    /\ pc \in {"reading", "parsing", "choosing", "sending", "receiving",
               "parsing response", "answering", "done"}
    /\ parser \in ParserState
    /\ body \subseteq 1 .. client.read
    /\ forwarded \in [whole : BOOLEAN, body : SUBSET (1 .. client.read)]
    /\ answer \in Seq(Byte) \cup {<<c>> : c \in Code}

\* The parser ends a message exactly where the rules put its end, however the
\* bytes were cut into buffers (AbstractHttpParser.java:233-297); except for the
\* messages that it reads otherwise.
EndsWhereFramed ==
    /\ pc \in {"reading", "parsing", "choosing", "sending"} /\ ~Misread(client.bytes) =>
          (parser.finished <=> client.parsed = RequestLength)
    /\ pc \in {"receiving", "parsing response", "answering"} /\ ~ResponseMisread =>
          (parser.finished <=> server.parsed = ResponseLength)

\* A client gets the response of its instance whole, from its first byte on, or
\* an error of the dispatcher's own: never the beginning of a response that broke
\* off (AbstractConnector.java:75-91, DefaultSyncTransmitter.java:60-91).  Of a
\* response that is misread it may get the beginning only; what answers HEAD is
\* misread as longer than it is.
AnswerIsWhole ==
    \/ answer = <<>>
    \/ \E code \in Code : answer = <<code>>
    \/ /\ Len(answer) >= ResponseLength
       /\ answer = SubSeq(server.bytes, 1, Len(answer))
    \/ ResponseMisread /\ ~ToHead

\* A thread that ends leaves its client without an answer only when a connection
\* broke (AbstractBlockingConnector.java:84-91).
SilentOnlyWhenBroken ==
    pc = "done" /\ answer = <<>> => Broken(client) \/ Broken(server)

\* Once its request is there, or its side of the connection is over, a client does
\* not keep the thread: the exchange ends (AbstractBlockingConnector.java:135).  The
\* end of a misread message may not be found while the sender keeps the connection.
ExchangeEnds ==
    \/ client.sent >= RequestLength /\ ~Misread(client.bytes)
    \/ client.end # "open"
    ~> \/ pc = "done"
       \/ /\ pc = "receiving" /\ server.sent = Len(server.bytes) /\ server.end = "open"
          /\ ResponseMisread

\* The instance gets the whole body of a request that was read whole
\* (AbstractBlockingConnector.java:76, AbstractTransmitter.java:73).
BodyIsForwarded ==
    forwarded.whole /\ ~Misread(client.bytes) =>
        (HeadLength(client.bytes) + 1) .. RequestLength \subseteq forwarded.body
=============================================================================
