------------------------- MODULE HttpExchangeProofs -------------------------
(***************************************************************************)
(* Theorems about HttpExchange, for any requests and responses, cut into   *)
(* pieces of any size: the thread keeps its types, and it leaves a client  *)
(* without an answer only when a connection broke.                         *)
(*                                                                         *)
(* An answer could be empty when the thread passed on nothing, so the      *)
(* invariant must know that a response it passes on has been read: that    *)
(* what is parsed was read, what is read was sent, and what is sent is     *)
(* part of the message.                                                    *)
(*                                                                         *)
(* A message without chunks and parts ends where the rules put its end,    *)
(* if that is given by a length, and an answer is then a whole response:   *)
(* after each byte the parser is where the framing of the message has it   *)
(* (FramedInv), and the framing gives the length that the rules give.      *)
(***************************************************************************)
EXTENDS HttpExchange, TLAPS, SequenceTheorems

-----------------------------------------------------------------------------
(* The parser keeps its type. *)

\* What the parser goes through are states of a parser: the first,
LEMMA NewParserType == NewParser \in ParserState
BY HttpParserAssumption DEF NewParser, ParserState

\* Values that a new row and a new parser begin with.
LEMMA Values == <<>> \in Seq(Byte) /\ 0 \in Nat /\ TRUE \in BOOLEAN
OBVIOUS

\* Fields are replaced by values of their types.
LEMMA FieldsType ==
    ASSUME NEW p \in ParserState, NEW row \in Seq(Byte), NEW n \in Nat,
           NEW x \in BOOLEAN, NEW y \in BOOLEAN, NEW z \in BOOLEAN
    PROVE  /\ [p EXCEPT !.rowContent = row, !.bodyLength = n] \in ParserState
           /\ [p EXCEPT !.rowContent = row, !.rowIndex = n] \in ParserState
           /\ [p EXCEPT !.rowContent = row] \in ParserState
           /\ [p EXCEPT !.lastChunk = x] \in ParserState
           /\ [p EXCEPT !.finished = x] \in ParserState
           /\ [p EXCEPT !.headParsed = x] \in ParserState
           /\ [p EXCEPT !.noBody = x] \in ParserState
           /\ [p EXCEPT !.host = x, !.contentLength = n, !.isChunked = y,
                        !.isByteRanges = z] \in ParserState
BY DEF ParserState

\* one that has looked for the last chunk,
LEMMA NoteLastChunkType ==
    ASSUME NEW p \in ParserState
    PROVE  NoteLastChunk(p) \in ParserState
<1>1. (Len(p.rowContent) <= 2) \in BOOLEAN /\ IsLastChunkRow(p.rowContent) \in BOOLEAN
    BY DEF IsLastChunkRow
<1> DEFINE noted == IF p.lastChunk THEN Len(p.rowContent) <= 2
                                   ELSE IsLastChunkRow(p.rowContent)
<1>2. noted \in BOOLEAN
    BY <1>1, Zenon
<1>3. NoteLastChunk(p) \in {p, [p EXCEPT !.lastChunk = noted]}
    BY DEF NoteLastChunk
<1> HIDE DEF noted
<1>4. [p EXCEPT !.lastChunk = noted] \in ParserState
    BY <1>2, FieldsType, Values
<1> QED
    BY <1>3, <1>4

\* one that has taken note of a row,
LEMMA NoteRowType ==
    ASSUME NEW p \in ParserState
    PROVE  NoteRow(p) \in ParserState
<1> DEFINE text    == p.rowContent[1]
           length  == IF text \in DOMAIN ContentLength THEN ContentLength[text]
                      ELSE p.contentLength
           host    == p.host \/ text \in HostRow
           chunked == p.isChunked \/ text \in Chunked
           ranges  == p.isByteRanges \/ text \in Multipart
           none    == text \in Bodyless
<1>1. length \in Nat
    BY HttpParserAssumption DEF ParserState
<1>2. /\ host \in BOOLEAN /\ chunked \in BOOLEAN /\ ranges \in BOOLEAN
      /\ none \in BOOLEAN
    OBVIOUS
<1>3. \/ NoteRow(p) = p
      \/ NoteRow(p) = [p EXCEPT !.noBody = none]
      \/ NoteRow(p) = [p EXCEPT !.host = host, !.contentLength = length,
                                !.isChunked = chunked, !.isByteRanges = ranges]
    BY DEF NoteRow
<1> HIDE DEF length, host, chunked, ranges, none
<1>4. [p EXCEPT !.noBody = none] \in ParserState
    BY <1>2, FieldsType, Values
<1>5. [p EXCEPT !.host = host, !.contentLength = length,
                !.isChunked = chunked, !.isByteRanges = ranges] \in ParserState
    BY <1>1, <1>2, FieldsType, Values
<1> QED
    BY <1>3, <1>4, <1>5

\* one at the end of a row,
LEMMA EndRowType ==
    ASSUME NEW p \in ParserState
    PROVE  EndRow(p) \in ParserState
<1>1. ASSUME NEW q \in ParserState  PROVE NextRow(q) \in ParserState
    <2> DEFINE n == q.rowIndex + 1
    <2>1. n \in Nat
        BY DEF ParserState
    <2>2. NextRow(q) = [q EXCEPT !.rowContent = <<>>, !.rowIndex = n]
        BY DEF NextRow
    <2> HIDE DEF n
    <2>3. [q EXCEPT !.rowContent = <<>>, !.rowIndex = n] \in ParserState
        BY <2>1, FieldsType, Values
    <2> QED
        BY <2>2, <2>3
<1>2. CASE ~IsEmptyRow(p.rowContent)
    BY <1>1, <1>2, NoteRowType DEF EndRow
<1>3. [p EXCEPT !.rowContent = <<>>] \in ParserState
    BY FieldsType, Values
<1> DEFINE q == [p EXCEPT !.headParsed = TRUE]
<1>4. q \in ParserState
    BY FieldsType, Values
<1>5. EndRow(p) \in {NextRow(NoteRow(p)), [p EXCEPT !.rowContent = <<>>],
                     [q EXCEPT !.finished = TRUE], NextRow(q)}
    BY DEF EndRow
<1> HIDE DEF q
<1>6. [q EXCEPT !.finished = TRUE] \in ParserState
    BY <1>4, FieldsType, Values
<1> QED
    BY <1>1, <1>3, <1>4, <1>5, <1>6, NoteRowType

\* and one that has taken a byte.
LEMMA TakeByteType ==
    ASSUME NEW p \in ParserState, NEW b \in Byte
    PROVE  TakeByte(p, b) \in ParserState
<1> DEFINE row == Append(p.rowContent, b)
           n   == IF p.headParsed THEN p.bodyLength + 1 ELSE p.bodyLength
           q   == [p EXCEPT !.rowContent = row, !.bodyLength = n]
<1>1. row \in Seq(Byte) /\ n \in Nat
    BY DEF ParserState
<1>2. TakeByte(p, b) \in {[q EXCEPT !.finished = TRUE],
                          EndRow(NoteLastChunk(q)), NoteLastChunk(q)}
    BY DEF TakeByte
<1> HIDE DEF row, n
<1>3. q \in ParserState
    BY <1>1, FieldsType, Values
<1> HIDE DEF q
<1>4. [q EXCEPT !.finished = TRUE] \in ParserState
    BY <1>3, FieldsType, Values
<1> QED
    BY <1>2, <1>3, <1>4, NoteLastChunkType, EndRowType

-----------------------------------------------------------------------------
(* The connections. *)

\* Nothing is read before it is sent, and nothing parsed before it is read.
InOrder(s) ==
    /\ s \in Connection
    /\ s.parsed <= s.read /\ s.read <= s.sent /\ s.sent <= Len(s.bytes)

\* What is parsed is part of the message.
LEMMA ParsedIsThere ==
    ASSUME NEW s, InOrder(s)
    PROVE  s \in Connection /\ s.parsed <= Len(s.bytes)
<1>1. /\ s \in Connection /\ s.parsed <= s.read
      /\ s.read <= s.sent /\ s.sent <= Len(s.bytes)
    BY DEF InOrder
<1>2. s.parsed \in Nat /\ s.read \in Nat /\ s.sent \in Nat /\ Len(s.bytes) \in Nat
    BY <1>1 DEF Connection
<1>3. s.parsed <= Len(s.bytes)
    BY <1>1, <1>2
<1> QED
    BY <1>1, <1>3

\* A client sends bytes, and so does an instance that answers it.
LEMMA ExchangesType ==
    /\ \A e \in Exchanges : e[1] \in Seq(Byte) /\ e[2] \in Seq(Byte)
    /\ \A request : RepliesTo(request) \subseteq Seq(Byte)
BY HttpExchangeAssumption DEF RepliesTo

\* A new connection has nothing read or parsed.
LEMMA OpenedInOrder ==
    ASSUME NEW bytes \in Seq(Byte)
    PROVE  InOrder(Opened(bytes)) /\ Opened(bytes).read = 0
BY DEF InOrder, Opened, Connection

\* What the peer does to a connection leaves what was read and parsed.
LEMMA PeerInOrder ==
    ASSUME NEW s, InOrder(s), NEW sends, NEW t \in Peer(s, sends)
    PROVE  InOrder(t) /\ t.read = s.read /\ t.parsed = s.parsed /\ ~Broken(s)
<1>1. s.end = "open"
    BY DEF Peer
<1>2. CASE \E e \in {"closed", "reset"} : t = [s EXCEPT !.end = e]
    BY <1>1, <1>2 DEF InOrder, Connection, Broken
<1>3. CASE \E n \in SentNext(s) : t = [s EXCEPT !.sent = n]
    BY <1>1, <1>3 DEF InOrder, Connection, Broken, SentNext
<1> QED
    BY <1>1, <1>2, <1>3 DEF Peer

\* A read adds to what was read; there is something to parse then.
LEMMA ReadsInOrder ==
    ASSUME NEW s, InOrder(s), NEW t \in Reads(s)
    PROVE  /\ InOrder(t) /\ s.read < t.read
           /\ t.parsed < t.read /\ t.end = s.end
<1>1. PICK n \in (s.read + 1) .. s.sent : t = [s EXCEPT !.read = n, !.first = s.read + 1]
    BY DEF Reads
<1>2. s \in Connection /\ s.parsed <= s.read /\ s.sent <= Len(s.bytes)
    BY DEF InOrder
<1>3. n \in Nat /\ s.read + 1 \in Nat /\ s.read < n /\ n <= s.sent
    BY <1>1, <1>2 DEF Connection
<1>4. t \in Connection
    BY <1>1, <1>2, <1>3 DEF Connection
<1>5. /\ t.parsed = s.parsed /\ t.read = n /\ t.sent = s.sent /\ t.bytes = s.bytes
      /\ t.end = s.end
    BY <1>1, <1>2 DEF Connection
<1>6. t.parsed < t.read
    BY <1>2, <1>3, <1>5 DEF Connection
<1> QED
    BY <1>2, <1>3, <1>4, <1>5, <1>6 DEF InOrder, Connection

\* Parsing goes byte by byte behind what was read.
LEMMA ParsedInOrder ==
    ASSUME NEW s, InOrder(s), s.parsed < s.read
    PROVE  /\ InOrder(Parsed(s)) /\ Parsed(s).read = s.read
           /\ Parsed(s).end = s.end /\ NextByte(s) \in Byte
BY DEF InOrder, Connection, Parsed, Broken, NextByte

-----------------------------------------------------------------------------
(* The thread. *)

\* What the thread has in hand: a byte to parse, a response to pass on; and it has
\* not answered before it is done.
InHand ==
    /\ pc = "parsing" => client.parsed < client.read
    /\ pc = "parsing response" => server.parsed < server.read
    /\ pc = "answering" => 0 < server.read
    /\ pc # "done" => answer = <<>>

ExchangeInv ==
    /\ TypeOK
    /\ InOrder(client) /\ InOrder(server)
    /\ InHand
    /\ SilentOnlyWhenBroken

\* An exchange begins with a client that has sent nothing.
LEMMA InitExchange == Init => ExchangeInv
<1> SUFFICES ASSUME Init  PROVE ExchangeInv
    OBVIOUS
<1>1. InOrder(client) /\ InOrder(server)
    BY OpenedInOrder, Values, ExchangesType DEF Init
<1>2. TypeOK
    BY <1>1, NewParserType, Values DEF Init, TypeOK, InOrder
<1> QED
    BY <1>1, <1>2 DEF Init, ExchangeInv, InHand, SilentOnlyWhenBroken

\* What was kept of the body was read, also when more has been read since.
LEMMA BodyWasRead ==
    ASSUME TypeOK, NEW c \in Connection, client.read <= c.read
    PROVE  body \subseteq 1 .. c.read /\ forwarded \in [whole : BOOLEAN, body : SUBSET (1 .. c.read)]
<1>1. client.read \in Nat /\ c.read \in Nat
    BY DEF TypeOK, Connection
<1>2. (1 .. client.read) \subseteq (1 .. c.read)
    BY <1>1
<1> QED
    BY <1>2 DEF TypeOK

\* An answer that is not empty, or a client that is gone, ends the thread.
LEMMA AnswersKeep ==
    ASSUME ExchangeInv, NEW bytes \in Seq(Byte) \cup {<<c>> : c \in Code}, bytes # <<>>,
           Answers(bytes), InOrder(client'), client'.end = client.end,
           client.read <= client'.read, UNCHANGED <<server, parser, body, forwarded>>
    PROVE  ExchangeInv'
<1>1. /\ pc' = "done" /\ answer' \in Seq(Byte) \cup {<<c>> : c \in Code}
      /\ answer' = <<>> => Broken(client)
    BY Values DEF Answers
<1>2. TypeOK'
    BY <1>1, BodyWasRead DEF ExchangeInv, TypeOK, InOrder
<1>3. InHand' /\ SilentOnlyWhenBroken'
    BY <1>1 DEF InHand, SilentOnlyWhenBroken, Broken
<1> QED
    BY <1>2, <1>3 DEF ExchangeInv, InOrder

\* An exchange that fails is answered with a code.
LEMMA FailsKeep ==
    ASSUME ExchangeInv, NEW code \in Code, Fails(code), InOrder(client'),
           client'.end = client.end, client.read <= client'.read,
           UNCHANGED <<server, parser, body, forwarded>>
    PROVE  ExchangeInv'
<1>1. <<code>> # <<>>
    OBVIOUS
<1> QED
    BY <1>1, AnswersKeep DEF Fails

\* The thread goes on without an answer.
LEMMA GoesOn ==
    ASSUME ExchangeInv, TypeOK', InOrder(client'), InOrder(server'), UNCHANGED answer,
           pc # "done", pc' # "done",
           pc' = "parsing" => client'.parsed < client'.read,
           pc' = "parsing response" => server'.parsed < server'.read,
           pc' = "answering" => 0 < server'.read
    PROVE  ExchangeInv'
BY DEF ExchangeInv, InHand, SilentOnlyWhenBroken, InOrder

\* An exchange is dropped when a connection is broken.
LEMMA DropsKeep ==
    ASSUME ExchangeInv, Drops, pc # "done", Broken(client) \/ Broken(server),
           UNCHANGED <<client, server, parser, body, forwarded>>
    PROVE  ExchangeInv'
<1>1. TypeOK'
    BY DEF Drops, ExchangeInv, TypeOK
<1> QED
    BY <1>1 DEF Drops, ExchangeInv, InHand, SilentOnlyWhenBroken, Broken, InOrder

\* The steps that take in the request.
LEMMA RequestSteps ==
    ASSUME ExchangeInv,
           ReadRequest \/ ParseRequest \/ RequestEnds \/ ClientBroken
    PROVE  ExchangeInv'
<1>0. TypeOK /\ InOrder(client) /\ InOrder(server)
    BY DEF ExchangeInv
<1>1. CASE ReadRequest
    <2>1. /\ InOrder(client') /\ client.read < client'.read
          /\ client'.parsed < client'.read /\ client'.end = client.end
        BY <1>0, <1>1, ReadsInOrder DEF ReadRequest
    <2>2. client.read <= client'.read /\ client' \in Connection
        BY <1>0, <2>1 DEF InOrder, Connection
    <2>3. CASE pc' = "parsing" /\ UNCHANGED answer
        <3>1. TypeOK'
            BY <1>0, <1>1, <2>2, <2>3, BodyWasRead DEF ReadRequest, TypeOK
        <3> QED
            BY <1>0, <1>1, <2>1, <2>3, <3>1, GoesOn DEF ReadRequest
    <2>4. CASE Fails(IF client.parsed = 0 THEN "408" ELSE "500")
        BY <1>1, <2>1, <2>2, <2>4, FailsKeep DEF ReadRequest, Code
    <2> QED
        BY <1>1, <2>3, <2>4 DEF ReadRequest
<1>2. CASE ParseRequest
    <2>1. client.parsed < client.read
        BY <1>2 DEF ParseRequest, ExchangeInv, InHand
    <2>2. /\ InOrder(client') /\ client'.read = client.read
          /\ NextByte(client) \in Byte
        BY <1>0, <1>2, <2>1, ParsedInOrder DEF ParseRequest
    <2>3. parser' \in ParserState
        BY <1>0, <1>2, <2>2, TakeByteType DEF ParseRequest, TypeOK
    <2>4. body' \subseteq 1 .. client.read
        <3>1. body \subseteq 1 .. client.read /\ client.parsed \in Nat /\ client.read \in Nat
            BY <1>0 DEF TypeOK, Connection
        <3>2. (client.parsed + 1) .. client.read \subseteq 1 .. client.read
            BY <3>1
        <3>3. body' \subseteq body \cup ((client.parsed + 1) .. client.read)
            BY <1>2 DEF ParseRequest, AppendBody, AppendSlice
        <3> QED
            BY <3>1, <3>2, <3>3
    <2>5. pc' \in {"parsing", "choosing", "reading"}
          /\ (pc' = "parsing" => client'.parsed < client'.read)
        BY <1>2, <2>2 DEF ParseRequest
    <2>6. TypeOK'
        BY <1>0, <1>2, <2>2, <2>3, <2>4, <2>5 DEF ParseRequest, TypeOK, InOrder
    <2> QED
        BY <1>0, <1>2, <2>2, <2>5, <2>6, GoesOn DEF ParseRequest
<1>3. CASE RequestEnds
    <2>1. client.read <= client.read
        BY <1>0 DEF InOrder, Connection
    <2>2. CASE client.parsed = 0
        BY <1>0, <1>3, <2>1, <2>2, FailsKeep DEF RequestEnds, Code
    <2>3. CASE client.parsed # 0
        <3>1. TypeOK'
            BY <1>0, <1>3, <2>3 DEF RequestEnds, TypeOK
        <3> QED
            BY <1>0, <1>3, <2>3, <3>1, GoesOn DEF RequestEnds
    <2> QED
        BY <2>2, <2>3
<1>4. CASE ClientBroken
    BY <1>4, DropsKeep DEF ClientBroken
<1> QED
    BY <1>1, <1>2, <1>3, <1>4

\* The steps that hand it on.
LEMMA ForwardSteps ==
    ASSUME ExchangeInv, Choose \/ Send \/ ServerBroken
    PROVE  ExchangeInv'
<1>0. TypeOK /\ InOrder(client) /\ InOrder(server) /\ client.read <= client.read
    BY DEF ExchangeInv, InOrder, Connection
<1>1. CASE Choose
    <2>1. CASE \E code \in {"404", "500", "503"} : Fails(code) /\ UNCHANGED server
        BY <1>0, <1>1, <2>1, FailsKeep DEF Choose, Code
    <2>2. CASE /\ server' \in {Opened(r) : r \in RepliesTo(client.bytes)}
               /\ pc' = "sending" /\ UNCHANGED answer
        <3>1. InOrder(server')
            BY <2>2, OpenedInOrder, ExchangesType
        <3>2. TypeOK'
            BY <1>0, <1>1, <2>2, <3>1 DEF Choose, TypeOK, InOrder
        <3> QED
            BY <1>0, <1>1, <2>2, <3>1, <3>2, GoesOn DEF Choose
    <2> QED
        BY <1>1, <2>1, <2>2 DEF Choose
<1>2. CASE Send
    <2>1. forwarded' \in [whole : BOOLEAN, body : SUBSET (1 .. client.read)]
        BY <1>0, <1>2 DEF Send, TypeOK, ParserState
    <2>2. TypeOK'
        BY <1>0, <1>2, <2>1, NewParserType DEF Send, TypeOK
    <2> QED
        BY <1>0, <1>2, <2>2, GoesOn DEF Send
<1>3. CASE ServerBroken
    BY <1>3, DropsKeep DEF ServerBroken
<1> QED
    BY <1>1, <1>2, <1>3

\* The steps that bring back the answer.
LEMMA ResponseSteps ==
    ASSUME ExchangeInv, ReadResponse \/ ParseResponse \/ ResponseEnds \/ Respond
    PROVE  ExchangeInv'
<1>0. TypeOK /\ InOrder(client) /\ InOrder(server) /\ client.read <= client.read
    BY DEF ExchangeInv, InOrder, Connection
<1>1. CASE ReadResponse
    <2>1. InOrder(server') /\ server'.parsed < server'.read
        BY <1>0, <1>1, ReadsInOrder DEF ReadResponse
    <2>2. CASE pc' = "parsing response" /\ UNCHANGED answer
        <3>1. TypeOK'
            BY <1>0, <1>1, <2>1, <2>2 DEF ReadResponse, TypeOK, InOrder
        <3> QED
            BY <1>0, <1>1, <2>1, <2>2, <3>1, GoesOn DEF ReadResponse
    <2>3. CASE Fails("408")
        <3>1. /\ pc' = "done" /\ answer' \in {<<"408">>, <<>>}
              /\ answer' = <<>> => Broken(client)
            BY <2>3 DEF Fails, Answers
        <3>2. TypeOK'
            BY <1>0, <1>1, <2>1, <3>1, Values DEF ReadResponse, TypeOK, InOrder, Code
        <3>3. InHand' /\ SilentOnlyWhenBroken'
            BY <1>1, <3>1 DEF ReadResponse, InHand, SilentOnlyWhenBroken, Broken
        <3> QED
            BY <1>0, <1>1, <2>1, <3>2, <3>3 DEF ReadResponse, ExchangeInv, InOrder
    <2> QED
        BY <1>1, <2>2, <2>3 DEF ReadResponse
<1>2. CASE ParseResponse
    <2>1. server.parsed < server.read
        BY <1>2 DEF ParseResponse, ExchangeInv, InHand
    <2>2. /\ InOrder(server') /\ server'.read = server.read
          /\ NextByte(server) \in Byte
        BY <1>0, <1>2, <2>1, ParsedInOrder DEF ParseResponse
    <2>3. parser' \in ParserState
        BY <1>0, <1>2, <2>2, TakeByteType DEF ParseResponse, TypeOK
    <2>4. 0 < server.read
        BY <1>0, <2>1 DEF InOrder, Connection
    <2>5. pc' \in {"parsing response", "answering", "receiving"}
          /\ (pc' = "parsing response" => server'.parsed < server'.read)
        BY <1>2, <2>2 DEF ParseResponse
    <2>6. TypeOK'
        BY <1>0, <1>2, <2>2, <2>3, <2>5 DEF ParseResponse, TypeOK, InOrder
    <2> QED
        BY <1>0, <1>2, <2>2, <2>4, <2>5, <2>6, GoesOn DEF ParseResponse
<1>3. CASE ResponseEnds
    BY <1>0, <1>3, FailsKeep DEF ResponseEnds, Code
<1>4. CASE Respond
    <2>1. server \in Connection /\ 0 < server.read /\ server.read <= Len(server.bytes)
        BY <1>0, <1>4 DEF Respond, ExchangeInv, InHand, InOrder, Connection
    <2> DEFINE bytes == SubSeq(server.bytes, 1, server.read)
    <2>2. /\ server.bytes \in Seq(Byte) /\ server.read \in Int
          /\ \A k \in 1 .. server.read : server.bytes[k] \in Byte
        BY <2>1 DEF Connection
    <2>3. bytes \in Seq(Byte) /\ Len(bytes) = server.read
        BY <2>1, <2>2, SubSeqProperties
    <2>4. bytes # <<>>
        BY <2>1, <2>3
    <2>5. Answers(bytes)
        BY <1>4 DEF Respond
    <2> HIDE DEF bytes
    <2> QED
        BY <1>0, <1>4, <2>3, <2>4, <2>5, AnswersKeep DEF Respond
<1> QED
    BY <1>1, <1>2, <1>3, <1>4

\* A peer that sends, closes or breaks takes nothing back.
LEMMA PeerSteps ==
    ASSUME ExchangeInv, ClientMoves \/ ServerMoves
    PROVE  ExchangeInv'
<1>0. TypeOK /\ InOrder(client) /\ InOrder(server) /\ InHand
    BY DEF ExchangeInv
<1>1. CASE ClientMoves
    <2>1. InOrder(client') /\ client'.read = client.read /\ client'.parsed = client.parsed
        BY <1>0, <1>1, PeerInOrder DEF ClientMoves
    <2>2. TypeOK'
        BY <1>0, <1>1, <2>1 DEF ClientMoves, TypeOK, InOrder
    <2> QED
        BY <1>0, <1>1, <2>1, <2>2, GoesOn DEF ClientMoves, InHand
<1>2. CASE ServerMoves
    <2>1. InOrder(server') /\ server'.read = server.read /\ server'.parsed = server.parsed
        BY <1>0, <1>2, PeerInOrder DEF ServerMoves
    <2>2. TypeOK'
        BY <1>0, <1>2, <2>1 DEF ServerMoves, TypeOK, InOrder
    <2> QED
        BY <1>0, <1>2, <2>1, <2>2, GoesOn DEF ServerMoves, InHand
<1> QED
    BY <1>1, <1>2

-----------------------------------------------------------------------------
\* ExchangeInv is inductive: whatever the client and the instance send, in pieces
\* of any size, and wherever they stop (AbstractBlockingConnector.java:60-135).
THEOREM ExchangeInvariant == Spec => []ExchangeInv
<1>1. ExchangeInv /\ [Next]_vars => ExchangeInv'
    <2> SUFFICES ASSUME ExchangeInv, [Next]_vars  PROVE ExchangeInv'
        OBVIOUS
    <2>1. CASE Thread
        BY <2>1, RequestSteps, ForwardSteps, ResponseSteps DEF Thread
    <2>2. CASE ClientMoves \/ ServerMoves
        BY <2>2, PeerSteps
    <2>3. CASE UNCHANGED vars
        BY <2>3 DEF vars, ExchangeInv, TypeOK, InOrder, InHand, SilentOnlyWhenBroken, Broken
    <2> QED
        BY <2>1, <2>2, <2>3 DEF Next
<1> QED
    BY <1>1, InitExchange, PTL DEF Spec

\* A thread that ends without an answer to its client has lost a connection: every
\* other way out writes an error of the dispatcher or bytes of a response
\* (AbstractBlockingConnector.java:84-91).
THEOREM NeverSilent == Spec => []SilentOnlyWhenBroken
<1>1. ExchangeInv => SilentOnlyWhenBroken
    BY DEF ExchangeInv
<1> QED
    BY <1>1, ExchangeInvariant, PTL

\* Type correctness: what is parsed and what is kept of the body was read before,
\* and the parser keeps its type (AbstractHttpParser.java:190-330).
THEOREM ExchangeTypes == Spec => []TypeOK
<1>1. ExchangeInv => TypeOK
    BY DEF ExchangeInv
<1> QED
    BY <1>1, ExchangeInvariant, PTL

-----------------------------------------------------------------------------
(* Where the parser is in a message that is framed by its length. *)

\* Before the end of the head.
NoBodyYet(p) == ~p.headParsed /\ ~p.finished /\ p.bodyLength = 0

InBlanks(b, k, p) ==
    /\ NoBodyYet(p) /\ p.rowIndex = 0
    /\ ~p.noBody /\ ~p.isChunked /\ ~p.isByteRanges /\ p.contentLength = 0
    /\ p.rowContent = IF k = 0 \/ b[k] = "LF" THEN <<>> ELSE <<"CR">>

\* What the first j rows said.
Noted(b, start, length, j, p) ==
    /\ p.noBody <=> (j > 0 /\ b[start] \in Bodyless)
    /\ b[start] \notin Bodyless =>
          /\ ~p.isChunked /\ ~p.isByteRanges
          /\ p.contentLength = IF \E i \in 1 .. j - 1 : b[start + 3 * i] \in DOMAIN ContentLength
                               THEN length ELSE 0

\* Row p.rowIndex is empty as yet, or has its text, or that and CR.
InRow(b, k, start, p) ==
    LET f == start + 3 * p.rowIndex
    IN  \/ k = f - 1 /\ p.rowContent = <<>>
        \/ k = f /\ p.rowContent = <<b[f]>>
        \/ k = f + 1 /\ p.rowContent = <<b[f], "CR">>

InHead(b, k, start, rows, length, p) ==
    /\ NoBodyYet(p) /\ p.rowIndex \in 0 .. rows
    /\ Noted(b, start, length, p.rowIndex, p)
    /\ InRow(b, k, start, p)

InBody(k, h, length, p) ==
    /\ p.headParsed /\ ~p.noBody /\ ~p.isChunked /\ ~p.isByteRanges
    /\ p.contentLength = length /\ p.bodyLength = k - h /\ k <= h + length
    /\ p.finished <=> (k = h + length)

\* The parser p has taken the first k bytes of b.
ParserAt(b, k, start, rows, length, p) ==
    LET h == start + 3 * rows + 1
    IN  /\ k < start => InBlanks(b, k, p)
        /\ start <= k /\ k < h => InHead(b, k, start, rows, length, p)
        /\ h <= k => IF b[start] \in Bodyless THEN k = h /\ p.finished
                     ELSE InBody(k, h, length, p)

ParsedTo(s, p) ==
    \A start, rows \in 1 .. Len(s.bytes), length \in 0 .. Len(s.bytes) :
       Framing(s.bytes, start, rows, length) => ParserAt(s.bytes, s.parsed, start, rows, length, p)

FramedInv ==
    /\ pc \in {"reading", "parsing"} => ~parser.finished
    /\ pc \in {"reading", "parsing", "choosing", "sending"} => ParsedTo(client, parser)
    /\ pc = "sending" => server.parsed = 0
    /\ pc \in {"receiving", "parsing response"} => ~parser.finished
    /\ pc = "answering" => parser.finished
    /\ pc \in {"receiving", "parsing response", "answering"} => ParsedTo(server, parser)

-----------------------------------------------------------------------------
(* One byte of a head. *)

\* The fields of p but the row and where it is.
SameNotes(p, q) ==
    /\ q.host = p.host /\ q.noBody = p.noBody /\ q.contentLength = p.contentLength
    /\ q.isChunked = p.isChunked /\ q.isByteRanges = p.isByteRanges
    /\ q.headParsed = p.headParsed /\ q.bodyLength = p.bodyLength
    /\ q.finished = p.finished

\* A row that does not end in LF is not empty.
LEMMA NotEmptyRow ==
    ASSUME NEW row \in Seq(Byte), NEW b \in Byte, b # "LF"
    PROVE  ~IsEmptyRow(Append(row, b))
<1> DEFINE r == Append(row, b)
<1>1. Len(r) = Len(row) + 1 /\ r[Len(r)] = b /\ Len(r) \in Nat
    OBVIOUS
<1> HIDE DEF r
<1>2. r # <<"LF">>
    BY <1>1
<1>3. r # <<"CR", "LF">>
    <2>1. Len(<<"CR", "LF">>) = 2 /\ <<"CR", "LF">>[2] = "LF"
        OBVIOUS
    <2>2. r = <<"CR", "LF">> => r[2] = "LF" /\ Len(r) = 2
        BY <2>1
    <2> QED
        BY <1>1, <2>2
<1> QED
    BY <1>2, <1>3 DEF IsEmptyRow, r

\* What taking a byte does to the fields, in a head: the message does not end there.
LEMMA ByteInHead ==
    ASSUME NEW p \in ParserState, NEW b \in Byte, ~p.headParsed,
           NEW row, row = Append(p.rowContent, b),
           NEW q, q = [p EXCEPT !.rowContent = row],
           ~(p.noBody /\ IsEmptyRow(row))
    PROVE  TakeByte(p, b) = IF b = "LF" THEN EndRow(q) ELSE q
<1>0. row \in Seq(Byte)
    BY DEF ParserState
<1>1. q \in ParserState /\ q.rowContent = row /\ ~q.headParsed /\ q.noBody = p.noBody
    BY <1>0 DEF ParserState
<1>2. ~IsMessageEnd(q)
    BY <1>1 DEF IsMessageEnd
<1>3. NoteLastChunk(q) = q
    BY <1>1 DEF NoteLastChunk
<1>4. [p EXCEPT !.rowContent = Append(@, b),
                !.bodyLength = IF p.headParsed THEN @ + 1 ELSE @] = q
    <2>1. [p EXCEPT !.rowContent = Append(@, b),
                !.bodyLength = IF p.headParsed THEN @ + 1 ELSE @]
          = [p EXCEPT !.rowContent = row, !.bodyLength = p.bodyLength]
        OBVIOUS
    <2>2. [p EXCEPT !.rowContent = row, !.bodyLength = p.bodyLength] = [p EXCEPT !.rowContent = row]
        BY DEF ParserState
    <2> QED
        BY <2>1, <2>2
<1> QED
    BY <1>2, <1>3, <1>4 DEF TakeByte

\* A byte that does not end a row of the head is added to it.
LEMMA ByteOfRow ==
    ASSUME NEW p \in ParserState, NEW b \in Byte, ~p.headParsed, b # "LF"
    PROVE  /\ TakeByte(p, b).rowContent = Append(p.rowContent, b)
           /\ TakeByte(p, b).rowIndex = p.rowIndex
           /\ SameNotes(p, TakeByte(p, b))
<1> DEFINE row == Append(p.rowContent, b)
           q   == [p EXCEPT !.rowContent = row]
<1>1. ~IsEmptyRow(row)
    BY NotEmptyRow DEF ParserState
<1>2. TakeByte(p, b) = q
    BY <1>1, ByteInHead
<1> HIDE DEF row
<1>3. q.rowContent = row /\ q.rowIndex = p.rowIndex /\ SameNotes(p, q)
    BY DEF ParserState, SameNotes
<1> QED
    BY <1>2, <1>3 DEF row

\* A row with a text is noted when it ends.
LEMMA TextRow ==
    ASSUME NEW p \in ParserState, ~p.headParsed, NEW text \in Byte \ {"CR", "LF"},
           p.rowContent = <<text, "CR">>, NEW q, q = TakeByte(p, "LF")
    PROVE  /\ q.rowContent = <<>> /\ q.rowIndex = p.rowIndex + 1
           /\ q.headParsed = p.headParsed /\ q.finished = p.finished
           /\ q.bodyLength = p.bodyLength
           /\ p.rowIndex = 0 =>
                 /\ q.noBody <=> text \in Bodyless
                 /\ q.contentLength = p.contentLength
                 /\ q.isChunked = p.isChunked /\ q.isByteRanges = p.isByteRanges
           /\ p.rowIndex # 0 =>
                 /\ q.noBody = p.noBody
                 /\ q.contentLength = IF text \in DOMAIN ContentLength THEN ContentLength[text]
                                      ELSE p.contentLength
                 /\ q.isChunked <=> p.isChunked \/ text \in Chunked
                 /\ q.isByteRanges <=> p.isByteRanges \/ text \in Multipart
<1> DEFINE row == <<text, "CR", "LF">>
           r   == [p EXCEPT !.rowContent = row]
<1>1. row = Append(p.rowContent, "LF") /\ row \in Seq(Byte) /\ row[1] = text
    BY HttpParserAssumption
<1>2. ~IsEmptyRow(row)
    <2>1. Len(row) = 3 /\ Len(<<"LF">>) = 1 /\ Len(<<"CR", "LF">>) = 2
        OBVIOUS
    <2>2. row # <<"LF">> /\ row # <<"CR", "LF">>
        BY <2>1
    <2> QED
        BY <2>2 DEF IsEmptyRow
<1>3. "LF" \in Byte
    BY HttpParserAssumption
<1>4. q = EndRow(r)
    BY <1>1, <1>2, <1>3, ByteInHead
<1> HIDE DEF row
<1>5. /\ r \in ParserState /\ r.rowContent = row /\ r.rowIndex = p.rowIndex
      /\ SameNotes(p, r)
    BY <1>1 DEF ParserState, SameNotes
<1> HIDE DEF r
<1>6. q = NextRow(NoteRow(r))
    BY <1>2, <1>4, <1>5 DEF EndRow
<1>7. CASE p.rowIndex = 0
    <2> DEFINE none == text \in Bodyless
               n    == [r EXCEPT !.noBody = none]
    <2>1. NoteRow(r) = n
        BY <1>1, <1>5, <1>7 DEF NoteRow, SameNotes
    <2>2. /\ q.rowContent = <<>> /\ q.rowIndex = n.rowIndex + 1 /\ n.rowIndex = p.rowIndex
          /\ q.headParsed = r.headParsed /\ q.finished = r.finished
          /\ q.bodyLength = r.bodyLength /\ (q.noBody <=> none)
          /\ q.contentLength = r.contentLength /\ q.isChunked = r.isChunked
          /\ q.isByteRanges = r.isByteRanges
        BY <1>5, <1>6, <2>1 DEF NextRow, ParserState
    <2> QED
        BY <1>5, <1>7, <2>2 DEF SameNotes
<1>8. CASE p.rowIndex # 0
    <2> DEFINE host    == r.host \/ text \in HostRow
               length  == IF text \in DOMAIN ContentLength THEN ContentLength[text]
                          ELSE r.contentLength
               chunked == r.isChunked \/ text \in Chunked
               ranges  == r.isByteRanges \/ text \in Multipart
               n       == [r EXCEPT !.host = host, !.contentLength = length,
                                    !.isChunked = chunked, !.isByteRanges = ranges]
    <2>1. NoteRow(r) = n
        BY <1>1, <1>5, <1>8 DEF NoteRow, SameNotes
    <2> HIDE DEF host, length, chunked, ranges
    <2>2. /\ n.rowIndex = p.rowIndex /\ n.headParsed = r.headParsed /\ n.finished = r.finished
          /\ n.bodyLength = r.bodyLength /\ n.noBody = r.noBody
          /\ n.contentLength = length /\ n.isChunked = chunked /\ n.isByteRanges = ranges
        BY <1>5 DEF ParserState
    <2>3. DOMAIN n = DOMAIN p
        BY <1>5 DEF ParserState
    <2> HIDE DEF n
    <2>4. /\ q.rowContent = <<>> /\ q.rowIndex = p.rowIndex + 1
          /\ q.headParsed = r.headParsed /\ q.finished = r.finished
          /\ q.bodyLength = r.bodyLength /\ q.noBody = r.noBody
          /\ q.contentLength = length /\ q.isChunked = chunked /\ q.isByteRanges = ranges
        BY <1>6, <2>1, <2>2, <2>3 DEF NextRow, ParserState
    <2> USE DEF host, length, chunked, ranges
    <2>5. /\ q.isChunked <=> p.isChunked \/ text \in Chunked
          /\ q.isByteRanges <=> p.isByteRanges \/ text \in Multipart
        BY <1>5, <2>4, Zenon DEF SameNotes
    <2>6. q.contentLength = IF text \in DOMAIN ContentLength THEN ContentLength[text]
                            ELSE p.contentLength
        BY <1>5, <2>4 DEF SameNotes
    <2> QED
        BY <1>5, <1>8, <2>4, <2>5, <2>6 DEF SameNotes
<1> QED
    BY <1>7, <1>8

\* An empty row before the start line is forgotten.
LEMMA BlankRow ==
    ASSUME NEW p \in ParserState, ~p.headParsed, p.rowIndex = 0, ~p.noBody,
           p.rowContent = <<>> \/ p.rowContent = <<"CR">>, NEW q, q = TakeByte(p, "LF")
    PROVE  q.rowContent = <<>> /\ q.rowIndex = 0 /\ SameNotes(p, q)
<1> DEFINE row == Append(p.rowContent, "LF")
           r   == [p EXCEPT !.rowContent = row]
<1>1. "LF" \in Byte /\ row \in Seq(Byte)
    BY HttpParserAssumption DEF ParserState
<1>2. IsEmptyRow(row)
    <2>1. ASSUME p.rowContent = <<>>  PROVE row = <<"LF">>
        BY <2>1
    <2>2. ASSUME p.rowContent = <<"CR">>  PROVE row = <<"CR", "LF">>
        <3>1. /\ "LF" \in Byte /\ <<"CR", "LF">> \in Seq(Byte)
              /\ <<"CR", "LF">> = Append(p.rowContent, "LF")
            BY <2>2, HttpParserAssumption DEF ParserState
        <3> QED
            BY <3>1
    <2> QED
        BY <2>1, <2>2 DEF IsEmptyRow
<1>3. q = EndRow(r)
    BY <1>1, ByteInHead
<1> HIDE DEF row
<1>4. r \in ParserState /\ r.rowContent = row /\ r.rowIndex = 0 /\ SameNotes(p, r)
    BY <1>1 DEF ParserState, SameNotes
<1> HIDE DEF r
<1>5. q = [r EXCEPT !.rowContent = <<>>]
    BY <1>2, <1>3, <1>4 DEF EndRow
<1> QED
    BY <1>4, <1>5 DEF SameNotes, ParserState

\* The empty row after the head ends it, and a message that has no body or announced none.
LEMMA HeadOver ==
    ASSUME NEW p \in ParserState, ~p.headParsed, ~p.finished, p.rowIndex # 0,
           p.rowContent = <<"CR">>, NEW q, q = TakeByte(p, "LF")
    PROVE  /\ p.noBody => q.finished
           /\ ~p.noBody /\ ~p.isChunked /\ ~p.isByteRanges =>
                 /\ q.headParsed /\ ~q.noBody /\ ~q.isChunked /\ ~q.isByteRanges
                 /\ q.contentLength = p.contentLength /\ q.bodyLength = p.bodyLength
                 /\ q.finished <=> p.bodyLength >= p.contentLength
<1> DEFINE row == <<"CR", "LF">>
           r   == [p EXCEPT !.rowContent = row]
<1>1. "LF" \in Byte /\ row \in Seq(Byte) /\ row = Append(p.rowContent, "LF")
    BY HttpParserAssumption DEF ParserState
<1>2. IsEmptyRow(row)
    BY DEF IsEmptyRow
<1> HIDE DEF row
<1>3. r \in ParserState /\ r.rowContent = row /\ r.rowIndex = p.rowIndex /\ SameNotes(p, r)
    BY <1>1 DEF ParserState, SameNotes
<1>4. CASE p.noBody
    <2> DEFINE u == [p EXCEPT !.rowContent = Append(@, "LF"),
                              !.bodyLength = IF p.headParsed THEN @ + 1 ELSE @]
    <2>1. u.noBody /\ u.rowContent = row /\ u \in ParserState
        BY <1>1, <1>4 DEF ParserState
    <2>2. IsMessageEnd(u)
        BY <1>2, <2>1 DEF IsMessageEnd
    <2>3. q = [u EXCEPT !.finished = TRUE]
        BY <2>2 DEF TakeByte
    <2> HIDE DEF u
    <2>4. q.finished
        BY <2>1, <2>3 DEF ParserState
    <2> QED
        BY <1>4, <2>4
<1>5. CASE ~p.noBody /\ ~p.isChunked /\ ~p.isByteRanges
    <2>1. q = EndRow(r)
        BY <1>1, <1>5, ByteInHead
    <2> HIDE DEF r
    <2> DEFINE u == [r EXCEPT !.headParsed = TRUE]
    <2>2. /\ u \in ParserState /\ u.headParsed /\ ~u.noBody /\ ~u.isChunked /\ ~u.isByteRanges
          /\ u.contentLength = p.contentLength /\ u.bodyLength = p.bodyLength /\ ~u.finished
        BY <1>3, <1>5 DEF SameNotes, ParserState
    <2>3. q = IF IsMessageEnd(u) THEN [u EXCEPT !.finished = TRUE] ELSE NextRow(u)
        BY <1>2, <1>3, <2>1 DEF EndRow
    <2> HIDE DEF u
    <2>4. IsMessageEnd(u) <=> p.bodyLength >= p.contentLength
        BY <2>2 DEF IsMessageEnd, BodyOver
    <2>5. CASE IsMessageEnd(u)
        BY <1>5, <2>2, <2>3, <2>4, <2>5 DEF ParserState
    <2>6. CASE ~IsMessageEnd(u)
        BY <1>5, <2>2, <2>3, <2>4, <2>6 DEF ParserState, NextRow
    <2> QED
        BY <2>5, <2>6
<1> QED
    BY <1>4, <1>5

\* A byte of the body counts, and the last of them ends the message.
LEMMA ByteOfBody ==
    ASSUME NEW p \in ParserState, p.headParsed, ~p.finished,
           ~p.noBody, ~p.isChunked, ~p.isByteRanges, NEW b \in Byte, NEW q, q = TakeByte(p, b)
    PROVE  /\ q.headParsed /\ ~q.noBody /\ ~q.isChunked /\ ~q.isByteRanges
           /\ q.contentLength = p.contentLength /\ q.bodyLength = p.bodyLength + 1
           /\ q.finished <=> q.bodyLength >= q.contentLength
<1> DEFINE row == Append(p.rowContent, b)
           n   == p.bodyLength + 1
           r   == [p EXCEPT !.rowContent = row, !.bodyLength = n]
<1>1. row \in Seq(Byte) /\ n \in Nat
    BY DEF ParserState
<1>2. q = IF IsMessageEnd(r) THEN [r EXCEPT !.finished = TRUE]
          ELSE IF b = "LF" THEN EndRow(NoteLastChunk(r)) ELSE NoteLastChunk(r)
    BY DEF TakeByte
<1> HIDE DEF row, n
<1>3. /\ r \in ParserState /\ r.headParsed /\ ~r.noBody /\ ~r.isChunked /\ ~r.isByteRanges
      /\ r.contentLength = p.contentLength /\ r.bodyLength = n /\ ~r.finished
    BY <1>1 DEF ParserState
<1> HIDE DEF r
<1>4. NoteLastChunk(r) = r
    BY <1>3 DEF NoteLastChunk
<1>5. IsMessageEnd(r) <=> n >= p.contentLength
    BY <1>3 DEF IsMessageEnd, BodyOver
<1>6. CASE IsMessageEnd(r)
    BY <1>2, <1>3, <1>5, <1>6 DEF ParserState, n
<1>7. CASE ~IsMessageEnd(r)
    <2> DEFINE u == [r EXCEPT !.headParsed = TRUE]
    <2>1. NoteRow(r) = r
        BY <1>3 DEF NoteRow
    <2>2. /\ u \in ParserState /\ u.headParsed /\ ~u.noBody /\ ~u.isChunked /\ ~u.isByteRanges
          /\ u.contentLength = p.contentLength /\ u.bodyLength = n /\ ~u.finished
        BY <1>3 DEF ParserState
    <2>3. ~IsMessageEnd(u)
        BY <1>3, <1>5, <1>7, <2>2 DEF IsMessageEnd, BodyOver
    <2>4. q \in {r, NextRow(r), [r EXCEPT !.rowContent = <<>>], NextRow(u)}
        BY <1>2, <1>4, <1>7, <2>1, <2>3 DEF EndRow
    <2> HIDE DEF u
    <2>5. CASE q = r
        BY <1>3, <1>5, <1>7, <2>5 DEF n
    <2>6. CASE q = NextRow(r)
        BY <1>3, <1>5, <1>7, <2>6 DEF NextRow, ParserState, n
    <2>7. CASE q = [r EXCEPT !.rowContent = <<>>]
        BY <1>3, <1>5, <1>7, <2>7 DEF ParserState, n
    <2>8. CASE q = NextRow(u)
        BY <1>5, <1>7, <2>2, <2>8 DEF NextRow, ParserState, n
    <2> QED
        BY <2>4, <2>5, <2>6, <2>7, <2>8
<1> QED
    BY <1>6, <1>7

-----------------------------------------------------------------------------
(* The parser stays where the framing of the message has it. *)

\* In the blank rows, and at the first byte of the start line.
LEMMA StepInBlanks ==
    ASSUME NEW b \in Seq(Byte), NEW start \in 1 .. Len(b), NEW rows \in 1 .. Len(b),
           NEW length \in 0 .. Len(b), Framing(b, start, rows, length),
           NEW k \in Nat, k < start, NEW p \in ParserState, InBlanks(b, k, p),
           NEW q, q = TakeByte(p, b[k + 1])
    PROVE  /\ k + 1 < start => InBlanks(b, k + 1, q)
           /\ k + 1 = start => InHead(b, k + 1, start, rows, length, q)
<1>0. /\ ~p.headParsed /\ p.rowIndex = 0 /\ ~p.noBody
      /\ p.rowContent = IF k = 0 \/ b[k] = "LF" THEN <<>> ELSE <<"CR">>
    BY DEF InBlanks, NoBodyYet
<1>1. /\ \A i \in 1 .. start - 1 : b[i] = "LF" \/ (b[i] = "CR" /\ b[i + 1] = "LF")
      /\ b[start] \notin {"CR", "LF"}
    <2>1. \A j \in 0 .. rows - 1 : b[start + 3 * j] \notin {"CR", "LF"}
        BY DEF Framing, RowsOfHead
    <2>2. 0 \in 0 .. rows - 1 /\ start + 3 * 0 = start
        OBVIOUS
    <2> QED
        BY <2>1, <2>2 DEF Framing, RowsOfHead
<1>2. k + 1 \in 1 .. Len(b) /\ b[k + 1] \in Byte
    OBVIOUS
<1>3. CASE b[k + 1] = "LF"
    <2>1. q.rowContent = <<>> /\ q.rowIndex = 0 /\ SameNotes(p, q)
        BY <1>0, <1>3, BlankRow
    <2> QED
        BY <1>1, <1>3, <2>1 DEF InBlanks, NoBodyYet, SameNotes
<1>4. CASE b[k + 1] # "LF"
    <2>1. k = 0 \/ b[k] = "LF"
        BY <1>1, <1>4
    <2>2. p.rowContent = <<>>
        BY <1>0, <2>1
    <2>3. /\ q.rowContent = <<b[k + 1]>> /\ q.rowIndex = 0 /\ SameNotes(p, q)
        BY <1>0, <1>2, <1>4, <2>2, ByteOfRow
    <2>4. CASE k + 1 < start
        BY <1>1, <1>4, <2>3, <2>4 DEF InBlanks, NoBodyYet, SameNotes
    <2>5. CASE k + 1 = start
        <3>1. NoBodyYet(q) /\ q.rowIndex \in 0 .. rows
            BY <2>3 DEF InBlanks, NoBodyYet, SameNotes
        <3>2. Noted(b, start, length, q.rowIndex, q)
            BY <2>3 DEF InBlanks, SameNotes, Noted
        <3>3. InRow(b, k + 1, start, q)
            BY <2>3, <2>5 DEF InRow
        <3>4. InHead(b, k + 1, start, rows, length, q)
            BY <3>1, <3>2, <3>3 DEF InHead
        <3> QED
            BY <2>5, <3>4
    <2> QED
        BY <2>4, <2>5
<1> QED
    BY <1>3, <1>4

\* In the head: a row has its text, then CR, and is noted with LF.
LEMMA StepInHead ==
    ASSUME NEW b \in Seq(Byte), NEW start \in 1 .. Len(b), NEW rows \in 1 .. Len(b),
           NEW length \in 0 .. Len(b), Framing(b, start, rows, length),
           NEW k \in Nat, k < start + 3 * rows, NEW p \in ParserState,
           InHead(b, k, start, rows, length, p), NEW q, q = TakeByte(p, b[k + 1])
    PROVE  InHead(b, k + 1, start, rows, length, q)
<1> DEFINE i == p.rowIndex
           f == start + 3 * i
<1>0. NoBodyYet(p) /\ i \in 0 .. rows /\ Noted(b, start, length, i, p) /\ InRow(b, k, start, p)
    BY DEF InHead
<1> HIDE DEF i
<1>i. i \in Int /\ start \in Int /\ rows \in Int /\ 0 <= i /\ i <= rows /\ 0 < start /\ 0 < rows
    BY <1>0
<1>1. /\ \A j \in 0 .. rows - 1 : /\ b[start + 3 * j] \notin {"CR", "LF"}
                                  /\ b[start + 3 * j + 1] = "CR" /\ b[start + 3 * j + 2] = "LF"
      /\ b[start + 3 * rows] = "CR" /\ start + 3 * rows + 1 <= Len(b)
    BY DEF Framing, RowsOfHead
<1>2. k + 1 \in 1 .. Len(b) /\ b[k + 1] \in Byte /\ f \in Nat
    BY <1>0, <1>1
<1>3. ASSUME b[k + 1] # "LF"
      PROVE  /\ q.rowContent = Append(p.rowContent, b[k + 1]) /\ q.rowIndex = i
             /\ NoBodyYet(q) /\ Noted(b, start, length, i, q)
    <2>1. q.rowContent = Append(p.rowContent, b[k + 1]) /\ q.rowIndex = i /\ SameNotes(p, q)
        BY <1>0, <1>2, <1>3, ByteOfRow DEF NoBodyYet, i
    <2> QED
        BY <1>0, <2>1 DEF NoBodyYet, SameNotes, Noted
<1>4. CASE k = f - 1 /\ p.rowContent = <<>>
    <2>1. k + 1 = f
        BY <1>i, <1>4
    <2>2. i \in 0 .. rows - 1 \/ i = rows
        BY <1>i
    <2>3. b[f] # "LF"
        BY <1>1, <2>2
    <2>4. q.rowContent = <<b[f]>> /\ q.rowIndex = i /\ NoBodyYet(q) /\ Noted(b, start, length, i, q)
        BY <1>3, <1>4, <2>1, <2>3
    <2>5. InRow(b, k + 1, start, q)
        BY <2>1, <2>4 DEF InRow
    <2> QED
        BY <1>0, <2>4, <2>5 DEF InHead
<1>5. CASE k = f /\ p.rowContent = <<b[f]>>
    <2>1. i \in 0 .. rows - 1
        BY <1>i, <1>5
    <2>2. k + 1 = f + 1 /\ b[f + 1] = "CR"
        BY <1>1, <1>5, <2>1
    <2>3. /\ q.rowContent = <<b[f], "CR">> /\ q.rowIndex = i /\ NoBodyYet(q)
          /\ Noted(b, start, length, i, q)
        BY <1>3, <1>5, <2>2
    <2>4. InRow(b, k + 1, start, q)
        BY <2>2, <2>3 DEF InRow
    <2> QED
        BY <1>0, <2>3, <2>4 DEF InHead
<1>6. CASE k = f + 1 /\ p.rowContent = <<b[f], "CR">>
    <2>1. i \in 0 .. rows - 1
        BY <1>i, <1>6
    <2>2. k + 1 = f + 2 /\ b[f + 2] = "LF" /\ b[f] \notin {"CR", "LF"}
        <3>1. k + 1 = f + 2
            BY <1>i, <1>6
        <3> QED
            BY <1>1, <2>1, <3>1
    <2>3. f \in 1 .. Len(b) /\ b[f] \in Byte
        BY <1>i, <1>1, <2>1
    <2>4. ~p.headParsed /\ q = TakeByte(p, "LF")
        BY <1>0, <2>2 DEF NoBodyYet
    <2> HIDE DEF f
    <2> DEFINE text == b[f]
    <2>t. text \in Byte \ {"CR", "LF"} /\ p.rowContent = <<text, "CR">>
        BY <1>6, <2>2, <2>3
    <2> HIDE DEF text
    <2>5. /\ q.rowContent = <<>> /\ q.rowIndex = i + 1 /\ NoBodyYet(q)
        BY <1>0, <2>t, <2>4, TextRow DEF NoBodyYet, i
    <2>6. Noted(b, start, length, i + 1, q)
        <3>1. CASE i = 0
            <4>1. /\ q.noBody <=> b[f] \in Bodyless
                  /\ q.contentLength = p.contentLength
                  /\ q.isChunked = p.isChunked /\ q.isByteRanges = p.isByteRanges
                BY <2>t, <2>4, <3>1, TextRow DEF i, text
            <4>2. f = start
                BY <3>1 DEF f
            <4> QED
                BY <1>0, <3>1, <4>1, <4>2 DEF Noted
        <3>2. CASE i # 0
            <4>1. /\ q.noBody = p.noBody
                  /\ q.contentLength = IF b[f] \in DOMAIN ContentLength THEN ContentLength[b[f]]
                                       ELSE p.contentLength
                  /\ q.isChunked <=> p.isChunked \/ b[f] \in Chunked
                  /\ q.isByteRanges <=> p.isByteRanges \/ b[f] \in Multipart
                BY <2>t, <2>4, <3>2, TextRow DEF i, text
            <4>2. q.noBody <=> (i + 1 > 0 /\ b[start] \in Bodyless)
                BY <1>0, <2>1, <3>2, <4>1 DEF Noted
            <4>3. ASSUME b[start] \notin Bodyless
                  PROVE  /\ ~q.isChunked /\ ~q.isByteRanges
                         /\ q.contentLength =
                               IF \E j \in 1 .. i : b[start + 3 * j] \in DOMAIN ContentLength
                               THEN length ELSE 0
                <5>1. SaysLength(b, start, rows, length)
                    BY <4>3 DEF Framing
                <5>2. b[f] \notin Chunked \cup Multipart
                    BY <2>1, <5>1 DEF SaysLength, f
                <5>3. b[f] \in DOMAIN ContentLength => ContentLength[b[f]] = length
                    <6>1. i \in 1 .. rows - 1
                        BY <2>1, <3>2
                    <6> QED
                        BY <5>1, <6>1 DEF SaysLength, f
                <5>4. /\ ~p.isChunked /\ ~p.isByteRanges
                      /\ p.contentLength =
                            IF \E j \in 1 .. i - 1 : b[start + 3 * j] \in DOMAIN ContentLength
                            THEN length ELSE 0
                    BY <1>0, <4>3 DEF Noted
                <5>5. (\E j \in 1 .. i : b[start + 3 * j] \in DOMAIN ContentLength)
                      <=> \/ \E j \in 1 .. i - 1 : b[start + 3 * j] \in DOMAIN ContentLength
                          \/ b[f] \in DOMAIN ContentLength
                    <6>1. 1 .. i = (1 .. i - 1) \cup {i}
                        BY <2>1, <3>2
                    <6> QED
                        BY <6>1 DEF f
                <5> QED
                    BY <4>1, <5>2, <5>3, <5>4, <5>5
            <4>4. (i + 1) - 1 = i
                BY <2>1
            <4> QED
                BY <4>2, <4>3, <4>4 DEF Noted
        <3> QED
            BY <3>1, <3>2
    <2>7. k + 1 = (start + 3 * (i + 1)) - 1 /\ i + 1 \in 0 .. rows
        <3>1. f = start + 3 * i
            BY DEF f
        <3> QED
            BY <1>i, <2>1, <2>2, <3>1
    <2>8. InRow(b, k + 1, start, q)
        BY <2>5, <2>7 DEF InRow
    <2> QED
        BY <2>5, <2>6, <2>7, <2>8 DEF InHead
<1>7. \/ k = f - 1 /\ p.rowContent = <<>>
      \/ k = f /\ p.rowContent = <<b[f]>>
      \/ k = f + 1 /\ p.rowContent = <<b[f], "CR">>
    BY <1>0 DEF InRow, i
<1> QED
    BY <1>4, <1>5, <1>6, <1>7

\* The last byte of the head.
LEMMA StepEndsHead ==
    ASSUME NEW b \in Seq(Byte), NEW start \in 1 .. Len(b), NEW rows \in 1 .. Len(b),
           NEW length \in 0 .. Len(b), Framing(b, start, rows, length),
           NEW k \in Nat, k = start + 3 * rows, NEW p \in ParserState,
           InHead(b, k, start, rows, length, p), NEW q, q = TakeByte(p, b[k + 1])
    PROVE  /\ b[start] \in Bodyless => q.finished
           /\ b[start] \notin Bodyless => InBody(k + 1, k + 1, length, q)
<1> DEFINE i == p.rowIndex
<1>0. NoBodyYet(p) /\ i \in 0 .. rows /\ Noted(b, start, length, i, p) /\ InRow(b, k, start, p)
    BY DEF InHead
<1> HIDE DEF i
<1>1. i \in Int /\ start \in Int /\ rows \in Int /\ 0 <= i /\ i <= rows /\ 0 < start /\ 0 < rows
    BY <1>0
<1>2. b[k] = "CR" /\ b[k + 1] = "LF"
    BY DEF Framing, RowsOfHead
<1>3. i = rows /\ p.rowContent = <<b[k]>>
    <2>1. \/ k = start + 3 * i - 1
          \/ k = start + 3 * i /\ p.rowContent = <<b[start + 3 * i]>>
          \/ k = start + 3 * i + 1
        BY <1>0 DEF InRow, i
    <2>2. k # start + 3 * i - 1 /\ k # start + 3 * i + 1
        BY <1>1
    <2>3. k = start + 3 * i => i = rows
        BY <1>1
    <2> QED
        BY <2>1, <2>2, <2>3
<1>4. /\ ~p.headParsed /\ ~p.finished /\ p.rowIndex # 0 /\ p.rowContent = <<"CR">>
      /\ q = TakeByte(p, "LF") /\ p.bodyLength = 0
    BY <1>0, <1>1, <1>2, <1>3 DEF NoBodyYet, i
<1>5. CASE b[start] \in Bodyless
    <2>1. p.noBody
        BY <1>0, <1>1, <1>3, <1>5 DEF Noted
    <2> QED
        BY <1>4, <1>5, <2>1, HeadOver
<1>6. CASE b[start] \notin Bodyless
    <2>1. ~p.noBody /\ ~p.isChunked /\ ~p.isByteRanges
        BY <1>0, <1>6 DEF Noted
    <2>2. p.contentLength = length
        <3>1. p.contentLength = IF \E j \in 1 .. rows - 1 : b[start + 3 * j] \in DOMAIN ContentLength
                                THEN length ELSE 0
            BY <1>0, <1>3, <1>6 DEF Noted
        <3>2. length = 0 \/ \E j \in 1 .. rows - 1 : b[start + 3 * j] \in DOMAIN ContentLength
            BY <1>6 DEF Framing, SaysLength
        <3> QED
            BY <3>1, <3>2
    <2>3. /\ q.headParsed /\ ~q.noBody /\ ~q.isChunked /\ ~q.isByteRanges
          /\ q.contentLength = length /\ q.bodyLength = 0
          /\ q.finished <=> 0 >= length
        BY <1>4, <2>1, <2>2, HeadOver
    <2>4. /\ (k + 1) - (k + 1) = 0 /\ k + 1 <= k + 1 + length
          /\ 0 >= length <=> k + 1 = k + 1 + length
        OBVIOUS
    <2> QED
        BY <1>6, <2>3, <2>4 DEF InBody
<1> QED
    BY <1>5, <1>6

\* A byte of the body is counted, and the last one ends the message.
LEMMA StepInBody ==
    ASSUME NEW p \in ParserState, ~p.finished, NEW b \in Byte, NEW k \in Nat, NEW h \in Nat,
           NEW length \in Nat, InBody(k, h, length, p), NEW q, q = TakeByte(p, b)
    PROVE  InBody(k + 1, h, length, q)
<1>1. /\ p.headParsed /\ ~p.noBody /\ ~p.isChunked /\ ~p.isByteRanges
      /\ p.contentLength = length /\ p.bodyLength = k - h /\ k <= h + length
      /\ k # h + length
    BY DEF InBody
<1>2. /\ q.headParsed /\ ~q.noBody /\ ~q.isChunked /\ ~q.isByteRanges
      /\ q.contentLength = length /\ q.bodyLength = (k - h) + 1
      /\ q.finished <=> (k - h) + 1 >= length
    BY <1>1, ByteOfBody
<1>3. /\ (k - h) + 1 = (k + 1) - h /\ k + 1 <= h + length
      /\ (k - h) + 1 >= length <=> k + 1 = h + length
    BY <1>1
<1> QED
    BY <1>2, <1>3 DEF InBody

\* One turn of the loop, wherever the message is.
LEMMA ParserStep ==
    ASSUME NEW b \in Seq(Byte), NEW start \in 1 .. Len(b), NEW rows \in 1 .. Len(b),
           NEW length \in 0 .. Len(b), Framing(b, start, rows, length),
           NEW k \in Nat, k < Len(b), NEW p \in ParserState, ~p.finished,
           ParserAt(b, k, start, rows, length, p), NEW q, q = TakeByte(p, b[k + 1])
    PROVE  ParserAt(b, k + 1, start, rows, length, q)
<1> DEFINE h == start + 3 * rows + 1
<1>1. /\ k < start => InBlanks(b, k, p)
      /\ start <= k /\ k < h => InHead(b, k, start, rows, length, p)
      /\ h <= k => IF b[start] \in Bodyless THEN k = h /\ p.finished
                   ELSE InBody(k, h, length, p)
    BY DEF ParserAt
<1>2. start < h /\ h \in Nat /\ start \in Nat
    OBVIOUS
<1>3. CASE k < start
    <2>1. /\ k + 1 < start => InBlanks(b, k + 1, q)
          /\ k + 1 = start => InHead(b, k + 1, start, rows, length, q)
        BY <1>1, <1>3, StepInBlanks
    <2>2. k + 1 < start \/ k + 1 = start
        BY <1>2, <1>3
    <2> HIDE DEF h
    <2>3. (k + 1 < start => ~(start <= k + 1)) /\ ~(h <= k + 1) /\ (k + 1 = start => ~(k + 1 < start))
        BY <1>2, <1>3
    <2> QED
        BY <2>1, <2>2, <2>3 DEF ParserAt, h
<1>4. CASE start <= k /\ k < h - 1
    <2>1. k < start + 3 * rows
        BY <1>4
    <2>2. InHead(b, k, start, rows, length, p)
        BY <1>1, <1>2, <1>4
    <2>3. InHead(b, k + 1, start, rows, length, q)
        BY <2>1, <2>2, StepInHead
    <2>4. ~(k + 1 < start) /\ ~(h <= k + 1)
        BY <1>2, <1>4
    <2> QED
        BY <2>3, <2>4 DEF ParserAt
<1>5. CASE k = h - 1
    <2>1. k = start + 3 * rows /\ k + 1 = h
        BY <1>5
    <2>2. InHead(b, k, start, rows, length, p)
        BY <1>1, <1>2, <1>5
    <2>3. /\ b[start] \in Bodyless => q.finished
          /\ b[start] \notin Bodyless => InBody(k + 1, k + 1, length, q)
        BY <2>1, <2>2, StepEndsHead
    <2>4. ~(k + 1 < start) /\ ~(k + 1 < h)
        BY <1>2, <2>1
    <2> QED
        BY <2>1, <2>3, <2>4 DEF ParserAt
<1>6. CASE h <= k
    <2>1. b[start] \notin Bodyless /\ InBody(k, h, length, p)
        BY <1>1, <1>6
    <2>2. b[k + 1] \in Byte /\ length \in Nat
        OBVIOUS
    <2> HIDE DEF h
    <2>3. InBody(k + 1, h, length, q)
        BY <1>2, <2>1, <2>2, StepInBody
    <2>4. ~(k + 1 < start) /\ ~(k + 1 < h)
        BY <1>2, <1>6
    <2> QED
        BY <2>1, <2>3, <2>4 DEF ParserAt, h
<1> QED
    BY <1>2, <1>3, <1>4, <1>5, <1>6

-----------------------------------------------------------------------------
(* The rules agree: how long a framed message is. *)

\* How a minimum is recognised.
LEMMA MinIs ==
    ASSUME NEW S \in SUBSET Int, NEW x \in S, \A y \in S : x <= y
    PROVE  Min(S) = x
<1> DEFINE m == CHOOSE y \in S : \A z \in S : y =< z
<1>1. m \in S /\ \A z \in S : m =< z
    OBVIOUS
<1>2. m <= x /\ x <= m /\ m \in Int /\ x \in Int
    BY <1>1
<1> HIDE DEF m
<1>3. m = x
    BY <1>2
<1> QED
    BY <1>3 DEF Min, m

\* The largest of one number.
LEMMA MaxOfOne == ASSUME NEW x \in Int PROVE Max({x}) = x
<1>1. (CHOOSE y \in {x} : \A z \in {x} : y >= z) = x
    OBVIOUS
<1> QED
    BY <1>1 DEF Max

\* A position in the head is that of a text, of its CR or of its LF.
LEMMA Thirds ==
    ASSUME NEW d \in Nat
    PROVE  \E j \in Nat : d = 3 * j \/ d = 3 * j + 1 \/ d = 3 * j + 2
<1>1. d \div 3 \in Nat /\ (d = 3 * (d \div 3) \/ d = 3 * (d \div 3) + 1 \/ d = 3 * (d \div 3) + 2)
    OBVIOUS
<1> QED
    BY <1>1

\* A byte of the head is a text, or CR, or LF, each where the rows have it.
LEMMA BytesOfHead ==
    ASSUME NEW b \in Seq(Byte), NEW start \in 1 .. Len(b), NEW rows \in 1 .. Len(b),
           RowsOfHead(b, start, rows), NEW k \in Nat, start <= k, k <= start + 3 * rows + 1
    PROVE  \/ \E j \in 0 .. rows - 1 : k = start + 3 * j
           \/ b[k] = "CR"
           \/ /\ b[k] = "LF"
              /\ \/ k = start + 3 * rows + 1
                 \/ \E j \in 0 .. rows - 1 : k = start + 3 * j + 2
<1>1. PICK j \in Nat : k - start = 3 * j \/ k - start = 3 * j + 1 \/ k - start = 3 * j + 2
    <2>1. k - start \in Nat
        OBVIOUS
    <2> QED
        BY <2>1, Thirds
<1>2. CASE j < rows
    <2>1. j \in 0 .. rows - 1
        BY <1>2
    <2>2. k = start + 3 * j \/ k = start + 3 * j + 1 \/ k = start + 3 * j + 2
        BY <1>1
    <2>3. b[start + 3 * j + 1] = "CR" /\ b[start + 3 * j + 2] = "LF"
        BY <2>1 DEF RowsOfHead
    <2> QED
        BY <2>1, <2>2, <2>3
<1>3. CASE rows <= j
    <2>1. k = start + 3 * rows \/ k = start + 3 * rows + 1
        BY <1>1, <1>3
    <2>2. b[start + 3 * rows] = "CR" /\ b[start + 3 * rows + 1] = "LF"
        BY DEF RowsOfHead
    <2> QED
        BY <2>1, <2>2
<1> QED
    BY <1>2, <1>3

\* The rules find the start line and the end of the head where the rows have them.
LEMMA HeadIsWhereTheRowsEnd ==
    ASSUME NEW b \in Seq(Byte), NEW start \in 1 .. Len(b), NEW rows \in 1 .. Len(b),
           RowsOfHead(b, start, rows), start + 3 * rows + 1 <= Len(b)
    PROVE  StartLine(b) = start /\ HeadLength(b) = start + 3 * rows + 1
<1> DEFINE h == start + 3 * rows + 1
<1>1. /\ \A k \in 1 .. start - 1 : b[k] \in {"CR", "LF"}
      /\ \A j \in 0 .. rows - 1 : /\ b[start + 3 * j] \notin {"CR", "LF"}
                                  /\ b[start + 3 * j + 1] = "CR" /\ b[start + 3 * j + 2] = "LF"
      /\ b[start + 3 * rows] = "CR" /\ b[h] = "LF"
    BY DEF RowsOfHead
<1>2. b[start] \notin {"CR", "LF"}
    <2>1. 0 \in 0 .. rows - 1 /\ start + 3 * 0 = start
        OBVIOUS
    <2> QED
        BY <1>1, <2>1
<1>3. StartLine(b) = start
    <2> DEFINE S == {k \in DOMAIN b : b[k] \notin {"CR", "LF"}}
    <2>1. S \in SUBSET Int /\ start \in S
        BY <1>2
    <2>2. ASSUME NEW y \in S  PROVE start <= y
        BY <1>1
    <2> QED
        BY <2>1, <2>2, MinIs DEF StartLine
<1>4. HeadLength(b) = h
    <2> DEFINE S == {k \in DOMAIN b : k > start /\ EmptyRowEnds(b, k)}
    <2>1. h \in S
        <3>1. h - 1 = start + 3 * rows /\ h - 2 = start + 3 * (rows - 1) + 2 /\ rows - 1 \in 0 .. rows - 1
            OBVIOUS
        <3>2. b[h - 1] = "CR" /\ b[h - 2] = "LF"
            BY <1>1, <3>1
        <3>3. h > start /\ h > 2 /\ h \in DOMAIN b
            OBVIOUS
        <3> QED
            BY <1>1, <3>2, <3>3 DEF EmptyRowEnds, RowEnds
    <2>2. ASSUME NEW y \in S, y < h  PROVE FALSE
        <3>1. y \in Nat /\ start <= y /\ y <= h /\ b[y] = "LF"
            BY <2>2 DEF EmptyRowEnds, RowEnds
        <3>2. PICK j \in 0 .. rows - 1 : y = start + 3 * j \/ y = start + 3 * j + 2
            BY <2>2, <3>1, BytesOfHead
        <3>3. y = start + 3 * j + 2
            BY <1>1, <3>1, <3>2
        <3>4. y - 1 = start + 3 * j + 1 /\ y - 2 = start + 3 * j
            BY <3>3
        <3>5. b[y - 1] = "CR" /\ b[y - 2] # "LF"
            BY <1>1, <3>4
        <3> QED
            BY <3>5 DEF EmptyRowEnds
    <2>3. S \in SUBSET Int /\ \A y \in S : h <= y
        BY <2>2
    <2> HIDE DEF h
    <2> QED
        BY <1>3, <2>1, <2>3, MinIs DEF HeadLength
<1> QED
    BY <1>3, <1>4

\* What the head of a message says whose framing has a length.
LEMMA FramingSays ==
    ASSUME NEW b \in Seq(Byte), NEW start \in 1 .. Len(b), NEW rows \in 1 .. Len(b),
           NEW length \in 0 .. Len(b), Framing(b, start, rows, length), b[start] \notin Bodyless
    PROVE  /\ ~HeadSays(b, Chunked) /\ ~HeadSays(b, Multipart)
           /\ Announced(b) = length
           /\ ~HeadSays(b, DOMAIN ContentLength) => length = 0
<1> DEFINE h == start + 3 * rows + 1
           where == {k \in 1 .. h : b[k] \in DOMAIN ContentLength}
           said  == {ContentLength[b[k]] : k \in where}
<1>1. HeadLength(b) = h
    BY HeadIsWhereTheRowsEnd DEF Framing
<1>2. SaysLength(b, start, rows, length)
    BY DEF Framing
<1>3. ASSUME NEW k \in 1 .. h, b[k] \notin {"CR", "LF"}
      PROVE  \E j \in 0 .. rows - 1 : k = start + 3 * j
    <2>1. start <= k
        BY <1>3 DEF Framing, RowsOfHead
    <2> QED
        BY <1>3, <2>1, BytesOfHead DEF Framing
<1>4. ASSUME NEW k \in 1 .. h, b[k] \in Chunked \cup Multipart  PROVE FALSE
    <2>1. PICK j \in 0 .. rows - 1 : k = start + 3 * j
        BY <1>3, <1>4, HttpParserAssumption
    <2> QED
        BY <1>2, <1>4, <2>1 DEF SaysLength
<1>5. ASSUME NEW k \in where  PROVE ContentLength[b[k]] = length
    <2>1. PICK j \in 0 .. rows - 1 : k = start + 3 * j
        BY <1>3, HttpParserAssumption
    <2>2. j # 0
        BY <1>2, <2>1 DEF SaysLength
    <2>3. j \in 1 .. rows - 1
        BY <2>2
    <2> QED
        BY <1>2, <2>1, <2>3 DEF SaysLength
<1>6. where = {} => length = 0
    <2>1. ASSUME where = {}, NEW j \in 1 .. rows - 1, b[start + 3 * j] \in DOMAIN ContentLength
          PROVE  FALSE
        <3>1. start + 3 * j \in 1 .. h
            OBVIOUS
        <3> QED
            BY <2>1, <3>1
    <2> QED
        BY <1>2, <2>1 DEF SaysLength
<1>7. Announced(b) = length
    <2>1. said = {} \/ said = {length}
        BY <1>5
    <2>2. said = {} => where = {}
        OBVIOUS
    <2>3. Announced(b) = IF said = {} THEN 0 ELSE Max(said)
        BY <1>1 DEF Announced
    <2> HIDE DEF said
    <2> QED
        BY <1>6, <2>1, <2>2, <2>3, MaxOfOne
<1>8. HeadSays(b, DOMAIN ContentLength) <=> where # {}
    BY <1>1 DEF HeadSays
<1>9. ~HeadSays(b, Chunked) /\ ~HeadSays(b, Multipart)
    BY <1>1, <1>4 DEF HeadSays
<1> QED
    BY <1>6, <1>7, <1>8, <1>9

\* The rules give a message without chunks and parts the length that its framing says,
\* unless its body is forbidden though it announces one, or it ends by closing.
LEMMA FramedLength ==
    ASSUME NEW b \in Seq(Byte), NEW start \in 1 .. Len(b), NEW rows \in 1 .. Len(b),
           NEW length \in 0 .. Len(b), Framing(b, start, rows, length),
           NEW forbidden \in BOOLEAN, NEW otherwise,
           NoBody(b) => forbidden,
           forbidden => NoBody(b) \/ Announced(b) = 0,
           ~forbidden => HeadSays(b, DOMAIN ContentLength) \/ otherwise = HeadLength(b)
    PROVE  MessageLength(b, forbidden, otherwise) =
               IF b[start] \in Bodyless THEN start + 3 * rows + 1
               ELSE start + 3 * rows + 1 + length
<1>1. StartLine(b) = start /\ HeadLength(b) = start + 3 * rows + 1
    BY HeadIsWhereTheRowsEnd DEF Framing
<1>2. NoBody(b) <=> b[start] \in Bodyless
    BY <1>1 DEF NoBody
<1>3. CASE b[start] \in Bodyless
    BY <1>1, <1>2, <1>3 DEF MessageLength
<1>4. CASE b[start] \notin Bodyless
    <2>1. /\ ~HeadSays(b, Chunked) /\ ~HeadSays(b, Multipart)
          /\ Announced(b) = length
          /\ ~HeadSays(b, DOMAIN ContentLength) => length = 0
        BY <1>4, FramingSays
    <2>2. CASE forbidden
        BY <1>1, <1>2, <1>4, <2>1, <2>2 DEF MessageLength
    <2>3. CASE ~forbidden /\ HeadSays(b, DOMAIN ContentLength)
        BY <1>1, <1>4, <2>1, <2>3 DEF MessageLength
    <2>4. CASE ~forbidden /\ ~HeadSays(b, DOMAIN ContentLength)
        BY <1>1, <1>4, <2>1, <2>4 DEF MessageLength
    <2> QED
        BY <2>2, <2>3, <2>4
<1> QED
    BY <1>3, <1>4

\* The parser is over exactly at the end that the rules give such a message.
LEMMA FinishedAtEnd ==
    ASSUME NEW s \in Connection, s.parsed <= Len(s.bytes), WithoutParts(s.bytes),
           NEW p, ParsedTo(s, p), NEW forbidden \in BOOLEAN, NEW otherwise,
           NoBody(s.bytes) => forbidden,
           forbidden => NoBody(s.bytes) \/ Announced(s.bytes) = 0,
           ~forbidden => \/ HeadSays(s.bytes, DOMAIN ContentLength)
                         \/ otherwise = HeadLength(s.bytes)
    PROVE  p.finished <=> s.parsed = MessageLength(s.bytes, forbidden, otherwise)
<1> DEFINE b == s.bytes
           k == s.parsed
           end == MessageLength(b, forbidden, otherwise)
<1>1. b \in Seq(Byte) /\ k \in Nat
    BY DEF Connection
<1>2. PICK start \in 1 .. Len(b), rows \in 1 .. Len(b), length \in 0 .. Len(b) :
         Framing(b, start, rows, length)
    BY DEF WithoutParts
<1>3. ParserAt(b, k, start, rows, length, p)
    BY <1>2 DEF ParsedTo
<1> DEFINE h == start + 3 * rows + 1
<1>4. end = IF b[start] \in Bodyless THEN h ELSE h + length
    <2>1. /\ NoBody(b) => forbidden
          /\ forbidden => NoBody(b) \/ Announced(b) = 0
          /\ ~forbidden => HeadSays(b, DOMAIN ContentLength) \/ otherwise = HeadLength(b)
        OBVIOUS
    <2> HIDE DEF b
    <2> QED
        BY <1>1, <1>2, <2>1, FramedLength
<1> HIDE DEF b, k, end
<1>5. start < h /\ h \in Nat /\ start \in Nat /\ length \in Nat
    OBVIOUS
<1>6. /\ k < start => InBlanks(b, k, p)
      /\ start <= k /\ k < h => InHead(b, k, start, rows, length, p)
      /\ h <= k => IF b[start] \in Bodyless THEN k = h /\ p.finished
                   ELSE InBody(k, h, length, p)
    BY <1>3 DEF ParserAt
<1> HIDE DEF h
<1>7. CASE k < h
    <2>1. ~p.finished
        BY <1>1, <1>5, <1>6, <1>7 DEF InBlanks, InHead, NoBodyYet
    <2>2. k # end
        BY <1>1, <1>4, <1>5, <1>7
    <2> QED
        BY <2>1, <2>2 DEF b, k, end
<1>8. CASE h <= k
    <2>1. p.finished <=> k = end
        BY <1>4, <1>6, <1>8 DEF InBody
    <2> QED
        BY <2>1 DEF b, k, end
<1> QED
    BY <1>1, <1>5, <1>7, <1>8

\* A request without chunks and parts is over where the rules put its end,
LEMMA RequestFinished ==
    ASSUME client \in Connection, client.parsed <= Len(client.bytes),
           WithoutParts(client.bytes), ~NoBody(client.bytes), NEW p, ParsedTo(client, p)
    PROVE  p.finished <=> client.parsed = RequestLength
<1> DEFINE forbidden == FALSE
           otherwise == HeadLength(client.bytes)
<1>1. p.finished <=> client.parsed = MessageLength(client.bytes, forbidden, otherwise)
    BY FinishedAtEnd
<1> QED
    BY <1>1 DEF RequestLength

\* and a response that announces its length, or has no body, unless it answers HEAD.
LEMMA ResponseFinished ==
    ASSUME server \in Connection, server.parsed <= Len(server.bytes),
           FramedByLength(server.bytes), ~ResponseMisread, NEW p, ParsedTo(server, p)
    PROVE  p.finished <=> server.parsed = ResponseLength
<1> DEFINE b == server.bytes
           forbidden == ToHead \/ NoBody(b)
           otherwise == Len(b)
<1>1. WithoutParts(b) /\ (NoBody(b) \/ HeadSays(b, DOMAIN ContentLength))
    BY DEF FramedByLength
<1>2. ToHead => NoBody(b) \/ Announced(b) = 0
    BY DEF ResponseMisread
<1>3. forbidden \in BOOLEAN
    BY DEF ToHead, NoBody
<1>4. /\ NoBody(b) => forbidden
      /\ forbidden => NoBody(b) \/ Announced(b) = 0
      /\ ~forbidden => HeadSays(b, DOMAIN ContentLength) \/ otherwise = HeadLength(b)
    BY <1>1, <1>2
<1> HIDE DEF forbidden, otherwise
<1>5. p.finished <=> server.parsed = MessageLength(server.bytes, forbidden, otherwise)
    BY <1>1, <1>3, <1>4, FinishedAtEnd
<1> QED
    BY <1>5 DEF ResponseLength, forbidden, otherwise

\* When the parser is over the response is there, also when it answers HEAD.
LEMMA ResponseIsThere ==
    ASSUME server \in Connection, server.parsed <= Len(server.bytes),
           FramedByLength(server.bytes), NEW p, ParsedTo(server, p), p.finished,
           ToHead \/ ~ResponseMisread
    PROVE  ResponseLength \in Nat /\ server.parsed >= ResponseLength
<1>1. CASE ~ResponseMisread
    <2>1. server.parsed = ResponseLength /\ server.parsed \in Nat
        BY <1>1, ResponseFinished DEF Connection
    <2> QED
        BY <2>1
<1>2. CASE ToHead
    <2> DEFINE b == server.bytes
               forbidden == NoBody(b)
               otherwise == Len(b)
    <2>1. WithoutParts(b) /\ (NoBody(b) \/ HeadSays(b, DOMAIN ContentLength)) /\ b \in Seq(Byte)
        BY DEF FramedByLength, Connection
    <2>2. forbidden \in BOOLEAN
        BY DEF NoBody
    <2>3. /\ NoBody(b) => forbidden
          /\ forbidden => NoBody(b) \/ Announced(b) = 0
          /\ ~forbidden => HeadSays(b, DOMAIN ContentLength) \/ otherwise = HeadLength(b)
        BY <2>1
    <2> HIDE DEF forbidden, otherwise
    <2>4. server.parsed = MessageLength(server.bytes, forbidden, otherwise)
        BY <2>1, <2>2, <2>3, FinishedAtEnd
    <2>5. PICK start \in 1 .. Len(b), rows \in 1 .. Len(b), length \in 0 .. Len(b) :
             Framing(b, start, rows, length)
        BY <2>1 DEF WithoutParts
    <2>6. HeadLength(b) = start + 3 * rows + 1
        BY <2>1, <2>5, HeadIsWhereTheRowsEnd DEF Framing
    <2>7. MessageLength(b, forbidden, otherwise) =
             IF b[start] \in Bodyless THEN start + 3 * rows + 1 ELSE start + 3 * rows + 1 + length
        <3> HIDE DEF b
        <3> QED
            BY <2>1, <2>2, <2>3, <2>5, FramedLength
    <2>8. ResponseLength = HeadLength(b)
        BY <1>2 DEF ResponseLength, MessageLength
    <2> HIDE DEF b
    <2>9. HeadLength(b) \in Nat /\ MessageLength(b, forbidden, otherwise) >= HeadLength(b)
        BY <2>6, <2>7
    <2> QED
        BY <2>4, <2>8, <2>9 DEF b
<1> QED
    BY <1>1, <1>2

\* A response with a length is not misread, unless it answers HEAD.
LEMMA LengthIsNotMisread ==
    ASSUME server.bytes \in Seq(Byte), FramedByLength(server.bytes)
    PROVE  ToHead \/ ~ResponseMisread
<1> DEFINE b == server.bytes
<1>1. CASE NoBody(b)
    BY <1>1 DEF ResponseMisread
<1>2. CASE ~NoBody(b)
    <2>1. PICK start \in 1 .. Len(b), rows \in 1 .. Len(b), length \in 0 .. Len(b) :
             Framing(b, start, rows, length)
        BY DEF FramedByLength, WithoutParts
    <2>2. b[start] \notin Bodyless
        BY <1>2, <2>1, HeadIsWhereTheRowsEnd DEF Framing, NoBody
    <2>3. ~HeadSays(b, Chunked) /\ ~HeadSays(b, Multipart) /\ HeadSays(b, DOMAIN ContentLength)
        BY <1>2, <2>1, <2>2, FramingSays DEF FramedByLength
    <2>4. HeadSays(b, Chunked \cup Multipart \cup DOMAIN ContentLength)
        BY <2>3 DEF HeadSays
    <2> QED
        BY <2>3, <2>4 DEF ResponseMisread, Misread
<1> QED
    BY <1>1, <1>2

-----------------------------------------------------------------------------
(* The thread. *)

\* Peers and reads do not parse.
LEMMA SameBytes ==
    ASSUME NEW s \in Connection, NEW sends, NEW t, t \in Peer(s, sends) \/ t \in Reads(s)
    PROVE  t.bytes = s.bytes /\ t.parsed = s.parsed
<1>1. CASE t \in Reads(s)
    BY <1>1 DEF Reads, Connection
<1>2. CASE t \in Peer(s, sends)
    BY <1>2 DEF Peer, Connection
<1> QED
    BY <1>1, <1>2

\* The parser is where it was while nothing is parsed.
LEMMA StaysParsed ==
    ASSUME NEW s, NEW t, t.bytes = s.bytes, t.parsed = s.parsed, NEW p, ParsedTo(s, p)
    PROVE  ParsedTo(t, p)
BY DEF ParsedTo

\* A new parser is where a message begins.
LEMMA NothingParsed ==
    ASSUME NEW s, s.parsed = 0
    PROVE  ParsedTo(s, NewParser)
<1> SUFFICES ASSUME NEW start \in 1 .. Len(s.bytes), NEW rows \in 1 .. Len(s.bytes),
                    NEW length \in 0 .. Len(s.bytes)
             PROVE  ParserAt(s.bytes, 0, start, rows, length, NewParser)
    BY DEF ParsedTo
<1>1. start \in Int /\ rows \in Int /\ 0 < start /\ 0 < rows
    OBVIOUS
<1>2. 0 < start /\ ~(start <= 0) /\ ~(start + 3 * rows + 1 <= 0)
    BY <1>1
<1>3. InBlanks(s.bytes, 0, NewParser)
    BY DEF InBlanks, NoBodyYet, NewParser
<1> QED
    BY <1>2, <1>3 DEF ParserAt

\* The parser goes on by one byte of the connection, to where the framing has it next.
LEMMA ByteParsed ==
    ASSUME NEW s, InOrder(s), s.parsed < s.read, NEW p \in ParserState, ~p.finished,
           ParsedTo(s, p)
    PROVE  ParsedTo(Parsed(s), TakeByte(p, NextByte(s)))
<1> DEFINE b == s.bytes
           k == s.parsed
           q == TakeByte(p, NextByte(s))
<1>1. b \in Seq(Byte) /\ k \in Nat /\ k < Len(b)
    BY DEF InOrder, Connection
<1>2. Parsed(s).bytes = b /\ Parsed(s).parsed = k + 1
    BY DEF InOrder, Connection, Parsed
<1>3. q = TakeByte(p, b[k + 1])
    BY DEF NextByte
<1> HIDE DEF q
<1> SUFFICES ASSUME NEW start \in 1 .. Len(b), NEW rows \in 1 .. Len(b),
                    NEW length \in 0 .. Len(b), Framing(b, start, rows, length)
             PROVE  ParserAt(b, k + 1, start, rows, length, q)
    BY <1>2 DEF ParsedTo, q
<1>4. ParserAt(b, k, start, rows, length, p)
    BY DEF ParsedTo
<1> HIDE DEF b, k
<1> QED
    BY <1>1, <1>3, <1>4, ParserStep

\* The answer, if there is a response with a length.
AnswerInv == FramedByLength(server.bytes) => AnswerIsWhole

\* The steps that read and parse the request.
LEMMA RequestFramed ==
    ASSUME ExchangeInv, FramedInv, ReadRequest \/ ParseRequest \/ RequestEnds \/ ClientBroken
    PROVE  FramedInv'
<1>0. InOrder(client) /\ client \in Connection /\ parser \in ParserState
    BY DEF ExchangeInv, InOrder, TypeOK
<1>1. CASE ReadRequest
    <2>1. client'.bytes = client.bytes /\ client'.parsed = client.parsed
        BY <1>0, <1>1, SameBytes DEF ReadRequest
    <2>2. ParsedTo(client', parser)
        BY <1>1, <2>1, StaysParsed DEF ReadRequest, FramedInv
    <2>3. pc' \in {"parsing", "done"} /\ parser' = parser /\ ~parser.finished
        BY <1>1 DEF ReadRequest, Fails, Answers, FramedInv
    <2> QED
        BY <2>2, <2>3 DEF FramedInv
<1>2. CASE ParseRequest
    <2>1. client.parsed < client.read /\ ~parser.finished /\ ParsedTo(client, parser)
        BY <1>2 DEF ParseRequest, ExchangeInv, InHand, FramedInv
    <2>2. ParsedTo(client', parser')
        BY <1>0, <1>2, <2>1, ByteParsed DEF ParseRequest
    <2>3. \/ pc' = "choosing"
          \/ pc' \in {"parsing", "reading"} /\ ~parser'.finished
        BY <1>2 DEF ParseRequest
    <2> QED
        BY <2>2, <2>3 DEF FramedInv
<1>3. CASE RequestEnds
    <2>1. pc' \in {"done", "choosing"} /\ UNCHANGED <<client, parser>> /\ ParsedTo(client, parser)
        BY <1>3 DEF RequestEnds, Fails, Answers, FramedInv
    <2> QED
        BY <2>1 DEF FramedInv
<1>4. CASE ClientBroken
    BY <1>4 DEF ClientBroken, Drops, FramedInv
<1> QED
    BY <1>1, <1>2, <1>3, <1>4

\* The steps from the choice of an instance to the first read of its response, for
\* which a new parser is made when nothing of it is parsed.
LEMMA ForwardFramed ==
    ASSUME ExchangeInv, FramedInv, Choose \/ Send \/ ServerBroken
    PROVE  FramedInv'
<1>1. CASE Choose
    <2>1. CASE pc' = "done"
        BY <2>1 DEF FramedInv
    <2>2. CASE pc' # "done"
        <3>1. /\ server' \in {Opened(r) : r \in RepliesTo(client.bytes)} /\ pc' = "sending"
              /\ UNCHANGED <<client, parser>> /\ ParsedTo(client, parser)
            BY <1>1, <2>2 DEF Choose, Fails, Answers, FramedInv
        <3>2. server'.parsed = 0
            BY <3>1 DEF Opened
        <3> QED
            BY <3>1, <3>2 DEF FramedInv
    <2> QED
        BY <2>1, <2>2
<1>2. CASE Send
    <2>1. pc' = "receiving" /\ parser' = NewParser /\ server' = server /\ server.parsed = 0
        BY <1>2 DEF Send, FramedInv
    <2>2. ParsedTo(server', parser')
        BY <2>1, NothingParsed
    <2>3. ~parser'.finished
        BY <2>1 DEF NewParser
    <2> QED
        BY <2>1, <2>2, <2>3 DEF FramedInv
<1>3. CASE ServerBroken
    BY <1>3 DEF ServerBroken, Drops, FramedInv
<1> QED
    BY <1>1, <1>2, <1>3

\* The steps that read and parse the response, and pass it on.
LEMMA ResponseFramed ==
    ASSUME ExchangeInv, FramedInv, ReadResponse \/ ParseResponse \/ ResponseEnds \/ Respond
    PROVE  FramedInv'
<1>0. InOrder(server) /\ server \in Connection /\ parser \in ParserState
    BY DEF ExchangeInv, InOrder, TypeOK
<1>1. CASE ReadResponse
    <2>1. server'.bytes = server.bytes /\ server'.parsed = server.parsed
        BY <1>0, <1>1, SameBytes DEF ReadResponse
    <2>2. ParsedTo(server', parser)
        BY <1>1, <2>1, StaysParsed DEF ReadResponse, FramedInv
    <2>3. pc' \in {"parsing response", "done"} /\ parser' = parser /\ ~parser.finished
        BY <1>1 DEF ReadResponse, Fails, Answers, FramedInv
    <2> QED
        BY <2>2, <2>3 DEF FramedInv
<1>2. CASE ParseResponse
    <2>1. server.parsed < server.read /\ ~parser.finished /\ ParsedTo(server, parser)
        BY <1>2 DEF ParseResponse, ExchangeInv, InHand, FramedInv
    <2>2. ParsedTo(server', parser')
        BY <1>0, <1>2, <2>1, ByteParsed DEF ParseResponse
    <2>3. \/ pc' = "answering" /\ parser'.finished
          \/ pc' \in {"parsing response", "receiving"} /\ ~parser'.finished
        BY <1>2 DEF ParseResponse
    <2> QED
        BY <2>2, <2>3 DEF FramedInv
<1>3. CASE ResponseEnds \/ Respond
    BY <1>3 DEF ResponseEnds, Respond, Fails, Answers, FramedInv
<1> QED
    BY <1>1, <1>2, <1>3

\* The peers move the ends of what can be read only.
LEMMA PeersFramed ==
    ASSUME ExchangeInv, FramedInv, ClientMoves \/ ServerMoves
    PROVE  FramedInv'
<1>0. client \in Connection /\ server \in Connection
    BY DEF ExchangeInv, TypeOK
<1>1. CASE ClientMoves
    <2>1. /\ client'.bytes = client.bytes /\ client'.parsed = client.parsed
          /\ UNCHANGED <<server, pc, parser>>
        BY <1>0, <1>1, SameBytes DEF ClientMoves
    <2>2. ParsedTo(client, parser) => ParsedTo(client', parser)
        BY <2>1, StaysParsed
    <2> QED
        BY <2>1, <2>2 DEF FramedInv
<1>2. CASE ServerMoves
    <2>1. /\ server'.bytes = server.bytes /\ server'.parsed = server.parsed
          /\ UNCHANGED <<client, pc, parser>>
        BY <1>0, <1>2, SameBytes DEF ServerMoves
    <2>2. ParsedTo(server, parser) => ParsedTo(server', parser)
        BY <2>1, StaysParsed
    <2> QED
        BY <2>1, <2>2 DEF FramedInv
<1> QED
    BY <1>1, <1>2

\* The answer is written once, when the thread ends.
LEMMA AnswerStep ==
    ASSUME ExchangeInv, FramedInv, AnswerInv, [Next]_vars
    PROVE  FramedByLength(server.bytes)' => AnswerIsWhole'
<1>0. server \in Connection
    BY DEF ExchangeInv, TypeOK
<1>1. CASE UNCHANGED vars
    BY <1>1 DEF vars, AnswerInv, AnswerIsWhole, ResponseLength, ResponseMisread, ToHead
<1>2. CASE answer' = <<>> \/ \E code \in Code : answer' = <<code>>
    BY <1>2 DEF AnswerIsWhole
<1>3. CASE Respond
    <2>1. UNCHANGED <<client, server>> /\ answer' \in {SubSeq(server.bytes, 1, server.read), <<>>}
        BY <1>3 DEF Respond, Answers
    <2>2. ASSUME FramedByLength(server.bytes), answer' = SubSeq(server.bytes, 1, server.read)
          PROVE  AnswerIsWhole'
        <3>1. /\ server \in Connection /\ server.parsed <= server.read
              /\ server.read <= Len(server.bytes) /\ server.parsed <= Len(server.bytes)
            BY DEF ExchangeInv, InOrder, Connection
        <3>2. parser.finished /\ ParsedTo(server, parser)
            BY <1>3 DEF Respond, FramedInv
        <3>3. ResponseLength' = ResponseLength
            BY <2>1 DEF ResponseLength, ToHead
        <3>4. ToHead \/ ~ResponseMisread
            BY <1>0, <2>2, LengthIsNotMisread DEF Connection
        <3>5. ResponseLength \in Nat /\ server.parsed >= ResponseLength
            BY <2>2, <3>1, <3>2, <3>4, ResponseIsThere
        <3>6. Len(answer') = server.read
            BY <2>2, <3>1, SubSeqProperties DEF Connection
        <3>7. Len(answer') >= ResponseLength
            BY <3>1, <3>5, <3>6 DEF Connection
        <3> QED
            BY <2>1, <2>2, <3>3, <3>6, <3>7 DEF AnswerIsWhole
    <2> QED
        BY <1>2, <2>1, <2>2
<1>4. CASE Thread /\ ~Respond
    <2>1. pc # "done"
        BY <1>4 DEF Thread, ReadRequest, ParseRequest, RequestEnds, ClientBroken, Choose, Send,
           ServerBroken, ReadResponse, ParseResponse, ResponseEnds
    <2>2. answer = <<>>
        BY <2>1 DEF ExchangeInv, InHand
    <2>3. answer' = answer \/ answer' = <<>> \/ \E code \in Code : answer' = <<code>>
        BY <1>4 DEF Thread, ReadRequest, ParseRequest, RequestEnds, ClientBroken, Choose, Send,
           ServerBroken, ReadResponse, ParseResponse, ResponseEnds, Drops, Fails, Answers, Code
    <2> QED
        BY <1>2, <2>2, <2>3
<1>5. CASE ClientMoves \/ ServerMoves
    <2>1. pc # "done" /\ answer' = answer
        BY <1>5 DEF ClientMoves, ServerMoves
    <2> QED
        BY <1>2, <2>1 DEF ExchangeInv, InHand
<1> QED
    BY <1>1, <1>3, <1>4, <1>5 DEF Next

\* Both are inductive: the parser is where the framing has it, however the bytes were cut
\* into buffers, and an answer is written only after its end.
THEOREM FramedInvariant == Spec => [](FramedInv /\ AnswerInv)
<1>1. Init => FramedInv /\ AnswerInv
    <2> SUFFICES ASSUME Init  PROVE FramedInv /\ AnswerInv
        OBVIOUS
    <2>1. client.parsed = 0 /\ pc = "reading" /\ parser = NewParser /\ answer = <<>>
        BY DEF Init, Opened
    <2>2. ParsedTo(client, parser) /\ ~parser.finished
        BY <2>1, NothingParsed DEF NewParser
    <2> QED
        BY <2>1, <2>2 DEF FramedInv, AnswerInv, AnswerIsWhole
<1>2. ExchangeInv /\ FramedInv /\ AnswerInv /\ [Next]_vars => FramedInv' /\ AnswerInv'
    <2> SUFFICES ASSUME ExchangeInv, FramedInv, AnswerInv, [Next]_vars
                 PROVE  FramedInv' /\ AnswerInv'
        OBVIOUS
    <2>1. AnswerInv'
        BY AnswerStep DEF AnswerInv
    <2>2. CASE Thread
        BY <2>1, <2>2, RequestFramed, ForwardFramed, ResponseFramed DEF Thread
    <2>3. CASE ClientMoves \/ ServerMoves
        BY <2>1, <2>3, PeersFramed
    <2>4. CASE UNCHANGED vars
        BY <2>1, <2>4 DEF vars, FramedInv, ParsedTo
    <2> QED
        BY <2>2, <2>3, <2>4 DEF Next
<1> QED
    BY <1>1, <1>2, ExchangeInvariant, PTL DEF Spec

\* The parser ends a request without chunks and parts, and a response that has no body
\* or announces its length, exactly where the rules put its end, however the bytes were
\* cut into buffers (AbstractHttpParser.java:233-297); except for a response to HEAD that
\* announces a body.  A response that announces nothing is not among them: by the rules
\* its end is that of the connection, and the code ends it with its head.
THEOREM EndsWhereLengthSays ==
    Spec => [](( /\ pc \in {"reading", "parsing", "choosing", "sending"} =>
                        WithoutParts(client.bytes) /\ ~NoBody(client.bytes)
                 /\ pc \in {"receiving", "parsing response", "answering"} =>
                        FramedByLength(server.bytes))
               => EndsWhereFramed)
<1> DEFINE Framed == /\ pc \in {"reading", "parsing", "choosing", "sending"} =>
                            WithoutParts(client.bytes) /\ ~NoBody(client.bytes)
                     /\ pc \in {"receiving", "parsing response", "answering"} =>
                            FramedByLength(server.bytes)
<1>1. ExchangeInv /\ FramedInv => (Framed => EndsWhereFramed)
    <2> SUFFICES ASSUME ExchangeInv, FramedInv, Framed  PROVE EndsWhereFramed
        OBVIOUS
    <2>1. /\ client \in Connection /\ client.parsed <= Len(client.bytes)
          /\ server \in Connection /\ server.parsed <= Len(server.bytes)
        BY ParsedIsThere DEF ExchangeInv
    <2>2. ASSUME pc \in {"reading", "parsing", "choosing", "sending"}
          PROVE  parser.finished <=> client.parsed = RequestLength
        BY <2>1, <2>2, RequestFinished DEF FramedInv
    <2>3. ASSUME pc \in {"receiving", "parsing response", "answering"}, ~ResponseMisread
          PROVE  parser.finished <=> server.parsed = ResponseLength
        BY <2>1, <2>3, ResponseFinished DEF FramedInv
    <2> QED
        BY <2>2, <2>3 DEF EndsWhereFramed
<1> QED
    BY <1>1, ExchangeInvariant, FramedInvariant, PTL

\* A client whose response has no body or announces its length gets it whole, from its
\* first byte on, or an error of the dispatcher's own: it is not among the responses of
\* which only the beginning may come (AbstractConnector.java:75-91,
\* DefaultSyncTransmitter.java:60-91).
THEOREM LengthAnswersAreWhole ==
    Spec => [](FramedByLength(server.bytes) => AnswerIsWhole /\ (ToHead \/ ~ResponseMisread))
<1>1. ExchangeInv /\ AnswerInv =>
         (FramedByLength(server.bytes) => AnswerIsWhole /\ (ToHead \/ ~ResponseMisread))
    <2> SUFFICES ASSUME ExchangeInv, AnswerInv, FramedByLength(server.bytes)
                 PROVE  AnswerIsWhole /\ (ToHead \/ ~ResponseMisread)
        OBVIOUS
    <2>1. server.bytes \in Seq(Byte)
        BY DEF ExchangeInv, TypeOK, Connection
    <2> QED
        BY <2>1, LengthIsNotMisread DEF AnswerInv
<1> QED
    BY <1>1, ExchangeInvariant, FramedInvariant, PTL

=============================================================================
