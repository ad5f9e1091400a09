-------------------------- MODULE MCHttpExchange --------------------------
(* Instances of HttpExchange for TLC. *)
EXTENDS HttpExchange

MCByte == {"CR", "LF", "0", "1", "2", "3", "4", "x", "GET", "HEAD", "POST", "200", "204", "Host",
           "Length 0", "Length 2", "chunked", "multipart", "--end--"}

MCContentLength == [b \in {"Length 0", "Length 2"} |-> IF b = "Length 2" THEN 2 ELSE 0]

MCChunkSize ==
    [b \in {"1", "2", "3", "4"} |-> CHOOSE n \in 1 .. 4 : b = <<"1", "2", "3", "4">>[n]]

Row(text) == <<text, "CR", "LF">>

EmptyRow == <<"CR", "LF">>

\* After a blank row, and followed by a part of the next request.
Get == EmptyRow \o Row("GET") \o Row("Host") \o EmptyRow \o <<"GET">>

\* Its body looks like the end of a row.
Post == Row("POST") \o Row("Host") \o Row("Length 2") \o EmptyRow \o <<"CR", "LF">>

\* The data of its chunk begins with a row that looks like the last chunk.
PostChunked == Row("POST") \o Row("Host") \o Row("chunked") \o EmptyRow
                  \o Row("4") \o Row("0") \o Row("x") \o Row("0") \o EmptyRow

\* The data is 0: the last chunk is missed.
PostZero == Row("POST") \o Row("Host") \o Row("chunked") \o EmptyRow
               \o Row("1") \o Row("0") \o Row("0") \o EmptyRow

PostMultipart == Row("POST") \o Row("Host") \o Row("multipart") \o EmptyRow
                  \o Row("x") \o Row("--end--")

NoHost == Row("GET") \o EmptyRow

Ok == Row("200") \o Row("Length 2") \o EmptyRow \o <<"x", "0">>

\* Its chunk holds a row that begins like the last chunk, and ends without CR.
OkChunked == Row("200") \o Row("chunked") \o EmptyRow
                \o Row("2") \o <<"0", "LF">> \o EmptyRow \o Row("0") \o EmptyRow

NoContent == Row("204") \o Row("Length 2") \o EmptyRow

\* It announces nothing and ends with the connection.
OkClosing == Row("200") \o EmptyRow \o <<"x">>

\* Its chunk is a row 0, and so looks like the end.
OkZero == Row("200") \o Row("chunked") \o EmptyRow
             \o Row("3") \o Row("0") \o EmptyRow \o Row("0") \o EmptyRow

\* Its length is announced, and its delimiter is no row.
OkMultipart == Row("200") \o Row("multipart") \o Row("Length 2") \o EmptyRow
                  \o <<"x", "--end--">>

GetHead == Row("HEAD") \o Row("Host") \o EmptyRow

\* What a GET would return.
HeadOk == Row("200") \o Row("Length 2") \o EmptyRow

\* The theorems speak about these, and the parser departs from the rules for those.
ASSUME AreFramedByLength ==
    /\ \A s \in {Get, GetHead, Post, NoHost, Ok, NoContent, OkClosing} : WithoutParts(s)
    /\ \A s \in {Post, Ok, NoContent} : FramedByLength(s)
    /\ ~FramedByLength(OkClosing)
    /\ \A s \in {PostZero, OkZero, OkMultipart} : Misread(s)
    /\ \A s \in {Get, Post, PostChunked, PostMultipart, Ok, OkChunked} : ~Misread(s)

MCExchanges ==
    ({Get} \X {Ok, OkChunked, NoContent, OkClosing, OkZero, OkMultipart})
    \cup ({Post, PostChunked, PostZero, PostMultipart, NoHost} \X {Ok})
    \cup {<<GetHead, HeadOk>>}
=============================================================================
