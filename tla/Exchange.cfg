SPECIFICATION FairSpec
CONSTANTS
    Byte <- MCByte
    ContentLength <- MCContentLength
    Chunked = {"chunked"}
    Multipart = {"multipart"}
    HostRow = {"Host"}
    Bodyless = {"204"}
    Delimiter = "--end--"
    HeadMethod = {"HEAD"}
    Exchanges <- MCExchanges
    BufferSize = 3
    ChunkSize <- MCChunkSize
INVARIANTS TypeOK EndsWhereFramed AnswerIsWhole SilentOnlyWhenBroken
PROPERTY ExchangeEnds
CHECK_DEADLOCK FALSE
