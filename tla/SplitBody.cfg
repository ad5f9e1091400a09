SPECIFICATION Spec
CONSTANTS
    Byte <- MCByte
    ContentLength <- MCContentLength
    Chunked = {"chunked"}
    Multipart = {"multipart"}
    HostRow = {"Host"}
    Bodyless = {"204"}
    Delimiter = "--end--"
    HeadMethod = {"HEAD"}
    Exchanges <- MCExchanges
    BufferSize = 3
    ChunkSize <- MCChunkSize
INVARIANT BodyIsForwarded
CHECK_DEADLOCK FALSE
