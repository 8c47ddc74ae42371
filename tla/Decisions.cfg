\* Every decision of one input; bodies of up to four bytes, read up to three and
\* kept up to two.
SPECIFICATION Spec
CONSTANTS
    Defaults <- BuiltIn
    Unset = Unset
    Malformed = Malformed
    Starts <- MCStarts
    Paths <- MCPaths
    Bodies <- MCBodies
    Uploads <- MCUploads
    Settled <- MCSettled
    Exchanges <- MCExchanges
    Inputs <- MCInputs
    ReadLimit = 3
    StoreLimit = 2
INVARIANTS LayersResolve AnsweredAsDocumented CaptureIsHonest FiguresAgree
\* One answer each.
CHECK_DEADLOCK FALSE
