SPECIFICATION Spec
CONSTANTS
    MaxTicks = 3
    MaxReqs = 3
    MaxPoll = 2
    Watcher = {w1, w2}
    MaxArgs = 2
    MaxMessages = 1
    MaxExports = 2
    Child = {c1, c2}
    Customs <- StdinAndStdout
    Execs = {c1}
    MaxOutput = 1
    MaxBuffer = 0
    Kid = {k1, k2}
    Command <- SomeCommands
    Argument <- SomeArguments
    ContModes = {"shell"}
    Interrupts = FALSE
    StdoutIsTTY = TRUE
    Message <- ErrorMessage
    MaxSwitches = 4
    Width = 2
    ShortMax = 3
    MaxEvents = 2
    MaxRepeat = 2
    MaxTurns = 2
    Name = {"x"}
    Sandbox = {"s"}
    ContextObj = {"c", "d"}
    MaxEvals = 4
    PoolLength = 2
    ByteValue = {195, 169}
    MaxBuffers = 2
    MaxSlow = 2
    MaxStrings = 1
    MaxStores = 1
    FileName = {f1, f2}
    FileMaxCalls = 3
    MaxSize = 2
    MaxInt32 = 1
    MaxPosition = 2
    MaxPlain = 2
    BlockSize = 4
    Plaintext <- MixedText
    MaxPiece = 4
    MaxBytes = 9
    Chunk = {"a", "b"}
    Key = {"k1", "k2"}
    DigestMaxCalls <- SomeCalls
INVARIANTS
    LoopSafe
    WatchersSafe
    ProcessSafe
    ChildSafe
    Win32Safe
    
    ScriptSafe
    
    FileSafe
    ConversionsSafe
    DigestsSafe

    
CHECK_DEADLOCK FALSE
