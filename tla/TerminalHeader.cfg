SPECIFICATION ShellSpec
CONSTANTS
    sh = sh
    proc1 = proc1
    proc2 = proc2
    nobody = nobody
    Procs = {sh, proc1, proc2}
    Shell = sh
    Nobody = nobody
    MaxPipes = 5
    BufferSize = 3
    MaxSemaphores = 5
    Bytes = {"1", "!", "newline", "interrupt", "eof"}
    Zero = "1"
    EndingBytes = {"interrupt", "eof"}
    Texts <- MCTexts
    Counts = {2}
    MaxLine = 3
    TextOf <- MCTextOf
    Scenes <- MCAround
PROPERTY KeepsToTheHeader
CHECK_DEADLOCK FALSE
