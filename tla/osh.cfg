\* Two lines out of fourteen, one after the other.
SPECIFICATION Spec
CONSTANTS
    Words = {"cat", "gen", "true", "false", "exit", "f"}
    NoToken = ""
    Lines <- AllChosen
    MaxCommands = 4
    Exit = "exit"
    Readers = {"cat"}
    Writers = {"gen"}
    Failing = {"false"}
    Volume = 2
    PipeSize = 1
    MaxLines = 2
    MaxSteps = 3
INVARIANTS WriteEndsPrivate SkipsAsShell CrashesOnlyOnMalformed
PROPERTIES LineEnds AllEndAfterExit
CHECK_DEADLOCK FALSE
