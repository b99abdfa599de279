CONSTANTS
    Jobs = {1, 2}
    Talkers = {2}
    Traps = {2}
    WordLen = 1
    MaxInput = 2
    Process = {"c1", "c2", "c3", "t"}
    Conn = {"c1", "c2", "c3"}
    Lane = {l1}
    Typed = {1, 11}
    Asked <- MCAsked
    Casts <- MCCasts
    Questions <- MCQuestions
    MaxPolls = 2
    MaxReads = 1
SPECIFICATION Spec
INVARIANTS LockGuardsPort JobAnswerIsOwn MonitorReadsOneRun ToolReadsItsReply
CHECK_DEADLOCK FALSE
PROPERTY RequestsEnd
