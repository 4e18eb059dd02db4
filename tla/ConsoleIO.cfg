CONSTANTS
    Readers = {r1}
    Writers = {w1, w2}
    CONSOLE_BUF = 2
    UART_BUF = 2
    Keys = {"a", "CR", "EOT", "BS_LINE", "BS", "CTRL_P"}
    Wanted = {2}
    MaxEvents = 4
    MaxReads = 1
    Chars = 2
SPECIFICATION Spec
INVARIANTS InputKept NoLostWakeup OutputInOrder
PROPERTIES WritesFinish
CHECK_DEADLOCK FALSE
