SPECIFICATION Spec
CONSTANTS
    Years <- ShortAndLong
    Zones <- HalfDayZones
    Seconds <- MidnightAndBefore
    SP_PORTION_SIZE = 2
    Offsets = 8
    PatchSizes = {0, 1, 2, 3, 5, 7, 8}
    WriteResults <- Failures
    SL_PATCH_PORTION_SIZE = 6
    PatchLengths = {0, 1, 5, 6, 7, 12, 15}
    Blocks <- Known
    Keys <- KeysOfAll
    Securities = {0, 1, 2, 3, 4}
    Leftover = 0
    Requests <- Asked
    Fifo = 8
    Pool = 3
    method_size = 2
    filename_size = 2
    content_size = 3
    auth_room = 2
INVARIANTS
    CalendarRight
    PatchWritten
    PatchArrives
    EncryptsByStandard
    DecryptsBack
    KeyRecovered
    RequestRight
CHECK_DEADLOCK FALSE
