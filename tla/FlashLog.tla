------------------------------ MODULE FlashLog ------------------------------
(***************************************************************************)
(* The log in flash (lumLog.c), compiled in with SAVE_LOG_TO_FLASH.         *)
(*                                                                          *)
(* Every thread that sends, receives or reports something saves a line at   *)
(* the end of the log, which only the RAM variable g_flashLogLen knows.     *)
(* When a line does not fit, that thread copies the log to a second area of *)
(* the same size and erases it.  The room is tested before the mutex is     *)
(* taken, and the length is set back after it was given up.  After a reset  *)
(* the length is found again by looking for the first byte that is erased.  *)
(*                                                                          *)
(* Bytes are numbered in the order they are saved, so a cell of flash holds *)
(* the number of its byte.                                                  *)
(***************************************************************************)
EXTENDS Integers, FiniteSets, FiniteSetsExt

CONSTANTS Saver,        \* the threads that save lines
          LogSize,      \* FLASH_LOG_SIZE: bytes of each of the two areas
          Page,         \* HFFLASH_PAGE_SIZE: bytes erased at a time
          Block,        \* PER_READ_SIZE: bytes looked at together after a reset
          MaxLine,      \* the longest line
          MaxSaved,     \* bound: bytes saved, without the lines being saved
          MaxFailures   \* bound: power failures

ASSUME FlashLogAssumption ==
    /\ {LogSize, Page, Block, MaxLine} \subseteq Nat \ {0}
    /\ {MaxSaved, MaxFailures} \subseteq Nat
    /\ MaxLine < LogSize
    /\ LogSize % Page = 0 /\ LogSize % Block = 0
    /\ "boot" \notin Saver

VARIABLES flash,    \* both areas: the log, then the backup
          flag,     \* FLASH_LOG_INFO in flash: FLASH_LOG_FLAG is there ...
          bakLen,   \* ... and bakLogLen, the length of the backup
          len,      \* g_flashLogLen
          mutex,    \* who holds g_flashWrite_mutex
          logPc,       \* where each thread is
          line,     \* the length of the line each thread is saving
          noted,    \* a local of each thread: how far it has copied, then the length
                    \* it has read for the backup's
          savedBytes,    \* history: bytes saved
          failures, \* history: power failures
          savedBase,     \* history: bytes saved when the areas were last cleared
          bad,      \* history: 2 after saves met in a way that leaves garbage in the
                    \* log, or the power failed in the middle of erasing it; one copy
                    \* that nobody disturbs makes it 1, and the next one 0
          copyAlone     \* history: nothing disturbed the copy that is being made

logVars == <<flash, flag, bakLen, len, mutex, logPc, line, noted, savedBytes, failures,
             savedBase, bad, copyAlone>>
ram == <<len, mutex, logPc, line, noted>>
info == <<flag, bakLen>>
history == <<savedBytes, failures, savedBase, bad, copyAlone>>

LogThread == Saver \cup {"boot"}
Free == "free"
Blank == 0          \* an erased cell
Garbled == -1       \* a cell that was written twice: flash only clears bits
LogArea == 0 .. LogSize - 1
BakArea == LogSize .. 2 * LogSize - 1
PageAt(a) == a .. a + Page - 1

LogTo(t, p) == logPc' = [logPc EXCEPT ![t] = p]
WithErased(cells) == [c \in DOMAIN flash |-> IF c \in cells THEN Blank ELSE flash[c]]

(* n bytes are written from cell a on.                                       *)
Written(a, n) ==
    [c \in DOMAIN flash |->
        IF c \notin a .. a + n - 1 THEN flash[c]
        ELSE IF flash[c] = Blank THEN savedBytes + (c - a) + 1 ELSE Garbled]

(* copyLogToBakFlash and writeFlashLogFlag, from their beginning to end.     *)
CopySteps == {"copy", "copy block", "erase log", "erase rest", "note", "erase info",
              "write info", "reset"}
Copying(t) == logPc[t] \in CopySteps \ {"copy"}
SomeoneElseCopies(t) == \E u \in LogThread \ {t}: Copying(u)
LogFound == logPc["boot"] = "done"
-----------------------------------------------------------------------------
(* Mutant of Fits: the length of the line is forgotten.                      *)
FitsAlready(n) == len < LogSize

(* A line fits when a byte stays erased behind it, where the end is found.   *)
Fits(n) == len + n < LogSize

(* saveFlashLog: the line fits, as far as the thread can see, or the log is  *)
(* copied first.                                                             *)
Save(t, n) ==
    /\ LogFound /\ logPc[t] = "idle" /\ savedBytes + n <= MaxSaved
    /\ line' = [line EXCEPT ![t] = n]
    /\ LogTo(t, IF Fits(n) THEN "write" ELSE "copy")
    /\ UNCHANGED <<flash, info, len, mutex, noted, history>>

(* ... and it is written at the end of the log.                              *)
Write(t) ==
    /\ logPc[t] = "write" /\ mutex = Free
    /\ flash' = Written(len, line[t])
    /\ len' = len + line[t]
    /\ savedBytes' = savedBytes + line[t]
    /\ LET met == SomeoneElseCopies(t) \/ ~Fits(line[t])
       IN bad' = (IF met THEN 2 ELSE bad) /\ copyAlone' = (copyAlone /\ ~met)
    /\ LogTo(t, "idle")
    /\ UNCHANGED <<info, mutex, line, noted, failures, savedBase>>

(* copyLogToBakFlash: the backup is erased ...                               *)
EraseBak(t) ==
    /\ logPc[t] = "copy" /\ mutex = Free
    /\ mutex' = t
    /\ flash' = WithErased(BakArea)
    /\ noted' = [noted EXCEPT ![t] = 0]
    /\ copyAlone' = (~SomeoneElseCopies(t) /\ (t = "boot" \/ ~Fits(line[t])))
    /\ bad' = (IF SomeoneElseCopies(t) THEN 2 ELSE IF copyAlone' THEN bad ELSE Max({bad, 1}))
    /\ LogTo(t, "copy block")
    /\ UNCHANGED <<info, len, line, savedBytes, failures, savedBase>>

(* ... and the log copied to it, block by block ...                          *)
CopyBlock(t) ==
    LET end == noted[t] + Block IN
    /\ logPc[t] = "copy block"
    /\ flash' = [c \in DOMAIN flash |->
                    IF c \in BakArea /\ c - LogSize \in noted[t] .. end - 1
                    THEN flash[c - LogSize] ELSE flash[c]]
    /\ noted' = [noted EXCEPT ![t] = IF end < LogSize THEN end ELSE 0]
    /\ LogTo(t, IF end < LogSize THEN "copy block" ELSE "erase log")
    /\ UNCHANGED <<info, len, mutex, line, history>>

(* ... then the log is erased, its first page ...                            *)
EraseLog(t) ==
    /\ logPc[t] = "erase log"
    /\ flash' = WithErased(PageAt(0))
    /\ LogTo(t, "erase rest")
    /\ UNCHANGED <<info, len, mutex, line, noted, history>>

(* Mutant of EraseRest: one page too few is erased.                          *)
EraseRestLess(t) ==
    /\ logPc[t] = "erase rest"
    /\ mutex' = Free
    /\ LogTo(t, "note")
    /\ UNCHANGED <<flash, info, len, line, noted, history>>

(* ... and the others.                                                       *)
EraseRest(t) ==
    /\ logPc[t] = "erase rest"
    /\ flash' = WithErased(LogArea)
    /\ mutex' = Free
    /\ LogTo(t, "note")
    /\ UNCHANGED <<info, len, line, noted, history>>

(* writeFlashLogFlag: the length is read without the mutex ...               *)
NoteLength(t) ==
    /\ logPc[t] = "note"
    /\ noted' = [noted EXCEPT ![t] = len]
    /\ LogTo(t, "erase info")
    /\ UNCHANGED <<flash, info, len, mutex, line, history>>

EraseInfo(t) ==
    /\ logPc[t] = "erase info" /\ mutex = Free
    /\ mutex' = t
    /\ flag' = FALSE /\ bakLen' = 0
    /\ LogTo(t, "write info")
    /\ UNCHANGED <<flash, len, line, noted, history>>

WriteInfo(t) ==
    /\ logPc[t] = "write info"
    /\ flag' = TRUE /\ bakLen' = noted[t]
    /\ mutex' = Free
    /\ LogTo(t, "reset")
    /\ UNCHANGED <<flash, len, line, noted, history>>

(* Mutant of ResetLength: the line that made room is taken for written.      *)
ResetLengthToLine(t) ==
    /\ logPc[t] = "reset"
    /\ len' = (IF t = "boot" THEN 0 ELSE line[t])
    /\ bad' = (IF copyAlone /\ bad > 0 THEN bad - 1 ELSE bad)
    /\ LogTo(t, IF t = "boot" THEN "done" ELSE "write")
    /\ UNCHANGED <<flash, info, mutex, line, noted, savedBytes, failures, savedBase, copyAlone>>

(* ... and set back without it.                                              *)
ResetLength(t) ==
    /\ logPc[t] = "reset"
    /\ len' = 0
    /\ bad' = (IF copyAlone /\ bad > 0 THEN bad - 1 ELSE bad)
    /\ LogTo(t, IF t = "boot" THEN "done" ELSE "write")
    /\ UNCHANGED <<flash, info, mutex, line, noted, savedBytes, failures, savedBase, copyAlone>>

CopyLog(t) == \/ EraseBak(t) \/ CopyBlock(t) \/ EraseLog(t) \/ EraseRest(t)
              \/ NoteLength(t) \/ EraseInfo(t) \/ WriteInfo(t) \/ ResetLength(t)
-----------------------------------------------------------------------------
(* getFlashSavedLogLen: the first block of the log whose last byte is erased *)
(* holds the end of the log, at its first erased byte.                       *)
Open(b) == flash[b + Block - 1] = Blank
Blocks == {b \in LogArea: b % Block = 0}

(* Mutant of FoundLength: the end is taken to be the block's.                *)
FoundLengthOfBlock ==
    IF \E b \in Blocks: Open(b) THEN Min({b \in Blocks: Open(b)}) ELSE LogSize

FoundLength ==
    IF \E b \in Blocks: Open(b)
    THEN Min({c \in LogArea: c >= Min({b \in Blocks: Open(b)}) /\ flash[c] = Blank})
    ELSE LogSize

(* A reset goes on with what is in flash: the log's length is found, or a    *)
(* full log is copied.                                                       *)
FindLength ==
    /\ logPc["boot"] = "scan" /\ flag
    /\ IF FoundLength < LogSize
       THEN len' = FoundLength /\ LogTo("boot", "done")
       ELSE UNCHANGED len /\ LogTo("boot", "copy")
    /\ UNCHANGED <<flash, info, mutex, line, noted, history>>

(* clearAllFlashLog: without FLASH_LOG_FLAG nothing is believed.             *)
ClearAll ==
    /\ logPc["boot"] = "scan" /\ ~flag
    /\ flash' = WithErased(DOMAIN flash)
    /\ savedBase' = savedBytes /\ bad' = 0 /\ copyAlone' = TRUE
    /\ LogTo("boot", "note")
    /\ UNCHANGED <<info, len, mutex, line, noted, savedBytes, failures>>

(* The power fails, or a timer resets the device.  A line that was being     *)
(* written is cut.  In the middle of a copy the length of the backup is no   *)
(* longer true, and half an erased log is garbage.                           *)
Undone == IF \E t \in LogThread: logPc[t] = "erase rest" THEN 2
          ELSE IF \E t \in LogThread: Copying(t) /\ logPc[t] \notin {"write info", "reset"}
                  THEN Max({bad, 1}) ELSE bad

PowerFails ==
    /\ failures < MaxFailures
    /\ failures' = failures + 1
    /\ \E n \in 0 .. MaxLine:
          /\ n # 0 => \E t \in Saver: /\ logPc[t] = "write" /\ mutex = Free
                                      /\ n < line[t] /\ Fits(line[t]) /\ ~SomeoneElseCopies(t)
          /\ flash' = Written(len, n) /\ savedBytes' = savedBytes + n
    /\ bad' = Undone /\ copyAlone' = FALSE
    /\ len' = 0 /\ mutex' = Free
    /\ logPc' = [t \in LogThread |-> IF t = "boot" THEN "scan" ELSE "idle"]
    /\ line' = [t \in Saver |-> 0] /\ noted' = [t \in LogThread |-> 0]
    /\ UNCHANGED <<info, savedBase>>

(* A device whose flash was never used for a log.                            *)
LogInit ==
    /\ flash = [c \in LogArea \cup BakArea |-> Blank]
    /\ flag = FALSE /\ bakLen = 0
    /\ len = 0 /\ mutex = Free
    /\ logPc = [t \in LogThread |-> IF t = "boot" THEN "scan" ELSE "idle"]
    /\ line = [t \in Saver |-> 0] /\ noted = [t \in LogThread |-> 0]
    /\ savedBytes = 0 /\ failures = 0 /\ savedBase = 0 /\ bad = 0 /\ copyAlone = TRUE

LogNext ==
    \/ \E t \in Saver: Write(t) \/ \E n \in 1 .. MaxLine: Save(t, n)
    \/ \E t \in LogThread: CopyLog(t)
    \/ FindLength \/ ClearAll \/ PowerFails

LogSpec == LogInit /\ [][LogNext]_logVars
-----------------------------------------------------------------------------
LogTypes ==
    /\ flash \in [LogArea \cup BakArea -> Nat \cup {Garbled}]
    /\ flag \in BOOLEAN /\ bakLen \in Nat /\ len \in Nat
    /\ mutex \in LogThread \cup {Free}
    /\ logPc \in [LogThread -> CopySteps \cup {"idle", "write", "scan", "done"}]
    /\ line \in [Saver -> 0 .. MaxLine] /\ noted \in [LogThread -> Nat]
    /\ savedBytes \in Nat /\ failures \in 0 .. MaxFailures /\ savedBase \in 0 .. savedBytes
    /\ bad \in 0 .. 2 /\ copyAlone \in BOOLEAN
    /\ mutex # Free => logPc[mutex] \in {"copy block", "erase log", "erase rest", "write info"}

LogQuiet == LogFound /\ \A t \in LogThread: ~Copying(t)

(* The log ends where the length says, and holds the last bytes saved.       *)
LogTrue == /\ \A c \in LogArea: flash[c] = IF c < len THEN savedBytes - len + c + 1 ELSE Blank
           /\ len < LogSize

(* The backup holds, as far as it goes, the bytes saved before those.        *)
BakTrue == \A c \in 0 .. bakLen - 1: flash[LogSize + c] = savedBytes - len - bakLen + c + 1

(* Nothing is given up before its time: either all that was saved is still   *)
(* there, or the backup is as full as the longest line allows.               *)
NothingEarly == len + bakLen = savedBytes - savedBase \/ bakLen + MaxLine >= LogSize

(* While no copy is being made, what can be read is what was saved last, in  *)
(* order, without a hole: also after a power failure, at whatever step of a  *)
(* copy it came.  Where two threads met, or the log was half erased, this is *)
(* so again after two copies that nothing disturbed.                         *)
LogInv == /\ LogTypes
          /\ LogQuiet => /\ bad < 2 => LogTrue
                         /\ bad = 0 => BakTrue /\ NothingEarly
=============================================================================
