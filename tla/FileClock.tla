------------------------------ MODULE FileClock ------------------------------
(***************************************************************************)
(* The program's clock and its files: read_buffer turns one word a second  *)
(* into fileDate, and new_file names a file after the hour it shows        *)
(* (projects/lago_v1_2/src/lago.c).  Without a GPS the clock starts at the *)
(* time of the PC and counts the words; with one it takes hours, minutes   *)
(* and seconds from the bytes of the word.                                 *)
(*                                                                         *)
(* A date is a day and the time of the day; the units are parameters.      *)
(***************************************************************************)
EXTENDS Integers

CONSTANTS
    Second, Minute, Hour,   \* 60, 60 and 24: what each counts to
    ByteSize,               \* 256: what fits in a byte of the word
    StartTimes              \* when the program may start, in seconds

ASSUME Units == {Second, Minute, Hour, ByteSize} \subseteq Nat \ {0, 1}
ASSUME Starts == StartTimes \subseteq Nat

VARIABLES
    fileDate,   \* the clock
    falseGPS,   \* it counts words
    file        \* the date in the name of the open file, <<>> before the first

clockVars == <<fileDate, falseGPS, file>>

-----------------------------------------------------------------------------
(* The calendar of the C library, as the program uses it.                  *)

\* Takes fields out of their range as well.
timegm(tm) ==
    ((tm.tm_mday * Hour + tm.tm_hour) * Minute + tm.tm_min) * Second + tm.tm_sec

gmtime(time) ==
    [tm_sec |-> time % Second,
     tm_min |-> (time \div Second) % Minute,
     tm_hour |-> (time \div (Second * Minute)) % Hour,
     tm_mday |-> time \div (Second * Minute * Hour)]

Normal(tm) == gmtime(timegm(tm))

\* new_file: the name has the day and the hour.
NameOf(tm) == <<Normal(tm).tm_mday, Normal(tm).tm_hour>>

-----------------------------------------------------------------------------
ClockInit ==
    /\ fileDate \in {gmtime(time) : time \in StartTimes}
    /\ falseGPS = FALSE
    /\ file = <<>>

\* The first call of read_buffer looks at the mode, once for all.  With a GPS
\* the date is a constant of the program, as good as any.
FirstTime(fgps) ==
    /\ file = <<>>
    /\ falseGPS' = fgps
    /\ file' = NameOf(fileDate)
    /\ UNCHANGED fileDate

\* Faulty: looks for the hour after the fields have been put in order.
CountSecondLate ==
    LET tm == Normal([fileDate EXCEPT !.tm_sec = @ + 1])
    IN  /\ fileDate' = tm
        /\ file' = IF tm.tm_sec = Second /\ tm.tm_min = Minute - 1
                   THEN NameOf(tm) ELSE file

\* Faulty: a new hour does not carry.
CountSecondNoCarry ==
    LET tm == [fileDate EXCEPT !.tm_sec = @ + 1]
        new == tm.tm_sec = Second /\ tm.tm_min = Minute - 1
    IN  /\ fileDate' = IF new THEN [tm EXCEPT !.tm_sec = 0, !.tm_min = 0] ELSE Normal(tm)
        /\ file' = IF new THEN NameOf(tm) ELSE file

\* Word 0x1B without a GPS.
CountSecond ==
    LET tm == [fileDate EXCEPT !.tm_sec = @ + 1]
    IN  /\ fileDate' = Normal(tm)
        /\ file' = IF tm.tm_sec = Second /\ tm.tm_min = Minute - 1
                   THEN NameOf(tm) ELSE file

\* Word 0x1B with a GPS: a new hour changes the file, an earlier one the day too.
TakeTime(wo) ==
    LET hour == (wo \div (ByteSize * ByteSize)) % ByteSize
        tm == [fileDate EXCEPT
                  !.tm_mday = IF fileDate.tm_hour > hour THEN @ + 1 ELSE @,
                  !.tm_hour = hour]
        ntm == IF hour # fileDate.tm_hour THEN Normal(tm) ELSE tm
    IN  /\ file' = IF hour # fileDate.tm_hour THEN NameOf(tm) ELSE file
        /\ fileDate' = Normal([ntm EXCEPT !.tm_hour = hour,
                                          !.tm_min = (wo \div ByteSize) % ByteSize,
                                          !.tm_sec = wo % ByteSize])

OneSecond(wo) ==
    /\ file # <<>>
    /\ \/ falseGPS /\ CountSecond
       \/ ~falseGPS /\ TakeTime(wo)
    /\ UNCHANGED falseGPS
=============================================================================
