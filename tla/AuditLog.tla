------------------------------ MODULE AuditLog ------------------------------
(***************************************************************************)
(* AuditLogger (audit/logger.ts): records go to the file until an append   *)
(* fails, then to stdout for the rest of the process.                      *)
(*                                                                         *)
(* A log is a record: `enabled` is fileLoggingEnabled; `file` is what is   *)
(* in the file, line by line, and `stdout` what was printed.  Records are  *)
(* numbered as they are made.  A line is a sequence of pieces, a record    *)
(* [no, whole] each: an append that fails may have written a part of its   *)
(* line and no newline, so whatever is appended next continues that line.  *)
(* Logging is synchronous: no step of another call comes in between.       *)
(***************************************************************************)
EXTENDS Integers, SequencesExt

Piece(no, whole) == [no |-> no, whole |-> whole]

\* The last line of the file has no newline.
Unfinished(file) == file # <<>> /\ ~Last(Last(file)).whole

AddPiece(file, piece) ==
  IF Unfinished(file)
    THEN [file EXCEPT ![Len(file)] = Append(@, piece)]
    ELSE Append(file, <<piece>>)

\* How an append may go; a failure leaves nothing or a part of the line.
Appends == {"written", "failed", "torn"}

\* Slip: the record at hand is not printed when its append fails.
LogOneDropped(log, entry) ==
  LET file == IF entry.append = "torn" THEN AddPiece(log.file, Piece(entry.no, FALSE)) ELSE log.file
  IN IF ~log.enabled
       THEN [log EXCEPT !.stdout = Append(@, entry.no)]
       ELSE IF entry.append = "written"
              THEN [log EXCEPT !.file = AddPiece(@, Piece(entry.no, TRUE))]
              ELSE [log EXCEPT !.enabled = FALSE, !.file = file]

\* AuditLogger.log of the record entry.no, whose append goes as entry.append
LogOne(log, entry) ==
  LET file == IF entry.append = "torn" THEN AddPiece(log.file, Piece(entry.no, FALSE)) ELSE log.file
  IN IF ~log.enabled
       THEN [log EXCEPT !.stdout = Append(@, entry.no)]
       ELSE IF entry.append = "written"
              THEN [log EXCEPT !.file = AddPiece(@, Piece(entry.no, TRUE))]
              ELSE [enabled |-> FALSE, file |-> file, stdout |-> Append(log.stdout, entry.no)]

\* The records of one step, written one after the other: never more than two
LogAll(log, entries) ==
  CASE Len(entries) = 0 -> log
    [] Len(entries) = 1 -> LogOne(log, entries[1])
    [] OTHER            -> LogOne(LogOne(log, entries[1]), entries[2])

\* The constructor: without a path, or when its directory cannot be made,
\* nothing goes to the file; what an earlier process wrote stays there.
NewLogger(log, usable) == [log EXCEPT !.enabled = usable]

-----------------------------------------------------------------------------
\* Where the record `no` can be read: lines of the file it stands in alone,
\* lines that begin with a part of another record, and stdout
CleanLines(log, no) == {i \in DOMAIN log.file : log.file[i] = <<Piece(no, TRUE)>>}
GluedLines(log, no) ==
  {i \in DOMAIN log.file : Len(log.file[i]) > 1 /\ Last(log.file[i]) = Piece(no, TRUE)}
Printed(log, no) == {i \in DOMAIN log.stdout : log.stdout[i] = no}
=============================================================================
