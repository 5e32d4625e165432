----------------------------- MODULE ConsoleLog -----------------------------
(***************************************************************************)
(* What fetchConsoleFromFiles takes from a log file: truncateContent       *)
(* (files/path-policy.ts), tailLines and searchConsoleLines                *)
(* (pterodactyl/console-output.ts).                                        *)
(*                                                                         *)
(* A file is the sequence of its lines, a line is the number of bytes it   *)
(* has before its newline, whether it ends in the text searched for, and   *)
(* whether it is nothing but an escape sequence; a line without bytes is   *)
(* blank.  Escape sequences within a text, and blanks at the end of a      *)
(* line, which tailLines strips too, are left out.                         *)
(***************************************************************************)
EXTENDS Integers, FiniteSets, SequencesExt

Line == [bytes: Nat, hit: BOOLEAN, codes: BOOLEAN]

\* The bytes before line i, newlines included
StartOf(file, i) ==
  LET after[n \in 0..Len(file)] == IF n = 0 THEN 0 ELSE after[n - 1] + file[n].bytes + 1
  IN after[i - 1]

\* truncateContent: what is left of each line when the file is cut
Truncated(file, maxBytes) ==
  [i \in DOMAIN file |->
     Min({file[i].bytes, Max({0, maxBytes - StartOf(file, i)})})]

\* Nothing but newlines is left: fetchConsoleFromFiles passes such a file over.
Blank(kept) == \A i \in DOMAIN kept : kept[i] = 0

\* stripAnsi: an escape sequence goes, unless it was cut.
Stripped(file, kept) ==
  [i \in DOMAIN file |-> IF file[i].codes /\ kept[i] = file[i].bytes THEN 0 ELSE kept[i]]

\* The lines at the given positions, in their order
Those(lines, positions) ==
  LET upTo[n \in 0..Len(lines)] ==
        IF n = 0 THEN <<>>
        ELSE IF n \in positions THEN Append(upTo[n - 1], lines[n]) ELSE upTo[n - 1]
  IN upTo[Len(lines)]

\* The lines that are not blank, as pairs of a line's number and what is left of it
NotBlank(kept) ==
  Those([i \in DOMAIN kept |-> <<i, kept[i]>>], {i \in DOMAIN kept : kept[i] > 0})

\* Slip: the first lines instead of the last.
TailLinesFirst(kept, maxLines) ==
  LET lines == NotBlank(kept) IN SubSeq(lines, 1, Min({maxLines, Len(lines)}))

\* tailLines, of what stripAnsi has left
TailLines(kept, maxLines) ==
  LET lines == NotBlank(kept)
  IN SubSeq(lines, Max({1, Len(lines) - maxLines + 1}), Len(lines))

Matches(file, line) == file[line[1]].hit /\ line[2] = file[line[1]].bytes

\* searchConsoleLines: the first maxMatches lines that match, or that do not
SearchLines(file, lines, search, maxMatches) ==
  LET included == Those(lines, {k \in DOMAIN lines : Matches(file, lines[k]) # (search = "invert")})
  IN IF search = "none" THEN lines
     ELSE SubSeq(included, 1, Min({maxMatches, Len(included)}))
=============================================================================
