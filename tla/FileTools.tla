----------------------------- MODULE FileTools -----------------------------
(***************************************************************************)
(* filesystem.py, and the file tools of builtins.py: reading, writing,     *)
(* editing, listing and searching the files of a workspace.                *)
(*                                                                         *)
(* A text is a sequence of words and line ends.  The tools count in lines: *)
(* an agent reads or searches, takes a line number from the answer and     *)
(* edits by it, so that the four of them have to mean the same lines, also *)
(* in a text whose last line has no end.                                   *)
(***************************************************************************)
EXTENDS Integers, SequencesExt

CONSTANTS
  Order,      \* the paths of the workspace, sorted
  Texts,      \* what is written, or put in place of something
  Words,      \* what is looked for
  MaxLength,  \* bound: the length of a text
  MaxResults  \* bound: the largest max_results and max_entries asked for

NL == "\n"
Absent == <<"absent">>
Binary == <<"binary">>
Names == ToSet(Order)

ASSUME FileAssumption ==
  /\ Order \in Seq(STRING) /\ IsInjective(Order)
  /\ MaxLength \in Nat /\ MaxResults \in Nat
  /\ NL \notin Words
  /\ Texts \subseteq Seq(Words \cup {NL}) \ {Absent, Binary}

VARIABLES
  files,  \* the text of each path
  result  \* how the last call ended: "success", "tool_error", "permission"

vars == <<files, result>>

Init ==
  /\ files \in [Names -> {Absent, Binary, <<>>}]
  /\ result = "none"

IsText(name) == name \in Names /\ files[name] \notin {Absent, Binary}

-----------------------------------------------------------------------------
(* Lines.                                                                  *)

\* str.splitlines(keepends=True)
SplitLines(text) ==
  LET ends == SetToSortSeq({i \in DOMAIN text : text[i] = NL \/ i = Len(text)}, <)
  IN [k \in DOMAIN ends |->
        SubSeq(text, IF k = 1 THEN 1 ELSE ends[k - 1] + 1, ends[k])]

\* lines[s:e], for an s that is not negative; before the first line is no line.
Slice(lines, s, e) == SubSeq(lines, s + 1, IF e < Len(lines) THEN e ELSE Len(lines))

\* fs_read of a range: an end of 0 counts as none, a negative one from the last.
ReadRange(text, start, end) ==
  LET lines == SplitLines(text)
  IN FlattenSeq(Slice(lines, IF start > 0 THEN start - 1 ELSE 0,
                             IF end > 0 THEN end ELSE Len(lines) + end))

\* Slip: the line after the range goes with it.
ReplaceRangeWide(text, start, end, new) ==
  LET lines == SplitLines(text)
      s == IF start > 0 THEN start - 1 ELSE 0
      line == IF new # <<>> /\ Last(new) = NL THEN new ELSE Append(new, NL)
      before == IF s <= Len(lines) THEN s ELSE Len(lines)
  IN FlattenSeq(SubSeq(lines, 1, before) \o <<line>> \o SubSeq(lines, end + 2, Len(lines)))

\* fs_edit of a range: what is put in ends its line.  A negative end counts from
\* the last line, and an assignment to a slice that is empty inserts.
ReplaceRange(text, start, end, new) ==
  LET lines == SplitLines(text)
      n == Len(lines)
      s == IF start <= 0 THEN 0 ELSE IF start - 1 < n THEN start - 1 ELSE n
      e == IF end < 0 THEN n + end ELSE end
      rest == IF e > s THEN e ELSE s
      line == IF new # <<>> /\ Last(new) = NL THEN new ELSE Append(new, NL)
  IN FlattenSeq(SubSeq(lines, 1, s) \o <<line>> \o SubSeq(lines, rest + 1, n))

\* ... and of a text: wherever it occurs.
ReplaceText(text, old, new) ==
  FlattenSeq([i \in DOMAIN text |-> IF text[i] = old THEN new ELSE <<text[i]>>])

-----------------------------------------------------------------------------
(* Calls.  "outside" stands for a path that leaves the workspace.          *)

Ends(how) == result' = how
Untouched(how) == Ends(how) /\ UNCHANGED files

\* Opening the file for writing empties it; what fails after that leaves a part.
Stores(name, text) ==
  /\ Len(text) <= MaxLength
  /\ \/ Ends("success") /\ files' = [files EXCEPT ![name] = text]
     \/ /\ Ends("tool_error")
        /\ \E part \in Prefixes(text) : files' = [files EXCEPT ![name] = part]

Read(name) ==
  \/ name = "outside" /\ Untouched("permission")
  \/ name \in Names /\ Untouched(IF IsText(name) THEN "success" ELSE "tool_error")

Write(name, text) ==
  \/ name = "outside" /\ Untouched("permission")
  \/ name \in Names /\ (Stores(name, text) \/ Untouched("tool_error"))

\* read_file and write_file leave the exception for a path that leads out of the
\* workspace to Tool.invoke, and are not escalated.
ReadFile(name) ==
  IF name = "outside" THEN Untouched("tool_error") ELSE Read(name)
WriteFile(name, text) ==
  IF name = "outside" THEN Untouched("tool_error") ELSE Write(name, text)

\* What fs_edit makes of the text, and only then writes.
EditLines(name, start, end, new) ==
  /\ IsText(name)
  /\ Stores(name, ReplaceRange(files[name], start, end, new))

EditText(name, old, new) ==
  /\ IsText(name) /\ Contains(files[name], old)
  /\ Stores(name, ReplaceText(files[name], old, new))

\* No file, no text, not found, or neither a text nor a line was given.
EditFails(name) ==
  \/ name = "outside" /\ Untouched("permission")
  \/ name \in Names /\ Untouched("tool_error")

Edit(name) ==
  \/ EditFails(name)
  \/ \E new \in Texts :
       \/ \E start, end \in -1 .. MaxLength : EditLines(name, start, end, new)
       \/ \E old \in Words : EditText(name, old, new)

Next ==
  \E name \in Names \cup {"outside"} :
    \/ Read(name) \/ ReadFile(name) \/ Edit(name)
    \/ \E text \in Texts : Write(name, text) \/ WriteFile(name, text)

Spec == Init /\ [][Next]_vars

-----------------------------------------------------------------------------
(* Answers.                                                                *)

\* list_dir: all there is, by name.
ListDir == SelectSeq(Order, LAMBDA name : files[name] # Absent)

\* fs_list: the entries the pattern is for, cut off at max.
List(pattern, max) ==
  LET all == SelectSeq(ListDir, LAMBDA name : name \in pattern)
      shown == SubSeq(all, 1, IF max > 1 THEN max ELSE 1)
      entries == IF Len(all) < Len(shown) THEN all ELSE shown
  IN [entries |-> entries, all |-> all, truncated |-> Len(entries) >= max]

\* The lines of one file with the word in them.
Matches(name, word) ==
  LET lines == SplitLines(files[name])
  IN [i \in DOMAIN lines |-> [file |-> name, line |-> i, content |-> lines[i]]]

\* Slip: lines are numbered from 0.
MatchesFromZero(name, word) ==
  IF ~IsText(name) THEN <<>>
  ELSE LET found == SelectSeq(Matches(name, word), LAMBDA m : Contains(m.content, word))
       IN [i \in DOMAIN found |-> [found[i] EXCEPT !.line = @ - 1]]

MatchesIn(name, word) ==
  IF ~IsText(name) THEN <<>>
  ELSE SelectSeq(Matches(name, word), LAMBDA m : Contains(m.content, word))

\* Files one after the other; the one in which max is reached is left at once.
Search(word, max) ==
  FoldLeft(LAMBDA found, name :
             IF found.left THEN found
             ELSE LET more == found.results \o MatchesIn(name, word)
                      kept == IF Len(more) <= max THEN more
                              ELSE SubSeq(more, 1, IF max > 1 THEN max ELSE 1)
                  IN [results |-> kept, left |-> Len(kept) >= max],
           [results |-> <<>>, left |-> FALSE], Order)

-----------------------------------------------------------------------------
(* Safety.                                                                 *)

\* An edit of lines that fs_read shows replaces these and no others: the lines
\* before them read as they did, and those after them too, further on by as
\* many lines as the text has become longer.
EditKeepsTheRest ==
  \A name \in Names, start, end \in 1 .. MaxLength, new \in Texts :
    IsText(name) /\ start <= end =>
      LET before == files[name]
          n == Len(SplitLines(before))
          after == ReplaceRange(before, start, end, new)
          shift == Len(SplitLines(after)) - n
      IN end <= n =>
           /\ \A i \in 1 .. start - 1 : ReadRange(after, i, i) = ReadRange(before, i, i)
           /\ \A i \in end + 1 .. n :
                ReadRange(after, i + shift, i + shift) = ReadRange(before, i, i)

\* What fs_search finds is there when fs_read is asked for that line, and an
\* answer that is not marked as truncated has all there is to find.
SearchTellsWhere ==
  \A word \in Words, max \in 1 .. MaxResults :
    LET found == Search(word, max)
    IN /\ Len(found.results) <= max
       /\ \A i \in DOMAIN found.results :
            LET m == found.results[i]
            IN Contains(ReadRange(files[m.file], m.line, m.line), word)
       /\ ~found.left =>
            \A name \in Names, line \in 1 .. MaxLength :
              IsText(name) /\ Contains(ReadRange(files[name], line, line), word) =>
                \E i \in DOMAIN found.results :
                  found.results[i].file = name /\ found.results[i].line = line
=============================================================================
