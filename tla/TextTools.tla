----------------------------- MODULE TextTools -----------------------------
(***************************************************************************)
(* The reading tools: paging through a text file (tools/read.rs) and the   *)
(* literal search (tools/search.rs grep), as the model uses them: page     *)
(* after page, and file after file of a walk.                              *)
(*                                                                         *)
(* A file to page through is the byte widths of its lines, a final newline *)
(* included.  A file to search is its bytes: letters, "n" for a newline,   *)
(* "0" for NUL.  An answer of grep is its bytes too: byte p of the result  *)
(* for a line is <<"match", file, line, p>>, one of the tool's own words   *)
(* <<word, 0, 0, p>>.  Its characters are of one byte: the few bytes that  *)
(* cutting at a character boundary gives up as well are left out.          *)
(***************************************************************************)
EXTENDS Integers, Sequences, SequencesExt, FiniteSetsExt

CONSTANTS
    PagedFiles,   \* [widths, ended]: line widths, and whether the last line ends with a newline
    PageLimits,   \* `limit` arguments of read, in lines
    ReadBytes,    \* max_read_bytes and the result budget, the smaller
    LongNotice, ShortNotice, \* widths of the two continuation notices
    Walks,        \* sequences of files a walk finds
    Queries,
    MaxResults,   \* max_search_results
    GrepLimits,   \* max_read_bytes as grep takes it
    LabelBytes,   \* width of the "path:line: " of a result
    GrepWords     \* widths of the texts: none, limit, cut, line (that a line was cut)

VARIABLES
    book, offset, lineLimit, shown, pageState, \* reading: the file, the next offset, lines seen so far
    walk, query, grepBytes, at, scan, hits, grepState, report \* searching

readVars == <<book, offset, lineLimit, shown, pageState>>
grepVars == <<walk, query, grepBytes, at, scan, hits, grepState, report>>

\* line_number, query_index, line_matches, the length of line, line_truncated, matches, more_matches
FreshScan ==
    [line |-> 1, index |-> 0, matches |-> FALSE, kept |-> 0, cut |-> FALSE, found |-> <<>>, more |-> FALSE]

ReadInit ==
    /\ book \in PagedFiles /\ lineLimit \in PageLimits
    /\ offset = 1 /\ shown = <<>> /\ pageState = "reading"

GrepInit ==
    /\ walk \in Walks /\ query \in Queries /\ grepBytes \in GrepLimits
    /\ at = [file |-> 1, byte |-> 1]
    /\ scan = FreshScan
    /\ hits = <<>> /\ grepState = "searching" /\ report = <<>>

-----------------------------------------------------------------------------
\* read

Least(x, y) == IF x < y THEN x ELSE y
Width(from, count) ==
    LET sum[n \in 0 .. count] == IF n = 0 THEN 0 ELSE sum[n - 1] + book.widths[from + n - 1]
    IN sum[count]

\* The empty line after a final newline, and the only line of an empty file, count.
TotalLines ==
    IF book.widths = <<>> THEN 1 ELSE Len(book.widths) + (IF book.ended THEN 1 ELSE 0)

\* commit_line over the file: whole lines while the budget and the limit last.
Fitting(start) ==
    LET wanted == Least(lineLimit, Len(book.widths) - start + 1)
    IN  CHOOSE k \in 0..Len(book.widths) :
            /\ k <= IF wanted < 0 THEN 0 ELSE wanted
            /\ Width(start, k) <= ReadBytes
            /\ k >= wanted \/ Width(start, k + 1) > ReadBytes

ByteLimited(start) == Fitting(start) < Least(lineLimit, Len(book.widths) - start + 1)
Oversized(start) == Fitting(start) = 0 /\ ByteLimited(start)

Selected(start) ==
    LET k == Fitting(start)
        last == k < lineLimit /\ start + k = TotalLines /\ ~ByteLimited(start)
                /\ (book.widths = <<>> \/ book.ended)
    IN  k + (IF last THEN 1 ELSE 0)

\* The text of a page of n lines, with its continuation notice when lines remain.
PageBytes(start, n) ==
    LET body == Width(start, Least(n, Len(book.widths) - start + 1))
        newline == n > 0 /\ start + n - 1 <= Len(book.widths)
                   /\ (start + n - 1 < Len(book.widths) \/ book.ended)
        bare == IF newline THEN body - 1 ELSE body
        notice == IF LongNotice <= ReadBytes THEN LongNotice ELSE ShortNotice
    IN  IF start + n - 1 = TotalLines THEN body
        ELSE IF bare = 0 THEN notice ELSE bare + 2 + notice

\* render_page: lines are given back until the notice fits.
Shown(start) ==
    Max({0} \cup {n \in 1..Selected(start) : PageBytes(start, n) <= ReadBytes})

\* Mutant: the next page starts after the selected lines, shown or not.
NextOffsetOfSelected(start) == start + Selected(start)
\* next_offset, as the notice and the metadata state it
NextOffset(start) == start + Shown(start)

ReadPage ==
    /\ pageState = "reading"
    /\ IF Oversized(offset) \/ Shown(offset) = 0
       THEN pageState' = "refused" /\ UNCHANGED <<offset, shown>>
       ELSE /\ shown' = Append(shown, [from |-> offset, lines |-> Shown(offset)])
            /\ offset' = NextOffset(offset)
            /\ pageState' = IF offset + Shown(offset) - 1 = TotalLines THEN "end" ELSE "reading"
    /\ UNCHANGED <<book, lineLimit, grepVars>>

-----------------------------------------------------------------------------
\* grep

\* prefix_table: the longest proper border of every prefix of the query
Prefix ==
    LET table[i \in 1..Len(query)] ==
            LET shorter[k \in 0..Len(query)] ==
                    IF k > 0 /\ query[i] # query[k + 1] THEN shorter[table[k]]
                    ELSE IF query[i] = query[k + 1] THEN k + 1 ELSE k
            IN  IF i = 1 THEN 0 ELSE shorter[table[i - 1]]
    IN  table

\* Mutant: a mismatch starts the query over.
StepRestarting(index, byte) ==
    IF query[index + 1] = byte THEN index + 1 ELSE IF query[1] = byte THEN 1 ELSE 0
\* The automaton of grep_file, one byte
Step(index, byte) ==
    LET next[k \in 0..Len(query) - 1] ==
            IF k > 0 /\ query[k + 1] # byte THEN next[Prefix[k]]
            ELSE IF query[k + 1] = byte THEN k + 1 ELSE k
    IN  next[index]

\* How many matches grep_output lets one file collect.
Remaining == MaxResults - Len(hits)
CollectLimit == IF Remaining > 1 THEN Remaining ELSE 1

\* The result for a line of which kept bytes were kept: where it is and how long.
Hit(file, line, kept, cut) ==
    [file |-> file, line |-> line, bytes |-> LabelBytes + kept + (IF cut THEN GrepWords.line ELSE 0)]

\* A line is over: it is a result, or one too many.
LineOver(s) ==
    [s EXCEPT !.found = IF s.matches /\ Len(@) < CollectLimit
                        THEN Append(@, Hit(at.file, s.line, s.kept, s.cut)) ELSE @,
              !.more = @ \/ (s.matches /\ Len(s.found) >= CollectLimit)]

GrepByte ==
    LET byte == walk[at.file][at.byte]
        index == Step(scan.index, byte)
    IN  /\ grepState = "searching" /\ at.file <= Len(walk) /\ at.byte <= Len(walk[at.file])
        /\ byte # "0"
        /\ scan' = IF byte = "n"
                   THEN [LineOver(scan) EXCEPT !.line = @ + 1, !.index = 0, !.matches = FALSE,
                                               !.kept = 0, !.cut = FALSE]
                   ELSE [scan EXCEPT !.kept = Least(@ + 1, grepBytes),
                                     !.cut = @ \/ scan.kept >= grepBytes,
                                     !.matches = @ \/ index = Len(query),
                                     !.index = IF index = Len(query) THEN Prefix[index] ELSE index]
        /\ at' = [at EXCEPT !.byte = @ + 1]
        /\ UNCHANGED <<walk, query, grepBytes, hits, grepState, report, readVars>>

\* grep_output takes what a file gave and stops at the first match beyond the limit.
Collect(s) ==
    /\ hits' = hits \o SubSeq(s.found, 1, Least(Remaining, Len(s.found)))
    /\ grepState' = IF s.more \/ (Remaining = 0 /\ s.found # <<>>) THEN "truncated" ELSE grepState
    /\ scan' = FreshScan
    /\ at' = [file |-> at.file + 1, byte |-> 1]
    /\ UNCHANGED <<walk, query, grepBytes, report, readVars>>

\* The end of a file, its last line without a newline included
GrepEof ==
    /\ grepState = "searching" /\ at.file <= Len(walk) /\ at.byte > Len(walk[at.file])
    /\ Collect(IF scan.kept > 0 \/ scan.line = 1 THEN LineOver(scan) ELSE scan)

\* A NUL byte: the file is binary and gives nothing, whatever matched before it.
GrepBinary ==
    /\ grepState = "searching" /\ at.file <= Len(walk) /\ at.byte <= Len(walk[at.file])
    /\ walk[at.file][at.byte] = "0"
    /\ Collect(FreshScan)

Said(word) == [p \in 1..GrepWords[word] |-> <<word, 0, 0, p>>]
\* The results, one to a line, and the notice when there are more.
Joined(lines, more) ==
    LET Result(i) == [p \in 1..lines[i].bytes |-> <<"match", lines[i].file, lines[i].line, p>>]
        Broken(i) == (IF i = 1 THEN <<>> ELSE << <<"newline", 0, 0, 1>> >>) \o Result(i)
    IN  (IF lines = <<>> THEN Said("none") ELSE FlattenSeq([i \in DOMAIN lines |-> Broken(i)]))
        \o (IF more THEN Said("limit") ELSE <<>>)

\* bounded_output: a text too long keeps its two ends, with words between them that say so; of these
\* what fits.
Bounded(text, limit) ==
    LET available == Max({limit - GrepWords.cut, 0})
        head == available \div 2
        tail == available - head
        clipped == SubSeq(text, 1, head) \o Said("cut") \o SubSeq(text, Len(text) - tail + 1, Len(text))
    IN  IF Len(text) <= limit THEN text ELSE SubSeq(clipped, 1, limit)

\* The walk is over, or the limit was met: the answer.
GrepDone ==
    /\ grepState = "truncated" \/ (grepState = "searching" /\ at.file > Len(walk))
    /\ report' = Bounded(Joined(hits, grepState = "truncated"), grepBytes)
    /\ grepState' = "done"
    /\ UNCHANGED <<walk, query, grepBytes, at, scan, hits, readVars>>

ReadNext == ReadPage
GrepNext == GrepByte \/ GrepEof \/ GrepBinary \/ GrepDone

-----------------------------------------------------------------------------

\* A reader that follows next_offset sees every line of the file once and in order, every page makes
\* progress, and no page is larger than the budget (read.rs read_text_file, render_page).
PagesCover ==
    /\ \A i \in 1..Len(shown) :
        /\ shown[i].lines > 0
        /\ PageBytes(shown[i].from, shown[i].lines) <= ReadBytes
        /\ shown[i].from = IF i = 1 THEN 1 ELSE shown[i - 1].from + shown[i - 1].lines
    /\ pageState = "end" => Last(shown).from + Last(shown).lines - 1 = TotalLines

\* The lines of a text file that contain the query, by definition: their numbers and their lengths
Lines(text) ==
    LET ends == {0} \cup {i \in 1..Len(text) : text[i] = "n"} \cup {Len(text) + 1}
        From(e) == Max({i \in ends : i < e}) + 1
        Number(e) == 1 + Cardinality({i \in 1..e - 1 : text[i] = "n"})
    IN  {<<Number(e), e - From(e)>> : e \in {e \in ends \ {0} :
            \E i \in From(e)..e - Len(query) : SubSeq(text, i, i + Len(query) - 1) = query}}
Matching ==
    FlattenSeq([f \in 1..Len(walk) |->
        IF \E i \in 1..Len(walk[f]) : walk[f][i] = "0" THEN <<>>
        ELSE LET lines == SetToSortSeq(Lines(walk[f]), LAMBDA x, y : x[1] < y[1])
             IN  [i \in DOMAIN lines |-> Hit(f, lines[i][1], Least(lines[i][2], grepBytes),
                                              lines[i][2] > grepBytes)]])

\* An answer of grep lists exactly the first lines that contain the query, with the notice just when
\* there are more of them.  If that is longer than the byte limit, the answer fills the limit and
\* lacks one stretch of it, where it says so; a limit too small for these words gets what fits of
\* them.  So an answer that says neither has every match (search.rs grep_file, prefix_table,
\* grep_output, bounded_output).
GrepExact ==
    grepState = "done" =>
        LET full == Joined(SubSeq(Matching, 1, Least(MaxResults, Len(Matching))),
                           Len(Matching) > MaxResults)
        IN  IF Len(full) <= grepBytes THEN report = full
            ELSE /\ Len(report) = grepBytes
                 /\ \E head, tail \in 0..Len(full) :
                        /\ head + tail < Len(full)
                        /\ IsPrefix(report, SubSeq(full, 1, head) \o Said("cut")
                                              \o SubSeq(full, Len(full) - tail + 1, Len(full)))
                        /\ GrepWords.cut <= grepBytes => Len(report) = head + GrepWords.cut + tail

=============================================================================
