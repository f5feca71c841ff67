------------------------------ MODULE FileEdit ------------------------------
(***************************************************************************)
(* The edit and write tools (tools/edit.rs, write.rs) and the file         *)
(* mutation they share (tools/support.rs mutate_file) under the sandbox    *)
(* path fence (sandbox/policy.rs check_write).                             *)
(*                                                                         *)
(* A text is a sequence of characters: "a" any letter, "k" a plain quote,  *)
(* "q" a typographic one that fuzzy matching takes for "k", "s" a space,   *)
(* "n" LF and "r" CR.  A path names a file through `link`, which another   *)
(* process may change between the steps of the blocking worker.            *)
(***************************************************************************)
EXTENDS Integers, Sequences, SequencesExt, FiniteSets

CONSTANTS
    Editors,      \* tool calls
    Names,        \* paths the calls are given
    InitialLink,  \* [Names -> Inside \cup {Outside}]
    Inside,       \* canonical paths under the workspace root; all of them are Names
    Outside,      \* a canonical path outside every writable root; also a Name
    InitialText,  \* what every file holds at first
    Edits,        \* replacements a call may ask for: <<oldText, newText>>
    MaxText,      \* bound: length of a file
    MaxRelinks    \* bound: changes of the directory tree by others

VARIABLES
    texts,        \* [Inside \cup {Outside} -> text]
    link, relinks,
    edit          \* per call: pc, name, canonical target, text read, text to write, edits

editVars == <<texts, link, relinks, edit>>
FilePaths == Inside \cup {Outside}

Init ==
    /\ texts = [f \in FilePaths |-> InitialText]
    /\ link = InitialLink
    /\ relinks = 0
    /\ edit = [c \in Editors |-> [pc |-> "idle", name |-> Outside, target |-> Outside,
                                  before |-> <<>>, after |-> <<>>, edits |-> <<>>]]

-----------------------------------------------------------------------------
\* apply_edits

\* normalize_lf: "\r\n" and a lone "\r" become "\n".
Normalize(t) ==
    LET keep == SelectSeq([i \in 1..Len(t) |-> i],
                          LAMBDA i : ~(t[i] = "n" /\ i > 1 /\ t[IF i > 1 THEN i - 1 ELSE 1] = "r"))
    IN  [j \in 1..Len(keep) |-> IF t[keep[j]] = "r" THEN "n" ELSE t[keep[j]]]

\* detect_line_ending: the first "\n" decides for the whole file.
UsesCrLf(t) ==
    \E i \in 2..Len(t) : t[i] = "n" /\ t[i - 1] = "r" /\ \A j \in 1..i - 1 : t[j] # "n"

\* restore_line_endings
Restore(t, crlf) ==
    IF crlf THEN FlattenSeq([i \in 1..Len(t) |-> IF t[i] = "n" THEN <<"r", "n">> ELSE <<t[i]>>]) ELSE t

\* fuzzy_text: spans of the characters that survive; spaces before a line end do not.
Spans(t) ==
    SelectSeq([i \in 1..Len(t) |-> i],
              LAMBDA i : ~(t[i] = "s" /\ \A j \in i..Len(t) : t[j] = "s" \/ \E l \in i..j : t[l] = "n"))

Fuzzy(t) == LET spans == Spans(t)
            IN  [j \in 1..Len(spans) |-> IF t[spans[j]] = "q" THEN "k" ELSE t[spans[j]]]

\* occurrences: overlapping ones count.
Occurrences(t, old) ==
    IF old = <<>> THEN {} ELSE {i \in 1..Len(t) - Len(old) + 1 : SubSeq(t, i, i + Len(old) - 1) = old}

\* Mutant: offsets in the normalised text are taken for offsets in the original.
MapFuzzyRangeByOffset(t, start, length) == [start |-> start, end |-> start + length]
\* map_fuzzy_range: half-open, in the characters of the original
MapFuzzyRange(t, start, length) ==
    LET spans == Spans(t) IN [start |-> spans[start], end |-> spans[start + length - 1] + 1]

\* apply_replacements, from the last match to the first
Replace(t, matches) ==
    FoldRight(LAMBDA m, text : SubSeq(text, 1, m.start - 1) \o m.new \o SubSeq(text, m.end, Len(text)),
              matches, t)

Failed == [ok |-> FALSE, text |-> <<>>]
\* Every oldText must be found exactly once, exactly or (for all of them) fuzzily; regions may not
\* overlap; something must change.
ApplyEdits(before, edits) ==
    LET t == Normalize(before)
        n == Len(edits)
        old == [i \in 1..n |-> Normalize(edits[i][1])]
        fuzzy == \E i \in 1..n : Occurrences(t, old[i]) = {}
        base == IF fuzzy THEN Fuzzy(t) ELSE t
        needle == [i \in 1..n |-> IF fuzzy THEN Fuzzy(old[i]) ELSE old[i]]
        at == [i \in 1..n |-> Occurrences(base, needle[i])]
        match == [i \in 1..n |->
            LET start == CHOOSE p \in at[i] : TRUE
                range == IF fuzzy THEN MapFuzzyRange(t, start, Len(needle[i]))
                         ELSE [start |-> start, end |-> start + Len(needle[i])]
            IN  [start |-> range.start, end |-> range.end, new |-> Normalize(edits[i][2])]]
        sorted == SortSeq([i \in 1..n |-> match[i]], LAMBDA x, y : x.start < y.start)
    IN  IF \E i \in 1..n : Cardinality(at[i]) # 1 THEN Failed
        ELSE IF \E i \in 1..n - 1 : sorted[i].end > sorted[i + 1].start THEN Failed
        ELSE IF Replace(t, sorted) = t THEN Failed
        ELSE [ok |-> TRUE, text |-> Restore(Replace(t, sorted), UsesCrLf(before))]

-----------------------------------------------------------------------------
\* mutate_file, the steps of the blocking worker

\* check_write under workspace-write: the canonical destination, if it lies under a writable root.
Allowed(name) == link[name] \in Inside

Call(c, name) ==
    /\ edit[c].pc = "idle"
    /\ Allowed(name)
    /\ edit' = [edit EXCEPT ![c].pc = "wait", ![c].name = name, ![c].target = link[name]]
    /\ UNCHANGED <<texts, link, relinks>>

\* Mutant: the lock is taken on the name that was given.
LockKeyByName(c) == edit[c].name
\* mutation_lock: the process-wide mutex of the canonical destination
LockKey(c) == edit[c].target

\* recheck: the destination still resolves to itself
Recheck(c) == link[edit[c].target] = edit[c].target

\* An early return of the worker: nothing was written, the mutex is released.
Return(c) == edit' = [edit EXCEPT ![c].pc = "done"]

\* Under the mutex: recheck, then read.  One step: a link changed after the recheck and before the
\* file is opened is not explored.
Read(c) ==
    /\ edit[c].pc = "wait"
    /\ \A d \in Editors : edit[d].pc \in {"read", "ready"} => LockKey(d) # LockKey(c)
    /\ IF Recheck(c)
       THEN edit' = [edit EXCEPT ![c].pc = "read", ![c].before = texts[edit[c].target]]
       ELSE Return(c)
    /\ UNCHANGED <<texts, link, relinks>>

\* EditTool::execute: the transform may fail.
Edit(c, edits) ==
    LET result == ApplyEdits(edit[c].before, edits)
    IN  /\ edit[c].pc = "read"
        /\ Len(result.text) <= MaxText
        /\ IF result.ok
           THEN edit' = [edit EXCEPT ![c].pc = "ready", ![c].after = result.text, ![c].edits = edits]
           ELSE Return(c)
        /\ UNCHANGED <<texts, link, relinks>>

\* WriteTool::execute: the content replaces everything.
Write(c) ==
    /\ edit[c].pc = "read"
    /\ edit' = [edit EXCEPT ![c].pc = "ready", ![c].after = <<"a">>]
    /\ UNCHANGED <<texts, link, relinks>>

\* The last recheck and the rename that publishes the temporary file.  One step: a link changed
\* between the two is not explored.
Persist(c) ==
    /\ edit[c].pc = "ready"
    /\ Recheck(c)
    /\ texts' = [texts EXCEPT ![link[edit[c].target]] = edit[c].after]
    /\ Return(c)
    /\ UNCHANGED <<link, relinks>>

\* A check before the rename fails: the task was cancelled, the disk is full, the destination moved.
\* A caller that was dropped has no other effect: the worker keeps the mutex until it is through.
Abort(c) ==
    /\ edit[c].pc \in {"wait", "read", "ready"}
    /\ Return(c)
    /\ UNCHANGED <<texts, link, relinks>>

\* Another process replaces a directory entry by a symbolic link.
Relink(name, f) ==
    /\ relinks < MaxRelinks /\ link[name] # f
    /\ link' = [link EXCEPT ![name] = f]
    /\ relinks' = relinks + 1
    /\ UNCHANGED <<texts, edit>>

Next ==
    \/ \E c \in Editors :
        \/ \E name \in Names : Call(c, name)
        \/ Read(c) \/ Write(c) \/ Persist(c) \/ Abort(c)
        \/ \E e \in Edits : Edit(c, <<e>>)
        \/ \E e, f \in Edits : e # f /\ Edit(c, <<e, f>>)
    \/ \E name \in Names, f \in FilePaths : Relink(name, f)

-----------------------------------------------------------------------------

\* Every line of t ends as the first line of before does.
EndsAlike(t, before) ==
    \A i \in 1..Len(t) :
        /\ t[i] = "n" => UsesCrLf(before) <=> i > 1 /\ t[IF i > 1 THEN i - 1 ELSE 1] = "r"
        /\ t[i] = "r" => i < Len(t) /\ t[IF i < Len(t) THEN i + 1 ELSE 1] = "n"

\* An edit replaces regions that read as the oldTexts do: the new text is, line ends aside, the old
\* one with disjoint regions replaced, one per edit, each equal to its oldText exactly or up to the
\* typographic and trailing-space differences fuzzy matching ignores.  Of the rest only line ends may
\* change: every one becomes what the first of the file was, so in a file that mixes them others
\* are rewritten too (edit.rs apply_edits, map_fuzzy_range, restore_line_endings).
EditFaithful ==
    \A c \in Editors : edit[c].pc = "ready" /\ edit[c].edits # <<>> =>
        LET t == Normalize(edit[c].before)
            n == Len(edit[c].edits)
            Says(start, end, old) ==
                LET region == SubSeq(t, start, end - 1)
                IN  region = Normalize(old) \/ Fuzzy(region) = Fuzzy(Normalize(old))
        IN  \E at \in [1..n -> {r \in (1..Len(t)) \X (2..Len(t) + 1) : r[1] < r[2]}] :
                /\ \A i \in 1..n : Says(at[i][1], at[i][2], edit[c].edits[i][1])
                /\ \A i, j \in 1..n : i # j => at[i][2] <= at[j][1] \/ at[j][2] <= at[i][1]
                /\ LET matches == SortSeq([i \in 1..n |-> [start |-> at[i][1], end |-> at[i][2],
                                                           new |-> Normalize(edit[c].edits[i][2])]],
                                          LAMBDA x, y : x.start < y.start)
                   IN  Normalize(edit[c].after) = Replace(t, matches)
                /\ EndsAlike(edit[c].after, edit[c].before)

\* A rename publishes a text computed from what the file holds at that moment: of two edits through
\* any two paths to one file neither is lost (support.rs mutate_file, mutation_lock).
NoLostEdit ==
    [][\A c \in Editors : edit[c].pc = "ready" /\ texts' # texts /\ edit'[c].pc = "done" =>
            texts[edit[c].target] = edit[c].before]_editVars

\* A file outside the writable roots keeps its text, whatever links others change while a call is
\* under way (policy.rs check_write, support.rs recheck).
Fenced == texts[Outside] = InitialText

\* An edit changes what it was asked to and nothing outside the writable roots.
EditSafe == EditFaithful /\ Fenced
=============================================================================
