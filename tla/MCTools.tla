------------------------------ MODULE MCTools --------------------------------
(***************************************************************************)
(* What an agent works with, checked in one run: its plan, the edit, read, *)
(* grep and shell tools, the terminal beside it and the project's rules.   *)
(* They share nothing here: a behaviour picks one of them in its first     *)
(* state and stays with it.                                                *)
(***************************************************************************)
EXTENDS Planner

CONSTANTS
    Editors, Names, InitialLink, Inside, Outside, InitialText, Edits, MaxText, MaxRelinks,
    PagedFiles, PageLimits, ReadBytes, LongNotice, ShortNotice, Walks, Queries, MaxResults,
    GrepLimits, LabelBytes, GrepWords,
    Inline, ArchiveTrigger, ArchivePreview, MaxCapture, Room, Marker, Notice, MaxWrites,
    KeptBytes, TerminalPage, MaxPrinted, MaxInputs, MaxCopies,
    Calls, Dirs, HistoryDirs, MaxDirs, MaxEdits, MaxRounds

\* Paths given to the tools name files in the workspace, or the one outside it.
ASSUME PathsAssumption ==
    Inside \subseteq Names /\ Outside \in Names \ Inside /\ InitialLink \in [Names -> Inside \cup {Outside}]
\* A directory is the names on its path, the root's path empty; "source" is no call.
ASSUME DirsAssumption ==
    Dirs \subseteq Seq(STRING) /\ <<>> \in Dirs /\ HistoryDirs \subseteq Dirs /\ "source" \notin Calls
\* A page of output and what is kept of it are not empty.
ASSUME TerminalAssumption ==
    KeptBytes \in Nat \ {0} /\ TerminalPage \in Nat \ {0} /\ MaxInputs \in Nat
\* A line has at least one byte and a page is of at least one line.
ASSUME PagesAssumption ==
    /\ PagedFiles \subseteq [widths : Seq(Nat \ {0}), ended : BOOLEAN]
    /\ PageLimits \subseteq Nat \ {0} /\ ReadBytes \in Nat

VARIABLES
    part,
    texts, link, relinks, edit,
    book, offset, lineLimit, shown, pageState,
    walk, query, grepBytes, at, scan, hits, grepState, report,
    phase, group, armed, status, open, pipe, sent, tails, archive, spool, preview, size, answer,
    entry, process, printed, output, input, typedInto, page, wire, typed, accepted,
    files, edits, cache, rulesCtx, round, worker, dispatched, ledger

editVars == <<texts, link, relinks, edit>>
readVars == <<book, offset, lineLimit, shown, pageState>>
grepVars == <<walk, query, grepBytes, at, scan, hits, grepState, report>>
shellVars == <<phase, group, armed, status, open, pipe, sent, tails, archive, spool, preview, size,
               answer>>
terminalVars == <<entry, process, printed, output, input, typedInto, page, wire, typed, accepted>>
ruleVars == <<files, edits, cache, rulesCtx, round, worker, dispatched, ledger>>
allVars == <<part, vars, editVars, readVars, grepVars, shellVars, terminalVars, ruleVars>>

\* Progress, completion, and a step added before a completed one.
Step(id, text, state) == [id |-> id, text |-> text, status |-> state]
MCStepLists ==
    { <<Step("a", "x", "pending")>>, <<Step("a", "x", "completed")>>,
      <<Step("b", "y", "in_progress"), Step("a", "x", "completed")>> }

\* A text with a typographic quote (q, for the plain k), trailing space (s), a CR LF (r n) and then a
\* bare LF, which an edit rewrites.
MCInitialText == <<"a", "q", "s", "r", "n", "a", "n">>
MCEdits ==
    { << <<"q">>, <<"a">> >>, << <<"k">>, <<>> >>, << <<"a">>, <<"q">> >>,
      << <<"k", "n">>, <<"a", "s">> >>, << <<"n", "a">>, <<"k">> >>, << <<"a", "k">>, <<"q", "n">> >> }
MCInitialLink == [n \in Names |-> IF n = "link" THEN "f" ELSE n]

\* Files of up to four lines of up to five bytes, and the empty file.
MCPagedFiles ==
    {[widths |-> w, ended |-> e] : w \in UNION {[1 .. n -> 1 .. 5] : n \in 1 .. 4}, e \in BOOLEAN}
    \cup {[widths |-> <<>>, ended |-> TRUE]}
\* A file of up to four characters followed by one that matches late, has a long line or is binary.
MCWalks == {<<w, v>> : w \in UNION {[1 .. n -> {"a", "b", "n"}] : n \in 0 .. 4},
                       v \in {<<"a", "a", "b">>, <<"b", "a", "a", "b", "a", "b", "n", "a">>, <<"a", "b", "0">>}}
MCQueries == UNION {[1 .. n -> {"a", "b"}] : n \in 1 .. 3}
MCGrepWords == [none |-> 1, limit |-> 2, cut |-> 2, line |-> 1]

\* A root, a directory in it and one below, and a directory an earlier turn worked in.
MCDirs == {<<>>, <<"a">>, <<"a", "b">>}
MCHistoryDirs == {<<"a">>}

FileEdit == INSTANCE FileEdit
TextTools == INSTANCE TextTools
Shell == INSTANCE Shell
Terminal == INSTANCE Terminal WITH PageBytes <- TerminalPage
Instructions == INSTANCE Instructions

\* A part that is not the behaviour's starts in one fixed state.
AllInit ==
    /\ part \in {"planner", "edit", "read", "grep", "shell", "terminal", "rules"}
    /\ Init /\ (part # "planner" => enabled)
    /\ FileEdit!Init
    /\ TextTools!ReadInit
    /\ part # "read" => book.widths = <<>> /\ lineLimit = 1
    /\ \/ part = "grep"
       \/ /\ part # "grep"
          /\ walk = <<<<>>, <<"a", "b", "0">>>> /\ query = <<"a">> /\ grepBytes = 5
    /\ TextTools!GrepInit
    /\ Shell!Init /\ (part # "shell" => archive)
    /\ Terminal!Init
    /\ Instructions!Init

AllNext ==
    /\ UNCHANGED part
    /\ \/ /\ part = "planner" /\ Next
          /\ UNCHANGED <<editVars, readVars, grepVars, shellVars, terminalVars, ruleVars>>
       \/ /\ part = "edit" /\ FileEdit!Next
          /\ UNCHANGED <<vars, readVars, grepVars, shellVars, terminalVars, ruleVars>>
       \/ /\ part = "read" /\ TextTools!ReadNext
          /\ UNCHANGED <<vars, editVars, shellVars, terminalVars, ruleVars>>
       \/ /\ part = "grep" /\ TextTools!GrepNext
          /\ UNCHANGED <<vars, editVars, shellVars, terminalVars, ruleVars>>
       \/ /\ part = "shell" /\ Shell!Next
          /\ UNCHANGED <<vars, editVars, readVars, grepVars, terminalVars, ruleVars>>
       \/ /\ part = "terminal" /\ Terminal!Next
          /\ UNCHANGED <<vars, editVars, readVars, grepVars, shellVars, ruleVars>>
       \/ /\ part = "rules" /\ Instructions!Next
          /\ UNCHANGED <<vars, editVars, readVars, grepVars, shellVars, terminalVars>>

AllSpec == AllInit /\ [][AllNext]_allVars

-----------------------------------------------------------------------------

\* edit: it changes what it was asked to and nothing outside the writable roots.
EditSafe == FileEdit!EditSafe

\* edit: of two edits through any two paths to one file neither is lost.
NoLostEdit == FileEdit!NoLostEdit

\* read: following next_offset shows every line once, in order, in pages within the budget.
PagesCover == TextTools!PagesCover

\* grep: the first matching lines, the notice just when there are more, and a cut only where it says.
GrepExact == TextTools!GrepExact

\* shell: output is accounted for and no process outlives the call.
CommandContained == Shell!CommandContained

\* Terminal: keystrokes and output arrive once and in order.
TerminalExact == Terminal!TerminalExact

\* Project rules: calls are dispatched under the rules the model saw, refused only for news, and a
\* finished run leaves nothing cached.
RulesApplied == Instructions!RulesApplied

==============================================================================
