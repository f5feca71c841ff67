------------------------------ MODULE Terminal ------------------------------
(***************************************************************************)
(* One interactive terminal of the server, apps/server/src/terminal.rs:    *)
(* numbered input requests that the page may send again, the reader thread *)
(* that keeps the last MAX_OUTPUT bytes, cursor-based output pages, and    *)
(* the process that close, sweep and shutdown kill.                        *)
(*                                                                         *)
(* The data of input k is its two bytes <<k, 1>> and <<k, 2>>; the n-th    *)
(* byte the shell prints is n.  Requests and responses may be lost, and a  *)
(* request sent again may overtake or follow its first copy.  A page that  *)
(* reports dropped bytes leaves the mark 0 in the text the user sees.      *)
(***************************************************************************)
EXTENDS Integers, Sequences, SequencesExt

CONSTANTS
  KeptBytes,    \* MAX_OUTPUT
  PageBytes,    \* 65536, the size of an output page
  MaxPrinted,   \* bound on the bytes the shell prints
  MaxInputs,    \* bound on the inputs the user types
  MaxCopies     \* bound on the copies of one request in flight

VARIABLES
  entry,        \* "open" while the id is in Terminals::entries, else "closed"
  process,      \* "alive", "dead"
  printed,      \* bytes the shell has printed
  output,       \* [bytes, start, end, exited]: struct Output
  input,        \* [last, faulted]: struct Input; the data follows from last
  typedInto,    \* the bytes that reached the pty
  page,         \* the page's view: [cursor, text, exited]
  wire,         \* copies of input k in flight
  typed,        \* the last input the page sent
  accepted      \* inputs the page has been told were accepted

Inputs == 1..MaxInputs
Keys(k) == <<<<k, 1>>, <<k, 2>>>>
SmallerOf(a, b) == IF a < b THEN a ELSE b
LargerOf(a, b) == IF a < b THEN b ELSE a

\* Terminals::open.
Init ==
  /\ entry = "open" /\ process = "alive" /\ printed = 0
  /\ output = [bytes |-> <<>>, start |-> 0, end |-> 0, exited |-> FALSE]
  /\ input = [last |-> 0, faulted |-> FALSE] /\ typedInto = <<>>
  /\ page = [cursor |-> 0, text |-> <<>>, exited |-> FALSE]
  /\ wire = [k \in Inputs |-> 0] /\ typed = 0 /\ accepted = {}

----------------------------------------------------------------------------
(* The shell and the reader thread.                                        *)

Prints ==
  /\ process = "alive" /\ printed < MaxPrinted /\ printed' = printed + 1
  /\ UNCHANGED <<entry, process, output, input, typedInto, page, wire, typed,
                 accepted>>

Exit ==
  /\ process = "alive" /\ process' = "dead"
  /\ UNCHANGED <<entry, printed, output, input, typedInto, page, wire, typed,
                 accepted>>

\* One read of the pty, and the oldest bytes discarded.
ReadPty ==
  LET bytes == output.bytes \o [i \in 1..(printed - output.end) |-> output.end + i]
      discard == LargerOf(Len(bytes) - KeptBytes, 0)
  IN /\ output.end < printed
     /\ output' = [output EXCEPT !.bytes = SubSeq(bytes, discard + 1, Len(bytes)),
                                 !.start = @ + discard, !.end = printed]
     /\ UNCHANGED <<entry, process, printed, input, typedInto, page, wire, typed,
                    accepted>>

\* End of file: the child is waited for and the exit recorded.
Reaped ==
  /\ process = "dead" /\ output.end = printed /\ ~output.exited
  /\ output' = [output EXCEPT !.exited = TRUE]
  /\ UNCHANGED <<entry, process, printed, input, typedInto, page, wire, typed,
                 accepted>>

----------------------------------------------------------------------------
(* Output pages.                                                           *)

\* Terminals::output.
PageOf(after) ==
  LET start == LargerOf(after, output.start)
      skip == start - output.start
      bytes == SubSeq(output.bytes, skip + 1,
                      SmallerOf(skip + PageBytes, Len(output.bytes)))
  IN [bytes |-> bytes, next |-> start + Len(bytes),
      dropped |-> after < output.start,
      exited |-> output.exited /\ start + PageBytes >= output.end]

\* The page asks from its cursor until it is told of the exit; a lost
\* response leaves the cursor where it was.
Poll ==
  LET p == PageOf(page.cursor)
  IN /\ entry = "open" /\ ~page.exited /\ page.cursor <= output.end
     /\ page' = [cursor |-> p.next, exited |-> p.exited,
                 text |-> page.text \o (IF p.dropped THEN <<0>> ELSE <<>>) \o p.bytes]
     /\ UNCHANGED <<entry, process, printed, output, input, typedInto, wire,
                    typed, accepted>>

----------------------------------------------------------------------------
(* Input.                                                                  *)

\* The page sends the next input once the last one was accepted.
Type ==
  /\ typed < MaxInputs /\ (typed = 0 \/ typed \in accepted)
  /\ typed' = typed + 1 /\ wire' = [wire EXCEPT ![typed + 1] = 1]
  /\ UNCHANGED <<entry, process, printed, output, input, typedInto, page, accepted>>

\* No answer came: the same input again.
Retry ==
  /\ typed # 0 /\ typed \notin accepted /\ wire[typed] < MaxCopies
  /\ wire' = [wire EXCEPT ![typed] = @ + 1]
  /\ UNCHANGED <<entry, process, printed, output, input, typedInto, page, typed,
                 accepted>>

\* A copy is lost, or is refused because the terminal is gone.
Lose(k) ==
  /\ wire[k] > 0 /\ wire' = [wire EXCEPT ![k] = @ - 1]
  /\ UNCHANGED <<entry, process, printed, output, input, typedInto, page, typed,
                 accepted>>

\* Mutant of Write: a failed write leaves no trace, so it can be repeated.
WriteUnreserved(k, n) ==
  /\ n = 2 \/ UNCHANGED input
  /\ n = 2 => input' = [input EXCEPT !.last = k]
  /\ typedInto' = typedInto \o SubSeq(Keys(k), 1, n)

\* The sequence is reserved before the write, which may fail after n bytes.
Write(k, n) ==
  /\ input' = [last |-> k, faulted |-> n < 2]
  /\ typedInto' = typedInto \o SubSeq(Keys(k), 1, n)

\* Terminals::input: a copy of the last input is answered again, the next
\* one is written, any other refused.
Input(k) ==
  /\ wire[k] > 0 /\ wire' = [wire EXCEPT ![k] = @ - 1]
  /\ entry = "open" /\ ~output.exited
  /\ \/ ~input.faulted /\ input.last = k
        /\ accepted' \in {accepted, accepted \cup {k}} /\ UNCHANGED <<input, typedInto>>
     \/ /\ ~input.faulted /\ k = input.last + 1
        /\ \E n \in 0..2 :
             /\ Write(k, n)
             /\ accepted' \in {accepted} \cup (IF n = 2 THEN {accepted \cup {k}} ELSE {})
     \/ /\ input.faulted \/ k \notin {input.last, input.last + 1}
        /\ UNCHANGED <<input, typedInto, accepted>>
  /\ UNCHANGED <<entry, process, printed, output, page, typed>>

\* Terminals::close, sweep and shutdown: forgotten and killed.
Close ==
  /\ entry = "open" /\ entry' = "closed" /\ process' = "dead"
  /\ UNCHANGED <<printed, output, input, typedInto, page, wire, typed, accepted>>

Next ==
  \/ Prints \/ Exit \/ ReadPty \/ Reaped \/ Poll \/ Type \/ Retry \/ Close
  \/ \E k \in Inputs : Lose(k) \/ Input(k)

----------------------------------------------------------------------------
\* Whatever is lost, delayed or sent again, the shell receives the inputs in
\* order and each byte at most once, and all of an input the page was told
\* was accepted.
InputOnce ==
  /\ \A k \in Inputs, b \in 1..2 :
          Len(typedInto) >= 2 * k - 2 + b => typedInto[2 * k - 2 + b] = Keys(k)[b]
  /\ Len(typedInto) <= 2 * typed
  /\ \A k \in accepted : Len(typedInto) >= 2 * k

\* The text a page shows has no hole that is not marked, repeats nothing, and
\* is complete to the last byte once the page is told the shell exited.
OutputContiguous ==
  LET text == page.text
  IN /\ \A i \in 1..(Len(text) - 1) :
          text[i] # 0 /\ text[i + 1] # 0 => text[i + 1] = text[i] + 1
     /\ \A i \in 1..(Len(text) - 2) :
          text[i + 1] = 0 => text[i + 2] > text[i] + 1
     /\ page.exited => page.cursor = printed /\ process = "dead"

\* Keystrokes reach the shell once and in order, its output reaches the page the same way.
TerminalExact == InputOnce /\ OutputContiguous
=============================================================================
