------------------------------- MODULE Shell -------------------------------
(***************************************************************************)
(* The shell tool: packages/tools/src/shell.rs starts a command as the     *)
(* leader of a process group, drains its two pipes into the bounded        *)
(* capture of capture.rs, and ends the group before it answers or when its *)
(* future is dropped.                                                      *)
(*                                                                         *)
(* A byte is <<class, stream>>: "x" is a whole character, "L" the first    *)
(* and "c" the second byte of another, and "R", "r", "r" the three bytes   *)
(* of the replacement character.  A signal to the group ends its members   *)
(* at once; what they had written stays in the pipes.                      *)
(***************************************************************************)
EXTENDS Integers, Sequences, SequencesExt

CONSTANTS
  Inline,          \* min(max_command_bytes, 8 MiB, max_tool_result_bytes / 2)
  ArchiveTrigger,  \* OutputArchive::trigger_bytes
  ArchivePreview,  \* OutputArchive::preview_bytes
  MaxCapture,      \* MAX_OUTPUT_BYTES
  Room,            \* max_tool_result_bytes less the result's metadata
  Marker,          \* length of the "[Output shortened ...]" line
  Notice,          \* length of the sandbox notice, 0 without one
  MaxWrites        \* bound on the bytes the command writes

VARIABLES
  phase,    \* "prepare", "running", "stopping", "finish", "done", "failed", "dropped"
  group,    \* the processes of the command's group that are alive
  armed,    \* ProcessTree::armed
  status,   \* whether the leader has been waited for
  open,     \* the streams not at end of file yet
  pipe,     \* bytes written and not yet read, per stream
  sent,     \* every byte written, per stream
  tails,    \* Decoder::tail, per stream
  archive,  \* whether the run has a usable output archive
  spool,    \* [on, bytes]: the temporary spool
  preview,  \* Capture::preview
  size,     \* Capture::bytes
  answer    \* the ToolOutput

shellVars == <<phase, group, armed, status, open, pipe, sent, tails, archive,
               spool, preview, size, answer>>
captureVars == <<tails, spool, preview, size>>

Streams == {"stdout", "stderr"}
LeastOf(a, b) == IF a < b THEN a ELSE b
TailOf(s, n) == SubSeq(s, Len(s) - LeastOf(n, Len(s)) + 1, Len(s))
NoAnswer == [content |-> <<>>, truncated |-> FALSE, artifact |-> FALSE]

Init ==
  /\ phase = "prepare" /\ group = {} /\ armed = FALSE /\ status = FALSE
  /\ open = Streams
  /\ pipe = [s \in Streams |-> <<>>] /\ sent = [s \in Streams |-> <<>>]
  /\ tails = [s \in Streams |-> <<>>]
  /\ archive \in BOOLEAN
  /\ spool = [on |-> FALSE, bytes |-> <<>>] /\ preview = <<>> /\ size = 0
  /\ answer = NoAnswer

----------------------------------------------------------------------------
(* The command.                                                            *)

\* Arguments, confinement and the last checks pass and the command starts;
\* one descendant stands for all it forks.
Spawn ==
  /\ phase = "prepare"
  /\ phase' = "running" /\ group' = {"leader", "child"} /\ armed' = TRUE
  /\ UNCHANGED <<status, open, pipe, sent, archive, answer, captureVars>>

\* Any of them refuses: bad limits, cancellation, a sandbox that cannot be
\* prepared or a program that cannot be started.
Refuse ==
  /\ phase = "prepare" /\ phase' = "failed"
  /\ UNCHANGED <<group, armed, status, open, pipe, sent, archive, answer,
                 captureVars>>

CommandWrites(s, class) ==
  /\ group # {} /\ Len(sent.stdout) + Len(sent.stderr) < MaxWrites
  /\ sent' = [sent EXCEPT ![s] = Append(@, <<class, s>>)]
  /\ pipe' = [pipe EXCEPT ![s] = Append(@, <<class, s>>)]
  /\ UNCHANGED <<phase, group, armed, status, open, archive, answer, captureVars>>

ProcessExits(p) ==
  /\ p \in group /\ group' = group \ {p}
  /\ UNCHANGED <<phase, armed, status, open, pipe, sent, archive, answer,
                 captureVars>>

----------------------------------------------------------------------------
(* Decoder: what std::str::from_utf8 accepts, an error replaced and an     *)
(* incomplete last character kept for the next chunk of the same pipe.     *)

Replacement(s) == <<<<"R", s>>, <<"r", s>>, <<"r", s>>>>

FromUtf8(bytes, s) ==
  FoldLeft(LAMBDA d, b :
    CASE b[1] = "c" /\ d.tail # <<>> ->
           [text |-> d.text \o d.tail \o <<b>>, tail |-> <<>>]
      [] b[1] = "c" -> [text |-> d.text \o Replacement(s), tail |-> <<>>]
      [] OTHER ->
           LET text == IF d.tail = <<>> THEN d.text ELSE d.text \o Replacement(s)
           IN IF b[1] = "L" THEN [text |-> text, tail |-> <<b>>]
              ELSE [text |-> text \o <<b>>, tail |-> <<>>],
    [text |-> <<>>, tail |-> <<>>], bytes)

\* Mutant of Decode: each chunk is decoded on its own.
DecodePerChunk(tail, input, eof, s) ==
  LET d == FromUtf8(input, s)
  IN [text |-> IF d.tail = <<>> THEN d.text ELSE d.text \o Replacement(s),
      tail |-> <<>>]

\* Decoder::decode.
Decode(tail, input, eof, s) ==
  LET d == FromUtf8(tail \o input, s)
  IN IF eof /\ d.tail # <<>>
     THEN [text |-> d.text \o Replacement(s), tail |-> <<>>] ELSE d

\* Capture::new: the two limits, with and without an archive.
Trigger == IF archive THEN LeastOf(ArchiveTrigger, Inline) ELSE Inline
PreviewLimit == IF archive THEN LeastOf(ArchivePreview, Inline) ELSE Inline

\* Capture::append once the sizes are within MAX_OUTPUT_BYTES: spooling
\* starts with the prefix kept so far.
Appended(text) ==
  LET starts == ~spool.on /\ archive /\ size + Len(text) >= Trigger
      on == spool.on \/ starts
      limit == IF archive /\ ~on THEN Trigger ELSE PreviewLimit
  IN /\ spool' = IF on THEN [on |-> TRUE,
                             bytes |-> (IF starts THEN preview ELSE spool.bytes) \o text]
                 ELSE spool
     /\ preview' = TailOf(preview \o text, limit)
     /\ size' = size + Len(text)

\* Capture::raw_bytes once a pipe has been emptied into the capture.
RawBytes == Len(sent.stdout) + Len(sent.stderr)
              - Len(pipe'.stdout) - Len(pipe'.stderr)

\* The select of execute returns a chunk of one pipe, or its end once no
\* process holds it, and capture.append takes it.
Read(s) ==
  LET eof == pipe[s] = <<>>
      d == Decode(tails[s], pipe[s], eof, s)
  IN /\ phase = "running" /\ s \in open
     /\ eof => group = {}
     /\ open' = IF eof THEN open \ {s} ELSE open
     /\ pipe' = [pipe EXCEPT ![s] = <<>>]
     /\ tails' = [tails EXCEPT ![s] = d.tail]
     /\ IF size + Len(d.text) > MaxCapture \/ RawBytes > MaxCapture
        THEN phase' = "stopping" /\ UNCHANGED <<spool, preview, size>>
        ELSE Appended(d.text) /\ UNCHANGED phase
     /\ UNCHANGED <<group, armed, status, sent, archive, answer>>

\* The leader is waited for; whatever it left behind is killed.
Wait ==
  /\ phase = "running" /\ ~status /\ "leader" \notin group
  /\ status' = TRUE /\ group' = {}
  /\ UNCHANGED <<phase, armed, open, pipe, sent, archive, answer, captureVars>>

\* Cancellation, the deadline, a read or a spool error leaves the loop.
Interrupt ==
  /\ phase = "running" /\ phase' = "stopping"
  /\ UNCHANGED <<group, armed, status, open, pipe, sent, archive, answer,
                 captureVars>>

\* After the loop: start_kill, and the group is waited for up to 2 s.
Stop ==
  /\ \/ phase = "running" /\ open = {} /\ status /\ phase' = "finish"
     \/ phase = "stopping" /\ phase' = "failed"
  /\ group' = {} /\ armed' \in BOOLEAN
  /\ UNCHANGED <<status, open, pipe, sent, archive, answer, captureVars>>

\* Capture::finish: bytes are missing from the preview, or it will be cut.
Truncated == Len(preview) < size \/ Len(preview) > Room

\* The bytes the content shows, from a character's first byte on.
Shown ==
  LET cut == TailOf(preview, Room - Notice - (IF Truncated THEN Marker ELSE 0))
      start == SelectInSeq(cut, LAMBDA b : b[1] \notin {"c", "r"})
  IN IF start = 0 THEN <<>> ELSE SubSeq(cut, start, Len(cut))

Finish ==
  /\ phase = "finish" /\ phase' = "done"
  /\ answer' = [content |-> Shown, truncated |-> Truncated, artifact |-> spool.on]
  /\ UNCHANGED <<group, armed, status, open, pipe, sent, archive, captureVars>>

\* The archive, the result's budget, cancellation or the deadline refuses it.
FinishFails ==
  /\ phase = "finish" /\ phase' = "failed"
  /\ UNCHANGED <<group, armed, status, open, pipe, sent, archive, answer,
                 captureVars>>

\* The runtime drops the awaiting future: ProcessTree::drop.
Drop ==
  /\ phase \in {"running", "stopping", "finish"} /\ phase' = "dropped"
  /\ group' = IF armed THEN {} ELSE group
  /\ UNCHANGED <<armed, status, open, pipe, sent, archive, answer, captureVars>>

Next ==
  \/ Spawn \/ Refuse \/ Wait \/ Interrupt \/ Stop \/ Finish \/ FinishFails \/ Drop
  \/ \E s \in Streams : Read(s) \/ \E class \in {"x", "L", "c"} : CommandWrites(s, class)
  \/ \E p \in group : ProcessExits(p)

----------------------------------------------------------------------------
\* What a pipe carried, decoded in one piece.
Whole(s) == Decode(<<>>, sent[s], TRUE, s).text
Only(bytes, s) == SelectSeq(bytes, LAMBDA b : b[2] = s)

\* A finished command hides nothing silently: the archived text holds every
\* byte both pipes carried however they were cut into chunks, an answer not
\* marked truncated shows all of it, and a truncated one shows whole
\* characters from its end.
OutputAccounted ==
  phase = "done" =>
    \A s \in Streams :
      /\ answer.artifact => Only(spool.bytes, s) = Whole(s)
      /\ ~answer.truncated => Only(answer.content, s) = Whole(s)
      /\ IsSuffix(Only(answer.content, s), Whole(s))
      /\ answer.content # <<>> => answer.content[1][1] \notin {"c", "r"}

\* No process of the command outlives the call, however the call ends: normal
\* return, failure, or the runtime dropping the future.
NoOrphan == phase \in {"finish", "done", "failed", "dropped"} => group = {}

\* A command's output is accounted for and its processes are gone when the call is over.
CommandContained == OutputAccounted /\ NoOrphan
=============================================================================
