---------------------------- MODULE Instructions ----------------------------
(***************************************************************************)
(* Project instructions, packages/instructions/src/lib.rs: one run's rules *)
(* cache, the source that delivers the applicable rule files with every    *)
(* model round, and the policy that checks a call before dispatch.  Both   *)
(* copy the cache entry under the lock, read the files on a blocking       *)
(* worker and store the entry under the lock again.                        *)
(*                                                                         *)
(* A directory is a sequence of names below the project's root <<>>; its   *)
(* rules apply to the directories it is a prefix of.  A file's content is  *)
(* its version, 0 for no file.  A worker whose caller has given up goes on *)
(* with its operation cancelled.                                           *)
(***************************************************************************)
EXTENDS Integers, FiniteSets, Sequences, SequencesExt

CONSTANTS
  Calls,        \* tool calls of a batch
  Dirs,         \* the directories the calls name, closed under parents
  HistoryDirs,  \* directories named by the session's stored history
  MaxDirs,      \* MAX_DIRS
  MaxEdits,     \* bound on the rule files written
  MaxRounds     \* bound on the model rounds

VARIABLES
  files,      \* version of each directory's rule file
  edits,      \* rule files written so far
  cache,      \* the runs entry: [held, dirs, loaded, delivered]
  rulesCtx,   \* what the model was shown this round
  round,      \* [n, stage]: "source", "think", "batch", "over", "finished"
  worker,     \* per "source" and call: its blocking worker
  dispatched, \* this batch's calls let through: [call, dir, there]
  ledger      \* [quiet, known, named, refused]: facts for RefusedOnce

Idle == [step |-> "idle", dir |-> <<>>, dirs |-> {}, old |-> <<>>, read |-> <<>>,
         there |-> <<>>, cancelled |-> FALSE]
NoCache == [held |-> FALSE, dirs |-> {}, loaded |-> FALSE, delivered |-> <<>>]
Workers == Calls \cup {"source"}

Init ==
  /\ files = [d \in Dirs |-> 0] /\ edits = 0
  /\ cache = NoCache /\ rulesCtx = <<>>
  /\ round = [n |-> 1, stage |-> "source"]
  /\ worker = [w \in Workers |-> Idle] /\ dispatched = {}
  /\ ledger = [quiet |-> FALSE, known |-> {}, named |-> {}, refused |-> FALSE]

\* The rule files that apply to a set of directories: load.
Scopes(dirs) == {<<>>} \cup {d \in Dirs : \E e \in dirs : IsPrefix(d, e)}
Load(dirs) == [d \in {s \in Scopes(dirs) : files[s] # 0} |-> files[d]]

\* Somebody edits a rule file.
EditRules(d) ==
  /\ edits < MaxEdits /\ edits' = edits + 1
  /\ files' = [files EXCEPT ![d] = edits + 1]
  /\ ledger' = [ledger EXCEPT !.quiet = FALSE]
  /\ UNCHANGED <<cache, rulesCtx, round, worker, dispatched>>

----------------------------------------------------------------------------
(* Workers.                                                                *)

Cancelled(w) == worker[w].cancelled \/ round.stage \in {"over", "finished"}

\* state: the entry is created if it is missing and copied.
State(w, extra) ==
  /\ ~Cancelled(w)
  /\ cache' = [cache EXCEPT !.held = TRUE]
  /\ LET dirs == cache.dirs \cup extra
     IN /\ Cardinality(dirs) <= MaxDirs
        /\ worker' = [worker EXCEPT ![w] = [step |-> "load", dir |-> worker[w].dir,
                        dirs |-> dirs, old |-> cache.delivered, read |-> <<>>,
                        there |-> <<>>, cancelled |-> FALSE]]

\* The files are read; `there` records the rules of the call's own directory on disk.
Read(w) ==
  /\ worker[w].step = "load" /\ ~Cancelled(w)
  /\ worker' = [worker EXCEPT ![w].step = "save", ![w].read = Load(worker[w].dirs),
                             ![w].there = Load({worker[w].dir})]
  /\ ledger' = IF w = "source" THEN [ledger EXCEPT !.quiet = TRUE] ELSE ledger
  /\ UNCHANGED <<files, edits, cache, rulesCtx, round, dispatched>>

\* A cancelled worker ends at its next check.
Quit(w) ==
  /\ worker[w].step # "idle" /\ Cancelled(w)
  /\ worker' = [worker EXCEPT ![w] = Idle]
  /\ UNCHANGED <<files, edits, cache, rulesCtx, round, dispatched, ledger>>

\* sources, once per round: history's directories the first time, then those
\* of the messages the projection kept.
Source ==
  /\ round.stage = "source" /\ worker["source"].step = "idle"
  /\ \E kept \in SUBSET ledger.named :
       State("source", kept \cup (IF cache.loaded THEN {} ELSE HistoryDirs))
  /\ UNCHANGED <<files, edits, rulesCtx, round, dispatched, ledger>>

\* The end of sources: the entry is replaced and the rules go to the model.
Deliver ==
  LET w == worker["source"]
  IN /\ w.step = "save" /\ ~Cancelled("source")
     /\ cache' = [held |-> TRUE, dirs |-> w.dirs, loaded |-> TRUE, delivered |-> w.read]
     /\ rulesCtx' = w.read /\ round' = [round EXCEPT !.stage = "think"]
     /\ worker' = [worker EXCEPT !["source"] = Idle]
     /\ UNCHANGED <<files, edits, dispatched, ledger>>

\* The model's reply asks for calls on some directories.
Ask(dirOf) ==
  /\ round.stage = "think" /\ round' = [round EXCEPT !.stage = "batch"]
  /\ worker' = [w \in Workers |-> IF w \in DOMAIN dirOf
                  THEN [Idle EXCEPT !.step = "asked", !.dir = dirOf[w]] ELSE worker[w]]
  /\ ledger' = [ledger EXCEPT !.named = @ \cup {dirOf[c] : c \in DOMAIN dirOf}]
  /\ UNCHANGED <<files, edits, cache, rulesCtx, dispatched>>

\* Mutant of Check: the call's own directory is not added.
CheckKnownDirs(c) ==
  /\ round.stage = "batch" /\ worker[c].step = "asked"
  /\ State(c, {})
  /\ UNCHANGED <<files, edits, rulesCtx, round, dispatched, ledger>>

\* check starts: the call's directory joins those of the entry.
Check(c) ==
  /\ round.stage = "batch" /\ worker[c].step = "asked"
  /\ State(c, {worker[c].dir})
  /\ UNCHANGED <<files, edits, rulesCtx, round, dispatched, ledger>>

\* The lock is taken again and the directories are merged into the entry.
Save(w, changed) ==
  cache' = [cache EXCEPT !.held = TRUE, !.dirs = @ \cup w.dirs]

MayDecide(c) == worker[c].step = "save" /\ ~Cancelled(c)

\* The end of check for a call with side effects: refused when the rules it
\* read are not the delivered ones.
Decide(c) ==
  LET w == worker[c]
      changed == w.read # w.old
  IN /\ MayDecide(c)
     /\ Cardinality(cache.dirs \cup w.dirs) <= MaxDirs
     /\ Save(w, changed)
     /\ worker' = [worker EXCEPT ![c] = [Idle EXCEPT !.step = "decided", !.dir = w.dir]]
     /\ dispatched' = IF changed THEN dispatched
                      ELSE dispatched \cup {[call |-> c, dir |-> w.dir, there |-> w.there]}
     /\ ledger' = [ledger EXCEPT !.refused = @ \/ changed]
     /\ UNCHANGED <<files, edits, rulesCtx, round>>

\* The caller's hook timeout: the operation is cancelled and the run fails.
GiveUp(w) ==
  /\ worker[w].step \in {"load", "save"} /\ ~Cancelled(w)
  /\ worker' = [worker EXCEPT ![w].cancelled = TRUE]
  /\ round' = [round EXCEPT !.stage = "over"]
  /\ UNCHANGED <<files, edits, cache, rulesCtx, dispatched, ledger>>

\* Every call is settled: the next round, or the end of the run.
NextRound ==
  /\ round.stage = "batch" /\ \A c \in Calls : worker[c].step \in {"idle", "decided"}
  /\ round' = IF round.n < MaxRounds THEN [n |-> round.n + 1, stage |-> "source"]
              ELSE [round EXCEPT !.stage = "over"]
  /\ ledger' = [ledger EXCEPT !.known = @ \cup {worker[c].dir : c \in
                   {d \in Calls : worker[d].step = "decided"}}, !.refused = FALSE]
  /\ worker' = [w \in Workers |-> IF w \in Calls THEN Idle ELSE worker[w]]
  /\ dispatched' = {}
  /\ UNCHANGED <<files, edits, cache, rulesCtx>>

\* Cancellation or a failure anywhere: the run's token is cancelled first.
Over ==
  /\ round.stage \in {"source", "think", "batch"}
  /\ round' = [round EXCEPT !.stage = "over"]
  /\ UNCHANGED <<files, edits, cache, rulesCtx, worker, dispatched, ledger>>

\* The run's transforms finish; a worker may still be reading files.
FinishRun ==
  /\ round.stage = "over" /\ round' = [round EXCEPT !.stage = "finished"]
  /\ cache' = NoCache
  /\ UNCHANGED <<files, edits, rulesCtx, worker, dispatched, ledger>>

Next ==
  \/ Source \/ Deliver \/ NextRound \/ Over \/ FinishRun
  \/ \E d \in Dirs : EditRules(d)
  \/ \E w \in Workers : Read(w) \/ Quit(w) \/ GiveUp(w)
  \/ \E c \in Calls : Check(c) \/ Decide(c)
  \/ \E asked \in (SUBSET Calls) \ {{}} : \E dirOf \in [asked -> Dirs] : Ask(dirOf)

----------------------------------------------------------------------------
Applying(rules, dir) == [d \in {e \in DOMAIN rules : IsPrefix(e, dir)} |-> rules[d]]

\* A call with side effects is dispatched only when the rules on disk for its
\* directory when it was checked are those the model was shown in this
\* round, whatever other calls and editors did in between.
ActUnderRules ==
  \A d \in dispatched : d.there = Applying(rulesCtx, d.dir)

\* A refusal is for something new: when no rule file has changed since this
\* round's source read them and the batch names only directories of calls
\* decided in earlier rounds, no call is refused again.
RefusedOnce ==
  ledger.refused /\ ledger.quiet /\ round.stage = "batch" =>
    \E c \in Calls : worker[c].step # "idle" /\ worker[c].dir \notin ledger.known

\* A worker left over from a run that has finished never rebuilds its entry.
CacheReleased == round.stage = "finished" => ~cache.held

\* Calls are dispatched under the rules the model saw, refused only for news, and a finished run
\* leaves nothing cached.
RulesApplied == ActUnderRules /\ RefusedOnce /\ CacheReleased
=============================================================================
