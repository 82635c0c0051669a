------------------------------- MODULE Workspace -------------------------------
(***************************************************************************)
(* The workspace of one session: the file tools with their read history,   *)
(* the bash and python tools, the observations that outlive a restart, the *)
(* delta reminder of the next request, and everybody else who writes to    *)
(* the same directory.                                                     *)
(*                                                                         *)
(* The scheduler runs one of these tools at a time when it may write       *)
(* (ToolScheduler), so only the others act inside a call.  They do between *)
(* the look at the file and the write of the write and edit tools; a bash  *)
(* or python call is one step.                                             *)
(***************************************************************************)
EXTENDS EmuShell

CONSTANTS
    Scripts,     \* the bash commands: their syntax trees, by name
    Whens,       \* when a run is cancelled and when it is late, in polls
    ReadCalls,   \* the calls of the read tool: path, offset, limit
    Paths,       \* the files the other file tools are called for
    Texts,       \* the texts that are written
    EditCalls,   \* the operations of an edit call
    Patterns,    \* the patterns of the glob and grep tools
    Needles,     \* the words the grep tool looks for
    InitialFs,   \* the workspaces at the start
    MaxFile,     \* MAX_FILE_BYTES of the read tool, in lines
    MaxLine,     \* MAX_LINE_LENGTH of the read tool, in words
    MaxShown,    \* MAX_OUTPUT_BYTES of the read tool, in words
    MaxWrite,    \* MAX_WRITE_BYTES of the write tool, in lines
    MaxList,     \* MAX_ENTRIES of the list tool
    MaxCalls,    \* calls of the write and edit tools
    MaxRuns,     \* calls of the bash and python tools
    MaxBefore,   \* other calls, changes and faults that come before one of these
    MaxOthers,   \* changes the others make
    MaxFaults,   \* restarts and failures of record_observation
    MaxUsed      \* runs, calls, changes and faults together

ASSUME WorkspaceAssumption ==
    /\ {MaxCalls, MaxRuns, MaxBefore, MaxOthers, MaxFaults, MaxUsed} \subseteq Nat
    /\ {MaxFile, MaxLine, MaxShown, MaxWrite, MaxList} \subseteq Nat \ {0}
    /\ MaxFile < MaxRead /\ MaxWrite < MaxRead

VARIABLES
    fs,        \* the directory
    history,   \* ReadHistory: paths read or written by this process
    seen,      \* session_reads: the text of the last read, by path
    told,      \* the files the last request's delta reminder names
    call,      \* the write or edit call between its two steps
    used,      \* calls, changes and faults so far
    \* Observation only.
    known,     \* the texts the session was shown as a whole or wrote, with their paths
    opened,    \* the texts it was shown a part of, if any of it, with their paths
    unmarked,  \* paths in history for which no observation was made
    fresh,     \* paths the others changed since the last request
    last       \* what the last step did

vars == <<fs, history, seen, told, call, used, known, opened, unmarked, fresh, last>>

Idle    == [tool |-> "none"]
Nothing == [did |-> "nothing"]

\* A run nothing cuts short but its step budget.
Never == [cancel |-> 1000, late |-> 1000]

-------------------------------------------------------------------------------

Init ==
    /\ fs \in InitialFs
    /\ history = {} /\ seen = <<>> /\ told = {}
    /\ call = Idle
    /\ used = [calls |-> 0, runs |-> 0, others |-> 0, faults |-> 0]
    /\ known = {} /\ opened = {} /\ unmarked = {} /\ fresh = {}
    /\ last = Nothing

\* The texts of the files of g that are not as they were in f.
NewTexts(f, g) == {<<p, g[p].text>> : p \in {q \in DOMAIN g : IsFile(g, q) /\ (q \notin DOMAIN f \/ f[q] # g[q])}}

\* ReadHistory::record.
Recorded(p) == history \cup {p}

\* record_observation: one row per path, the last read wins.
Observed(p, t) == (p :> t) @@ seen

\* Bound: runs, calls, changes and faults together.
Room == used.runs + used.calls + used.others + used.faults < MaxUsed

\* The lines of t the read tool shows: from the offset on, at most limit of them and
\* as many as MaxShown allows, the long ones cut.
Shown(t, offset, limit) ==
    LET lines == [i \in 1 .. Max({0, Len(t) - offset + 1}) |-> Upto(MaxLine, t[offset + i - 1])]
        fit   == {n \in 0 .. Min({limit, Len(lines)}) : Len(FlattenSeq(Upto(n, lines))) <= MaxShown}
    IN Upto(Max(fit), lines)

\* The read tool: too large a file is refused; else the path goes into the history,
\* however little of the text is shown, and the whole text into the observations,
\* unless record_observation fails, which is ignored.
ReadTool(c, kept) ==
    LET p == c.path
        t == Read(fs, p).text
    IN /\ call = Idle
       /\ IsFile(fs, p) /\ Len(fs[p].text) <= MaxFile
       /\ history' = Recorded(p)
       /\ kept \/ (Room /\ used.faults < MaxFaults)
       /\ used' = IF kept THEN used ELSE [used EXCEPT !.faults = @ + 1]
       /\ seen' = IF kept THEN Observed(p, t) ELSE seen
       /\ unmarked' = IF kept THEN unmarked ELSE unmarked \cup {p}
       /\ IF Shown(t, c.offset, c.limit) = t
          THEN known' = known \cup {<<p, t>>} /\ UNCHANGED opened
          ELSE opened' = opened \cup {<<p, t>>} /\ UNCHANGED known
       /\ last' = Nothing
       /\ UNCHANGED <<fs, told, call, fresh>>

Busy == /\ call = Idle
        /\ Room /\ used.calls < MaxCalls
        /\ used' = [used EXCEPT !.calls = @ + 1]

Running == /\ call = Idle
           /\ used.runs < MaxRuns
           /\ used.calls + used.others + used.faults <= MaxBefore
           /\ used' = [used EXCEPT !.runs = @ + 1]

\* Wrong on purpose: any file may be replaced.
WriteToolBlind(p, t, danger) ==
    /\ Busy
    /\ Len(t) <= MaxWrite
    /\ call' = [tool |-> "write", path |-> p, text |-> t, danger |-> danger]
    /\ last' = Nothing
    /\ UNCHANGED <<fs, history, seen, told, known, opened, unmarked, fresh>>

\* The write tool: an existing file must be in the history, unless the mode is danger.
WriteTool(p, t, danger) ==
    /\ Busy
    /\ Len(t) <= MaxWrite
    /\ Exists(fs, p) => danger \/ p \in history
    /\ call' = [tool |-> "write", path |-> p, text |-> t, danger |-> danger]
    /\ last' = Nothing
    /\ UNCHANGED <<fs, history, seen, told, known, opened, unmarked, fresh>>

\* apply_edit_op: the word must be there, and once only unless all are meant.
ApplyEditOp(r, op) ==
    LET n == Len(SelectSeq(Words(r.text), LAMBDA w : w = op.find))
        put(l) == [i \in DOMAIN l |-> IF l[i] = op.find THEN op.replace ELSE l[i]]
    IN IF ~r.ok \/ op.find = <<>> \/ op.find = op.replace \/ n = 0 \/ (n > 1 /\ ~op.all)
       THEN [r EXCEPT !.ok = FALSE]
       ELSE [r EXCEPT !.text = [i \in DOMAIN r.text |-> put(r.text[i])]]

\* The edit tool: every operation on the buffer of one read; one that fails ends
\* the call before anything is written.
EditTool(p, ops, danger) ==
    LET r == FoldLeft(ApplyEditOp, [ok |-> TRUE, text |-> Read(fs, p).text], ops)
    IN /\ Busy
       /\ ops # <<>>
       /\ danger \/ p \in history
       /\ IsFile(fs, p) /\ r.ok
       /\ call' = [tool |-> "edit", path |-> p, text |-> r.text, danger |-> danger]
       /\ last' = Nothing
       /\ UNCHANGED <<fs, history, seen, told, known, opened, unmarked, fresh>>

\* The write of either tool.  The write tool then records the path, and neither
\* makes an observation.
Finish ==
    LET w == Write(fs, call.path, call.text, "swap")
    IN /\ call # Idle
       /\ fs' = w.fs
       /\ history' = IF w.ok /\ call.tool = "write" THEN Recorded(call.path) ELSE history
       /\ unmarked' = IF w.ok /\ call.tool = "write" THEN unmarked \cup {call.path} ELSE unmarked
       /\ last' = IF w.ok /\ IsFile(fs, call.path)
                  THEN [did |-> "replaced", path |-> call.path, text |-> fs[call.path].text,
                        free |-> call.danger \/ call.path \in unmarked \ DOMAIN seen]
                  ELSE Nothing
       /\ known' = IF w.ok THEN known \cup {<<call.path, call.text>>} ELSE known
       /\ call' = Idle
       /\ UNCHANGED <<seen, told, used, opened, fresh>>

\* The bash tool.  met: the whole run would have gone through the files it left.
BashTool(name, when) ==
    /\ Running
    /\ \E r, whole \in {Bash(fs, Scripts[name], w) : w \in {when, Never}} :
          /\ r.st.when = when /\ whole.st.when = Never
          /\ fs' = r.st.fs
          /\ known' = known \cup NewTexts(fs, r.st.fs)
          /\ last' = [did |-> "bash", name |-> name, from |-> fs, whole |-> when = Never,
                      kind |-> r.kind, status |-> r.st.status, out |-> r.st.out, late |-> r.st.late,
                      skipped |-> r.st.skipped, halved |-> r.st.halved,
                      met |-> r.st.fs \in whole.st.trail]
    /\ UNCHANGED <<history, seen, told, call, opened, unmarked, fresh>>

\* The python tool: cancelled, it gives an error.
PythonTool(name, when) ==
    /\ Running
    /\ \E st \in {RunPython(Start(fs, when), name)} :
          /\ fs' = st.fs
          /\ known' = known \cup NewTexts(fs, st.fs)
    /\ last' = Nothing
    /\ UNCHANGED <<history, seen, told, call, opened, unmarked, fresh>>

\* Bound: pages are asked for by a session that has read nothing; they depend on the
\* files alone.
Paging == call = Idle /\ history = {} /\ seen = <<>>

\* A page: the first n, and whether there were more.
Page(s, n) == [rows |-> Upto(n, s), more |-> Len(s) > n]

ListTool(p) ==
    /\ Paging /\ List(fs, p).ok
    /\ last' = [did |-> "list", path |-> p, page |-> Page(List(fs, p).names, MaxList)]
    /\ UNCHANGED <<fs, history, seen, told, call, used, known, opened, unmarked, fresh>>

\* The glob and grep tools ask for one more than they show.
GlobTool(pat) ==
    /\ Paging
    /\ last' = [did |-> "glob", pat |-> pat, page |-> Page(Glob(fs, pat, MaxGlob + 1), MaxGlob)]
    /\ UNCHANGED <<fs, history, seen, told, call, used, known, opened, unmarked, fresh>>

\* Wrong on purpose: as many as are shown.
GrepToolExact(pat, word) ==
    /\ Paging
    /\ last' = [did |-> "grep", pat |-> pat, word |-> word,
                page |-> Page(Grep(fs, pat, word, MaxHits), MaxHits)]
    /\ UNCHANGED <<fs, history, seen, told, call, used, known, opened, unmarked, fresh>>

GrepTool(pat, word) ==
    /\ Paging
    /\ last' = [did |-> "grep", pat |-> pat, word |-> word,
                page |-> Page(Grep(fs, pat, word, MaxHits + 1), MaxHits)]
    /\ UNCHANGED <<fs, history, seen, told, call, used, known, opened, unmarked, fresh>>

\* detect_changed_files: a file that is there and cannot be read is passed over.
ChangedFiles ==
    {p \in DOMAIN seen : LET r == Read(fs, p) IN (r.ok /\ r.text # seen[p]) \/ r.gone}

\* A request to the model, with the delta reminder.
Request ==
    /\ call = Idle
    /\ told' = ChangedFiles
    /\ fresh' = {}
    /\ last' = Nothing
    /\ UNCHANGED <<fs, history, seen, call, used, known, opened, unmarked>>

\* The server starts again: the history is gone, the observations are not.
Restart ==
    /\ Room /\ used.faults < MaxFaults
    /\ used' = [used EXCEPT !.faults = @ + 1]
    /\ history' = {} /\ unmarked' = {}
    /\ call' = Idle /\ last' = Nothing
    /\ UNCHANGED <<fs, seen, told, known, opened, fresh>>

\* Somebody else writes or removes a file.
Others(p, t) ==
    LET r == IF t = <<>> THEN Unlink(fs, p) ELSE Write(fs, p, t, "swap")
    IN /\ Room /\ used.others < MaxOthers
       /\ ~IsDir(fs, p) /\ r.ok
       /\ used' = [used EXCEPT !.others = @ + 1]
       /\ fs' = r.fs
       /\ fresh' = fresh \cup {p}
       /\ last' = Nothing
       /\ UNCHANGED <<history, seen, told, call, known, opened, unmarked>>

Next ==
    \/ \E c \in ReadCalls, kept \in BOOLEAN : ReadTool(c, kept)
    \/ \E p \in Paths, t \in Texts, danger \in BOOLEAN : WriteTool(p, t, danger)
    \/ \E p \in Paths, ops \in EditCalls, danger \in BOOLEAN : EditTool(p, ops, danger)
    \/ Finish
    \/ \E name \in DOMAIN Scripts, when \in Whens : BashTool(name, when)
    \/ \E name \in DOMAIN Programs, when \in Whens : PythonTool(name, when)
    \/ \E p \in DOMAIN fs : ListTool(p)
    \/ \E pat \in Patterns : GlobTool(pat)
    \/ \E pat \in Patterns, word \in Needles : GrepTool(pat, word)
    \/ Request
    \/ Restart
    \/ \E p \in Paths, t \in Texts \cup {<<>>} : Others(p, t)

Spec == Init /\ [][Next]_vars

-------------------------------------------------------------------------------
(* What a script means, read off its syntax tree.                          *)

RECURSIVE Meaning(_, _)

MeaningOf(st, body) == FoldLeft(Meaning, [st EXCEPT !.status = 0], body)

RECURSIVE Looping(_, _, _)
Looping(st, n, status) ==
    LET again(b) == Looping(b, n, b.status)
        tested(q) == IF q.status # 0 THEN [q EXCEPT !.status = status] ELSE again(MeaningOf(q, n.body))
    IN tested(MeaningOf(st, n.cond))

\* A command is a pipeline of one.
Pipeline(st, cmds) ==
    LET shown(r) == Push(r, r.text)
    IN shown(FoldLeft(LAMBDA a, c : RunCommand(a, LowerCommand(c), a.text),
                      [st EXCEPT !.text = <<>>], cmds))

Branch(q, n) ==
    IF q.status = 0 THEN MeaningOf(q, n.then)
    ELSE IF n.clauses = <<>> THEN [q EXCEPT !.status = 0]
    ELSE Meaning(q, IF n.clauses[1].kind = "else" THEN n.clauses[1]
                    ELSE [n.clauses[1] EXCEPT !.clauses = Tail(n.clauses)])

Meaning(st, n) ==
    LET both(l) == IF (n.op = "and") = (l.status = 0) THEN Meaning(l, n.right) ELSE l
        each(x) == FoldLeft(LAMBDA a, w : MeaningOf([a EXCEPT !.env = (n.var :> w) @@ @], n.body),
                            [x.st EXCEPT !.status = 0], x.argv)
    IN CASE n.kind \in {"command", "pipeline"} -> Pipeline(st, IF n.kind = "command" THEN <<n>> ELSE n.cmds)
         [] n.kind = "list"     -> both(Meaning(st, n.left))
         [] n.kind = "for"      -> each(ExpandWords(st, LowerFor(n).items))
         [] n.kind = "while"    -> Looping(st, n, 0)
         [] n.kind = "else"     -> MeaningOf(st, n.body)
         [] OTHER               -> Branch(MeaningOf(st, n.cond), n)

\* The scripts of which the lowering keeps every statement.  It loses a statement of
\* a kind it does not know, a substitution inside double quotes, whatever but a command
\* is redirected (lower_redirected), and an elif that another clause follows (lower_if
\* lets the later clause take its place).
RECURSIVE Kept(_)

KeptBody(body) == \A i \in DOMAIN body : Kept(body[i])
KeptWord(w) == \A i \in DOMAIN w : w[i].f # "quotedsub" /\ (w[i].f = "sub" => KeptBody(w[i].body))
KeptWords(ws) == \A i \in DOMAIN ws : KeptWord(ws[i])

Kept(n) ==
    CASE n.kind = "command"  -> /\ KeptWords(n.words)
                                /\ \A i \in DOMAIN n.assigns : KeptWord(n.assigns[i].word)
                                /\ \A i \in DOMAIN n.redirects : KeptWord(n.redirects[i].word)
      [] n.kind = "pipeline" -> \A i \in DOMAIN n.cmds : n.cmds[i].kind = "command" /\ Kept(n.cmds[i])
      [] n.kind = "list"     -> Kept(n.left) /\ Kept(n.right)
      [] n.kind = "for"      -> KeptWords(n.items) /\ KeptBody(n.body)
      [] n.kind = "while"    -> KeptBody(n.cond) /\ KeptBody(n.body)
      [] n.kind = "else"     -> KeptBody(n.body)
      [] n.kind \in {"if", "elif"} -> /\ KeptBody(n.cond) /\ KeptBody(n.then)
                                      /\ Len(n.clauses) <= 1 /\ KeptBody(n.clauses)
      [] OTHER               -> FALSE

-------------------------------------------------------------------------------
(* Properties.                                                             *)

Ran == last.did = "bash"

\* A script that nothing cut short and of which the lowering keeps every statement
\* leaves the files, the output and the status its syntax tree stands for: the
\* flattening of && and || lists (lower_list, run_andor), the branches of an if with at
\* most one elif or else (lower_if, run_if), the loops and the pipes of the evaluator
\* agree with the tree they came from.  The others are the exception: what Kept names.
ScriptMeaning ==
    Ran /\ last.whole /\ last.kind = "ok" /\ KeptBody(Scripts[last.name]) =>
        \E m \in {MeaningOf(Start(last.from, Never), Scripts[last.name])} :
            <<fs, last.out, last.status>> = <<m.fs, m.out, m.status>>

\* A run that is cancelled, late or out of steps stops at a point the whole run goes
\* through: no command runs because an earlier one was cut short (the check_abort calls
\* of run_script, run_andor, run_pipeline, run_for and run_while).  Commands that were
\* handed the text of a cut substitution, or whose own interrupted output went to a
\* file, are the exception.
AbortIsPrefix ==
    Ran /\ ~last.halved => last.met

\* The tool never reports a finished command when a part of the script was passed
\* over: the abort of a substitution reaches the run around it (run_cmdsub) and the
\* executor turns it into a timeout or an error.
SkipReported == Ran /\ last.skipped => last.kind # "ok"

\* After the abort at most one command runs for each substitution around it: the one
\* whose own step found it (tick does not stop run_command).
LateBounded == Ran => IsInjective(last.late)

\* An abort is clean: nothing runs because of it, and at most the command that
\* found it runs after it, once per substitution level (eval/mod.rs, expand.rs).
AbortClean == AbortIsPrefix /\ LateBounded

\* The write and edit tools replace a text only when the session wrote it or was shown
\* it, when the last request named the file as changed, when it changed after that
\* request, in danger mode, or when no observation of the file was ever made, because
\* the session only wrote it or record_observation failed (read-before-write in write.rs
\* and edit.rs, the observations of read.rs over a restart, detect_changed_files).  A
\* read that shows a part of the text, or with an offset past its end none of it,
\* counts as a read of the whole for the gate (read.rs:133): `opened' is that exception.
ReplacedKnown ==
    last.did = "replaced" =>
        \/ last.free
        \/ <<last.path, last.text>> \in known \cup opened
        \/ last.path \in told \cup fresh

\* Every line with the word, in the files the pattern fits: no cap.
Matches(pat, word) == Hits(fs, SelectSeq(Files(fs), LAMBDA p : Fits(pat, p)), word)

\* The walk of grep left a file unread that the pattern fits: too large a file, or one
\* after GREP_MAX_FILES or GREP_MAX_TOTAL_BYTES.
Stopped(pat) == Walked(fs, pat) # SelectSeq(Files(fs), LAMBDA p : Fits(pat, p))

\* The list, glob and grep tools say that there is more only when there is, and say so
\* whenever there is, save grep where its walk left files unread, which it never tells
\* (walk.rs:106-111, 124).
PageExact ==
    LET all == CASE last.did = "list" -> List(fs, last.path).names
                 [] last.did = "glob" -> Glob(fs, last.pat, Cardinality(DOMAIN fs))
                 [] last.did = "grep" -> Matches(last.pat, last.word)
        less == Len(last.page.rows) < Len(all)
    IN last.did \in {"list", "glob", "grep"} =>
          /\ last.page.more => less
          /\ less => last.page.more \/ (last.did = "grep" /\ Stopped(last.pat))

=============================================================================
