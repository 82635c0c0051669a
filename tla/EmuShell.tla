------------------------------- MODULE EmuShell --------------------------------
(***************************************************************************)
(* The emulated shell and the Python guest it shares with the python tool: *)
(* a script is a syntax tree, lowered to a script of and/or lists and      *)
(* evaluated to the file system it leaves, its output and its status.      *)
(*                                                                         *)
(* The run polls its clock and its cancel token and is told of neither in  *)
(* any other way, so when the time is up and when the token is cancelled   *)
(* is the number of the poll that finds it so: one evaluation for each     *)
(* pair of numbers is every run there is.                                  *)
(***************************************************************************)
EXTENDS ShellText

CONSTANTS
    Programs,   \* the Python programs: the calls each makes, by name
    MaxSteps,   \* MAX_STEPS
    MaxOut,     \* MAX_STDOUT, in lines
    MaxSource   \* MAX_SOURCE_BYTES, in statements

ASSUME ShellAssumption == {MaxSteps, MaxOut, MaxSource} \subseteq Nat \ {0}

-------------------------------------------------------------------------------
(* parse.rs: the lowering of the syntax tree.  A statement gives a sequence *)
(* of one and/or list, or none when it is not understood.                   *)

RECURSIVE LowerStatement(_)

LowerScript(body) == FlattenSeq([i \in DOMAIN body |-> LowerStatement(body[i])])

Single(node) == <<[head |-> node, tail |-> <<>>]>>

\* lower_list: left to right; the operator goes with the side that is missing.
LowerList(n) ==
    LET l == LowerStatement(n.left)
        r == LowerStatement(n.right)
    IN IF l = <<>> THEN r
       ELSE IF r = <<>> THEN l
       ELSE <<[head |-> l[1].head,
               tail |-> l[1].tail \o <<[op |-> n.op, node |-> r[1].head]>> \o r[1].tail]>>

\* lower_word: a substitution inside double quotes is left out.
LowerFrag(g) ==
    CASE g.f = "sub" -> <<[f |-> "sub", script |-> LowerScript(g.body)]>>
      [] g.f = "quotedsub" -> <<>>
      [] OTHER -> <<g>>

LowerWord(w) == FlattenSeq([i \in DOMAIN w |-> LowerFrag(w[i])])

\* lower_command, lower_redirected, apply_redirect: the last redirect of a kind counts.
LowerCommand(c) ==
    LET of(kind) == SelectSeq(c.redirects, LAMBDA r : r.in = kind)
        final(kind) == IF of(kind) = <<>> THEN <<>>
                       ELSE <<[word |-> LowerWord(Last(of(kind)).word), append |-> Last(of(kind)).append]>>
    IN [words   |-> [i \in DOMAIN c.words |-> LowerWord(c.words[i])],
        assigns |-> [i \in DOMAIN c.assigns |-> [name |-> c.assigns[i].name,
                                                 word |-> LowerWord(c.assigns[i].word)]],
        out     |-> final(FALSE),
        in      |-> final(TRUE)]

\* lower_redirected around anything but a command, say a pipeline, a list or a loop:
\* what is redirected is left out, and a command without words remains.
Unredirected(n) == [words |-> <<>>, assigns |-> <<>>, redirects |-> n.redirects]

\* lower_pipeline: what is neither a command nor redirected is left out.
LowerPipeline(nodes) ==
    LET cmds  == SelectSeq(nodes, LAMBDA c : c.kind \in {"command", "redirected"})
        known == [i \in DOMAIN cmds |-> IF cmds[i].kind = "command" THEN cmds[i] ELSE Unredirected(cmds[i])]
    IN [kind |-> "pipeline", cmds |-> [i \in DOMAIN known |-> LowerCommand(known[i])]]

LowerFor(n) ==
    [kind |-> "for", var |-> n.var, items |-> [i \in DOMAIN n.items |-> LowerWord(n.items[i])],
     body |-> LowerScript(n.body)]

LowerWhile(n) ==
    [kind |-> "while", cond |-> LowerScript(n.cond), body |-> LowerScript(n.body)]

\* lower_if: the clauses after the first branch are siblings, and each takes the
\* place of the one before.
RECURSIVE LowerIf(_)
LowerIf(n) ==
    LET clause(c) == IF c.kind = "else" THEN LowerScript(c.body) ELSE Single(LowerIf(c))
    IN [kind |-> "if", cond |-> LowerScript(n.cond), then |-> LowerScript(n.then),
        else |-> IF n.clauses = <<>> THEN <<>> ELSE clause(Last(n.clauses))]

LowerStatement(n) ==
    CASE n.kind = "list"     -> LowerList(n)
      [] n.kind = "pipeline" -> Single(LowerPipeline(n.cmds))
      [] n.kind \in {"command", "redirected"} -> Single(LowerPipeline(<<n>>))
      [] n.kind = "for"      -> Single(LowerFor(n))
      [] n.kind = "while"    -> Single(LowerWhile(n))
      [] n.kind = "if"       -> Single(LowerIf(n))
      [] OTHER               -> <<>>

-------------------------------------------------------------------------------
(* The interpreter.                                                        *)

\* One run, with the child a substitution starts folded into it.
Start(f, when) ==
    [fs |-> f, env |-> <<>>, out |-> <<>>, full |-> FALSE, aborted |-> "no", steps |-> 0,
     text |-> <<>>, status |-> 0,   \* what the last command printed, and its status
     polls |-> 0, when |-> when,    \* polls made, and the polls that find the run cancelled and late
     level |-> 0,                   \* substitutions around the current command
     late |-> <<>>,                 \* Observation only: the levels of commands run after the abort.
     skipped |-> FALSE,             \* Observation only: something was not run because of it.
     halved |-> FALSE,              \* Observation only: a command used what the abort cut short.
     trail |-> {f}]                 \* Observation only: the file systems the run went through.

Ok(st, t)       == [st EXCEPT !.text = t, !.status = 0]
Fail(st, n)     == [st EXCEPT !.text = <<>>, !.status = n]
Told(st, r)     == [st EXCEPT !.text = r.out, !.status = r.status]
Stored(st, f)   == [st EXCEPT !.fs = f, !.trail = @ \cup {f}]
Poll(st)        == [st EXCEPT !.polls = @ + 1]
IsCancelled(st) == st.polls >= st.when.cancel
IsLate(st)      == st.polls >= st.when.late
Aborted(st)     == st.aborted # "no"

\* tick: the reasons in their order, the last one found wins.
Tick(st) ==
    LET p == [Poll(st) EXCEPT !.steps = @ + 1]
    IN [p EXCEPT !.aborted = IF IsCancelled(p) THEN "cancelled"
                             ELSE IF IsLate(p) THEN "late"
                             ELSE IF p.steps > MaxSteps THEN "budget" ELSE @]

\* Wrong on purpose: the cancel token is left to tick.
CheckAbortUnasked(st) == Poll(st)

CheckAbort(st) ==
    LET p == Poll(st)
    IN [p EXCEPT !.aborted = IF IsCancelled(p) THEN "cancelled" ELSE @]

Skip(st) == [st EXCEPT !.skipped = TRUE]

\* push_capped: nothing more once something was cut.
Push(st, t) ==
    IF st.full THEN st
    ELSE [st EXCEPT !.out = Upto(MaxOut, @ \o t), !.full = Len(st.out) + Len(t) > MaxOut]

-------------------------------------------------------------------------------
(* mutation_ops.                                                           *)

\* A file system result as the end of a command: the status n on failure.
Ended(st, r, n) == IF r.ok THEN Ok(Stored(st, r.fs), <<>>) ELSE Fail(Stored(st, r.fs), n)

\* mkdir: a marker is written below the directory and removed.  An existing
\* directory is no error, and with -p nothing is.
Mkdir(st, args) ==
    LET dirs == Rest(args)
        step(s, d) == LET w == Write(s.fs, Append(d, ".mkdir-keep"), <<>>,
                                     IF Given(args, "-p") THEN "swap" ELSE "new")
                      IN IF s.status # 0 THEN s
                         ELSE IF ~w.ok /\ ~Given(args, "-p") THEN Fail(s, 1)
                         ELSE Stored(s, Unlink(w.fs, Append(d, ".mkdir-keep")).fs)
    IN IF ~Only(args, {"-p"}) \/ dirs = <<>> THEN Fail(st, 1)
       ELSE FoldLeft(step, Ok(st, <<>>), dirs)

RECURSIVE RemovePath(_, _, _)

\* remove_path: leaves first.  A child of the empty path is outside the workspace.
RemovePath(f, p, recursive) ==
    LET step(r, n) == IF r.ok THEN RemovePath(r.fs, Append(p, n), TRUE) ELSE r
        names == List(f, p).names
        r == FoldLeft(step, [ok |-> p # <<>> \/ names = <<>>, fs |-> f],
                      IF p = <<>> THEN <<>> ELSE names)
    IN IF ~(IsDir(f, p) /\ recursive) THEN Unlink(f, p)
       ELSE IF r.ok THEN Unlink(r.fs, p) ELSE r

RECURSIVE CopyPath(_, _, _, _)

\* copy_path: files only, so an empty directory is not copied.
CopyPath(f, a, b, recursive) ==
    LET step(r, n) == IF r.ok THEN CopyPath(r.fs, Append(a, n), Append(b, n), TRUE) ELSE r
    IN IF IsDir(f, a)
       THEN IF recursive /\ (a # <<>> \/ List(f, a).names = <<>>)
            THEN FoldLeft(step, [ok |-> TRUE, fs |-> f], List(f, a).names)
            ELSE [ok |-> FALSE, fs |-> f]
       ELSE IF Read(f, a).ok THEN Write(f, b, Read(f, a).text, "swap")
       ELSE [ok |-> FALSE, fs |-> f]

\* The loop of rm, cp and mv over their operands: the token is looked at before each.
EachPath(st, paths, Do(_, _)) ==
    FoldLeft(LAMBDA s, p : LET q == Poll(s)
                           IN IF s.status # 0 THEN s
                              ELSE IF IsCancelled(q) THEN Fail(q, 130) ELSE Do(q, p),
             Ok(st, <<>>), paths)

Rm(st, args) ==
    LET one(s, p) == Ended(s, RemovePath(s.fs, p, Given(args, "-r")), IF Given(args, "-f") THEN 0 ELSE 1)
    IN IF ~Only(args, {"-r", "-f"}) \/ (Rest(args) = <<>> /\ ~Given(args, "-f")) THEN Fail(st, 1)
       ELSE EachPath(st, Rest(args), one)

\* The target of cp and mv: below the last operand when that was a directory at
\* the start.
Into(isDir, dest, src) == IF isDir /\ src # <<>> THEN Append(dest, Last(src)) ELSE dest

Cp(st, args) ==
    LET ops  == Rest(args)
        dest == Last(ops)
        into == IsDir(st.fs, dest)
        one(s, p) == Ended(s, IF dest = <<>> THEN [ok |-> FALSE, fs |-> s.fs]
                              ELSE CopyPath(s.fs, p, Into(into, dest, p), Given(args, "-r")), 1)
    IN IF ~Only(args, {"-r"}) \/ Len(ops) < 2 THEN Fail(st, 1)
       ELSE EachPath(st, Front(ops), one)

Mv(st, args) ==
    LET ops  == Rest(args)
        dest == Last(ops)
        into == IsDir(st.fs, dest)
        one(s, p) == Ended(s, IF dest = <<>> THEN [ok |-> FALSE, fs |-> s.fs]
                              ELSE Rename(s.fs, p, Into(into, dest, p)), 1)
    IN IF Len(ops) < 2 THEN Fail(st, 1) ELSE EachPath(st, Front(ops), one)

\* Write t to every one of the files until one fails.
WriteAll(st, files, t, how, n) ==
    FoldLeft(LAMBDA s, p : IF s.status # 0 THEN s ELSE Ended(s, Write(s.fs, p, t, how), n),
             Ok(st, <<>>), files)

Touch(st, args) ==
    IF Rest(args) = <<>> THEN Fail(st, 1)
    ELSE WriteAll(st, SelectSeq(Rest(args), LAMBDA p : ~Exists(st.fs, p)), <<>>, "swap", 1)

Tee(st, args, stdin) ==
    LET s == WriteAll(st, Rest(args), stdin, IF Given(args, "-a") THEN "append" ELSE "swap", 1)
    IN IF ~Only(args, {"-a"}) THEN Fail(st, 1) ELSE IF s.status = 0 THEN Ok(s, stdin) ELSE s

\* sed: -i rewrites each file from what one read of it gave.
Sed(st, args, stdin) ==
    LET rest  == Rest(args)
        prog  == SedProgram(rest[1])
        apply(t) == Substituted(prog, t, Given(args, "-n"))
        edit(s, p) == IF s.status # 0 THEN s
                      ELSE IF ~Read(s.fs, p).ok THEN Fail(s, 2)
                      ELSE Ended(s, Write(s.fs, p, apply(Read(s.fs, p).text), "swap"), 2)
    IN IF ~Only(args, {"-n", "-i"}) \/ rest = <<>> THEN Fail(st, 2)
       ELSE IF ~prog.ok THEN Fail(st, 2)
       ELSE IF ~Given(args, "-i") THEN Told(st, Then(Gather(st.fs, Tail(rest), stdin), apply))
       ELSE IF Len(rest) = 1 THEN Fail(st, 2)
       ELSE FoldLeft(edit, Ok(st, <<>>), Tail(rest))

-------------------------------------------------------------------------------
(* The Python guest: its calls to the file system, with print, raise and a  *)
(* loop that never ends between them.                                       *)

\* open_effect.
OpenEffect(f, p, mode) ==
    CASE mode = "r" -> [ok |-> Exists(f, p), fs |-> f]
      [] mode = "w" -> Write(f, p, <<>>, "swap")
      [] mode = "a" -> IF Exists(f, p) THEN [ok |-> TRUE, fs |-> f] ELSE Write(f, p, <<>>, "swap")

\* mkdir of the bridge, without parents and exist_ok.
GuestMkdir(f, p) ==
    LET w == Write(f, Append(p, ".mkdir-keep"), <<>>, "new")
    IN IF IsDir(f, p) \/ ~w.ok THEN [ok |-> FALSE, fs |-> f]
       ELSE [ok |-> TRUE, fs |-> Unlink(w.fs, Append(p, ".mkdir-keep")).fs]

\* dispatch_os_call: the answer, printed, and the file system after it.
OsCall(f, c) ==
    LET told(ok, t) == [ok |-> ok, fs |-> f, text |-> t]
        names == List(f, c.path).names
        done(r) == [ok |-> r.ok, fs |-> r.fs, text |-> <<>>]
        yes(b) == told(TRUE, <<<<IF b THEN <<"True">> ELSE <<"False">> >>>>)
    IN CASE c.do = "exists" -> yes(Exists(f, c.path))
         [] c.do = "isfile" -> yes(IsFile(f, c.path))
         [] c.do = "isdir"  -> yes(IsDir(f, c.path))
         [] c.do = "read"   -> told(Read(f, c.path).ok, Read(f, c.path).text)
         [] c.do = "iter"   -> told(IsDir(f, c.path), [i \in DOMAIN names |-> <<Append(c.path, names[i])>>])
         [] c.do = "write"  -> done(Write(f, c.path, c.text, "swap"))
         [] c.do = "append" -> done(Write(f, c.path, c.text, "append"))
         [] c.do = "open"   -> done(OpenEffect(f, c.path, c.mode))
         [] c.do = "mkdir"  -> done(GuestMkdir(f, c.path))
         [] c.do = "unlink" -> done(Unlink(f, c.path))
         [] c.do = "rename" -> done(Rename(f, c.path, c.to))

RECURSIVE Drive(_, _, _)

Raised(st, printed) == [st EXCEPT !.text = Upto(MaxOut, printed), !.status = 1]

\* resume: the answer r of a call; a failed call is raised in the guest.
Resume(st, r, rest, printed) ==
    IF r.ok THEN Drive(Stored(st, r.fs), rest, printed \o r.text)
    ELSE Raised(Stored(st, r.fs), printed)

\* drive: the token is looked at where the guest pauses, that is before each call
\* it makes and once more when it is through.
Drive(st, calls, printed) ==
    LET p == Poll(st)
        c == Head(calls)
    IN IF calls # <<>> /\ c.do = "print" THEN Drive(st, Tail(calls), printed \o c.text)
       ELSE IF calls # <<>> /\ c.do \in {"raise", "spin"} THEN Raised(st, printed)
       ELSE IF IsCancelled(p) THEN Fail(p, 130)
       ELSE IF calls = <<>> THEN Ok(p, Upto(MaxOut, printed))
       ELSE Resume(p, OsCall(p.fs, c), Tail(calls), printed)

\* run_python: what is not a program does not compile.
RunPython(st, name) ==
    IF name \in DOMAIN Programs THEN Drive(st, Programs[name], <<>>) ELSE Fail(st, 1)

\* python: -c CODE, a script file, or the program on standard input.
Python(st, args, stdin) ==
    LET source(t) == IF Words(t) = <<>> THEN "" ELSE Words(t)[1][1]
        file  == Read(st.fs, args[1])
        piped == args = <<>> \/ args = <<<<"-">>>>
        ok    == IF args[1] = <<"-c">> THEN Len(args) > 1 ELSE ~Flag(args[1]) /\ file.ok
    IN IF ~piped /\ ~ok THEN Fail(st, 2)
       ELSE RunPython(st, source(IF piped THEN stdin
                                 ELSE IF args[1] = <<"-c">> THEN <<<<args[2]>>>>
                                 ELSE file.text))

-------------------------------------------------------------------------------
(* dispatch and the evaluator.                                             *)

RECURSIVE Dispatch(_, _, _)

Dispatch(st, argv, stdin) ==
    LET name == argv[1][1]
        args == Tail(argv)
    IN IF argv[1] = <<>> THEN Fail(st, 127)
       ELSE CASE name = "mkdir"  -> Mkdir(st, args)
              [] name = "rm"     -> Rm(st, args)
              [] name = "mv"     -> Mv(st, args)
              [] name = "cp"     -> Cp(st, args)
              [] name = "touch"  -> Touch(st, args)
              [] name = "tee"    -> Tee(st, args, stdin)
              [] name = "sed"    -> Sed(st, args, stdin)
              [] name = "python" -> Python(st, args, stdin)
              [] name = "xargs"  -> IF args = <<>> THEN Ok(st, <<Words(stdin)>>)
                                    ELSE IF Flag(args[1]) THEN Fail(st, 2)
                                    ELSE Dispatch(st, args \o Words(stdin), <<>>)
              [] OTHER -> Told(st, Reading(st.fs, name, args, stdin))

\* run_builtin.
RunBuiltin(st, argv, stdin) ==
    Dispatch(IF Aborted(st) THEN [st EXCEPT !.late = Append(@, st.level)] ELSE st, argv, stdin)

RECURSIVE RunScript(_, _)

\* The variables, the output and the level of st around what the child did.
Around(st, child) ==
    [child EXCEPT !.env = st.env, !.out = st.out, !.full = st.full, !.level = st.level,
                  !.halved = @ \/ Aborted(child) \/ child.status = 130,
                  !.text = child.out]

\* Wrong on purpose: the child's abort stays with the child.
RunCmdsubForgets(st, script) ==
    LET t == Tick(st)
    IN IF Aborted(t) THEN [Skip(t) EXCEPT !.text = <<>>, !.halved = TRUE]
       ELSE [Around(st, RunScript([t EXCEPT !.out = <<>>, !.full = FALSE, !.level = @ + 1], script))
             EXCEPT !.aborted = st.aborted]

\* run_cmdsub: a child with a copy of the variables; its steps and its abort come back.
RunCmdsub(st, script) ==
    LET t == Tick(st)
    IN IF Aborted(t) THEN [Skip(t) EXCEPT !.text = <<>>, !.halved = TRUE]
       ELSE Around(st, RunScript([t EXCEPT !.out = <<>>, !.full = FALSE, !.level = @ + 1], script))

\* The text of a substitution as a part of a word: there is no splitting.
Captured(t) ==
    IF Words(t) = <<>> THEN <<>> ELSE IF Len(Words(t)) = 1 THEN Words(t)[1] ELSE Glued(t)

Lookup(st, v) == IF v \in DOMAIN st.env THEN st.env[v] ELSE <<>>

\* assemble_word: the fragments one after the other.  A star ends a word.
Assemble(st, word) ==
    LET joined(a, c) == [a EXCEPT !.st = c, !.w = @ \o Captured(c.text)]
    IN FoldLeft(LAMBDA a, g :
                   CASE g.f = "var"  -> [a EXCEPT !.w = @ \o Lookup(a.st, g.v)]
                     [] g.f = "sub"  -> joined(a, RunCmdsub(a.st, g.script))
                     [] g.f = "star" -> [a EXCEPT !.star = g.names]
                     [] OTHER        -> [a EXCEPT !.w = @ \o g.w],
                [st |-> st, w |-> <<>>, star |-> {}], word)

\* expand_glob: a pattern without a match stands for itself.
ExpandGlob(a, hits) ==
    IF a.star = {} THEN <<a.w>> ELSE IF hits # <<>> THEN hits ELSE <<Append(a.w, "*")>>

\* expand_word, each one after the words before it.
ExpandWords(st, words) ==
    LET matched(b, a) ==
            [st |-> a.st, argv |-> b.argv \o
                ExpandGlob(a, Glob(a.st.fs, [under |-> a.w, names |-> a.star, deep |-> TRUE], MaxGlob))]
    IN FoldLeft(LAMBDA b, w : matched(b, Assemble(b.st, w)), [st |-> st, argv |-> <<>>], words)

\* expand_word_to_string: no glob.
AsString(st, word) ==
    LET plain(a) == [a EXCEPT !.w = IF a.star = {} THEN @ ELSE Append(@, "*")]
    IN plain(Assemble(st, word))

Assign(st, assigns) ==
    LET put(name, e) == [e.st EXCEPT !.env = (name :> e.w) @@ @]
    IN FoldLeft(LAMBDA s, a : put(a.name, AsString(s, a.word)), st, assigns)

\* The output of the command b goes to the file o as a whole.
Put(b, o, append) ==
    LET w   == Write(o.st.fs, o.w, b.text, IF append THEN "append" ELSE "swap")
        cut == [o.st EXCEPT !.halved = @ \/ b.status = 130]
    IN IF w.ok THEN [Stored(cut, w.fs) EXCEPT !.text = <<>>, !.status = b.status]
       ELSE Fail(Stored(cut, w.fs), 1)

Redirected(b, out) ==
    IF out = <<>> THEN b ELSE Put(b, AsString(b, out[1].word), out[1].append)

\* Standard input: a file, or what is piped to the command.
Input(x, cmd, piped) ==
    LET from(i) == [ok |-> Read(i.st.fs, i.w).ok, st |-> i.st, text |-> Read(i.st.fs, i.w).text]
    IN IF cmd.in = <<>> THEN [ok |-> TRUE, st |-> x.st, text |-> piped]
       ELSE from(AsString(x.st, cmd.in[1].word))

Fed(i, argv, out) ==
    IF i.ok THEN Redirected(RunBuiltin(i.st, argv, i.text), out) ELSE Fail(i.st, 1)

Expanded(x, cmd, piped) ==
    IF x.argv = <<>> THEN Ok(Assign(x.st, cmd.assigns), <<>>)
    ELSE Fed(Input(x, cmd, piped), x.argv, cmd.out)

\* run_command: a step; the words; with none of them the assignments; standard
\* input; the builtin; and its output to a file as a whole.
RunCommand(st, cmd, piped) == Expanded(ExpandWords(Tick(st), cmd.words), cmd, piped)

RECURSIVE Piped(_, _, _)

\* What r printed goes to the next command of the pipeline, and that of the last one out.
PassedOn(r, rest) == IF rest = <<>> THEN Push(r, r.text) ELSE Piped(r, rest, r.text)

\* run_pipeline.
Piped(st, cmds, stdin) ==
    LET c == CheckAbort(st)
    IN IF Aborted(c) THEN [Skip(c) EXCEPT !.status = 1]
       ELSE PassedOn(RunCommand(c, Head(cmds), stdin), Tail(cmds))

RECURSIVE Iterate(_, _, _, _)

\* The loop of run_for.
Iterate(st, var, items, body) ==
    LET c == CheckAbort(st)
    IN IF items = <<>> THEN st
       ELSE IF Aborted(c) THEN Skip(c)
       ELSE Iterate(RunScript([c EXCEPT !.env = (var :> Head(items)) @@ @], body), var, Tail(items), body)

RunFor(st, n) ==
    LET over(x) == Iterate([x.st EXCEPT !.status = 0], n.var, x.argv, n.body)
    IN over(ExpandWords(Tick(st), n.items))

RECURSIVE RunWhile(_, _, _)

\* run_while: the status of the last body.
RunWhile(st, n, status) ==
    LET c == CheckAbort(st)
        again(b) == RunWhile(b, n, b.status)
        tested(q) == IF q.status # 0 THEN [q EXCEPT !.status = status] ELSE again(RunScript(q, n.body))
    IN IF Aborted(c) THEN [Skip(c) EXCEPT !.status = status]
       ELSE tested(RunScript(Tick(c), n.cond))

\* run_if: without an else the status is 0, which is also that of an empty script.
RunIf(st, n) ==
    LET tested(q) == RunScript(q, IF q.status = 0 THEN n.then ELSE n.else)
    IN tested(RunScript(Tick(st), n.cond))

RunNode(st, n) ==
    CASE n.kind = "pipeline" -> IF n.cmds = <<>> THEN [st EXCEPT !.status = 0]
                                ELSE Piped(st, n.cmds, <<>>)
      [] n.kind = "for"      -> RunFor(st, n)
      [] n.kind = "while"    -> RunWhile(st, n, 0)
      [] n.kind = "if"       -> RunIf(st, n)

RECURSIVE Chain(_, _)

RECURSIVE ChainStops(_, _)

\* Wrong on purpose: the first node passed over ends the list.
ChainStops(st, tail) ==
    LET c == CheckAbort(st)
        go == IF Head(tail).op = "and" THEN c.status = 0 ELSE c.status # 0
    IN IF tail = <<>> THEN st
       ELSE IF Aborted(c) THEN Skip(c)
       ELSE IF go THEN ChainStops(RunNode(c, Head(tail).node), Tail(tail)) ELSE c

\* The tail of run_andor.
Chain(st, tail) ==
    LET c == CheckAbort(st)
        go == IF Head(tail).op = "and" THEN c.status = 0 ELSE c.status # 0
    IN IF tail = <<>> THEN st
       ELSE IF Aborted(c) THEN Skip(c)
       ELSE Chain(IF go THEN RunNode(c, Head(tail).node) ELSE c, Tail(tail))

RunAndOr(st, item) == Chain(RunNode(st, item.head), item.tail)

RECURSIVE Items(_, _)

\* run_script.
Items(st, items) ==
    LET c == CheckAbort(st)
    IN IF items = <<>> THEN st
       ELSE IF Aborted(c) THEN Skip(c)
       ELSE Items(RunAndOr(c, Head(items)), Tail(items))

RunScript(st, items) == Items([st EXCEPT !.status = 0], items)

\* parse refuses a long source.
TooLong(body) == Len(body) > MaxSource

\* The result of a finished run.
Report(st) ==
    [st   |-> st,
     kind |-> CASE st.aborted = "cancelled" -> "cancelled"
                [] st.aborted \in {"late", "budget"} -> "timed_out"
                [] OTHER -> "ok",
     exit |-> IF Aborted(st) THEN -1 ELSE st.status]

\* EmulatedShellExecutor::run: a parse error is a result with status 2.
Bash(f, body, when) ==
    IF TooLong(body) THEN [st |-> Start(f, when), kind |-> "ok", exit |-> 2]
    ELSE Report(RunScript(Start(f, when), LowerScript(body)))

=============================================================================
