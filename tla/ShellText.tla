------------------------------- MODULE ShellText -------------------------------
(***************************************************************************)
(* The builtins of the emulated shell that only read: each is a function   *)
(* of the file system, its arguments and its standard input, and gives an  *)
(* output text and an exit status.  A character of the code is a name      *)
(* here, and a number is the name ToString gives it.                       *)
(***************************************************************************)
EXTENDS WorkspaceFs

CONSTANTS
    Flags,   \* the names that start with a dash
    MaxNum   \* the largest number a text holds

ASSUME TextAssumption == MaxNum \in Nat

Out(t) == [out |-> t, status |-> 0]
Bad(n) == [out |-> <<>>, status |-> n]

\* The result of a text made from what g gathered, or the error of g.
Then(g, F(_)) == IF g.status = 0 THEN Out(F(g.out)) ELSE g

Word(n)   == <<ToString(n)>>
IsNum(w)  == \E k \in 0 .. MaxNum : w = Word(k)
NumOf(w)  == IF IsNum(w) THEN CHOOSE k \in 0 .. MaxNum : w = Word(k) ELSE 0
Words(t)  == SelectSeq(FlattenSeq(t), LAMBDA w : w # <<>>)

\* Several words written without a space between them.
Glued(ws) == <<ToString(ws)>>

\* short_flags, one flag to a word.
Flag(w)          == Len(w) = 1 /\ w[1] \in Flags
Given(args, n)   == Contains(args, <<n>>)
Rest(args)       == SelectSeq(args, LAMBDA w : ~Flag(w))
Only(args, known) == \A i \in DOMAIN args : Flag(args[i]) => args[i][1] \in known

\* gather: the file operands one after the other, or standard input.
Gather(f, files, stdin) ==
    IF files = <<>> THEN Out(stdin)
    ELSE IF \A i \in DOMAIN files : Read(f, files[i]).ok
    THEN Out(FlattenSeq([i \in DOMAIN files |-> Read(f, files[i]).text]))
    ELSE Bad(1)

-------------------------------------------------------------------------------
(* text_ops.                                                               *)

Numbered(t) == [i \in DOMAIN t |-> <<Word(i)>> \o t[i]]

Cat(f, args, stdin) ==
    LET files == SelectSeq(args, LAMBDA w : w \notin {<<"-n">>, <<"-">>})
    IN Then(Gather(f, files, stdin), LAMBDA t : IF Given(args, "-n") THEN Numbered(t) ELSE t)

\* parse_count_flag: -n N, ten lines by default.
Count(args) ==
    LET at == SelectInSeq(args, LAMBDA w : w = <<"-n">>)
    IN IF at = 0
       THEN [ok |-> Only(args, {}), n |-> 10, files |-> args]
       ELSE [ok    |-> at < Len(args) /\ IsNum(args[at + 1]) /\ Only(args, {"-n"}),
             n     |-> IF at < Len(args) THEN NumOf(args[at + 1]) ELSE 0,
             files |-> SubSeq(args, 1, at - 1) \o SubSeq(args, at + 2, Len(args))]

\* The lines F takes, c of them, or the error of a bad count.
Counted(f, c, stdin, F(_, _)) ==
    IF c.ok THEN Then(Gather(f, c.files, stdin), LAMBDA t : F(c.n, t)) ELSE Bad(2)

LastLines(n, t) == SubSeq(t, (IF n < Len(t) THEN Len(t) - n ELSE 0) + 1, Len(t))

First(f, args, stdin)  == Counted(f, Count(args), stdin, Upto)
Ending(f, args, stdin) == Counted(f, Count(args), stdin, LastLines)

\* wc without its byte count.
Wc(f, args, stdin) ==
    LET all == ~\E n \in {"-l", "-w"} : Given(args, n)
        counts(t) == <<(IF all \/ Given(args, "-l") THEN <<Word(Len(t))>> ELSE <<>>)
                         \o (IF all \/ Given(args, "-w") THEN <<Word(Len(Words(t)))>> ELSE <<>>)>>
    IN IF Only(args, {"-l", "-w"}) THEN Then(Gather(f, Rest(args), stdin), counts) ELSE Bad(2)

\* cut -f LIST with a space for delimiter.  LIST is N, or N-M with the dash between
\* the names of a word and an empty name for the side left out.
Range2(w) ==
    [ok |-> Len(w) \in {1, 2} /\ \A i \in DOMAIN w : w[i] = "" \/ IsNum(<<w[i]>>),
     lo |-> IF w[1] = "" THEN 1 ELSE NumOf(<<w[1]>>),
     hi |-> IF w[Len(w)] = "" THEN MaxNum ELSE NumOf(<<w[Len(w)]>>)]

Cut(f, args, stdin) ==
    LET r == Range2(args[2])
        fields(l) == SubSeq(l, IF r.lo = 0 THEN 1 ELSE r.lo, IF r.hi < Len(l) THEN r.hi ELSE Len(l))
    IN IF Len(args) < 2 \/ args[1] # <<"-f">> \/ ~r.ok THEN Bad(2)
       ELSE Then(Gather(f, SubSeq(args, 3, Len(args)), stdin),
                 LAMBDA t : [i \in DOMAIN t |-> fields(t[i])])

\* tr: each character of the first set becomes the one at its place in the second,
\* whose last one repeats; -d leaves the first set out.
Tr(args, stdin) ==
    LET sets == SelectSeq(args, LAMBDA w : w # <<"-d">>)
        kept(w) == SelectSeq(w, LAMBDA c : ~Contains(sets[1], c))
        put(c) == LET at == SelectInSeq(sets[1], LAMBDA d : d = c)
                  IN IF at = 0 \/ sets[2] = <<>> THEN c
                     ELSE sets[2][IF at < Len(sets[2]) THEN at ELSE Len(sets[2])]
        each(F(_)) == [i \in DOMAIN stdin |-> [j \in DOMAIN stdin[i] |-> F(stdin[i][j])]]
    IN IF Given(args, "-d")
       THEN IF sets = <<>> THEN Bad(2) ELSE Out(each(kept))
       ELSE IF Len(sets) # 2 THEN Bad(2)
       ELSE Out(each(LAMBDA w : [k \in DOMAIN w |-> put(w[k])]))

-------------------------------------------------------------------------------
(* transform_ops.                                                          *)

Echo(args) == Out(<<args>>)

LineLess(l, m) == LexLess(l, m, PathLess)
LeadingNum(l)  == IF l = <<>> THEN 0 ELSE NumOf(l[1])

\* dedup, and the first line of every run of equal lines.
Runs(t)  == {i \in DOMAIN t : i = 1 \/ t[i - 1] # t[i]}
Dedup(t) == LET at == SetToSortSeq(Runs(t), <) IN [i \in DOMAIN at |-> t[at[i]]]

\* sort: by the leading number the sort is stable; -r reverses before -u drops
\* the repeated neighbours.
Sort(f, args, stdin) ==
    LET before(t, i, j) == IF Given(args, "-n")
                           THEN \/ LeadingNum(t[i]) < LeadingNum(t[j])
                                \/ LeadingNum(t[i]) = LeadingNum(t[j]) /\ i < j
                           ELSE LineLess(t[i], t[j]) \/ (t[i] = t[j] /\ i < j)
        sorted(t) == LET at == SetToSortSeq(DOMAIN t, LAMBDA i, j : before(t, i, j))
                     IN [i \in DOMAIN at |-> t[at[i]]]
        turned(t) == IF Given(args, "-r") THEN Reverse(t) ELSE t
        once(t) == IF Given(args, "-u") THEN Dedup(t) ELSE t
    IN IF ~Only(args, {"-r", "-n", "-u"}) THEN Bad(2)
       ELSE Then(Gather(f, Rest(args), stdin), LAMBDA t : once(turned(sorted(t))))

\* uniq: neighbours only; -d wins over -u.
Uniq(f, args, stdin) ==
    LET length(t, i) == CHOOSE n \in 1 .. Len(t) + 1 - i :
                           /\ \A j \in i .. i + n - 1 : t[j] = t[i]
                           /\ i + n > Len(t) \/ t[i + n] # t[i]
        shown(t) == SetToSortSeq({i \in Runs(t) : IF Given(args, "-d") THEN length(t, i) > 1
                                                  ELSE Given(args, "-u") => length(t, i) = 1}, <)
        line(t, i) == IF Given(args, "-c") THEN <<Word(length(t, i))>> \o t[i] ELSE t[i]
    IN IF ~Only(args, {"-c", "-d", "-u"}) THEN Bad(2)
       ELSE Then(Gather(f, Rest(args), stdin),
                 LAMBDA t : [k \in DOMAIN shown(t) |-> line(t, shown(t)[k])])

Basename(args) ==
    IF args = <<>> THEN Bad(1)
    ELSE Out(<< << IF args[1] = <<>> THEN <<>> ELSE <<Last(args[1])>> >> >>)

\* dirname: "." for a single name, which is the workspace root.
Dirname(args) ==
    IF args = <<>> THEN Bad(1)
    ELSE Out(<< << IF args[1] = <<>> THEN <<>> ELSE Front(args[1]) >> >>)

\* diff: the lines only one side has, in no alignment.
Diff(f, args) ==
    LET files == Rest(args)
        a == Read(f, files[1])
        b == Read(f, files[2])
        only(s, t, mark) == LET l == SelectSeq(s, LAMBDA x : ~Contains(t, x))
                            IN [i \in DOMAIN l |-> <<mark>> \o l[i]]
    IN IF Len(files) # 2 THEN Bad(2)
       ELSE IF ~(a.ok /\ b.ok) THEN Bad(2)
       ELSE IF a.text = b.text THEN Out(<<>>)
       ELSE [out    |-> only(a.text, b.text, <<"<">>) \o only(b.text, a.text, <<">">>),
             status |-> 1]

-------------------------------------------------------------------------------
(* sed and awk.                                                            *)

\* s/from/to/flags, split at the delimiter.
SedProgram(w) ==
    [ok     |-> Len(w) >= 3 /\ w[1] = "s" /\ (Len(w) > 3 => w[4] \in {"", "g", "p", "gp"}),
     from   |-> w[2],
     to     |-> w[3],
     global |-> Len(w) > 3 /\ w[4] \in {"g", "gp"},
     print  |-> Len(w) > 3 /\ w[4] \in {"p", "gp"}]

\* SedProgram::apply.
Substituted(prog, t, quiet) ==
    LET hits(l) == {<<i, j>> \in (DOMAIN l) \X (1 .. MaxPath) : j <= Len(l[i]) /\ l[i][j] = prog.from}
        first(l) == CHOOSE h \in hits(l) : \A g \in hits(l) : h[1] < g[1] \/ (h[1] = g[1] /\ h[2] <= g[2])
        put(l) == [i \in DOMAIN l |-> [j \in DOMAIN l[i] |->
                      IF <<i, j>> \in hits(l) /\ (prog.global \/ <<i, j>> = first(l))
                      THEN prog.to ELSE l[i][j]]]
        shown == IF ~quiet THEN t
                 ELSE SelectSeq(t, LAMBDA l : prog.print /\ hits(l) # {})
    IN [i \in DOMAIN shown |-> put(shown[i])]

\* A program is the sequence of its tokens.  extract_block takes what stands between
\* the keyword and the first closing brace after it.
Block(prog, open) ==
    LET i == SelectInSeq(prog, LAMBDA n : n = open)
        j == SelectInSeq(SubSeq(prog, i + 1, Len(prog)), LAMBDA n : n = "}")
    IN IF i = 0 THEN <<>> ELSE <<SubSeq(prog, i + 1, i + j - 1)>>

Specs == {"NR", "NF", "$0", "$1", "$2"}

AwkKnown(prog) ==
    LET known(blocks) == /\ blocks # <<>>
                         /\ \A b \in ToSet(blocks) : /\ b # <<>> /\ b[1] = "print"
                                                    /\ \A k \in 2 .. Len(b) : b[k] \in Specs
    IN known(Block(prog, "BEGIN{") \o Block(prog, "{") \o Block(prog, "END{"))

\* PrintAction::emit.
Emit(block, whole, fields, nr) ==
    LET field(n) == IF n <= Len(fields) THEN fields[n] ELSE <<>>
        put(s) == CASE s = "NR" -> <<Word(nr)>>
                    [] s = "NF" -> <<Word(Len(fields))>>
                    [] s = "$0" -> whole
                    [] s = "$1" -> <<field(1)>>
                    [] s = "$2" -> <<field(2)>>
    IN IF Len(block) = 1 THEN <<whole>>
       ELSE <<FlattenSeq([k \in 1 .. Len(block) - 1 |-> put(block[k + 1])])>>

Awk(f, args, stdin) ==
    LET prog == args[1]
        some(block, F(_)) == IF block = <<>> THEN <<>> ELSE F(block[1])
        run(t) == some(Block(prog, "BEGIN{"), LAMBDA b : Emit(b, <<>>, <<>>, 0))
                  \o some(Block(prog, "{"), LAMBDA b : FlattenSeq([i \in DOMAIN t |-> Emit(b, t[i], t[i], i)]))
                  \o some(Block(prog, "END{"), LAMBDA b : Emit(b, <<>>, <<>>, Len(t)))
    IN IF args = <<>> THEN Bad(2)
       ELSE IF ~Only(args, {}) \/ ~AwkKnown(prog) THEN Bad(2)
       ELSE Then(Gather(f, Tail(args), stdin), run)

-------------------------------------------------------------------------------
(* tree_ops.                                                               *)

\* ls: an operand that is no directory ends it.
Ls(f, args) ==
    LET paths == IF Rest(args) = <<>> THEN <<<<>>>> ELSE Rest(args)
        rows(p) == LET l == List(f, p)
                       row(n) == IF Given(args, "-l")
                                 THEN <<IF IsDir(f, Append(p, n)) THEN <<"d">> ELSE <<"-">>, <<n>>>>
                                 ELSE <<<<n>>>>
                   IN (IF Len(paths) > 1 THEN <<<<p>>>> ELSE <<>>)
                        \o [i \in DOMAIN l.names |-> row(l.names[i])]
    IN IF ~Only(args, {"-l", "-a"}) THEN Bad(2)
       ELSE IF \E i \in DOMAIN paths : ~List(f, paths[i]).ok THEN Bad(1)
       ELSE Out(FlattenSeq([i \in DOMAIN paths |-> rows(paths[i])]))

\* find [path] [-name N]: the files at any depth.
Find(f, args) ==
    LET named == SelectInSeq(args, LAMBDA w : w = <<"-name">>)
        roots == SelectSeq(IF named = 0 THEN args
                           ELSE SubSeq(args, 1, named - 1) \o SubSeq(args, named + 2, Len(args)),
                           LAMBDA w : ~Flag(w))
        pat == [under |-> IF roots = <<>> THEN <<>> ELSE roots[1],
                names |-> IF named = 0 THEN ToSet(Order) ELSE ToSet(args[named + 1]),
                deep  |-> TRUE]
        rows(hits) == [i \in DOMAIN hits |-> <<hits[i]>>]
    IN IF named = Len(args) /\ named > 0 THEN Bad(2)
       ELSE IF ~Only(args, {"-name"}) \/ Len(roots) > 1 THEN Bad(2)
       ELSE Out(rows(Glob(f, pat, MaxGlob)))

\* grep_stdin.
GrepStdin(args, word, stdin) ==
    LET at == SetToSortSeq({i \in DOMAIN stdin : Contains(stdin[i], word)}, <)
        row(i) == IF Given(args, "-n") THEN <<Glued(<<Word(i), stdin[i][1]>>)>> \o Tail(stdin[i])
                  ELSE stdin[i]
    IN IF at = <<>> THEN Bad(1)
       ELSE IF Given(args, "-l") THEN Out(<<<<<<"(standard">>, <<"input)">>>>>>)
       ELSE Out([k \in DOMAIN at |-> row(at[k])])

\* grep_path_glob: only the first path operand counts; without -r it names one file.
PathGlob(paths, recursive) ==
    IF paths = <<>> \/ paths[1] = <<>>
    THEN [under |-> <<>>, names |-> ToSet(Order), deep |-> TRUE]
    ELSE IF recursive THEN [under |-> paths[1], names |-> ToSet(Order), deep |-> TRUE]
    ELSE [under |-> Front(paths[1]), names |-> {Last(paths[1])}, deep |-> FALSE]

\* The rows of grep: the file names, or the lines with them.
FormatHits(args, hits) ==
    LET row(h) == <<Glued(<<h.path>> \o (IF Given(args, "-n") THEN <<Word(h.line)>> ELSE <<>>)
                          \o <<h.text[1]>>)>> \o Tail(h.text)
    IN IF hits = <<>> THEN Bad(1)
       ELSE IF Given(args, "-l") THEN Out(Dedup([k \in DOMAIN hits |-> <<hits[k].path>>]))
       ELSE Out([k \in DOMAIN hits |-> row(hits[k])])

\* grep: standard input when there is no path and no -r.
GrepIn(f, args, stdin) ==
    LET rest == Rest(args)
    IN IF ~Only(args, {"-r", "-n", "-l"}) \/ rest = <<>> THEN Bad(2)
       ELSE IF Len(rest) = 1 /\ ~Given(args, "-r") THEN GrepStdin(args, rest[1], stdin)
       ELSE FormatHits(args, Grep(f, PathGlob(Tail(rest), Given(args, "-r")), rest[1], MaxHits))

-------------------------------------------------------------------------------

\* dispatch, for the builtins that only read; an unknown name is not found.
Reading(f, name, args, stdin) ==
    CASE name = "echo"     -> Echo(args)
      [] name = "true"     -> Out(<<>>)
      [] name = "false"    -> Bad(1)
      [] name = "sort"     -> Sort(f, args, stdin)
      [] name = "uniq"     -> Uniq(f, args, stdin)
      [] name = "basename" -> Basename(args)
      [] name = "dirname"  -> Dirname(args)
      [] name = "diff"     -> Diff(f, args)
      [] name = "cat"      -> Cat(f, args, stdin)
      [] name = "head"     -> First(f, args, stdin)
      [] name = "tail"     -> Ending(f, args, stdin)
      [] name = "wc"       -> Wc(f, args, stdin)
      [] name = "cut"      -> Cut(f, args, stdin)
      [] name = "tr"       -> Tr(args, stdin)
      [] name = "awk"      -> Awk(f, args, stdin)
      [] name = "ls"       -> Ls(f, args)
      [] name = "find"     -> Find(f, args)
      [] name = "grep"     -> GrepIn(f, args, stdin)
      [] OTHER             -> Bad(127)

=============================================================================
