------------------------------ MODULE MCWorkspace ------------------------------
(***************************************************************************)
(* A workspace of two files, the scripts and the Python programs the shell *)
(* is run with.                                                            *)
(***************************************************************************)
EXTENDS Workspace

-------------------------------------------------------------------------------
(* Syntax.                                                                 *)

Lit(w)     == [f |-> "lit", w |-> w]
Var(v)     == [f |-> "var", v |-> v]
Sub(body)  == [f |-> "sub", body |-> body]
Star(ns)   == [f |-> "star", names |-> ns]

\* A command of plain words.
Cmd(ws) == [kind |-> "command", words |-> ws, assigns |-> <<>>, redirects |-> <<>>]
Plain(ns) == [i \in DOMAIN ns |-> <<Lit(<<ns[i]>>)>>]
Run(ns) == Cmd(Plain(ns))
To(c, w) == [c EXCEPT !.redirects = Append(@, [in |-> FALSE, append |-> FALSE, word |-> w])]
More(c, w) == [c EXCEPT !.redirects = Append(@, [in |-> FALSE, append |-> TRUE, word |-> w])]
From(c, w) == [c EXCEPT !.redirects = Append(@, [in |-> TRUE, append |-> FALSE, word |-> w])]
Set(v, w) == [Cmd(<<>>) EXCEPT !.assigns = <<[name |-> v, word |-> w]>>]
And(a, b) == [kind |-> "list", op |-> "and", left |-> a, right |-> b]
Or(a, b) == [kind |-> "list", op |-> "or", left |-> a, right |-> b]
Pipe(cs) == [kind |-> "pipeline", cmds |-> cs]
For(v, items, body) == [kind |-> "for", var |-> v, items |-> items, body |-> body]
While(cond, body) == [kind |-> "while", cond |-> cond, body |-> body]
If(cond, then, clauses) == [kind |-> "if", cond |-> cond, then |-> then, clauses |-> clauses]
Elif(cond, then) == [kind |-> "elif", cond |-> cond, then |-> then, clauses |-> <<>>]
Else(body) == [kind |-> "else", body |-> body]
Whole(n, w) == [kind |-> "redirected", body |-> n, redirects |-> <<[in |-> FALSE, append |-> FALSE, word |-> w]>>]
Test == [kind |-> "test"]

W(n) == <<Lit(<<n>>)>>
P(p) == <<Lit(p)>>
dx == P(<<"d", "x">>)

MCScripts ==
    [lists |-> <<Or(And(Run(<<"false">>), Run(<<"rm", "y">>)), To(Run(<<"echo", "k">>), W("z"))),
                 Or(And(Run(<<"cat", "y">>), More(Run(<<"echo", "a">>), W("y"))), Run(<<"rm", "y">>))>>,
     pipes |-> <<Pipe(<<Cmd(<<W("cat"), dx, W("y")>>), Run(<<"sort", "-r", "-u">>),
                        To(Run(<<"tee", "g">>), W("z"))>>),
                 Pipe(<<Cmd(<<W("grep"), W("-r"), W("-l"), W("a")>>), Run(<<"xargs", "rm">>)>>)>>,
     subs  |-> <<Set("v", <<Sub(<<Pipe(<<Run(<<"ls">>), Run(<<"head", "-n", "1">>)>>)>>)>>),
                 Cmd(<<W("rm"), W("-r"), <<Var("v"), Sub(<<And(Run(<<"rm", "y">>), Run(<<"basename", "x">>))>>)>> >>)>>,
     named |-> <<To(Run(<<"echo", "k">>), <<Sub(<<Run(<<"echo", "z">>)>>)>>)>>,
     loop  |-> <<For("i", <<<<Star({"x", "y"})>>>>,
                     <<Cmd(<<W("sed"), W("-i"), P(<<"s", "a", "k", "g">>), <<Var("i")>> >>),
                       More(Cmd(<<W("wc"), W("-l"), <<Var("i")>> >>), W("z"))>>)>>,
     until |-> <<While(<<Run(<<"rm", "y">>)>>, <<More(Run(<<"echo", "b">>), W("z"))>>),
                 While(<<Run(<<"true">>)>>, <<More(Run(<<"echo", "b">>), W("z"))>>)>>,
     cond  |-> <<If(<<Run(<<"diff", "y", "z">>)>>, <<Run(<<"rm", "z">>)>>,
                    <<Elif(<<Cmd(<<W("grep"), W("a"), dx>>)>>, <<Run(<<"mv", "y", "z">>)>>)>>),
                 If(<<Run(<<"false">>)>>, <<Run(<<"rm", "z">>)>>, <<Else(<<Run(<<"touch", "k">>)>>)>>)>>,
     elifs |-> <<If(<<Run(<<"false">>)>>, <<Run(<<"rm", "z">>)>>,
                    <<Elif(<<Run(<<"true">>)>>, <<Run(<<"touch", "k">>)>>), Else(<<Run(<<"rm", "y">>)>>)>>)>>,
     whole |-> <<And(Whole(Pipe(<<Run(<<"cat", "y">>), Run(<<"tee", "g">>)>>), W("z")), Run(<<"touch", "e">>)),
                 Whole(For("i", <<W("y")>>, <<Cmd(<<W("rm"), <<Var("i")>> >>)>>), W("z"))>>,
     trees |-> <<Run(<<"mkdir", "e">>), Run(<<"cp", "-r", "d", "y", "e">>), Run(<<"rm", "-r", "d", "y">>),
                 Pipe(<<Run(<<"find", "-name", "x">>), Run(<<"tr", "e", "g">>), Run(<<"cut", "-f", "1">>)>>)>>,
     guest |-> <<Or(Run(<<"python", "-c", "makes">>), Run(<<"touch", "k">>)),
                 Pipe(<<Run(<<"echo", "fails">>), Run(<<"python">>)>>)>>,
     text  |-> <<To(Cmd(<<W("awk"), P(<<"{", "print", "$2", "NR", "}", "END{", "print", "NR", "}">>), dx>>), W("z")),
                 Pipe(<<From(Run(<<"tail", "-n", "1">>), W("y")), Run(<<"uniq", "-c">>),
                        To(Run(<<"dirname", "y">>), W("g"))>>),
                 Run(<<"nothere">>)>>,
     tests |-> <<Or(Test, Run(<<"rm", "y">>)), If(<<Test>>, <<Run(<<"touch", "z">>)>>, <<>>)>>]

MCPrograms ==
    [makes |-> <<[do |-> "mkdir", path |-> <<"e">>], [do |-> "open", path |-> <<"e", "y">>, mode |-> "w"],
                 [do |-> "append", path |-> <<"e", "y">>, text |-> <<<<<<"k">>>>>>],
                 [do |-> "rename", path |-> <<"e", "y">>, to |-> <<"z">>]>>,
     fails |-> <<[do |-> "print", text |-> <<<<<<"k">>>>>>], [do |-> "iter", path |-> <<"d">>],
                 [do |-> "unlink", path |-> <<"d", "x">>], [do |-> "read", path |-> <<"d", "x">>],
                 [do |-> "write", path |-> <<"y">>, text |-> <<>>]>>,
     spins |-> <<[do |-> "isdir", path |-> <<"d">>], [do |-> "exists", path |-> <<"y">>],
                 [do |-> "unlink", path |-> <<"y">>], [do |-> "spin"]>>]

MCWhens ==
    {Never} \cup {[cancel |-> c, late |-> 1000] : c \in 1 .. 22}
            \cup {[cancel |-> 1000, late |-> l] : l \in 1 .. 22}
            \cup {[cancel |-> l + 2, late |-> l] : l \in 1 .. 20}

-------------------------------------------------------------------------------
(* Files.                                                                  *)

MCOrder == <<".mkdir-keep", "1", "2", "a", "b", "d", "e", "g", "k", "x", "y", "z">>
MCFlags == {"-r", "-n", "-l", "-i", "-f", "-c", "-p", "-a", "-u", "-d", "-name", "-"}

One(n) == <<<<<<n>>>>>>
Two    == << <<<<"a">>, <<"b">>>>, <<<<"a">>>> >>

MCInitialFs ==
    {(<<>> :> Dir) @@ (<<"d">> :> Dir) @@ (<<"d", "x">> :> File(Two)) @@ (<<"y">> :> File(One("a"))),
     (<<>> :> Dir) @@ (<<"y">> :> File(Two))}

MCPaths     == {<<"y">>}
MCReadCalls == {[path |-> <<"y">>, offset |-> 1, limit |-> 2], [path |-> <<"y">>, offset |-> 2, limit |-> 2]}
MCTexts     == {One("a"), One("k")}
MCEditCalls == {<<[find |-> <<"a">>, replace |-> <<"k">>, all |-> FALSE],
                  [find |-> <<"k">>, replace |-> <<"b">>, all |-> TRUE]>>}
MCPatterns  == {[under |-> <<>>, names |-> {"x", "y", "z"}, deep |-> TRUE]}
MCNeedles   == {<<"a">>}

=============================================================================
