------------------------------ MODULE WorkspaceFs ------------------------------
(***************************************************************************)
(* The Filesystem trait over a local directory, as operators on a file     *)
(* system value.  A path is the sequence of its names below the workspace  *)
(* root, so << >> is the empty path, which is the root itself.  A text is  *)
(* a sequence of lines, a line a sequence of words, and a word has the     *)
(* form of a path.                                                         *)
(***************************************************************************)
EXTENDS Naturals, Sequences, FiniteSets, SequencesExt, TLC

CONSTANTS
    Order,     \* the names, in ascending order
    MaxRead,   \* MAX_READ_BYTES, in lines
    MaxPath,   \* names in the longest path the host accepts
    MaxGlob,   \* max_results of a glob
    MaxHits,   \* max_hits of a grep
    MaxVisits, \* GREP_MAX_FILES
    MaxTotal   \* GREP_MAX_TOTAL_BYTES, in lines

ASSUME FsAssumption ==
    {MaxRead, MaxPath, MaxGlob, MaxHits, MaxVisits, MaxTotal} \subseteq Nat \ {0}

Dir      == [dir |-> TRUE, text |-> <<>>]
File(t)  == [dir |-> FALSE, text |-> t]

Exists(f, p) == p \in DOMAIN f
IsDir(f, p)  == Exists(f, p) /\ f[p].dir
IsFile(f, p) == Exists(f, p) /\ ~f[p].dir

Upto(n, s) == SubSeq(s, 1, IF n < Len(s) THEN n ELSE Len(s))

-------------------------------------------------------------------------------
(* The order of names, paths and lines.                                    *)

Rank(n) == SelectInSeq(Order, LAMBDA m : m = n)

\* Lexicographic, given the order of the members.
LexLess(s, t, Less(_, _)) ==
    \/ Len(s) < Len(t) /\ IsPrefix(s, t)
    \/ \E i \in DOMAIN s \cap DOMAIN t :
          /\ SubSeq(s, 1, i - 1) = SubSeq(t, 1, i - 1)
          /\ Less(s[i], t[i])

NameLess(m, n) == Rank(m) < Rank(n)
PathLess(p, q) == LexLess(p, q, NameLess)

-------------------------------------------------------------------------------
(* The operations.                                                         *)

Above(p) == {SubSeq(p, 1, i) : i \in 0 .. Len(p) - 1}

\* resolve_in_workspace and what the host refuses: the root is gone, a name on
\* the way is a file, or the path is too long.
Unusable(f, p) ==
    \/ ~IsDir(f, <<>>)
    \/ \E q \in Above(p) : IsFile(f, q)
    \/ Len(p) > MaxPath

\* read: NotFound is told from the other errors.  A long file is cut.
Read(f, p) ==
    [ok   |-> IsFile(f, p),
     gone |-> ~Unusable(f, p) /\ ~Exists(f, p),
     text |-> IF IsFile(f, p) THEN Upto(MaxRead, f[p].text) ELSE <<>>]

\* list: the names of the children, ascending; an error for anything but a directory.
List(f, p) ==
    [ok    |-> IsDir(f, p),
     names |-> SetToSortSeq({q[Len(q)] : q \in {r \in DOMAIN f : r # <<>> /\ Front(r) = p}},
                            NameLess)]

WithParents(f, p) ==
    [q \in DOMAIN f \cup Above(p) |-> IF Exists(f, q) THEN f[q] ELSE Dir]

\* write: parents first.  how is "swap" (a temporary file and a rename, as by
\* default), "append" or "new" (create_new).
Write(f, p, body, how) ==
    IF p = <<>> \/ Unusable(f, p) \/ IsDir(f, p) \/ (how = "new" /\ Exists(f, p))
    THEN [ok |-> FALSE, fs |-> f]
    ELSE [ok |-> TRUE,
          fs |-> (p :> File(IF how = "append" /\ IsFile(f, p) THEN f[p].text \o body ELSE body))
                    @@ WithParents(f, p)]

\* remove: a file or an empty directory.
Unlink(f, p) ==
    IF Exists(f, p) /\ \A q \in DOMAIN f : p \notin Above(q)
    THEN [ok |-> TRUE, fs |-> [q \in DOMAIN f \ {p} |-> f[q]]]
    ELSE [ok |-> FALSE, fs |-> f]

\* What rename(2) accepts once the parents of the target are there.
Renamable(f, a, b) ==
    /\ Exists(f, a) /\ a # <<>> /\ b # <<>>
    /\ a \notin Above(b)
    /\ Exists(f, b) => /\ f[a].dir = f[b].dir
                       /\ a # b => \A q \in DOMAIN f : b \notin Above(q)

\* rename: the parents of the target stay behind when it fails.
Rename(f, a, b) ==
    LET g == WithParents(f, b)
        moved(q) == IF IsPrefix(a, q) THEN b \o SubSeq(q, Len(a) + 1, Len(q)) ELSE q
    IN IF Unusable(f, a) \/ Unusable(f, b) THEN [ok |-> FALSE, fs |-> f]
       ELSE IF ~Renamable(g, a, b) THEN [ok |-> FALSE, fs |-> g]
       ELSE LET stay == DOMAIN g \ {b}
            IN [ok |-> TRUE,
                fs |-> [q \in {moved(r) : r \in stay \cup {a}} |->
                          IF IsPrefix(b, q) /\ a # b
                          THEN g[a \o SubSeq(q, Len(b) + 1, Len(q))] ELSE g[q]]]

\* A pattern: the directory its literal part names, and the file names that fit the
\* rest.  A star also matches the separator, so with one every depth is searched.
Fits(pat, p) ==
    /\ IsPrefix(pat.under, p) /\ Len(p) > Len(pat.under)
    /\ p[Len(p)] \in pat.names
    /\ pat.deep \/ Len(p) = Len(pat.under) + 1

Files(f) == SetToSortSeq({p \in DOMAIN f : IsFile(f, p)}, PathLess)

\* glob, by path: files only.
Glob(f, pat, max) == Upto(max, SelectSeq(Files(f), LAMBDA p : Fits(pat, p)))

\* The files of the walk of grep that are read: those the glob fits, of the first
\* MaxVisits files, until MaxTotal lines were read.  A file that is too large is
\* passed over.
Walked(f, pat) ==
    LET files == Files(f)
        read(i) == Fits(pat, files[i]) /\ Len(f[files[i]].text) <= MaxRead
        spent(i) == FlattenSeq([k \in 1 .. i - 1 |-> IF read(k) THEN f[files[k]].text ELSE <<>>])
        at == {i \in DOMAIN files : i <= MaxVisits /\ Len(spent(i)) < MaxTotal /\ read(i)}
    IN [i \in 1 .. Cardinality(at) |-> files[SetToSortSeq(at, <)[i]]]

\* The lines with the word, file by file.
Hits(f, files, word) ==
    LET in(p) == LET t == f[p].text
                     at == SetToSortSeq({i \in DOMAIN t : Contains(t[i], word)}, <)
                 IN [i \in DOMAIN at |-> [path |-> p, line |-> at[i], text |-> t[at[i]]]]
    IN FlattenSeq([i \in DOMAIN files |-> in(files[i])])

\* grep: the first max hits.
Grep(f, pat, word, max) == Upto(max, Hits(f, Walked(f, pat), word))

=============================================================================
