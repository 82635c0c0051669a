------------------------------- MODULE MCPrompts -------------------------------
(* A tool call and an ask_user call of two sessions, both asking; the glob of   *)
(* the first one covers the second, whose own permission is no glob.            *)
EXTENDS Prompts
CONSTANTS w, q, s, t, p, badGlob
MCSessionOf == [c \in Call |-> IF c = q THEN t ELSE s]
MCPermOf    == [c \in Call |-> IF c = q THEN badGlob ELSE p]
MCCovers    == [x \in Perm |-> IF x = p THEN Perm ELSE {}]
MCManner    == [c \in Call |-> "interactive"]
MCSeed      == <<>>
=============================================================================
