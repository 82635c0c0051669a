---------------------------- MODULE MCToolScheduler ----------------------------
(* A subagent call within a subagent call, whose turn writes `.'; a turn that    *)
(* writes a new file and reads it; and a turn that writes the file by another    *)
(* spelling.                                                                     *)
EXTENDS ToolScheduler
CONSTANTS A, B, C, D, E, s1, s2, w1, w2, rd, up, ws, dot, p, q
MCBatch  == [t \in Turn |-> CASE t = A -> <<s1>> [] t = B -> <<w1>>
                              [] t = C -> <<s2>> [] t = D -> <<up>> [] t = E -> <<w2, rd>>]
MCChild  == [c \in Call |-> CASE c = s1 -> C [] c = s2 -> D [] OTHER -> NoTurn]
MCAbove  == [t \in Turn |-> CASE t = C -> {A} [] t = D -> {A, C} [] OTHER -> {}]
MCClaims ==
    [c \in Call |->
        CASE c \in {s1, s2} -> <<>>
          [] c = w1 -> (ws :> "read") @@ (q :> "write")
          [] c = w2 -> (ws :> "read") @@ (p :> "write")
          [] c = rd -> (ws :> "read") @@ (p :> "read")
          [] c = up -> (ws :> "read") @@ (dot :> "write")]
MCCanon  == [k \in Raw |-> CASE k = q -> p [] k = dot -> ws [] OTHER -> k]
MCRank   == [k \in Raw |-> CASE k = ws -> 1 [] k = dot -> 2 [] k = q -> 3 [] k = p -> 4]
=============================================================================
