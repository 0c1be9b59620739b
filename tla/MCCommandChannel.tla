-------------------------- MODULE MCCommandChannel --------------------------
(***************************************************************************)
(* Two calls about the ports p1 and p2, all on at first: different ports,  *)
(* the same port, and a port against all of them.                          *)
(***************************************************************************)
EXTENDS CommandChannel, TLC

CONSTANTS p1, p2, c1, c2
MCPorts == {p1, p2}
MCCalls == {c1, c2}

Ask1(p, v) == [ports |-> {p}, on |-> v]
AskAll(v) == [ports |-> MCPorts, on |-> v]
Pair(x, y) == c1 :> x @@ c2 :> y
MCWants == {Pair(Ask1(p1, FALSE), Ask1(p2, FALSE)),
            Pair(Ask1(p1, FALSE), Ask1(p1, TRUE)),
            Pair(Ask1(p1, FALSE), AskAll(TRUE)),
            Pair(AskAll(FALSE), Ask1(p2, TRUE))}
=============================================================================
