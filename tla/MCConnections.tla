--------------------------- MODULE MCConnections ---------------------------
(* Small instances of Connections.                                          *)
EXTENDS Connections, TLC

Local == [remote |-> FALSE, apiKey |-> 0]
FromEnvironment == [remote |-> TRUE, apiKey |-> 0]
Explicit == [remote |-> TRUE, apiKey |-> 1]

ACall(op, spec, sought) == [op |-> op, spec |-> spec, name |-> 1, version |-> sought]

(* A table may be dropped and listed between any two pages.                 *)
MCName == {1, 2}
AllTables == {MCName}

(* The key only moves forward; it may not be set at first.                  *)
MCInitialKeys == {0, 1}
Forward == {<<0, 2>>, <<1, 2>>}

CONSTANTS t1, t2

(* Two threads under one key; one also lists, the other also clears.        *)
ManyCalls ==
  t1 :> {ACall("connect", FromEnvironment, None), ACall("open", FromEnvironment, 1),
         ACall("list", Local, None)}
  @@
  t2 :> {ACall("connect", FromEnvironment, None),
         ACall("open", FromEnvironment, 1), ACall("open", FromEnvironment, None),
         ACall("open", Explicit, 1), ACall("clear", Local, None)}

(* A worker that reads a pinned version twice.                              *)
PinnedCalls == t1 :> {ACall("open", FromEnvironment, 1)}
=============================================================================
