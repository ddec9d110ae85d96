------------------------------ MODULE McpStack ------------------------------
(***************************************************************************)
(* The connections one call has open: ToolRegistry.open_mcp entering MCP   *)
(* servers, one after another, into an AsyncExitStack that closes them in  *)
(* the reverse order whatever ends the call (app/engine/tool_registry.py,  *)
(* contextlib).  A server that fails to connect is not on the stack.       *)
(***************************************************************************)
EXTENDS Sequences, Naturals

VARIABLES
  left,    \* servers still to be connected, in order
  open     \* servers connected, the last one on top

\* The next server is connected.
Connect ==
  /\ left # <<>>
  /\ open' = Append(open, Head(left))
  /\ left' = Tail(left)

\* The server on top is closed, or has failed to close: it is left either way.
CloseTop ==
  /\ open # <<>>
  /\ open' = SubSeq(open, 1, Len(open) - 1)
  /\ UNCHANGED left

\* Seeded fault: the first server that is closed is taken for the last.
FewClosed == Len(open) <= 1

AllClosed == open = <<>>

============================================================================
