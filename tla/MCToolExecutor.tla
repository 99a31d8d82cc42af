---------------------------- MODULE MCToolExecutor ----------------------------
(***************************************************************************)
(* A small instance of ToolExecutor.  The tools stand for kinds: "web"      *)
(* sends data out and brings outside text in, "shell" reads the user's      *)
(* data, sends data out, acts on the machine, may change it and may say     *)
(* that it failed after having done so; "mcp" asks on every call, as its    *)
(* connection is configured.                                                *)
(***************************************************************************)
EXTENDS ToolExecutor

ThreeTools == {"web", "shell", "mcp"}
Web == {"web"}
Shell_ == {"shell"}
Mcp == {"mcp"}
Out == {"web", "shell"}

\* Two turns, two calls, two stops, and an addon toggle or a chat reset: a call, its
\* repetition or its neighbour, in one turn or in two, each with its stop.
SomeLimits == [turn |-> 2, call |-> 2, stop |-> 2, refresh |-> 1]

=============================================================================
