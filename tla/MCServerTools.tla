--------------------------- MODULE MCServerTools ---------------------------
(* ServerTools for TLC: the requests each call may make, the states of a    *)
(* server at the panel, and the logs it may have.                           *)
EXTENDS ServerInvariant

CONSTANTS c1, c2, s1, s2

\* Any tool, for one server or three
Plainly(tool) ==
  [tool |-> tool,
   servers |-> IF HandlerOf[tool].bulk THEN <<s2, s1, s2>> ELSE <<s1>>,
   valid |-> TRUE, command |-> "list", wait |-> FALSE, search |-> "none"]
SendCommand(s, text, waits) ==
  [Plainly("send_console_command") EXCEPT !.servers = <<s>>, !.command = text, !.wait = waits]

AnyTool ==
  {Plainly(tool) : tool \in ToolNames}
    \cup {[Plainly(tool) EXCEPT !.valid = FALSE] :
            tool \in {t \in ToolNames : HandlerOf[t].checksArg}}
    \cup {[Plainly("get_console_output") EXCEPT !.search = search] :
            search \in {"match", "invert", "invalid"}}
    \cup {[Plainly("bulk_get_console_output") EXCEPT !.search = search] :
            search \in {"match", "invalid"}}
    \cup {SendCommand(s, text, waits) :
            s \in {s1, s2}, text \in Command, waits \in BOOLEAN}

\* One call of any tool, or two that overlap
MCBatches ==
  {(c1 :> r) @@ (c2 :> NoRequest) : r \in AnyTool}
    \cup {(c1 :> r) @@ (c2 :> SendCommand(s1, "seed", FALSE)) :
            r \in {SendCommand(s1, "list", TRUE), Plainly("pull_remote_file")}}

MCReady == [power |-> "running", status |-> "normal", granted |-> Permission]
MCPanelStates ==
  {MCReady, [MCReady EXCEPT !.power = "offline"],
   [MCReady EXCEPT !.status = "suspended"],
   [MCReady EXCEPT !.granted = {"control.console"}],
   [MCReady EXCEPT !.granted = {}]}

\* Blank; nothing but an escape sequence; short, with a blank line; and longer
\* than 8 bytes, where an escape sequence is cut or a text
MCLogFiles ==
  LET text(bytes, hit) == [bytes |-> bytes, hit |-> hit, codes |-> FALSE]
      escape == [bytes |-> 3, hit |-> FALSE, codes |-> TRUE]
  IN {<<text(0, FALSE)>>,
      <<escape>>,
      <<text(1, TRUE), text(0, FALSE), text(1, FALSE), text(2, TRUE)>>,
      <<escape, text(1, TRUE), escape>>,
      <<text(1, TRUE), text(2, TRUE), text(0, FALSE), text(4, TRUE), text(1, TRUE)>>}

\* The default mode is strict: s1 has the game its egg tells, s2 is standard.
MCOverrides == (s1 :> [mode |-> None, preset |-> None]) @@
               (s2 :> [mode |-> "standard", preset |-> "rust"])
MCEggOf == (s1 :> {"minecraft"}) @@ (s2 :> {"minecraft", "rust"})
=============================================================================
