---------------------------- MODULE McpSession ----------------------------
(***************************************************************************)
(* The MCP side of the bridge: agent/mcp/src/mcp_session.cpp.              *)
(*                                                                         *)
(* One line of a client is one JSON-RPC message.  What matters about it is *)
(* how far it is well formed, whether it wants an answer, which protocol   *)
(* era it speaks and the name under which its sender introduces itself.    *)
(* OnLine takes the session from one line to the next and says what comes  *)
(* of the line.                                                            *)
(***************************************************************************)

CONSTANTS
  Names,      \* the names of clients
  NoName,     \* the empty name: nobody was introduced
  BadName     \* a clientInfo that has no name or no version

NamesAssumption == NoName \notin Names /\ BadName \notin Names \cup {NoName}

Methods == {"initialize", "initialized", "cancelled", "ping", "discover", "list", "call", "other"}

\* form: "syntax" is no JSON, "deep" is nested too deeply, "shape" lacks a part of
\* every message, "meta" has a _meta that is no object, "offer" lacks what its era
\* must say first, "arguments" calls an unknown tool or passes no object.
Forms == {"good", "syntax", "deep", "shape", "meta", "offer", "arguments"}

Line == [method : Methods, note : BOOLEAN, era : {"legacy", "modern", "unsupported"},
         client : Names \cup {NoName, BadName}, form : Forms]

SessionType == [initialized : BOOLEAN, legacy : Names \cup {NoName}, current : Names \cup {NoName}]
NewSession == [initialized |-> FALSE, legacy |-> NoName, current |-> NoName]

Yields(s, outcome) == [session |-> s, outcome |-> outcome]

\* A notification is never refused aloud.
Refused(s, l) == Yields(s, IF l.note THEN "silent" ELSE "error")

-----------------------------------------------------------------------------
(* The session *)

\* initialize introduces the client for the session.
Initialized(s, l) ==
  IF l.note THEN Yields(s, "silent")
  ELSE IF l.form = "offer" \/ l.client \notin Names THEN Yields(s, "error")
  ELSE Yields([initialized |-> TRUE, legacy |-> l.client, current |-> l.client], "answer")

\* A modern message brings its own introduction or stays without one; a legacy
\* one is of the client that sent initialize.
Introduced(s, l) ==
  CASE l.era = "legacy" /\ l.form = "offer" -> s
    [] l.era = "legacy" /\ l.form # "offer" ->
         IF s.initialized THEN [s EXCEPT !.current = s.legacy] ELSE s
    [] l.era = "modern" /\ l.form # "offer" /\ l.client \in Names ->
         [s EXCEPT !.current = l.client]
    [] OTHER -> [s EXCEPT !.current = NoName]

Negotiated(s, l) ==
  /\ l.form # "offer"
  /\ \/ l.era = "legacy" /\ s.initialized
     \/ l.era = "modern" /\ l.client # BadName

\* The methods that are answered, by era.
Serves(l) ==
  \/ l.method = "list"
  \/ l.method = "ping" /\ l.era = "legacy"
  \/ l.method = "discover" /\ l.era = "modern"

Served(s, l) ==
  CASE l.note                                      -> Yields(s, "silent")
    [] ~l.note /\ l.method = "call"                ->
         Yields(s, IF l.form = "good" THEN "call" ELSE "error")
    [] ~l.note /\ l.method # "call"                ->
         Yields(s, IF Serves(l) THEN "answer" ELSE "error")

OnLine(s, l) ==
  CASE l.form \in {"syntax", "shape"}              -> Yields(s, "error")
    [] l.form \in {"deep", "meta"}                 -> Refused(s, l)
    [] OTHER ->
         IF l.method = "cancelled" /\ l.note THEN Yields(s, "cancel")
         ELSE IF l.method = "initialize" THEN Initialized(s, l)
         ELSE IF Negotiated(s, l) THEN Served(Introduced(s, l), l)
         ELSE Refused(Introduced(s, l), l)
=============================================================================
