----------------------------- MODULE AgentLink -----------------------------
(***************************************************************************)
(* How a tool call of an MCP client reaches a simulator: the bridge's      *)
(* session and caller thread (agent/mcp/src/mcp_bridge.cpp, gui_link.cpp), *)
(* the endpoint file through which a simulator is found                    *)
(* (agent/protocol/src/agent_endpoint.cpp), the loopback connection        *)
(* (agent_socket.cpp), and of each simulator what the other end sees:      *)
(* start, stop, the greeting and the queue of agent_server.cpp.            *)
(*                                                                         *)
(* Simulators of one installation share the endpoint file: the last one    *)
(* that starts its server is the one that is found.  They may crash, and   *)
(* then leave the file behind and free a port that another simulator or    *)
(* another program takes.  Starts are numbered: a server instance is a     *)
(* simulator with the number of its start, and its fresh tokens are that   *)
(* pair.                                                                   *)
(* A time-out may strike whenever the bridge waits.                        *)
(***************************************************************************)
EXTENDS Integers, Sequences, FiniteSets, SequencesExt, McpSession

CONSTANTS
  Simulators,
  Release,        \* the tool catalog version of each simulator
  BridgeRelease,  \* that of the bridge
  Ports,          \* of the loopback interface
  MaxCalls,       \* bound on the tool calls of the client, for model checking
  Lines,          \* the lines the client may send
  MaxTasks,       \* the calls that wait for the caller thread
  MaxQueued,      \* kMaxQueuedAgentCalls
  MaxStarts,      \* bound on the servers started, for model checking
  Nobody          \* no endpoint, no connection, no call, no message

CallIds == 1..MaxCalls
Foreign == <<"foreign", 0>>

\* A server instance, what its file says, what is on the wire, and a connection
Instances == Simulators \X (1..MaxStarts)
Endpoint == [gui : Instances, port : Ports, release : Nat]
Ups == [kind : {"hello"}, gui : Instances, client : Names \cup {NoName}]
         \cup [kind : {"call"}, call : CallIds]
Downs == [kind : {"busy", "mismatch", "refused", "result", "parked", "stopped", "noise"}]
           \cup [kind : {"gui"}, gui : Instances \cup {Foreign}, release : Nat]
Channel == [peer : Instances \cup {Foreign}, meant : Instances, number : Nat, open : BOOLEAN,
            client : Names \cup {NoName}, down : Downs \cup {Nobody}, up : Ups \cup {Nobody}]

LinkAssumption ==
  /\ Lines \subseteq Line /\ Nobody \notin Nat \cup Names \cup {NoName} \cup Endpoint \cup Channel
  /\ MaxCalls \in Nat /\ MaxTasks \in Nat /\ MaxQueued \in Nat /\ MaxStarts \in Nat
  /\ Ports \subseteq Nat \ {0} /\ Release \in [Simulators -> Nat] /\ BridgeRelease \in Nat

VARIABLES
  endpoint,     \* the endpoint file
  server,       \* of each simulator: state, number of its start, port
  foreign,      \* the ports that other programs listen on
  inbox,        \* of each simulator: the calls received, the first one perhaps begun
  session,      \* the MCP session
  tasks,        \* the calls that wait for the caller thread
  link,         \* the caller thread
  channel,      \* its connection: the server it leads to and (history) the one it was
                \* dialed for, and what is on the wire in each direction
  connections,  \* the number of connections made
  \* history: who made a call, how often it was run, what was answered, the
  \* last server that was published
  asker, ran, outcome, starter

simVars    == <<endpoint, server, foreign, inbox, starter>>
bridgeVars == <<session, tasks, link, connections, asker, outcome>>
vars == <<simVars, bridgeVars, channel, ran>>

Asked == {c \in CallIds : asker[c] # Nobody}

Gui(s) == <<s, server[s].number>>

Off(n) == [state |-> "off", number |-> n, port |-> 0]
IdleLink(name) == [pc |-> "idle", call |-> Nobody, client |-> name, read |-> Nobody]

Init ==
  /\ endpoint = Nobody
  /\ server = [s \in Simulators |-> Off(0)]
  /\ foreign = {}
  /\ inbox = [s \in Simulators |-> <<>>]
  /\ session = NewSession
  /\ tasks = <<>>
  /\ link = IdleLink(NoName)
  /\ channel = Nobody
  /\ connections = 0
  /\ asker = [c \in CallIds |-> Nobody]
  /\ ran = [c \in CallIds |-> 0]
  /\ outcome = [c \in CallIds |-> "nothing"]
  /\ starter = Nobody

-----------------------------------------------------------------------------
(* Connections *)

Connected == channel # Nobody
Leads(s) == Connected /\ channel.peer = Gui(s)

\* The other end of the connection goes; what it sent may still be read.
Hangs(ch) == [ch EXCEPT !.open = FALSE, !.up = Nobody]
CloseEnd(s) == IF Leads(s) THEN Hangs(channel) ELSE channel

Post(ch, message) == [ch EXCEPT !.up = Nobody, !.down = message]

NextStart == 1 + Max({server[s].number : s \in Simulators})
PortTaken(p) == p \in foreign \/ \E s \in Simulators : server[s].port = p

-----------------------------------------------------------------------------
(* A simulator *)

\* The system gives any free port; free ports differ only in that one may be known.
Known(p) == \E e \in {endpoint, link.read} \ {Nobody} : e.port = p
FreePorts == {p \in Ports : ~PortTaken(p)}
Offered(p) == p \in FreePorts /\ (Known(p) \/ \A q \in FreePorts : Known(q) \/ p <= q)

\* start()
StartServer(s) ==
  /\ server[s].state = "off" /\ NextStart <= MaxStarts
  /\ \E p \in Ports :
       /\ Offered(p)
       /\ server' = [server EXCEPT ![s] = [state |-> "opening", number |-> NextStart, port |-> p]]
  /\ UNCHANGED <<endpoint, foreign, inbox, starter, channel, ran>> /\ UNCHANGED bridgeVars

\* writeAgentEndpoint: the file is replaced in one step.
PublishEndpoint(s) ==
  /\ server[s].state = "opening"
  /\ endpoint' = [gui |-> Gui(s), port |-> server[s].port, release |-> Release[s]]
  /\ server' = [server EXCEPT ![s].state = "on"]
  /\ starter' = Gui(s)
  /\ UNCHANGED <<foreign, inbox, channel, ran>> /\ UNCHANGED bridgeVars

\* failStart(): the endpoint could not be written; the listener goes.
FailStart(s) ==
  /\ server[s].state = "opening"
  /\ server' = [server EXCEPT ![s] = Off(@.number)]
  /\ channel' = CloseEnd(s)
  /\ UNCHANGED <<endpoint, foreign, inbox, starter, ran>> /\ UNCHANGED bridgeVars

\* The listener thread ends with an error; what it had queued still runs.
ListenerDies(s) ==
  /\ server[s].state = "on"
  /\ server' = [server EXCEPT ![s].state = "failed", ![s].port = 0]
  /\ channel' = CloseEnd(s)
  /\ UNCHANGED <<endpoint, foreign, inbox, starter, ran>> /\ UNCHANGED bridgeVars

SameSession(entry) == Connected /\ channel.number = entry.session /\ channel.open

\* stop(): every call that waits or runs is answered, then the listener ends.
StopServer(s) ==
  /\ server[s].state \in {"on", "failed"}
  /\ server' = [server EXCEPT ![s].state = "leaving", ![s].port = 0]
  /\ inbox' = [inbox EXCEPT ![s] = <<>>]
  /\ channel' = IF \E i \in DOMAIN inbox[s] : SameSession(inbox[s][i])
                THEN Hangs(Post(channel, [kind |-> "stopped"])) ELSE CloseEnd(s)
  /\ UNCHANGED <<endpoint, foreign, starter, ran>> /\ UNCHANGED bridgeVars

\* removeAgentEndpointIfOwned
WithoutEndpoint(s) ==
  IF endpoint # Nobody /\ endpoint.gui = Gui(s) THEN Nobody ELSE endpoint

LeaveEndpoint(s) ==
  /\ server[s].state = "leaving"
  /\ endpoint' = WithoutEndpoint(s)
  /\ server' = [server EXCEPT ![s] = Off(@.number)]
  /\ UNCHANGED <<foreign, inbox, starter, channel, ran>> /\ UNCHANGED bridgeVars

\* The process is killed.
Crash(s) ==
  /\ server[s].state # "off"
  /\ server' = [server EXCEPT ![s] = Off(@.number)]
  /\ inbox' = [inbox EXCEPT ![s] = <<>>]
  /\ channel' = CloseEnd(s)
  /\ UNCHANGED <<endpoint, foreign, starter, ran>> /\ UNCHANGED bridgeVars

\* Another program takes a port; only one that is dialed matters.
TakePort(p) ==
  /\ ~PortTaken(p) /\ Known(p)
  /\ foreign' = foreign \cup {p}
  /\ UNCHANGED <<endpoint, server, inbox, starter, channel, ran>> /\ UNCHANGED bridgeVars

-----------------------------------------------------------------------------
(* What a simulator does with the connection *)

Hears(s, kind) ==
  server[s].state = "on" /\ Leads(s) /\ channel.open /\ channel.up # Nobody /\ channel.up.kind = kind

\* Another bridge is connected: BUSY, under the id null.
TurnAway(s) ==
  /\ Hears(s, "hello")
  /\ channel' = Hangs(Post(channel, [kind |-> "busy"]))
  /\ UNCHANGED simVars /\ UNCHANGED bridgeVars /\ UNCHANGED ran

\* handleHello
AnswerHello(s) ==
  /\ Hears(s, "hello")
  /\ channel' =
       IF channel.up.gui # Gui(s) THEN Hangs(channel)
       ELSE IF Release[s] # BridgeRelease THEN Hangs(Post(channel, [kind |-> "mismatch"]))
       ELSE Post([channel EXCEPT !.client = channel.up.client],
                 [kind |-> "gui", gui |-> Gui(s), release |-> Release[s]])
  /\ UNCHANGED simVars /\ UNCHANGED bridgeVars /\ UNCHANGED ran

\* handleCall: the call is queued, or refused when the queue is full.
ReceiveCall(s) ==
  /\ Hears(s, "call")
  /\ IF Len(inbox[s]) < MaxQueued
     THEN /\ inbox' = [inbox EXCEPT ![s] = Append(@,
               [call |-> channel.up.call, session |-> channel.number,
                client |-> channel.client, begun |-> FALSE])]
          /\ channel' = [channel EXCEPT !.up = Nobody]
     ELSE /\ channel' = Post(channel, [kind |-> "refused"])
          /\ UNCHANGED inbox
  /\ UNCHANGED <<endpoint, server, foreign, starter, ran>> /\ UNCHANGED bridgeVars

Works(s) == server[s].state \in {"on", "failed"} /\ inbox[s] # <<>>

BeginCall(s) ==
  /\ Works(s) /\ ~Head(inbox[s]).begun
  /\ inbox' = [inbox EXCEPT ![s][1].begun = TRUE]
  /\ ran' = [ran EXCEPT ![Head(inbox[s]).call] = @ + 1]
  /\ UNCHANGED <<endpoint, server, foreign, starter, channel>> /\ UNCHANGED bridgeVars

\* The answer goes to the connection of the call, if that is still there.
Respond(s, message) ==
  /\ channel' = IF SameSession(Head(inbox[s])) THEN Post(channel, message) ELSE channel
  /\ inbox' = [inbox EXCEPT ![s] = Tail(@)]
  /\ UNCHANGED <<endpoint, server, foreign, starter, ran>> /\ UNCHANGED bridgeVars

FinishCall(s) == Works(s) /\ Head(inbox[s]).begun /\ Respond(s, [kind |-> "result"])

\* The park timeout under a dialog, of a call that waits or of one that was begun.
ParkedTooLong(s) == Works(s) /\ Respond(s, [kind |-> "parked"])

ServerStep(s) ==
  TurnAway(s) \/ AnswerHello(s) \/ ReceiveCall(s) \/ BeginCall(s) \/ FinishCall(s) \/ ParkedTooLong(s)

\* Another program answers something, but not with a token it never saw.
ForeignAnswers ==
  /\ Connected /\ channel.peer = Foreign /\ channel.open /\ channel.up # Nobody
  /\ \E message \in {[kind |-> "noise"], [kind |-> "gui", gui |-> Foreign, release |-> BridgeRelease]} :
       channel' = Post(channel, message)
  /\ UNCHANGED simVars /\ UNCHANGED bridgeVars /\ UNCHANGED ran

-----------------------------------------------------------------------------
(* The bridge *)

Told(c, what) == outcome' = [outcome EXCEPT ![c] = what]

\* A line of the client; a tool call is queued under the name the session holds.
ClientLine ==
  \E l \in Lines :
    LET step == OnLine(session, l) IN
    /\ session' = step.session
    /\ IF step.outcome = "call"
       THEN LET c == 1 + Cardinality(Asked) IN
              /\ c \in CallIds
              /\ asker' = [asker EXCEPT ![c] =
                             IF l.era = "modern" THEN l.client ELSE session.legacy]
              /\ IF Len(tasks) < MaxTasks
                 THEN /\ tasks' = Append(tasks, [call |-> c, client |-> step.session.current])
                      /\ UNCHANGED outcome
                 ELSE Told(c, "refused") /\ UNCHANGED tasks
       ELSE UNCHANGED <<asker, tasks, outcome>>
    /\ UNCHANGED <<link, connections, channel, ran>> /\ UNCHANGED simVars

\* The caller thread takes a call; another client needs another connection.
LinkFor(client) == [IdleLink(client) EXCEPT !.pc = "call"]
ChannelFor(client) == IF link.client = client THEN channel ELSE Nobody

TakeTask ==
  /\ link.pc = "idle" /\ tasks # <<>>
  /\ tasks' = Tail(tasks)
  /\ link' = [LinkFor(Head(tasks).client) EXCEPT !.call = Head(tasks).call]
  /\ channel' = ChannelFor(Head(tasks).client)
  /\ UNCHANGED <<session, connections, asker, outcome, ran>> /\ UNCHANGED simVars

\* GuiLink::call is over; drop() closes the connection.
Return(what) == Told(link.call, what) /\ link' = IdleLink(link.client)
ReturnDropped(what) == Return(what) /\ channel' = Nobody

\* readAgentEndpoint: the file is whole or absent, because it is written aside and renamed.
EndpointRead == endpoint

\* No connection is open: the endpoint file says where to dial.
ReadEndpoint ==
  /\ link.pc = "call" /\ ~Connected
  /\ CASE EndpointRead = Nobody -> Return("unavailable")
       [] EndpointRead # Nobody /\ EndpointRead.release # BridgeRelease -> Return("mismatch")
       [] OTHER -> link' = [link EXCEPT !.pc = "dial", !.read = EndpointRead] /\ UNCHANGED outcome
  /\ UNCHANGED <<session, tasks, connections, channel, asker, ran>> /\ UNCHANGED simVars

NewChannel(peer) ==
  [peer |-> peer, meant |-> link.read.gui, number |-> connections + 1, open |-> TRUE,
   client |-> NoName, down |-> Nobody,
   up |-> [kind |-> "hello", gui |-> link.read.gui, client |-> link.client]]

\* connectAgentLoopback, and the greeting with the bridge token of the endpoint
Dial ==
  /\ link.pc = "dial"
  /\ IF PortTaken(link.read.port)
     THEN /\ link' = [link EXCEPT !.pc = "hello"]
          /\ connections' = connections + 1
          /\ channel' = NewChannel(IF link.read.port \in foreign THEN Foreign
                            ELSE Gui(CHOOSE s \in Simulators : server[s].port = link.read.port))
          /\ UNCHANGED outcome
     ELSE Return("unavailable") /\ UNCHANGED <<connections, channel>>
  /\ UNCHANGED <<session, tasks, asker, ran>> /\ UNCHANGED simVars

Reads(pc) == link.pc = pc /\ Connected /\ channel.down # Nobody

\* Mutant: any well-formed answer will do.
GreetsAtAll(message) == message.kind = "gui" /\ message.release = BridgeRelease

\* The answer proves that its sender wrote the endpoint.
Greets(message) ==
  message.kind = "gui" /\ message.gui = link.read.gui /\ message.release = BridgeRelease

ReadGreeting ==
  /\ Reads("hello")
  /\ CASE Greets(channel.down) ->
            /\ link' = [link EXCEPT !.pc = "call"]
            /\ channel' = [channel EXCEPT !.down = Nobody]
            /\ UNCHANGED outcome
       [] channel.down.kind = "mismatch" -> ReturnDropped("mismatch")
       [] OTHER -> ReturnDropped("unavailable")
  /\ UNCHANGED <<session, tasks, connections, asker, ran>> /\ UNCHANGED simVars

SendCall ==
  /\ link.pc = "call" /\ Connected
  /\ link' = [link EXCEPT !.pc = "wait"]
  /\ channel' = IF channel.open THEN [channel EXCEPT !.up = [kind |-> "call", call |-> link.call]]
                ELSE channel
  /\ UNCHANGED <<session, tasks, connections, asker, outcome, ran>> /\ UNCHANGED simVars

\* A result is an answer to the request, whatever it says; an error of the wire
\* ends the connection.
Results == {"result", "parked", "stopped"}
Meaning(kind) ==
  CASE kind = "result"  -> "done"
    [] kind = "parked"  -> "busy"
    [] kind = "refused" -> "refused"
    [] OTHER            -> "unavailable"

ReadReply ==
  /\ Reads("wait")
  /\ Return(Meaning(channel.down.kind))
  /\ channel' = IF channel.down.kind \in Results THEN [channel EXCEPT !.down = Nobody] ELSE Nobody
  /\ UNCHANGED <<session, tasks, connections, asker, ran>> /\ UNCHANGED simVars

\* Mutant: the call is sent again.
GiveUpAndRetry ==
  /\ link.pc \in {"hello", "wait"}
  /\ link' = [link EXCEPT !.pc = "call"] /\ channel' = Nobody
  /\ UNCHANGED <<session, tasks, connections, asker, outcome, ran>> /\ UNCHANGED simVars

\* A time-out, or the end of the connection.  What arrived in time is read first.
GiveUp ==
  /\ link.pc \in {"hello", "wait"} /\ ~Reads(link.pc)
  /\ ReturnDropped("unavailable")
  /\ UNCHANGED <<session, tasks, connections, asker, ran>> /\ UNCHANGED simVars

LinkStep ==
  TakeTask \/ ReadEndpoint \/ Dial \/ ReadGreeting \/ SendCall \/ ReadReply \/ GiveUp

SimulatorStep(s) ==
  \/ StartServer(s) \/ PublishEndpoint(s) \/ FailStart(s) \/ ListenerDies(s)
  \/ StopServer(s) \/ LeaveEndpoint(s) \/ Crash(s)

Next ==
  \/ \E s \in Simulators : SimulatorStep(s) \/ ServerStep(s)
  \/ \E p \in Ports : TakePort(p)
  \/ ForeignAnswers \/ ClientLine \/ LinkStep

Spec == Init /\ [][Next]_vars
FairSpec == Spec /\ WF_vars(LinkStep)

-----------------------------------------------------------------------------
(* Properties *)

Tellings == {"nothing", "done", "busy", "refused", "mismatch", "unavailable"}
Entry == [call : CallIds, session : Nat, client : Names \cup {NoName}, begun : BOOLEAN]

\* Every variable has its type; a file and a connection name servers that were started.
TypeOK ==
  /\ endpoint # Nobody => endpoint \in Endpoint
  /\ Connected => channel \in Channel
  /\ server \in [Simulators -> [state : {"off", "opening", "on", "failed", "leaving"},
                                number : 0..MaxStarts, port : Ports \cup {0}]]
  /\ foreign \subseteq Ports
  /\ \A s \in Simulators : \A i \in DOMAIN inbox[s] : inbox[s][i] \in Entry
  /\ session \in SessionType
  /\ \A i \in DOMAIN tasks : tasks[i] \in [call : CallIds, client : Names \cup {NoName}]
  /\ link.pc \in {"idle", "call", "dial", "hello", "wait"}
  /\ link.call \in CallIds \cup {Nobody} /\ (link.call = Nobody <=> link.pc = "idle")
  /\ connections \in 0..Cardinality(CallIds)
  /\ asker \in [CallIds -> Names \cup {NoName, Nobody}]
  /\ ran \in [CallIds -> 0..1]
  /\ \A c \in CallIds : outcome[c] \in Tellings

\* A call is sent only to the server instance that wrote the endpoint the connection
\* was dialed for, of the bridge's own release: never to a program that took over
\* the port of a simulator that crashed (the gui_token check of GuiLink::connect).
CallsReachTheirSimulator ==
  Connected /\ channel.up # Nobody /\ channel.up.kind = "call" =>
    /\ channel.peer = channel.meant
    /\ Release[channel.peer[1]] = BridgeRelease

\* While the server that was started last runs, the endpoint file leads to it,
\* however other simulators of the installation stop, crash and restart
\* (removeAgentEndpointIfOwned).
LastStartedIsFound ==
  \A s \in Simulators :
    server[s].state = "on" /\ starter = Gui(s) => endpoint # Nobody /\ endpoint.gui = Gui(s)

\* A simulator credits each call to the client that made it, through every change
\* of client in one session (mcp_session.cpp names, mcp_bridge.cpp link_client).
ClientIsTheCaller ==
  \A s \in Simulators : \A i \in DOMAIN inbox[s] :
    inbox[s][i].client = asker[inbox[s][i].call]

\* Bridge and simulators together are the service that CallService describes: each
\* call is answered, runs once at most, and an answer says what happened.
Service == INSTANCE CallService WITH
  Calls <- CallIds,
  asked <- Asked,
  told  <- outcome
CallsAreServed == Service!LiveSpec

\* openwiki/operations/agent-connection.md: a client that is turned away because
\* another agent is connected is told BUSY.
BusyIsTold ==
  [][Reads("hello") /\ channel.down.kind = "busy" /\ outcome' # outcome
       => outcome'[link.call] = "busy"]_vars
=============================================================================
