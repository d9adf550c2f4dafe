--------------------------- MODULE AgentLinkProofs ---------------------------
(***************************************************************************)
(* Proofs about the way of a tool call from the bridge to a simulator.     *)
(*                                                                         *)
(* The invariant has three layers.  The types; the link, that is what the  *)
(* place of the caller thread says of its connection: while it greets, the *)
(* connection was dialed for the endpoint that was read, and once it has   *)
(* greeted, its other end is the server that wrote that endpoint; and the  *)
(* calls: those that were made are 1..n, they are taken in that order, a   *)
(* call is untouched until it is sent, then it is in one place at a time,  *)
(* and nothing final was said of a call that a simulator still holds.      *)
(*                                                                         *)
(* What the code assumes of the constants is LinkAssumption and            *)
(* NamesAssumption, a hypothesis of each theorem.                          *)
(***************************************************************************)
EXTENDS AgentLink, SequenceTheorems, FiniteSetTheorems, WellFoundedInduction, TLAPS

Assumed == LinkAssumption /\ NamesAssumption

Clients == Names \cup {NoName}
States == {"off", "opening", "on", "failed", "leaving"}
Server == {v \in [state : States, number : 0..MaxStarts, port : Ports \cup {0}] :
             /\ v.state = "off" => v.port = 0
             /\ v.state # "off" => v.number # 0
             /\ v.state \in {"opening", "on"} => v.port # 0}
Task == [call : CallIds, client : Clients]
Pcs == {"idle", "call", "dial", "hello", "wait"}
Link == [pc : Pcs, call : CallIds \cup {Nobody}, client : Clients, read : Endpoint \cup {Nobody}]

-----------------------------------------------------------------------------
(* The types *)

TypeInv ==
  /\ endpoint \in Endpoint \cup {Nobody}
  /\ server \in [Simulators -> Server]
  /\ foreign \subseteq Ports
  /\ inbox \in [Simulators -> Seq(Entry)]
  /\ session \in SessionType
  /\ tasks \in Seq(Task)
  /\ link \in Link
  /\ link.call = Nobody <=> link.pc = "idle"
  /\ link.pc \in {"dial", "hello"} => link.read \in Endpoint
  /\ channel \in Channel \cup {Nobody}
  /\ connections \in Nat
  /\ asker \in [CallIds -> Clients \cup {Nobody}]
  /\ ran \in [CallIds -> Nat]
  /\ outcome \in [CallIds -> Tellings]

LEMMA MaxIsIn ==
  ASSUME NEW S \in SUBSET Nat, S # {}, NEW m \in Nat, \A x \in S : x <= m
  PROVE  Max(S) \in S
<1> DEFINE B == {n \in Nat : \A x \in S : x <= n}
<1>2. PICK b \in B : \A n \in B : ~ (<<n, b>> \in OpToRel(<, Nat))
  <2> DEFINE R == OpToRel(<, Nat)
  <2>1. IsWellFoundedOn(R, Nat)
    BY NatLessThanWellFounded
  <2>2. B \in SUBSET Nat /\ B # {}
    OBVIOUS
  <2> HIDE DEF B, R
  <2>3. \E b \in B : \A n \in B : ~ (<<n, b>> \in R)
    BY <2>1, <2>2, WFMin
  <2> QED BY <2>3 DEF R
<1>3. \A n \in B : ~ (n < b)
  BY <1>2 DEF OpToRel
<1>4. b \in S
  <2> SUFFICES ASSUME b \notin S PROVE FALSE
    OBVIOUS
  <2>1. \A x \in S : x <= b - 1
    OBVIOUS
  <2>2. b - 1 \in Nat
    <3>1. PICK x \in S : x <= b /\ x # b
      OBVIOUS
    <3>2. x \in Nat
      OBVIOUS
    <3> QED BY <3>1, <3>2
  <2> QED BY <1>3, <2>1, <2>2
<1>5. \E x \in S : \A y \in S : x >= y
  BY <1>4
<1> QED BY <1>5 DEF Max

LEMMA NothingIsNobody ==
  ASSUME Assumed
  PROVE  /\ Nobody \notin CallIds /\ Nobody \notin Clients
         /\ Nobody \notin Endpoint /\ Nobody \notin Channel
BY DEF Assumed, LinkAssumption, CallIds, Clients

\* A tool call is made under the name that its line brings, or its session has.
LEMMA LineOfCaller ==
  ASSUME NamesAssumption, NEW s \in SessionType, NEW l \in Line
  PROVE  /\ OnLine(s, l).session \in SessionType
         /\ OnLine(s, l).outcome = "call" =>
              /\ OnLine(s, l).session.current = IF l.era = "modern" THEN l.client ELSE s.legacy
              /\ OnLine(s, l).session.current \in Clients
<1>1. /\ s \in SessionType
      /\ [initialized |-> TRUE, legacy |-> l.client, current |-> l.client] \in SessionType
           \/ l.client \notin Names
      /\ [s EXCEPT !.current = s.legacy] \in SessionType
      /\ [s EXCEPT !.current = l.client] \in SessionType \/ l.client \notin Names
      /\ [s EXCEPT !.current = NoName] \in SessionType
  BY DEF SessionType
<1>2. Introduced(s, l) \in SessionType
  BY <1>1 DEF Introduced
<1>3. Initialized(s, l).session \in SessionType /\ Initialized(s, l).outcome # "call"
  BY <1>1 DEF Initialized, Yields
<1>4. \A t : Refused(t, l).session = t /\ Refused(t, l).outcome # "call"
  BY DEF Refused, Yields
<1>5. \A t : Served(t, l).session = t /\ (Served(t, l).outcome = "call" => l.form = "good")
  BY DEF Served, Yields
<1>6. OnLine(s, l).session \in SessionType
  BY <1>2, <1>3, <1>4, <1>5 DEF OnLine, Yields
<1>7. ASSUME OnLine(s, l).outcome = "call"
      PROVE  /\ OnLine(s, l).session.current = IF l.era = "modern" THEN l.client ELSE s.legacy
             /\ OnLine(s, l).session.current \in Clients
  <2>1. Negotiated(s, l) /\ OnLine(s, l) = Served(Introduced(s, l), l)
    BY <1>3, <1>4, <1>7 DEF OnLine, Yields
  <2>2. OnLine(s, l).session = Introduced(s, l) /\ l.form = "good"
    BY <1>5, <1>7, <2>1
  <2>3. l.client \in Names \cup {NoName, BadName} /\ s.legacy \in Clients
    BY DEF Line, SessionType, Clients
  <2>4. CASE l.era = "legacy"
    <3>1. Introduced(s, l) = [s EXCEPT !.current = s.legacy]
      BY <2>1, <2>2, <2>4 DEF Introduced, Negotiated
    <3>2. Introduced(s, l).current = s.legacy
      BY <3>1 DEF SessionType
    <3> QED BY <2>2, <2>3, <2>4, <3>2
  <2>5. CASE l.era = "modern" /\ l.client \in Names
    <3>1. Introduced(s, l) = [s EXCEPT !.current = l.client]
      BY <2>2, <2>5 DEF Introduced
    <3>2. Introduced(s, l).current = l.client
      BY <3>1 DEF SessionType
    <3> QED BY <2>2, <2>5, <3>2 DEF Clients
  <2>6. CASE l.era = "modern" /\ l.client \notin Names
    <3>1. Introduced(s, l) = [s EXCEPT !.current = NoName] /\ l.client = NoName
      BY <2>1, <2>2, <2>3, <2>6 DEF Introduced, Negotiated
    <3>2. Introduced(s, l).current = NoName
      BY <3>1 DEF SessionType
    <3> QED BY <2>2, <2>6, <3>1, <3>2 DEF Clients
  <2> QED BY <2>1, <2>4, <2>5, <2>6 DEF Negotiated
<1> QED BY <1>6, <1>7

(* What is done to a connection *)

LEMMA Hung ==
  ASSUME NEW ch \in Channel
  PROVE  /\ Hangs(ch) \in Channel
         /\ Hangs(ch).peer = ch.peer /\ Hangs(ch).meant = ch.meant
         /\ Hangs(ch).number = ch.number /\ Hangs(ch).client = ch.client
         /\ Hangs(ch).up = Nobody /\ Hangs(ch).down = ch.down
<1> DEFINE U == Ups \cup {Nobody}
           D == Downs \cup {Nobody}
<1>1. Nobody \in U
  OBVIOUS
<1>2. Channel = [peer : Instances \cup {Foreign}, meant : Instances, number : Nat, open : BOOLEAN,
                 client : Clients, down : D, up : U]
  BY DEF Channel, Clients
<1> HIDE DEF U, D
<1> QED BY <1>1, <1>2 DEF Hangs

LEMMA Posted ==
  ASSUME NEW ch \in Channel, NEW m \in Downs
  PROVE  /\ Post(ch, m) \in Channel
         /\ Post(ch, m).peer = ch.peer /\ Post(ch, m).meant = ch.meant
         /\ Post(ch, m).number = ch.number /\ Post(ch, m).client = ch.client
         /\ Post(ch, m).up = Nobody /\ Post(ch, m).down = m
<1> DEFINE U == Ups \cup {Nobody}
           D == Downs \cup {Nobody}
<1>1. Nobody \in U /\ m \in D
  OBVIOUS
<1>2. Channel = [peer : Instances \cup {Foreign}, meant : Instances, number : Nat, open : BOOLEAN,
                 client : Clients, down : D, up : U]
  BY DEF Channel, Clients
<1> HIDE DEF U, D
<1> QED BY <1>1, <1>2 DEF Post

\* A connection is greeted by its client, read from, or written to.
LEMMA Changed ==
  ASSUME NEW ch \in Channel, NEW c \in Clients, NEW u \in Ups
  PROVE  LET known == [ch EXCEPT !.client = c]
             heard == [ch EXCEPT !.up = Nobody]
             read  == [ch EXCEPT !.down = Nobody]
             sent  == [ch EXCEPT !.up = u]
         IN  /\ known \in Channel /\ known.client = c
             /\ known.peer = ch.peer /\ known.meant = ch.meant /\ known.number = ch.number
             /\ known.down = ch.down /\ known.up = ch.up
             /\ heard \in Channel /\ heard.up = Nobody
             /\ heard.peer = ch.peer /\ heard.meant = ch.meant /\ heard.number = ch.number
             /\ heard.client = ch.client /\ heard.down = ch.down
             /\ read \in Channel /\ read.down = Nobody
             /\ read.peer = ch.peer /\ read.meant = ch.meant /\ read.number = ch.number
             /\ read.client = ch.client /\ read.up = ch.up
             /\ sent \in Channel /\ sent.up = u
             /\ sent.peer = ch.peer /\ sent.meant = ch.meant /\ sent.number = ch.number
             /\ sent.client = ch.client /\ sent.down = ch.down
<1> DEFINE U == Ups \cup {Nobody}
           D == Downs \cup {Nobody}
<1>1. Nobody \in U /\ Nobody \in D /\ u \in U
  OBVIOUS
<1>2. Channel = [peer : Instances \cup {Foreign}, meant : Instances, number : Nat, open : BOOLEAN,
                 client : Clients, down : D, up : U]
  BY DEF Channel, Clients
<1> HIDE DEF U, D
<1> QED BY <1>1, <1>2

LEMMA Messages ==
  ASSUME Assumed
  PROVE  /\ \A k \in {"busy", "mismatch", "refused", "result", "parked", "stopped", "noise"} : [kind |-> k] \in Downs
         /\ \A g \in Instances \cup {Foreign}, r \in Nat :
              [kind |-> "gui", gui |-> g, release |-> r] \in Downs
         /\ \A c \in CallIds : [kind |-> "call", call |-> c] \in Ups
         /\ \A g \in Instances, c \in Clients :
              [kind |-> "hello", gui |-> g, client |-> c] \in Ups
         /\ \A u \in Ups : /\ u.kind \in {"hello", "call"}
                           /\ u.kind = "hello" => u.gui \in Instances /\ u.client \in Clients
                           /\ u.kind = "call" => u.call \in CallIds
BY DEF Ups, Downs, Clients

LEMMA TypeOfServers ==
  ASSUME Assumed, TypeInv, NEW s \in Simulators
  PROVE  /\ server[s] \in Server /\ inbox[s] \in Seq(Entry)
         /\ server[s].state # "off" \/ server[s].port # 0 => Gui(s) \in Instances
         /\ Release[s] \in Nat
         /\ Off(server[s].number) \in Server
         /\ server[s].state = "opening" => [server[s] EXCEPT !.state = "on"] \in Server
         /\ server[s].state # "off" =>
              \A t \in {"failed", "leaving"} : [server[s] EXCEPT !.state = t, !.port = 0] \in Server
<1>1. server[s] \in Server /\ inbox[s] \in Seq(Entry) /\ Release[s] \in Nat
  BY DEF TypeInv, Assumed, LinkAssumption
<1>2. server[s].number \in 0..MaxStarts /\ 0 \in Ports \cup {0} /\ "off" \in States
  BY <1>1 DEF Server, States
<1>3. server[s].port \in Ports \cup {0}
  BY <1>1 DEF Server
<1>4. \A t \in {"on", "failed", "leaving"} : t \in States
  BY DEF States
<1>5. Off(server[s].number) \in Server
  BY <1>2 DEF Server, Off
<1>6. server[s].state # "off" \/ server[s].port # 0 => Gui(s) \in Instances
  <2>1. server[s].state # "off" \/ server[s].port # 0 => server[s].number \in 1..MaxStarts
    BY <1>1, <1>2 DEF Server
  <2> QED BY <2>1 DEF Gui, Instances
<1>7. ASSUME server[s].state = "opening" PROVE [server[s] EXCEPT !.state = "on"] \in Server
  BY <1>1, <1>2, <1>3, <1>4, <1>7 DEF Server
<1>8. ASSUME server[s].state # "off", NEW t \in {"failed", "leaving"}
      PROVE  [server[s] EXCEPT !.state = t, !.port = 0] \in Server
  <2> DEFINE w == [server[s] EXCEPT !.state = t, !.port = 0]
  <2> SUFFICES w \in Server
    OBVIOUS
  <2>1. w.state = t /\ w.number = server[s].number /\ w.port = 0
        /\ w \in [state : States, number : 0..MaxStarts, port : Ports \cup {0}]
    BY <1>1, <1>2, <1>4 DEF Server
  <2>2. w.number # 0
    BY <1>1, <1>8, <2>1 DEF Server
  <2> HIDE DEF w
  <2> QED BY <2>1, <2>2 DEF Server
<1> QED BY <1>1, <1>5, <1>6, <1>7, <1>8

LEMMA NextStartType ==
  ASSUME Assumed, TypeInv, NEW s \in Simulators
  PROVE  NextStart \in Nat \ {0}
<1> DEFINE S == {server[t].number : t \in Simulators}
<1>1. S \in SUBSET Nat /\ S # {} /\ \A x \in S : x <= MaxStarts
  <2>1. \A t \in Simulators : server[t].number \in 0..MaxStarts
    BY TypeOfServers DEF Server
  <2> QED BY <2>1 DEF Assumed, LinkAssumption
<1>2. Max(S) \in S
  <2>1. MaxStarts \in Nat
    BY DEF Assumed, LinkAssumption
  <2> HIDE DEF S
  <2> QED BY <1>1, <2>1, MaxIsIn
<1> QED BY <1>1, <1>2 DEF NextStart

LEMMA TypeOfBusy ==
  ASSUME Assumed, TypeInv, link.pc # "idle", NEW what \in Tellings
  PROVE  /\ link.call \in CallIds /\ link.client \in Clients
         /\ IdleLink(link.client) \in Link
         /\ IdleLink(link.client).pc = "idle" /\ IdleLink(link.client).call = Nobody
         /\ [outcome EXCEPT ![link.call] = what] \in [CallIds -> Tellings]
BY DEF TypeInv, Link, IdleLink, Pcs

LEMMA TypeOfSimulator ==
  ASSUME Assumed, TypeInv, NEW s \in Simulators, SimulatorStep(s)
  PROVE  TypeInv'
<1> USE DEF bridgeVars
<1>1. channel' \in Channel \cup {Nobody}
  <2>1. CloseEnd(s) \in Channel \cup {Nobody}
    BY Hung DEF CloseEnd, Leads, Connected, TypeInv
  <2>2. Connected => Hangs(Post(channel, [kind |-> "stopped"])) \in Channel
    BY Hung, Posted, Messages DEF Connected, TypeInv
  <2> QED BY <2>1, <2>2 DEF SimulatorStep, StartServer, PublishEndpoint, FailStart, ListenerDies,
            StopServer, LeaveEndpoint, Crash, SameSession, TypeInv
<1>2. server' \in [Simulators -> Server]
  <2>1. \A v \in Server : [server EXCEPT ![s] = v] \in [Simulators -> Server]
    BY DEF TypeInv
  <2>2. ASSUME StartServer(s) PROVE server' \in [Simulators -> Server]
    <3>1. PICK p \in Ports : server' = [server EXCEPT ![s] = [state |-> "opening", number |-> NextStart, port |-> p]]
      BY <2>2 DEF StartServer
    <3>2. [state |-> "opening", number |-> NextStart, port |-> p] \in Server
      BY <2>2, NextStartType DEF StartServer, Server, States, Assumed, LinkAssumption
    <3> QED BY <2>1, <3>1, <3>2
  <2>3. ASSUME PublishEndpoint(s) PROVE server' \in [Simulators -> Server]
    <3>1. server' = [server EXCEPT ![s] = [server[s] EXCEPT !.state = "on"]]
      BY <2>3 DEF PublishEndpoint, TypeInv
    <3> QED BY <2>1, <2>3, <3>1, TypeOfServers DEF PublishEndpoint
  <2>4. ASSUME ListenerDies(s) \/ StopServer(s) PROVE server' \in [Simulators -> Server]
    <3>1. \/ server' = [server EXCEPT ![s] = [server[s] EXCEPT !.state = "failed", !.port = 0]]
          \/ server' = [server EXCEPT ![s] = [server[s] EXCEPT !.state = "leaving", !.port = 0]]
      BY <2>4 DEF ListenerDies, StopServer, TypeInv
    <3> QED BY <2>1, <2>4, <3>1, TypeOfServers DEF ListenerDies, StopServer
  <2> QED BY <2>1, <2>2, <2>3, <2>4, TypeOfServers DEF SimulatorStep, FailStart, LeaveEndpoint, Crash
<1>3. endpoint' \in Endpoint \cup {Nobody}
  <2>1. ASSUME PublishEndpoint(s) PROVE endpoint' \in Endpoint
    <3>1. Gui(s) \in Instances /\ server[s].port \in Ports
      <4>1. server[s].port \in Ports \cup {0} /\ server[s].port # 0
        BY <2>1, TypeOfServers DEF PublishEndpoint, Server
      <4> QED BY <2>1, <4>1, TypeOfServers DEF PublishEndpoint
    <3> QED BY <2>1, <3>1, TypeOfServers DEF PublishEndpoint, Endpoint
  <2> QED BY <2>1 DEF SimulatorStep, StartServer, FailStart, ListenerDies,
            StopServer, LeaveEndpoint, Crash, WithoutEndpoint, TypeInv
<1>4. inbox' \in [Simulators -> Seq(Entry)]
  <2>1. [inbox EXCEPT ![s] = <<>>] \in [Simulators -> Seq(Entry)]
    BY EmptySeq DEF TypeInv
  <2> QED BY <2>1 DEF SimulatorStep, StartServer, PublishEndpoint, FailStart, ListenerDies,
            StopServer, LeaveEndpoint, Crash, TypeInv
<1>5. UNCHANGED <<foreign, session, tasks, link, connections, asker, ran, outcome>>
  BY DEF SimulatorStep, StartServer, PublishEndpoint, FailStart, ListenerDies,
         StopServer, LeaveEndpoint, Crash
<1> QED BY <1>1, <1>2, <1>3, <1>4, <1>5 DEF TypeInv

LEMMA TypeOfHolder ==
  ASSUME Assumed, TypeInv, NEW s \in Simulators, Works(s)
  PROVE  /\ Head(inbox[s]) \in Entry /\ Head(inbox[s]) = inbox[s][1] /\ 1 \in DOMAIN inbox[s]
         /\ [inbox EXCEPT ![s] = Tail(@)] \in [Simulators -> Seq(Entry)]
         /\ [inbox EXCEPT ![s][1].begun = TRUE] \in [Simulators -> Seq(Entry)]
         /\ [inbox EXCEPT ![s][1].begun = TRUE] =
              [inbox EXCEPT ![s] = [inbox[s] EXCEPT ![1] = [inbox[s][1] EXCEPT !.begun = TRUE]]]
<1>1. inbox[s] \in Seq(Entry) /\ inbox[s] # <<>>
  BY TypeOfServers DEF Works
<1>2. Head(inbox[s]) \in Entry /\ Head(inbox[s]) = inbox[s][1] /\ 1 \in DOMAIN inbox[s] /\ Tail(inbox[s]) \in Seq(Entry)
  BY <1>1, HeadTailProperties
<1>3. [inbox EXCEPT ![s] = Tail(@)] \in [Simulators -> Seq(Entry)]
  BY <1>2 DEF TypeInv
<1>4. [inbox[s][1] EXCEPT !.begun = TRUE] \in Entry
  BY <1>2 DEF Entry
<1>5. [inbox[s] EXCEPT ![1] = [inbox[s][1] EXCEPT !.begun = TRUE]] \in Seq(Entry)
  BY <1>1, <1>2, <1>4, ExceptSeq
<1>6. [inbox EXCEPT ![s][1].begun = TRUE] =
        [inbox EXCEPT ![s] = [inbox[s] EXCEPT ![1] = [inbox[s][1] EXCEPT !.begun = TRUE]]]
  BY DEF TypeInv
<1>7. [inbox EXCEPT ![s][1].begun = TRUE] \in [Simulators -> Seq(Entry)]
  BY <1>5, <1>6 DEF TypeInv
<1> QED BY <1>2, <1>3, <1>6, <1>7

LEMMA TypeOfServerStep ==
  ASSUME Assumed, TypeInv, NEW s \in Simulators, ServerStep(s)
  PROVE  TypeInv'
<1>1. UNCHANGED <<endpoint, server, foreign, session, tasks, link, connections, asker, outcome>>
  BY DEF ServerStep, TurnAway, AnswerHello, ReceiveCall, BeginCall, FinishCall, ParkedTooLong,
         Respond, simVars, bridgeVars
<1>2. channel' \in Channel \cup {Nobody} /\ inbox' \in [Simulators -> Seq(Entry)] /\ ran' \in [CallIds -> Nat]
  <2>1. ASSUME Connected PROVE channel \in Channel
    BY <2>1 DEF TypeInv, Connected
  <2>2. CASE TurnAway(s)
    BY <2>1, <2>2, Hung, Posted, Messages DEF TurnAway, Hears, Leads, simVars, TypeInv
  <2>3. CASE AnswerHello(s)
    <3>1. channel \in Channel /\ channel.up.client \in Clients /\ Gui(s) \in Instances /\ Release[s] \in Nat
      <4>1. channel \in Channel /\ channel.up \in Ups /\ channel.up.kind = "hello"
        BY <2>1, <2>3 DEF AnswerHello, Hears, Leads, Channel
      <4> QED BY <2>3, <4>1, Messages, TypeOfServers DEF AnswerHello, Hears
    <3>2. Hangs(channel) \in Channel /\ Hangs(Post(channel, [kind |-> "mismatch"])) \in Channel
      BY <3>1, Hung, Posted, Messages
    <3>3. \A u \in Ups : [channel EXCEPT !.client = channel.up.client] \in Channel
      BY <3>1, Changed
    <3>4. Post([channel EXCEPT !.client = channel.up.client],
                [kind |-> "gui", gui |-> Gui(s), release |-> Release[s]]) \in Channel
      <4>1. channel.up \in Ups
        BY <2>1, <2>3 DEF AnswerHello, Hears, Leads, Channel
      <4> QED BY <3>1, <3>3, <4>1, Posted, Messages
    <3> QED BY <2>3, <3>2, <3>4 DEF AnswerHello, simVars, TypeInv
  <2>4. CASE ReceiveCall(s)
    <3>1. channel \in Channel /\ channel.up \in Ups /\ channel.up.call \in CallIds /\ channel.number \in Nat
          /\ channel.client \in Clients
      <4>1. channel \in Channel /\ channel.up \in Ups /\ channel.up.kind = "call"
        BY <2>1, <2>4 DEF ReceiveCall, Hears, Leads, Channel
      <4> QED BY <4>1, Messages DEF Channel, Clients
    <3>2. [channel EXCEPT !.up = Nobody] \in Channel
      BY <3>1, Changed
    <3>3. Post(channel, [kind |-> "refused"]) \in Channel
      BY <3>1, Posted, Messages
    <3>4. [call |-> channel.up.call, session |-> channel.number, client |-> channel.client, begun |-> FALSE] \in Entry
      BY <3>1 DEF Entry, Clients
    <3>5. Append(inbox[s], [call |-> channel.up.call, session |-> channel.number,
                            client |-> channel.client, begun |-> FALSE]) \in Seq(Entry)
      BY <3>4, AppendProperties, TypeOfServers
    <3> QED BY <2>4, <3>2, <3>3, <3>5 DEF ReceiveCall, TypeInv
  <2>5. CASE BeginCall(s)
    <3>1. Head(inbox[s]).call \in CallIds
      BY <2>5, TypeOfHolder DEF BeginCall, Entry
    <3>2. [ran EXCEPT ![Head(inbox[s]).call] = @ + 1] \in [CallIds -> Nat]
      BY <3>1 DEF TypeInv
    <3>3. inbox' \in [Simulators -> Seq(Entry)]
      BY <2>5, TypeOfHolder DEF BeginCall
    <3> QED BY <2>5, <3>2, <3>3 DEF BeginCall, TypeInv
  <2>6. CASE FinishCall(s) \/ ParkedTooLong(s)
    <3>1. PICK m \in Downs : Respond(s, m) /\ Works(s)
      BY <2>6, Messages DEF FinishCall, ParkedTooLong
    <3>2. channel' \in Channel \cup {Nobody}
      BY <2>1, <3>1, Posted DEF Respond, SameSession, TypeInv
    <3> QED BY <3>1, <3>2, TypeOfHolder DEF Respond, TypeInv
  <2> QED BY <2>2, <2>3, <2>4, <2>5, <2>6 DEF ServerStep
<1> QED BY <1>1, <1>2 DEF TypeInv

LEMMA TypeOfForeign ==
  ASSUME Assumed, TypeInv, ForeignAnswers
  PROVE  TypeInv'
<1>1. channel \in Channel
  BY DEF ForeignAnswers, TypeInv, Connected
<1>2. PICK m \in Downs : channel' = Post(channel, m)
  BY Messages DEF ForeignAnswers, Assumed, LinkAssumption
<1>3. channel' \in Channel
  BY <1>1, <1>2, Posted
<1>4. UNCHANGED <<simVars, bridgeVars, ran>>
  BY DEF ForeignAnswers
<1> QED BY <1>3, <1>4 DEF TypeInv, simVars, bridgeVars

LEMMA TypeOfLine ==
  ASSUME Assumed, TypeInv, ClientLine
  PROVE  TypeInv'
<1>1. PICK l \in Lines :
        LET step == OnLine(session, l) IN
        /\ session' = step.session
        /\ IF step.outcome = "call"
           THEN LET c == 1 + Cardinality(Asked) IN
                  /\ c \in CallIds
                  /\ asker' = [asker EXCEPT ![c] =
                                 IF l.era = "modern" THEN l.client ELSE session.legacy]
                  /\ IF Len(tasks) < MaxTasks
                     THEN /\ tasks' = Append(tasks, [call |-> c, client |-> step.session.current])
                          /\ UNCHANGED outcome
                     ELSE Told(c, "refused") /\ UNCHANGED tasks
           ELSE UNCHANGED <<asker, tasks, outcome>>
  BY DEF ClientLine
<1>2. UNCHANGED <<link, connections, channel, ran, simVars>>
  BY DEF ClientLine
<1>3. l \in Line /\ session \in SessionType /\ NamesAssumption
  BY DEF Assumed, LinkAssumption, TypeInv
<1>4. session' \in SessionType
  BY <1>1, <1>3, LineOfCaller
<1>5. CASE OnLine(session, l).outcome = "call"
  <2> DEFINE c == 1 + Cardinality(Asked)
             name == OnLine(session, l).session.current
  <2>1. name \in Clients /\ name = IF l.era = "modern" THEN l.client ELSE session.legacy
    BY <1>3, <1>5, LineOfCaller
  <2>2. /\ c \in CallIds
        /\ asker' = [asker EXCEPT ![c] = name]
        /\ \/ tasks' = Append(tasks, [call |-> c, client |-> name]) /\ UNCHANGED outcome
           \/ Told(c, "refused") /\ UNCHANGED tasks
    BY <1>1, <1>5, <2>1
  <2> HIDE DEF c, name
  <2>3. asker' \in [CallIds -> Clients \cup {Nobody}]
    BY <2>1, <2>2 DEF TypeInv
  <2>4. tasks' \in Seq(Task)
    <3>1. [call |-> c, client |-> name] \in Task
      BY <2>1, <2>2 DEF Task
    <3>2. Append(tasks, [call |-> c, client |-> name]) \in Seq(Task)
      BY <3>1, AppendProperties DEF TypeInv
    <3> QED BY <2>2, <3>2 DEF TypeInv
  <2>5. outcome' \in [CallIds -> Tellings]
    BY <2>2 DEF Told, Tellings, TypeInv
  <2> QED BY <1>2, <1>4, <2>3, <2>4, <2>5 DEF TypeInv, simVars
<1>6. CASE OnLine(session, l).outcome # "call"
  BY <1>1, <1>2, <1>4, <1>6 DEF TypeInv, simVars
<1> QED BY <1>5, <1>6

LEMMA TypeOfTake ==
  ASSUME Assumed, TypeInv, TakeTask
  PROVE  /\ TypeInv'
         /\ Head(tasks) \in Task /\ Head(tasks) = tasks[1] /\ 1 \in DOMAIN tasks
         /\ link' \in Link /\ link'.pc = "call" /\ link'.client = Head(tasks).client
         /\ link'.call = Head(tasks).call
<1>1. tasks \in Seq(Task) /\ tasks # <<>>
  BY DEF TakeTask, TypeInv
<1>2. Head(tasks) \in Task /\ Head(tasks) = tasks[1] /\ 1 \in DOMAIN tasks /\ Tail(tasks) \in Seq(Task)
  BY <1>1, HeadTailProperties
<1>3. /\ link' \in Link /\ link'.pc = "call" /\ link'.client = Head(tasks).client
      /\ link'.call = Head(tasks).call
  BY <1>2 DEF TakeTask, LinkFor, IdleLink, Link, Pcs, Task
<1>4. Head(tasks).call # Nobody
  BY <1>2, NothingIsNobody DEF Task
<1>5. UNCHANGED <<session, connections, asker, outcome, ran, simVars>>
  BY DEF TakeTask
<1>6. channel' \in Channel \cup {Nobody} /\ tasks' \in Seq(Task)
  BY <1>2 DEF TakeTask, ChannelFor, TypeInv
<1>7. TypeInv'
  BY <1>3, <1>4, <1>5, <1>6 DEF TypeInv, simVars
<1> QED BY <1>2, <1>3, <1>7

LEMMA TypeOfMove ==
  ASSUME Assumed, TypeInv, link.pc # "idle", NEW pc \in Pcs \ {"idle"}
  PROVE  LET k == [link EXCEPT !.pc = pc]
         IN  /\ k \in Link /\ k.pc = pc /\ k.call = link.call /\ k.client = link.client
             /\ k.read = link.read
BY DEF TypeInv, Link, Pcs

LEMMA DialedIsOpen ==
  ASSUME Assumed, TypeInv, Dial, PortTaken(link.read.port)
  PROVE  channel' \in Channel /\ channel' # Nobody /\ connections' = connections + 1
<1>1. link.read \in Endpoint /\ link.client \in Clients
  BY DEF Dial, TypeInv, Link
<1> DEFINE peer == IF link.read.port \in foreign THEN Foreign
                   ELSE Gui(CHOOSE s \in Simulators : server[s].port = link.read.port)
<1>2. peer \in Instances \cup {Foreign}
  <2>1. CASE link.read.port \notin foreign
    <3> DEFINE s == CHOOSE s \in Simulators : server[s].port = link.read.port
    <3>1. s \in Simulators /\ server[s].port = link.read.port
      BY <2>1 DEF PortTaken
    <3>2. link.read.port \in Ports /\ 0 \notin Ports
      BY <1>1 DEF Endpoint, Assumed, LinkAssumption
    <3> HIDE DEF s
    <3>3. Gui(s) \in Instances
      BY <3>1, <3>2, TypeOfServers
    <3> QED BY <2>1, <3>3 DEF s
  <2> QED BY <2>1
<1>3. channel' = NewChannel(peer) /\ connections' = connections + 1
  BY DEF Dial
<1> HIDE DEF peer
<1>4. NewChannel(peer) \in Channel
  <2> DEFINE u == [kind |-> "hello", gui |-> link.read.gui, client |-> link.client]
             U == Ups \cup {Nobody}
             D == Downs \cup {Nobody}
  <2>1. u \in U /\ Nobody \in D /\ link.read.gui \in Instances /\ NoName \in Clients
    BY <1>1, Messages DEF Endpoint, Clients
  <2>2. Channel = [peer : Instances \cup {Foreign}, meant : Instances, number : Nat, open : BOOLEAN,
                   client : Clients, down : D, up : U]
    BY DEF Channel, Clients
  <2>3. NewChannel(peer) = [peer |-> peer, meant |-> link.read.gui, number |-> connections + 1,
                   open |-> TRUE, client |-> NoName, down |-> Nobody, up |-> u]
    BY DEF NewChannel
  <2> HIDE DEF u, U, D
  <2> QED BY <1>2, <2>1, <2>2, <2>3 DEF TypeInv
<1>5. connections' = connections + 1
  BY DEF Dial
<1> QED BY <1>3, <1>4, <1>5, NothingIsNobody

LEMMA TypeOfLink ==
  ASSUME Assumed, TypeInv, LinkStep
  PROVE  TypeInv'
<1>1. CASE TakeTask
  BY <1>1, TypeOfTake
<1>2. CASE ReadEndpoint \/ Dial \/ ReadGreeting \/ SendCall \/ ReadReply \/ GiveUp
  <2>1. UNCHANGED <<session, tasks, asker, ran, simVars>>
    BY <1>2 DEF ReadEndpoint, Dial, ReadGreeting, SendCall, ReadReply, GiveUp
  <2>2. link.pc # "idle"
    BY <1>2 DEF ReadEndpoint, Dial, ReadGreeting, SendCall, ReadReply, GiveUp, Reads
  <2>3. /\ link' \in Link /\ (link'.call = Nobody <=> link'.pc = "idle")
        /\ link'.pc \in {"dial", "hello"} => link'.read \in Endpoint
        /\ outcome' \in [CallIds -> Tellings]
    <3>1. \A what \in Tellings : Return(what) =>
            /\ link' \in Link /\ link'.call = Nobody /\ link'.pc = "idle"
            /\ outcome' \in [CallIds -> Tellings]
      BY <2>2, TypeOfBusy DEF Return, Told
    <3>2. {"done", "busy", "refused", "mismatch", "unavailable"} \subseteq Tellings
      BY DEF Tellings
    <3>3. link.call # Nobody /\ link.read \in Endpoint \cup {Nobody} /\ endpoint \in Endpoint \cup {Nobody}
      BY <2>2 DEF TypeInv, Link
    <3>4. CASE ReadEndpoint
      <4>1. CASE UNCHANGED outcome /\ EndpointRead # Nobody /\ link' = [link EXCEPT !.pc = "dial", !.read = EndpointRead]
        <5>1. EndpointRead \in Endpoint
          BY <3>3, <4>1 DEF EndpointRead
        <5>2. link' \in Link /\ link'.pc = "dial" /\ link'.read = EndpointRead /\ link'.call = link.call
          BY <4>1, <5>1 DEF Link, Pcs, TypeInv
        <5> QED BY <3>3, <4>1, <5>1, <5>2 DEF TypeInv
      <4>2. CASE \E what \in {"unavailable", "mismatch"} : Return(what)
        BY <3>1, <3>2, <4>2
      <4> QED BY <3>4, <4>1, <4>2 DEF ReadEndpoint
    <3>5. CASE Dial
      <4>1. CASE UNCHANGED outcome /\ link' = [link EXCEPT !.pc = "hello"]
        BY <2>2, <3>3, <3>5, <4>1, TypeOfMove DEF TypeInv, Pcs, Dial
      <4>2. CASE Return("unavailable")
        BY <3>1, <3>2, <4>2
      <4> QED BY <3>5, <4>1, <4>2 DEF Dial
    <3>6. CASE ReadGreeting
      <4>1. CASE UNCHANGED outcome /\ link' = [link EXCEPT !.pc = "call"]
        BY <2>2, <3>3, <4>1, TypeOfMove DEF TypeInv, Pcs
      <4>2. CASE \E what \in {"unavailable", "mismatch"} : Return(what)
        BY <3>1, <3>2, <4>2
      <4> QED BY <3>6, <4>1, <4>2 DEF ReadGreeting, ReturnDropped
    <3>7. CASE SendCall
      BY <2>2, <3>3, <3>7, TypeOfMove DEF TypeInv, Pcs, SendCall
    <3>8. CASE ReadReply \/ GiveUp
      <4>1. \E what \in Tellings : Return(what)
        BY <3>8, <3>2 DEF ReadReply, GiveUp, ReturnDropped, Meaning
      <4> QED BY <3>1, <4>1
    <3> QED BY <1>2, <3>4, <3>5, <3>6, <3>7, <3>8
  <2>4. channel' \in Channel \cup {Nobody} /\ connections' \in Nat
    <3>1. CASE Dial /\ PortTaken(link.read.port)
      BY <3>1, DialedIsOpen DEF TypeInv
    <3>2. CASE Dial /\ ~PortTaken(link.read.port)
      BY <3>2 DEF Dial, TypeInv
    <3>3. CASE ReadEndpoint
      BY <3>3 DEF ReadEndpoint, TypeInv
    <3>4. ASSUME ReadGreeting \/ SendCall \/ ReadReply
          PROVE  channel \in Channel
      BY <3>4 DEF ReadGreeting, SendCall, ReadReply, Reads, Connected, TypeInv
    <3>5. CASE ReadGreeting \/ ReadReply
      <4>1. [channel EXCEPT !.down = Nobody] \in Channel
        <5>1. channel \in Channel
          BY <3>4, <3>5
        <5> DEFINE U == Ups \cup {Nobody}
                   D == Downs \cup {Nobody}
        <5>2. Nobody \in D
          OBVIOUS
        <5>3. Channel = [peer : Instances \cup {Foreign}, meant : Instances, number : Nat, open : BOOLEAN,
                         client : Clients, down : D, up : U]
          BY DEF Channel, Clients
        <5> HIDE DEF U, D
        <5> QED BY <5>1, <5>2, <5>3
      <4> QED BY <3>5, <4>1 DEF ReadGreeting, ReadReply, ReturnDropped, TypeInv
    <3>6. CASE SendCall
      <4>1. [kind |-> "call", call |-> link.call] \in Ups /\ link.client \in Clients
        <5>1. "done" \in Tellings
          BY DEF Tellings
        <5> QED BY <2>2, <5>1, TypeOfBusy, Messages
      <4>2. [channel EXCEPT !.up = [kind |-> "call", call |-> link.call]] \in Channel
        BY <3>4, <3>6, <4>1, Changed
      <4> QED BY <3>6, <4>2 DEF SendCall, TypeInv
    <3>7. CASE GiveUp
      BY <3>7 DEF GiveUp, ReturnDropped, TypeInv
    <3> QED BY <1>2, <3>1, <3>2, <3>3, <3>5, <3>6, <3>7
  <2> QED BY <2>1, <2>3, <2>4 DEF TypeInv, simVars
<1> QED BY <1>1, <1>2 DEF LinkStep

LEMMA TypeStep == Assumed /\ TypeInv /\ [Next]_vars => TypeInv'
<1> SUFFICES ASSUME Assumed, TypeInv, [Next]_vars PROVE TypeInv'
  OBVIOUS
<1>1. CASE UNCHANGED vars
  BY <1>1 DEF vars, simVars, bridgeVars, TypeInv
<1>2. CASE \E p \in Ports : TakePort(p)
  BY <1>2 DEF TakePort, bridgeVars, TypeInv
<1> QED BY <1>1, <1>2, TypeOfSimulator, TypeOfServerStep, TypeOfForeign, TypeOfLine, TypeOfLink DEF Next

LEMMA TypeInit == Assumed /\ Init => TypeInv
<1> SUFFICES ASSUME Assumed, Init PROVE TypeInv
  OBVIOUS
<1>1. Off(0) \in Server
  BY DEF Off, Server, States, Assumed, LinkAssumption
<1>2. NewSession \in SessionType
  BY DEF NewSession, SessionType
<1>3. IdleLink(NoName) \in Link /\ IdleLink(NoName).call = Nobody /\ IdleLink(NoName).pc = "idle"
  BY DEF IdleLink, Link, Pcs, Clients
<1> QED BY <1>1, <1>2, <1>3, EmptySeq DEF Init, TypeInv, Tellings

-----------------------------------------------------------------------------
(* The link *)

\* The greeting is on its way, or its answer is: an answer with a token is of the peer.
Greeting(k, ch) ==
  /\ ch.meant = k.read.gui
  /\ ch.up = Nobody \/ ch.down = Nobody
  /\ ch.up # Nobody => ch.up.kind = "hello" /\ ch.up.client = k.client
  /\ ch.down # Nobody /\ ch.down.kind = "gui" =>
       /\ ch.down.gui = ch.peer
       /\ ch.peer # Foreign => ch.down.release = Release[ch.peer[1]] /\ ch.client = k.client

\* The peer proved that it wrote the endpoint, and knows the client.
Proven(k, ch) ==
  /\ ch.peer = ch.meant
  /\ Release[ch.peer[1]] = BridgeRelease
  /\ ch.client = k.client

Silent(ch) == ch.up = Nobody /\ ch.down = Nobody

LinkOk(k, ch, n) ==
  /\ k.pc = "dial" => ch = Nobody
  /\ k.pc \in {"hello", "wait"} => ch # Nobody
  /\ ch # Nobody => ch.number = n
  /\ k.pc = "hello" => Greeting(k, ch)
  /\ ch # Nobody /\ k.pc # "hello" => Proven(k, ch)
  /\ ch # Nobody /\ k.pc \in {"idle", "call"} => Silent(ch)
  /\ k.pc = "wait" /\ ch.up # Nobody =>
       ch.up.kind = "call" /\ ch.up.call = k.call /\ ch.down = Nobody

LinkInv == LinkOk(link, channel, connections)

LEMMA ConnectionType ==
  ASSUME Assumed, TypeInv, Connected
  PROVE  /\ channel \in Channel /\ channel.meant \in Instances /\ Foreign \notin Instances
         /\ channel.number \in Nat
         /\ channel.up # Nobody => channel.up \in Ups
         /\ channel.down # Nobody => channel.down \in Downs
<1>1. channel \in Channel
  BY DEF TypeInv, Connected
<1>2. Foreign \notin Instances
  BY DEF Foreign, Instances
<1> QED BY <1>1, <1>2 DEF Channel

LEMMA LinkInit == Init => LinkInv
BY DEF Init, LinkInv, LinkOk, IdleLink

\* The bridge does nothing and the other end says nothing.
LEMMA LinkQuiet ==
  ASSUME Assumed, TypeInv, LinkInv, UNCHANGED <<link, connections>>,
         channel' = channel \/ (Connected /\ channel' = Hangs(channel))
  PROVE  LinkInv'
<1>1. CASE channel' = channel
  BY <1>1 DEF LinkInv
<1>2. CASE Connected /\ channel' = Hangs(channel)
  <2>1. /\ channel \in Channel /\ channel # Nobody
        /\ channel' \in Channel
        /\ channel'.peer = channel.peer /\ channel'.meant = channel.meant
        /\ channel'.number = channel.number /\ channel'.client = channel.client
        /\ channel'.up = Nobody /\ channel'.down = channel.down
    BY <1>2, ConnectionType, Hung DEF Connected
  <2>2. channel' # Nobody
    BY <2>1, NothingIsNobody
  <2> QED BY <2>1, <2>2 DEF LinkInv, LinkOk, Greeting, Proven, Silent
<1> QED BY <1>1, <1>2

\* The other end speaks, which it does in its turn only.
LEMMA LinkPosted ==
  ASSUME Assumed, TypeInv, LinkInv, Connected, UNCHANGED <<link, connections>>,
         NEW m \in Downs,
         channel' = Post(channel, m) \/ channel' = Hangs(Post(channel, m)),
         link.pc \in {"hello", "wait"},
         link.pc = "hello" => m.kind # "gui" \/ (m.gui = channel.peer /\ channel.peer = Foreign)
  PROVE  LinkInv'
<1>1. /\ channel \in Channel /\ Post(channel, m) \in Channel
  BY ConnectionType, Posted
<1>2. /\ channel' \in Channel
      /\ channel'.peer = channel.peer /\ channel'.meant = channel.meant
      /\ channel'.number = channel.number /\ channel'.client = channel.client
      /\ channel'.up = Nobody /\ channel'.down = m
  BY <1>1, Posted, Hung
<1>3. channel' # Nobody /\ channel # Nobody
  BY <1>1, <1>2, NothingIsNobody
<1> QED BY <1>2, <1>3 DEF LinkInv, LinkOk, Greeting, Proven, Silent

LEMMA HelloIsGreeting ==
  ASSUME Assumed, TypeInv, LinkInv, NEW s \in Simulators, Hears(s, "hello")
  PROVE  /\ Connected /\ link.pc = "hello" /\ channel.peer = Gui(s)
         /\ channel.up.client = link.client /\ channel.up.gui \in Instances
<1>1. Connected /\ channel.peer = Gui(s) /\ channel.up # Nobody /\ channel.up.kind = "hello"
  BY DEF Hears, Leads
<1>2. link.pc \in Pcs
  BY DEF TypeInv, Link
<1>3. link.pc = "hello"
  BY <1>1, <1>2 DEF LinkInv, LinkOk, Silent, Connected, Pcs
<1>4. channel.up.gui \in Instances
  BY <1>1, ConnectionType, Messages
<1> QED BY <1>1, <1>3, <1>4 DEF LinkInv, LinkOk, Greeting

LEMMA CallIsSent ==
  ASSUME Assumed, TypeInv, LinkInv, NEW s \in Simulators, Hears(s, "call")
  PROVE  /\ Connected /\ link.pc = "wait" /\ channel.up.call = link.call /\ channel.down = Nobody
         /\ channel.client = link.client
<1>1. Connected /\ channel.up # Nobody /\ channel.up.kind = "call"
  BY DEF Hears, Leads
<1>2. link.pc \in Pcs
  BY DEF TypeInv, Link
<1>3. link.pc = "wait"
  BY <1>1, <1>2 DEF LinkInv, LinkOk, Greeting, Silent, Connected, Pcs
<1> QED BY <1>1, <1>3 DEF LinkInv, LinkOk, Proven, Connected

LEMMA LinkGreeted ==
  ASSUME Assumed, TypeInv, LinkInv, NEW s \in Simulators, AnswerHello(s)
  PROVE  LinkInv'
<1>1. /\ Connected /\ link.pc = "hello" /\ channel.peer = Gui(s)
      /\ channel.up.client = link.client
  BY HelloIsGreeting DEF AnswerHello
<1>2. UNCHANGED <<link, connections>>
  BY DEF AnswerHello, bridgeVars
<1>3. CASE channel' = Hangs(channel)
  BY <1>1, <1>2, <1>3, LinkQuiet
<1>4. CASE channel' = Hangs(Post(channel, [kind |-> "mismatch"]))
  <2>1. [kind |-> "mismatch"] \in Downs /\ [kind |-> "mismatch"].kind # "gui"
    BY Messages
  <2> QED BY <1>1, <1>2, <1>4, <2>1, LinkPosted
<1>5. CASE channel' = Post([channel EXCEPT !.client = channel.up.client],
                           [kind |-> "gui", gui |-> Gui(s), release |-> Release[s]])
  <2> DEFINE m == [kind |-> "gui", gui |-> Gui(s), release |-> Release[s]]
             ch == [channel EXCEPT !.client = channel.up.client]
  <2>1. channel \in Channel /\ channel.up \in Ups /\ link.client \in Clients
    BY <1>1, ConnectionType DEF AnswerHello, Hears, TypeInv, Link
  <2>2. /\ ch \in Channel /\ ch.client = link.client /\ ch.peer = channel.peer
        /\ ch.meant = channel.meant /\ ch.number = channel.number
    BY <1>1, <2>1, Changed, ZenonT(30)
  <2>3. m \in Downs /\ m.gui = Gui(s) /\ m.release = Release[Gui(s)[1]] /\ m.kind = "gui"
    <3>1. channel.peer \in Instances \cup {Foreign}
      BY <2>1 DEF Channel
    <3>2. Release[s] \in Nat
      BY TypeOfServers
    <3> QED BY <1>1, <3>1, <3>2, Messages DEF Gui
  <2> HIDE DEF m, ch
  <2>4. /\ channel' \in Channel /\ channel'.peer = channel.peer
        /\ channel'.meant = channel.meant /\ channel'.number = channel.number
        /\ channel'.client = link.client /\ channel'.up = Nobody /\ channel'.down = m
    BY <1>5, <2>2, <2>3, Posted DEF m, ch
  <2>5. channel' # Nobody /\ channel # Nobody
    BY <2>1, <2>4, NothingIsNobody
  <2> QED BY <1>1, <1>2, <2>3, <2>4, <2>5 DEF LinkInv, LinkOk, Greeting, Proven, Silent
<1> QED BY <1>3, <1>4, <1>5 DEF AnswerHello

LEMMA LinkReceived ==
  ASSUME Assumed, TypeInv, LinkInv, NEW s \in Simulators, ReceiveCall(s)
  PROVE  LinkInv'
<1>1. /\ Connected /\ link.pc = "wait" /\ channel.up.call = link.call /\ channel.down = Nobody
      /\ channel \in Channel /\ channel.up \in Ups
  BY CallIsSent, ConnectionType DEF ReceiveCall, Hears
<1>2. UNCHANGED <<link, connections>>
  BY DEF ReceiveCall, bridgeVars
<1>3. CASE channel' = [channel EXCEPT !.up = Nobody]
  <2>1. link.client \in Clients
    BY DEF TypeInv, Link
  <2>2. /\ channel' \in Channel /\ channel'.peer = channel.peer /\ channel'.meant = channel.meant
        /\ channel'.number = channel.number /\ channel'.client = channel.client
        /\ channel'.up = Nobody /\ channel'.down = channel.down
    BY <1>1, <1>3, <2>1, Changed
  <2>3. channel' # Nobody /\ channel # Nobody
    BY <1>1, <2>2, NothingIsNobody
  <2> QED BY <1>1, <1>2, <2>2, <2>3 DEF LinkInv, LinkOk, Proven
<1>4. CASE channel' = Post(channel, [kind |-> "refused"])
  BY <1>1, <1>2, <1>4, LinkPosted, Messages
<1> QED BY <1>3, <1>4 DEF ReceiveCall

LEMMA LinkOfForeign ==
  ASSUME Assumed, TypeInv, LinkInv, ForeignAnswers
  PROVE  LinkInv' /\ link.pc = "hello"
<1>1. Connected /\ channel.peer = Foreign /\ UNCHANGED <<link, connections>>
  BY DEF ForeignAnswers, bridgeVars
<1>2. link.pc = "hello"
  BY <1>1, ConnectionType DEF LinkInv, LinkOk, Proven, Connected
<1>3. CASE channel' = Post(channel, [kind |-> "noise"])
  BY <1>1, <1>2, <1>3, LinkPosted, Messages
<1>4. CASE channel' = Post(channel, [kind |-> "gui", gui |-> Foreign, release |-> BridgeRelease])
  <2>1. [kind |-> "gui", gui |-> Foreign, release |-> BridgeRelease] \in Downs
    BY Messages DEF Assumed, LinkAssumption
  <2> QED BY <1>1, <1>2, <1>4, <2>1, LinkPosted
<1> QED BY <1>2, <1>3, <1>4 DEF ForeignAnswers

LEMMA LinkOfStep ==
  ASSUME Assumed, TypeInv, LinkInv, LinkStep
  PROVE  LinkInv'
<1>1. channel # Nobody => channel \in Channel /\ channel.peer \in Instances \cup {Foreign}
  BY DEF TypeInv, Channel
<1>2. link.client \in Clients /\ link.pc \in Pcs
  BY DEF TypeInv, Link
<1>3. \A what : Return(what) => link'.pc = "idle" /\ link'.client = link.client
  BY DEF Return, IdleLink
<1>4. \A pc \in Pcs \ {"idle"} : link.pc # "idle" /\ link' = [link EXCEPT !.pc = pc] =>
        link'.pc = pc /\ link'.client = link.client /\ link'.read = link.read /\ link'.call = link.call
  BY DEF TypeInv, Link
<1>5. CASE TakeTask
  <2>1. link'.pc = "call" /\ link'.client = Head(tasks).client /\ link.pc = "idle"
    BY <1>5, TypeOfTake DEF TakeTask
  <2>2. connections' = connections /\ channel' = ChannelFor(Head(tasks).client)
    BY <1>5 DEF TakeTask
  <2> QED BY <2>1, <2>2 DEF ChannelFor, LinkInv, LinkOk, Proven
<1>6. CASE ReadEndpoint
  <2>1. channel = Nobody /\ channel' = Nobody /\ link'.pc \in {"idle", "dial"}
    <3>1. link' = [link EXCEPT !.pc = "dial", !.read = EndpointRead] => link'.pc = "dial"
      BY DEF TypeInv, Link
    <3> QED BY <1>3, <1>6, <3>1 DEF ReadEndpoint, Connected
  <2> QED BY <2>1 DEF LinkInv, LinkOk
<1>7. CASE Dial
  <2>1. CASE Return("unavailable") /\ UNCHANGED channel
    BY <1>3, <1>7, <2>1 DEF Dial, LinkInv, LinkOk
  <2>2. CASE \E peer : channel' = NewChannel(peer) /\ connections' = connections + 1 /\ link' = [link EXCEPT !.pc = "hello"]
    <3>1. PICK peer : channel' = NewChannel(peer)
      BY <2>2
    <3>2. channel'.meant = link.read.gui /\ channel'.number = connections + 1 /\ channel'.down = Nobody
          /\ channel'.up.kind = "hello" /\ channel'.up.client = link.client
      BY <3>1 DEF NewChannel
    <3>3. channel' # Nobody
      <4>1. PortTaken(link.read.port)
        BY <1>2, <1>7, <2>2, <1>3, <1>4 DEF Dial, Pcs
      <4> QED BY <1>7, <4>1, DialedIsOpen
    <3> QED BY <1>4, <1>7, <2>2, <3>2, <3>3 DEF Dial, LinkInv, LinkOk, Greeting, Pcs
  <2> QED BY <1>7, <2>1, <2>2 DEF Dial
<1>8. CASE ReadGreeting
  <2>1. channel # Nobody /\ link.pc = "hello" /\ channel.down # Nobody /\ connections' = connections
    BY <1>8 DEF ReadGreeting, Reads, Connected
  <2>2. CASE Greets(channel.down) /\ link' = [link EXCEPT !.pc = "call"] /\ channel' = [channel EXCEPT !.down = Nobody]
    <3>1. [kind |-> "call", call |-> link.call] \in Ups
      BY <2>1, Messages DEF TypeInv, Link
    <3>2. /\ channel' \in Channel /\ channel'.peer = channel.peer /\ channel'.meant = channel.meant
          /\ channel'.number = channel.number /\ channel'.client = channel.client
          /\ channel'.up = channel.up /\ channel'.down = Nobody
      BY <1>1, <1>2, <2>1, <2>2, <3>1, Changed
    <3>3. /\ link'.pc = "call" /\ link'.client = link.client
      BY <1>4, <2>1, <2>2 DEF Pcs
    <3>4. channel.peer = channel.meant /\ channel.peer # Foreign
      <4>1. Greeting(link, channel)
        BY <2>1 DEF LinkInv, LinkOk
      <4> QED BY <2>1, <2>2, <4>1, ConnectionType DEF Greeting, Greets, Connected
    <3>5. Proven(link, channel) /\ channel.up = Nobody
      BY <2>1, <2>2, <3>4 DEF LinkInv, LinkOk, Greeting, Greets, Proven
    <3> QED BY <2>1, <3>2, <3>3, <3>5 DEF LinkInv, LinkOk, Proven, Silent
  <2>3. CASE \E what : ReturnDropped(what)
    <3>1. link'.pc = "idle" /\ channel' = Nobody
      BY <1>3, <2>3 DEF ReturnDropped
    <3> QED BY <3>1 DEF LinkInv, LinkOk
  <2> QED BY <1>8, <2>2, <2>3 DEF ReadGreeting
<1>9. CASE SendCall
  <2> DEFINE u == [kind |-> "call", call |-> link.call]
  <2>1. channel # Nobody /\ link.pc = "call" /\ connections' = connections
        /\ link' = [link EXCEPT !.pc = "wait"] /\ u \in Ups
    BY <1>9, Messages DEF SendCall, Connected, TypeInv, Link
  <2>2. link'.pc = "wait" /\ link'.client = link.client /\ link'.call = link.call
    BY <1>4, <2>1 DEF Pcs
  <2>3. /\ channel' \in Channel /\ channel'.peer = channel.peer /\ channel'.meant = channel.meant
        /\ channel'.number = channel.number /\ channel'.client = channel.client
        /\ channel'.up \in {u, Nobody} /\ channel'.down = Nobody
    <3>1. Silent(channel)
      BY <2>1 DEF LinkInv, LinkOk
    <3>2. CASE channel' = channel
      BY <1>1, <2>1, <3>1, <3>2 DEF Silent
    <3>3. CASE channel' = [channel EXCEPT !.up = u]
      BY <1>1, <1>2, <2>1, <3>1, <3>3, Changed, ZenonT(30) DEF Silent
    <3> QED BY <1>9, <3>2, <3>3 DEF SendCall
  <2>4. channel' # Nobody
    BY <2>3, NothingIsNobody
  <2>5. u.kind = "call" /\ u.call = link.call
    OBVIOUS
  <2> HIDE DEF u
  <2> QED BY <2>1, <2>2, <2>3, <2>4, <2>5 DEF LinkInv, LinkOk, Proven
<1>10. CASE ReadReply
  <2>1. channel # Nobody /\ link.pc = "wait" /\ channel.down # Nobody /\ connections' = connections
        /\ link'.pc = "idle" /\ link'.client = link.client
    BY <1>3, <1>10 DEF ReadReply, Reads, Connected
  <2>2. CASE channel' = Nobody
    BY <2>1, <2>2 DEF LinkInv, LinkOk
  <2>3. CASE channel' = [channel EXCEPT !.down = Nobody]
    <3>1. [kind |-> "call", call |-> link.call] \in Ups
      BY <2>1, Messages DEF TypeInv, Link
    <3>2. /\ channel' \in Channel /\ channel'.peer = channel.peer /\ channel'.meant = channel.meant
          /\ channel'.number = channel.number /\ channel'.client = channel.client
          /\ channel'.up = channel.up /\ channel'.down = Nobody
      BY <1>1, <1>2, <2>1, <2>3, <3>1, Changed
    <3>3. channel.up = Nobody
      BY <2>1 DEF LinkInv, LinkOk
    <3> QED BY <2>1, <3>2, <3>3 DEF LinkInv, LinkOk, Proven, Silent
  <2> QED BY <1>10, <2>2, <2>3 DEF ReadReply
<1>11. CASE GiveUp
  <2>1. link'.pc = "idle" /\ channel' = Nobody
    BY <1>3, <1>11 DEF GiveUp, ReturnDropped
  <2> QED BY <2>1 DEF LinkInv, LinkOk
<1> QED BY <1>5, <1>6, <1>7, <1>8, <1>9, <1>10, <1>11 DEF LinkStep

-----------------------------------------------------------------------------
(* The calls *)

\* Calls are numbered in the order in which they are made.
AskedOk(n, a) == n \in 0..MaxCalls /\ \A c \in CallIds : a[c] # Nobody <=> c <= n

\* The caller thread takes them in that order, each under the name of who made it.
OrderOk(n, ts, k, a) ==
  /\ \A i \in DOMAIN ts : ts[i].call <= n /\ ts[i].client = a[ts[i].call]
  /\ \A i, j \in DOMAIN ts : i < j => ts[i].call < ts[j].call
  /\ k.pc # "idle" =>
       /\ k.call <= n /\ k.client = a[k.call]
       /\ \A i \in DOMAIN ts : k.call < ts[i].call

\* No call makes two connections.
DialsOk(n, ts, k, ch, m) ==
  /\ m <= n
  /\ \A i \in DOMAIN ts : m < ts[i].call
  /\ k.pc # "idle" => m <= k.call
  /\ k.pc \in {"call", "dial"} /\ ch = Nobody => m < k.call

Received(c, bs) == \E s \in Simulators : \E i \in DOMAIN bs[s] : bs[s][i].call = c
Untouched(c, bs, r, o) == o[c] = "nothing" /\ r[c] = 0 /\ ~Received(c, bs)

\* A call that is not sent yet is untouched.
UnsentOk(n, ts, k, bs, r, o) ==
  /\ \A c \in CallIds : c > n => Untouched(c, bs, r, o)
  /\ \A i \in DOMAIN ts : Untouched(ts[i].call, bs, r, o)
  /\ k.pc \in {"call", "dial", "hello"} => Untouched(k.call, bs, r, o)

\* The call that is waited for: on the wire it is untouched, and an answer on the wire
\* says what happened.
SentOk(k, ch, bs, r, o) ==
  k.pc = "wait" =>
    /\ o[k.call] = "nothing"
    /\ ch.up # Nobody => Untouched(k.call, bs, r, o)
    /\ ch.down # Nobody =>
         /\ ~Received(k.call, bs)
         /\ ch.down.kind = "result" => r[k.call] = 1
         /\ ch.down.kind = "refused" => r[k.call] = 0

\* What a simulator holds: each call once, nothing final was said of it, and when its
\* connection is still there the caller thread waits for it.
HeldOk(n, k, ch, m, bs, a, r, o) ==
  \A s \in Simulators : \A i \in DOMAIN bs[s] :
    LET e == bs[s][i] IN
    /\ e.call <= n /\ e.session <= m
    /\ e.client = a[e.call]
    /\ r[e.call] = IF e.begun THEN 1 ELSE 0
    /\ o[e.call] \in {"nothing", "unavailable"}
    /\ ch # Nobody /\ e.session = ch.number =>
         k.pc = "wait" /\ e.call = k.call /\ Silent(ch)
OnceOk(bs) ==
  \A s, t \in Simulators : \A i \in DOMAIN bs[s], j \in DOMAIN bs[t] :
    bs[s][i].call = bs[t][j].call => s = t /\ i = j

CallsOk(n, ts, k, ch, m, bs, a, r, o) ==
  /\ AskedOk(n, a)
  /\ OrderOk(n, ts, k, a)
  /\ DialsOk(n, ts, k, ch, m)
  /\ UnsentOk(n, ts, k, bs, r, o)
  /\ SentOk(k, ch, bs, r, o)
  /\ HeldOk(n, k, ch, m, bs, a, r, o)
  /\ OnceOk(bs)
  /\ \A c \in CallIds : r[c] \in {0, 1}

CallsInv == \E n \in 0..MaxCalls : CallsOk(n, tasks, link, channel, connections, inbox, asker, ran, outcome)
LEMMA AskedIs ==
  ASSUME Assumed, NEW n \in 0..MaxCalls, AskedOk(n, asker)
  PROVE  Asked = 1..n /\ Cardinality(Asked) = n
<1>1. MaxCalls \in Nat
  BY DEF Assumed, LinkAssumption
<1>2. Asked = 1..n
  BY <1>1 DEF Asked, AskedOk, CallIds
<1>3. Cardinality(1..n) = n
  BY <1>1, FS_Interval
<1> QED BY <1>2, <1>3

LEMMA EntryType ==
  ASSUME Assumed, TypeInv, NEW s \in Simulators, NEW i \in DOMAIN inbox[s]
  PROVE  /\ inbox[s][i] \in Entry /\ inbox[s][i].call \in CallIds /\ inbox[s][i].session \in Nat
         /\ inbox[s][i].begun \in BOOLEAN
<1>1. inbox[s] \in Seq(Entry)
  BY TypeOfServers
<1>2. inbox[s][i] \in Entry
  BY <1>1
<1> QED BY <1>2 DEF Entry

LEMMA TaskType ==
  ASSUME Assumed, TypeInv, NEW i \in DOMAIN tasks
  PROVE  tasks[i] \in Task /\ tasks[i].call \in CallIds /\ tasks[i].call \in Nat
<1>1. tasks[i] \in Task
  BY DEF TypeInv
<1> QED BY <1>1 DEF Task, CallIds

\* What simulators hold is what is left of what they held.
LeftOf(bs, ds) ==
  \A s \in Simulators : \E d \in Nat : \A i \in DOMAIN bs[s] :
    i + d \in DOMAIN ds[s] /\ bs[s][i] = ds[s][i + d]

LEMMA LeftSame == ASSUME Assumed, TypeInv PROVE LeftOf(inbox, inbox)
<1> SUFFICES ASSUME NEW s \in Simulators
             PROVE  \E d \in Nat : \A i \in DOMAIN inbox[s] :
                      i + d \in DOMAIN inbox[s] /\ inbox[s][i] = inbox[s][i + d]
  BY DEF LeftOf
<1>1. inbox[s] \in Seq(Entry)
  BY TypeOfServers
<1>2. \A i \in DOMAIN inbox[s] : i + 0 \in DOMAIN inbox[s] /\ inbox[s][i] = inbox[s][i + 0]
  BY <1>1
<1> QED BY <1>2

LEMMA LeftNone ==
  ASSUME Assumed, TypeInv, NEW s \in Simulators, inbox' = [inbox EXCEPT ![s] = <<>>]
  PROVE  LeftOf(inbox', inbox)
<1> SUFFICES ASSUME NEW t \in Simulators
             PROVE  \E d \in Nat : \A i \in DOMAIN inbox'[t] :
                      i + d \in DOMAIN inbox[t] /\ inbox'[t][i] = inbox[t][i + d]
  BY DEF LeftOf
<1>1. inbox[t] \in Seq(Entry)
  BY TypeOfServers
<1>2. inbox'[t] = IF t = s THEN <<>> ELSE inbox[t]
  BY DEF TypeInv
<1>3. \A i \in DOMAIN inbox'[t] : i + 0 \in DOMAIN inbox[t] /\ inbox'[t][i] = inbox[t][i + 0]
  BY <1>1, <1>2
<1> QED BY <1>3

LEMMA LeftRest ==
  ASSUME Assumed, TypeInv, NEW s \in Simulators, Works(s), inbox' = [inbox EXCEPT ![s] = Tail(@)]
  PROVE  /\ LeftOf(inbox', inbox)
         /\ \A i \in DOMAIN inbox'[s] : i + 1 \in DOMAIN inbox[s] /\ inbox'[s][i] = inbox[s][i + 1]
         /\ \A t \in Simulators \ {s} : inbox'[t] = inbox[t]
<1>1. inbox[s] \in Seq(Entry) /\ inbox[s] # <<>>
  BY TypeOfServers DEF Works
<1>2. \A t \in Simulators : inbox'[t] = IF t = s THEN Tail(inbox[s]) ELSE inbox[t]
  BY DEF TypeInv
<1>3. \A i \in DOMAIN inbox'[s] : i + 1 \in DOMAIN inbox[s] /\ inbox'[s][i] = inbox[s][i + 1]
  <2>1. PICK q \in Seq(Entry) : q = inbox[s]
    BY <1>1
  <2>2. /\ Tail(q) \in Seq(Entry) /\ Len(Tail(q)) = Len(q) - 1
        /\ \A i \in 1..Len(Tail(q)) : Tail(q)[i] = q[i + 1]
    BY <1>1, <2>1, HeadTailProperties
  <2>3. \A i \in DOMAIN Tail(q) : i + 1 \in DOMAIN q /\ Tail(q)[i] = q[i + 1]
    BY <2>2
  <2>4. inbox'[s] = Tail(q)
    BY <1>2, <2>1
  <2> QED BY <2>1, <2>3, <2>4
<1>4. ASSUME NEW t \in Simulators
      PROVE  \E d \in Nat : \A i \in DOMAIN inbox'[t] :
               i + d \in DOMAIN inbox[t] /\ inbox'[t][i] = inbox[t][i + d]
  <2>1. CASE t = s
    BY <1>3, <2>1
  <2>2. CASE t # s
    <3>1. inbox[t] \in Seq(Entry) /\ inbox'[t] = inbox[t]
      BY <1>2, <2>2, TypeOfServers
    <3>2. \A i \in DOMAIN inbox[t] : i + 0 \in DOMAIN inbox[t] /\ inbox[t][i] = inbox[t][i + 0]
      <4>1. PICK q \in Seq(Entry) : q = inbox[t]
        BY <3>1
      <4>2. \A i \in DOMAIN q : i + 0 \in DOMAIN q /\ q[i] = q[i + 0]
        OBVIOUS
      <4> QED BY <4>1, <4>2
    <3> QED BY <3>1, <3>2
  <2> QED BY <2>1, <2>2
<1> QED BY <1>2, <1>3, <1>4 DEF LeftOf

LEMMA LeftGives ==
  ASSUME NEW bs, NEW ds, LeftOf(bs, ds)
  PROVE  /\ \A c : Received(c, bs) => Received(c, ds)
         /\ \A s \in Simulators : \A i \in DOMAIN bs[s] : \E j \in DOMAIN ds[s] : bs[s][i] = ds[s][j]
BY DEF LeftOf, Received

LEMMA LeftOnce ==
  ASSUME Assumed, TypeInv', OnceOk(inbox), LeftOf(inbox', inbox)
  PROVE  OnceOk(inbox')
<1> SUFFICES ASSUME NEW s \in Simulators, NEW t \in Simulators,
                    NEW i \in DOMAIN inbox'[s], NEW j \in DOMAIN inbox'[t],
                    inbox'[s][i].call = inbox'[t][j].call
             PROVE  s = t /\ i = j
  BY DEF OnceOk
<1>1. PICK d \in Nat : \A k \in DOMAIN inbox'[s] : k + d \in DOMAIN inbox[s] /\ inbox'[s][k] = inbox[s][k + d]
  BY DEF LeftOf
<1>2. PICK e \in Nat : \A k \in DOMAIN inbox'[t] : k + e \in DOMAIN inbox[t] /\ inbox'[t][k] = inbox[t][k + e]
  BY DEF LeftOf
<1>3. s = t /\ i + d = j + e
  BY <1>1, <1>2 DEF OnceOk
<1>4. i \in Nat /\ j \in Nat
  <2>1. inbox'[s] \in Seq(Entry) /\ inbox'[t] \in Seq(Entry)
    BY DEF TypeInv
  <2> QED BY <2>1
<1>5. j + d \in DOMAIN inbox[t] /\ inbox'[t][j] = inbox[t][j + d]
  BY <1>1, <1>3
<1>6. inbox[t][j + d].call = inbox[t][j + e].call
  BY <1>2, <1>5
<1>7. j + d = j + e
  BY <1>2, <1>5, <1>6 DEF OnceOk
<1> QED BY <1>3, <1>4, <1>7

\* Nothing happens to the calls but that simulators lose some; the connection is another
\* one, or silent as it was.
LEMMA CallsQuiet ==
  ASSUME Assumed, TypeInv, TypeInv', NEW n \in 0..MaxCalls,
         CallsOk(n, tasks, link, channel, connections, inbox, asker, ran, outcome),
         UNCHANGED <<tasks, link, connections, asker, ran, outcome>>,
         LeftOf(inbox', inbox),
         channel' = channel \/ (Connected /\ channel' = Hangs(channel))
  PROVE  CallsInv'
<1>1. \/ channel' = channel
      \/ /\ channel # Nobody /\ channel' # Nobody
         /\ channel'.number = channel.number /\ channel'.up = Nobody /\ channel'.down = channel.down
  <2>1. CASE Connected /\ channel' = Hangs(channel)
    BY <2>1, ConnectionType, Hung, NothingIsNobody DEF Connected
  <2> QED BY <2>1
<1>2. \A c : Received(c, inbox') => Received(c, inbox)
  BY LeftGives
<1>3. DialsOk(n, tasks, link, channel', connections)
  BY <1>1 DEF CallsOk, DialsOk
<1>4. UnsentOk(n, tasks, link, inbox', ran, outcome)
  BY <1>2 DEF CallsOk, UnsentOk, Untouched
<1>5. SentOk(link, channel', inbox', ran, outcome)
  BY <1>1, <1>2 DEF CallsOk, SentOk, Untouched
<1>6. HeldOk(n, link, channel', connections, inbox', asker, ran, outcome)
  <2> SUFFICES ASSUME NEW s \in Simulators, NEW i \in DOMAIN inbox'[s]
               PROVE  LET e == inbox'[s][i] IN
                      /\ e.call <= n /\ e.session <= connections
                      /\ e.client = asker[e.call]
                      /\ ran[e.call] = IF e.begun THEN 1 ELSE 0
                      /\ outcome[e.call] \in {"nothing", "unavailable"}
                      /\ channel' # Nobody /\ e.session = channel'.number =>
                           link.pc = "wait" /\ e.call = link.call /\ Silent(channel')
    BY DEF HeldOk
  <2>1. PICK j \in DOMAIN inbox[s] : inbox'[s][i] = inbox[s][j]
    BY LeftGives
  <2>2. HeldOk(n, link, channel, connections, inbox, asker, ran, outcome)
    BY DEF CallsOk
  <2> QED BY <1>1, <2>1, <2>2 DEF HeldOk, Silent
<1>7. OnceOk(inbox')
  BY LeftOnce DEF CallsOk
<1> QED BY <1>3, <1>4, <1>5, <1>6, <1>7 DEF CallsOk, CallsInv

\* The bridge greets: nothing was received over this connection.
LEMMA CallsGreeting ==
  ASSUME Assumed, TypeInv, CallsInv, link.pc = "hello",
         UNCHANGED <<tasks, link, connections, inbox, asker, ran, outcome>>,
         channel # Nobody, channel' # Nobody, channel'.number = channel.number
  PROVE  CallsInv'
<1>1. PICK n \in 0..MaxCalls : CallsOk(n, tasks, link, channel, connections, inbox, asker, ran, outcome)
  BY DEF CallsInv
<1>2. DialsOk(n, tasks, link, channel', connections) /\ SentOk(link, channel', inbox, ran, outcome)
  BY <1>1 DEF CallsOk, DialsOk, SentOk
<1>3. HeldOk(n, link, channel', connections, inbox, asker, ran, outcome)
  BY <1>1 DEF CallsOk, HeldOk
<1> QED BY <1>1, <1>2, <1>3 DEF CallsOk, CallsInv

\* An answer comes over the connection: the call it is for is no longer held.
LEMMA CallsPosted ==
  ASSUME Assumed, TypeInv, TypeInv', NEW n \in 0..MaxCalls,
         CallsOk(n, tasks, link, channel, connections, inbox, asker, ran, outcome),
         UNCHANGED <<tasks, link, connections, asker, ran, outcome>>,
         LeftOf(inbox', inbox), link.pc = "wait", channel # Nobody, channel' # Nobody,
         channel'.number = channel.number, channel'.up = Nobody,
         ~Received(link.call, inbox'),
         channel'.down.kind = "result" => ran[link.call] = 1,
         channel'.down.kind = "refused" => ran[link.call] = 0
  PROVE  CallsInv'
<1>1. \A c : Received(c, inbox') => Received(c, inbox)
  BY LeftGives
<1>2. DialsOk(n, tasks, link, channel', connections)
  BY DEF CallsOk, DialsOk
<1>3. UnsentOk(n, tasks, link, inbox', ran, outcome)
  BY <1>1 DEF CallsOk, UnsentOk, Untouched
<1>4. SentOk(link, channel', inbox', ran, outcome)
  BY DEF CallsOk, SentOk
<1>5. HeldOk(n, link, channel', connections, inbox', asker, ran, outcome)
  <2> SUFFICES ASSUME NEW s \in Simulators, NEW i \in DOMAIN inbox'[s]
               PROVE  LET e == inbox'[s][i] IN
                      /\ e.call <= n /\ e.session <= connections
                      /\ e.client = asker[e.call]
                      /\ ran[e.call] = IF e.begun THEN 1 ELSE 0
                      /\ outcome[e.call] \in {"nothing", "unavailable"}
                      /\ channel' # Nobody /\ e.session = channel'.number =>
                           link.pc = "wait" /\ e.call = link.call /\ Silent(channel')
    BY DEF HeldOk
  <2>1. PICK j \in DOMAIN inbox[s] : inbox'[s][i] = inbox[s][j]
    BY LeftGives
  <2>2. HeldOk(n, link, channel, connections, inbox, asker, ran, outcome)
    BY DEF CallsOk
  <2>3. inbox'[s][i].call # link.call
    BY DEF Received
  <2> QED BY <2>1, <2>2, <2>3 DEF HeldOk
<1>6. OnceOk(inbox')
  BY LeftOnce DEF CallsOk
<1> QED BY <1>2, <1>3, <1>4, <1>5, <1>6 DEF CallsOk, CallsInv

\* The call of an entry whose connection is still there is the one waited for.
LEMMA HeldSession ==
  ASSUME Assumed, TypeInv, CallsInv, NEW s \in Simulators, NEW i \in DOMAIN inbox[s],
         Connected, inbox[s][i].session = channel.number
  PROVE  link.pc = "wait" /\ inbox[s][i].call = link.call /\ Silent(channel)
BY DEF CallsInv, CallsOk, HeldOk, Connected

LEMMA StepOfStop ==
  ASSUME Assumed, TypeInv, TypeInv', LinkInv, CallsInv, NEW s \in Simulators, StopServer(s)
  PROVE  LinkInv' /\ CallsInv'
<1>1. /\ UNCHANGED <<tasks, link, connections, asker, ran, outcome>>
      /\ inbox' = [inbox EXCEPT ![s] = <<>>]
  BY DEF StopServer, bridgeVars
<1>2. LeftOf(inbox', inbox)
  BY <1>1, LeftNone
<1>3. PICK n \in 0..MaxCalls : CallsOk(n, tasks, link, channel, connections, inbox, asker, ran, outcome)
  BY DEF CallsInv
<1>4. CASE channel' = CloseEnd(s)
  <2>1. channel' = channel \/ (Connected /\ channel' = Hangs(channel))
    BY <1>4 DEF CloseEnd, Leads
  <2> QED BY <1>1, <1>2, <1>3, <2>1, LinkQuiet, CallsQuiet
<1>5. CASE /\ \E i \in DOMAIN inbox[s] : SameSession(inbox[s][i])
           /\ channel' = Hangs(Post(channel, [kind |-> "stopped"]))
  <2>1. PICK i \in DOMAIN inbox[s] : SameSession(inbox[s][i])
    BY <1>5
  <2>2. Connected /\ link.pc = "wait" /\ inbox[s][i].call = link.call
    BY <2>1, HeldSession DEF SameSession
  <2>3. [kind |-> "stopped"] \in Downs
    BY Messages
  <2>4. LinkInv'
    BY <1>1, <1>5, <2>2, <2>3, LinkPosted
  <2>5. /\ channel # Nobody /\ channel' # Nobody /\ channel'.number = channel.number
        /\ channel'.up = Nobody /\ channel'.down.kind = "stopped"
    BY <1>5, <2>2, <2>3, ConnectionType, Posted, Hung, NothingIsNobody DEF Connected
  <2>6. ~Received(link.call, inbox')
    <3>1. \A t \in Simulators : inbox'[t] = IF t = s THEN <<>> ELSE inbox[t]
      BY <1>1 DEF TypeInv
    <3> QED BY <1>3, <2>2, <3>1 DEF Received, CallsOk, OnceOk
  <2>7. CallsInv'
    BY <1>1, <1>2, <1>3, <2>2, <2>5, <2>6, CallsPosted
  <2> QED BY <2>4, <2>7
<1> QED BY <1>4, <1>5 DEF StopServer

LEMMA StepOfAnswer ==
  ASSUME Assumed, TypeInv, TypeInv', LinkInv, CallsInv, NEW s \in Simulators,
         FinishCall(s) \/ ParkedTooLong(s)
  PROVE  LinkInv' /\ CallsInv'
<1>1. PICK m \in Downs : /\ Works(s) /\ Respond(s, m) /\ m.kind \in {"result", "parked"}
                         /\ m.kind = "result" => Head(inbox[s]).begun
  BY Messages DEF FinishCall, ParkedTooLong
<1>2. /\ UNCHANGED <<tasks, link, connections, asker, ran, outcome>>
      /\ inbox' = [inbox EXCEPT ![s] = Tail(@)]
  BY <1>1 DEF Respond, bridgeVars
<1>3. /\ LeftOf(inbox', inbox)
      /\ \A i \in DOMAIN inbox'[s] : i + 1 \in DOMAIN inbox[s] /\ inbox'[s][i] = inbox[s][i + 1]
      /\ \A t \in Simulators \ {s} : inbox'[t] = inbox[t]
  BY <1>1, <1>2, LeftRest
<1>4. PICK n \in 0..MaxCalls : CallsOk(n, tasks, link, channel, connections, inbox, asker, ran, outcome)
  BY DEF CallsInv
<1>5. Head(inbox[s]) = inbox[s][1] /\ 1 \in DOMAIN inbox[s]
  BY <1>1, TypeOfHolder
<1>6. CASE ~SameSession(Head(inbox[s]))
  <2>1. channel' = channel
    BY <1>1, <1>6 DEF Respond
  <2> QED BY <1>2, <1>3, <1>4, <2>1, LinkQuiet, CallsQuiet
<1>7. CASE SameSession(Head(inbox[s]))
  <2>1. Connected /\ link.pc = "wait" /\ inbox[s][1].call = link.call
    BY <1>5, <1>7, HeldSession DEF SameSession
  <2>2. channel' = Post(channel, m)
    BY <1>1, <1>7 DEF Respond
  <2>3. LinkInv'
    BY <1>1, <1>2, <2>1, <2>2, LinkPosted
  <2>4. /\ channel # Nobody /\ channel' # Nobody /\ channel'.number = channel.number
        /\ channel'.up = Nobody /\ channel'.down = m
    BY <2>1, <2>2, ConnectionType, Posted, NothingIsNobody DEF Connected
  <2>5. ~Received(link.call, inbox')
    <3> SUFFICES ASSUME NEW t \in Simulators, NEW i \in DOMAIN inbox'[t],
                        inbox'[t][i].call = inbox[s][1].call
                 PROVE  FALSE
      BY <2>1 DEF Received
    <3>1. CASE t # s
      BY <1>3, <1>4, <1>5, <3>1 DEF CallsOk, OnceOk
    <3>2. CASE t = s
      <4>1. i + 1 = 1
        BY <1>3, <1>4, <1>5, <3>2 DEF CallsOk, OnceOk
      <4>2. i \in Nat \ {0}
        <5>1. inbox'[t] \in Seq(Entry)
          BY DEF TypeInv
        <5> QED BY <5>1
      <4> QED BY <4>1, <4>2
    <3> QED BY <3>1, <3>2
  <2>6. m.kind = "result" => ran[link.call] = 1
    BY <1>1, <1>4, <1>5, <2>1 DEF CallsOk, HeldOk
  <2>7. CallsInv'
    BY <1>1, <1>2, <1>3, <1>4, <2>1, <2>4, <2>5, <2>6, CallsPosted
  <2> QED BY <2>3, <2>7
<1> QED BY <1>6, <1>7

LEMMA CallsReceived ==
  ASSUME Assumed, TypeInv, TypeInv', LinkInv, CallsInv, NEW s \in Simulators, ReceiveCall(s)
  PROVE  CallsInv'
<1>1. /\ Connected /\ link.pc = "wait" /\ channel.up.call = link.call /\ channel.down = Nobody
      /\ channel.client = link.client /\ channel.up # Nobody
  BY CallIsSent DEF ReceiveCall, Hears
<1>2. UNCHANGED <<tasks, link, connections, asker, ran, outcome>>
  BY DEF ReceiveCall, bridgeVars
<1>3. PICK n \in 0..MaxCalls : CallsOk(n, tasks, link, channel, connections, inbox, asker, ran, outcome)
  BY DEF CallsInv
<1>4. Untouched(link.call, inbox, ran, outcome)
  BY <1>1, <1>3 DEF CallsOk, SentOk
<1>5. channel # Nobody /\ channel \in Channel /\ channel.up \in Ups /\ channel.number = connections
  BY <1>1, ConnectionType DEF Connected, LinkInv, LinkOk
<1>6. CASE channel' = Post(channel, [kind |-> "refused"]) /\ UNCHANGED inbox
  <2>1. /\ channel' # Nobody /\ channel'.number = channel.number
        /\ channel'.up = Nobody /\ channel'.down = [kind |-> "refused"]
    BY <1>5, <1>6, Messages, Posted, NothingIsNobody
  <2>2. LeftOf(inbox', inbox)
    BY <1>6, LeftSame
  <2>3. ~Received(link.call, inbox') /\ ran[link.call] = 0
    BY <1>4, <1>6 DEF Untouched
  <2> QED BY <1>1, <1>2, <1>3, <1>5, <2>1, <2>2, <2>3, CallsPosted
<1>7. CASE /\ channel' = [channel EXCEPT !.up = Nobody]
           /\ inbox' = [inbox EXCEPT ![s] = Append(@,
                [call |-> channel.up.call, session |-> channel.number,
                 client |-> channel.client, begun |-> FALSE])]
  <2> DEFINE e == [call |-> link.call, session |-> channel.number, client |-> link.client, begun |-> FALSE]
  <2>1. link.client \in Clients /\ link.call \in CallIds /\ channel.number \in Nat
    BY <1>1, <1>5 DEF TypeInv, Link, Channel
  <2>2. /\ channel' # Nobody /\ channel'.number = channel.number
        /\ channel'.up = Nobody /\ channel'.down = Nobody
    BY <1>1, <1>5, <1>7, <2>1, Changed, NothingIsNobody
  <2>3. e \in Entry /\ inbox' = [inbox EXCEPT ![s] = Append(@, e)]
    BY <1>1, <1>7, <2>1 DEF Entry, Clients
  <2>4. e.call = link.call /\ e.session = channel.number /\ e.client = link.client /\ e.begun = FALSE
    OBVIOUS
  <2> HIDE DEF e
  <2>5. \A t \in Simulators : \A i \in DOMAIN inbox'[t] :
          \/ i \in DOMAIN inbox[t] /\ inbox'[t][i] = inbox[t][i]
          \/ t = s /\ i = Len(inbox[s]) + 1 /\ inbox'[t][i] = e
    <3> SUFFICES ASSUME NEW t \in Simulators, NEW i \in DOMAIN inbox'[t]
                 PROVE  \/ i \in DOMAIN inbox[t] /\ inbox'[t][i] = inbox[t][i]
                        \/ t = s /\ i = Len(inbox[s]) + 1 /\ inbox'[t][i] = e
      OBVIOUS
    <3>1. inbox'[t] = IF t = s THEN Append(inbox[s], e) ELSE inbox[t]
      BY <2>3 DEF TypeInv
    <3>2. CASE t # s
      BY <3>1, <3>2
    <3>3. CASE t = s
      <4>1. PICK q \in Seq(Entry) : q = inbox[s]
        BY TypeOfServers
      <4>2. inbox'[t] = Append(q, e)
        BY <3>1, <3>3, <4>1
      <4>3. \A k \in DOMAIN Append(q, e) : \/ k \in DOMAIN q /\ Append(q, e)[k] = q[k]
                                           \/ k = Len(q) + 1 /\ Append(q, e)[k] = e
        BY <2>3, AppendProperties
      <4> QED BY <3>3, <4>1, <4>2, <4>3
    <3> QED BY <3>2, <3>3
  <2>6. \A c : Received(c, inbox') => Received(c, inbox) \/ c = link.call
    BY <2>4, <2>5 DEF Received
  <2>7. link.call <= n /\ link.client = asker[link.call] /\ \A i \in DOMAIN tasks : link.call # tasks[i].call
    <3>1. link.call <= n /\ link.client = asker[link.call] /\ \A i \in DOMAIN tasks : link.call < tasks[i].call
      BY <1>1, <1>3 DEF CallsOk, OrderOk
    <3>2. \A i \in DOMAIN tasks : tasks[i].call \in Nat /\ link.call \in Nat
      BY <2>1, TaskType DEF CallIds
    <3> QED BY <3>1, <3>2
  <2>8. UnsentOk(n, tasks, link, inbox', ran, outcome)
    <3>1. \A c \in CallIds : c > n => c # link.call
      BY <2>1, <2>7 DEF CallIds
    <3> QED BY <1>1, <1>3, <2>6, <2>7, <3>1 DEF CallsOk, UnsentOk, Untouched
  <2>9. SentOk(link, channel', inbox', ran, outcome)
    BY <1>4, <2>2 DEF SentOk, Untouched
  <2>10. HeldOk(n, link, channel', connections, inbox', asker, ran, outcome)
    <3> SUFFICES ASSUME NEW t \in Simulators, NEW i \in DOMAIN inbox'[t]
                 PROVE  LET x == inbox'[t][i] IN
                      /\ x.call <= n /\ x.session <= connections
                      /\ x.client = asker[x.call]
                      /\ ran[x.call] = IF x.begun THEN 1 ELSE 0
                      /\ outcome[x.call] \in {"nothing", "unavailable"}
                      /\ channel' # Nobody /\ x.session = channel'.number =>
                           link.pc = "wait" /\ x.call = link.call /\ Silent(channel')
      BY DEF HeldOk
    <3>1. CASE inbox'[t][i] = e
      BY <1>1, <1>4, <1>5, <2>1, <2>2, <2>4, <2>7, <3>1 DEF Untouched, Silent
    <3>2. CASE i \in DOMAIN inbox[t] /\ inbox'[t][i] = inbox[t][i]
      <4>1. HeldOk(n, link, channel, connections, inbox, asker, ran, outcome)
        BY <1>3 DEF CallsOk
      <4> QED BY <1>5, <2>2, <3>2, <4>1 DEF HeldOk, Silent
    <3> QED BY <2>5, <3>1, <3>2
  <2>11. OnceOk(inbox')
    <3> SUFFICES ASSUME NEW t \in Simulators, NEW u \in Simulators,
                        NEW i \in DOMAIN inbox'[t], NEW j \in DOMAIN inbox'[u],
                        inbox'[t][i].call = inbox'[u][j].call
                 PROVE  t = u /\ i = j
      BY DEF OnceOk
    <3>1. \A v \in Simulators : \A k \in DOMAIN inbox[v] : inbox[v][k].call # link.call
      BY <1>4 DEF Untouched, Received
    <3> QED BY <1>3, <2>4, <2>5, <3>1 DEF CallsOk, OnceOk
  <2>12. DialsOk(n, tasks, link, channel', connections)
    BY <1>3, <1>5, <2>2 DEF CallsOk, DialsOk
  <2> QED BY <1>2, <1>3, <2>8, <2>9, <2>10, <2>11, <2>12 DEF CallsOk, CallsInv
<1> QED BY <1>6, <1>7 DEF ReceiveCall

LEMMA CallsBegun ==
  ASSUME Assumed, TypeInv, TypeInv', LinkInv, CallsInv, NEW s \in Simulators, BeginCall(s)
  PROVE  CallsInv'
<1>1. /\ UNCHANGED <<tasks, link, channel, connections, asker, outcome>>
      /\ inbox' = [inbox EXCEPT ![s][1].begun = TRUE]
      /\ ran' = [ran EXCEPT ![inbox[s][1].call] = @ + 1]
      /\ ~inbox[s][1].begun /\ 1 \in DOMAIN inbox[s] /\ inbox[s] \in Seq(Entry)
  BY TypeOfHolder, TypeOfServers DEF BeginCall, bridgeVars
<1> DEFINE c == inbox[s][1].call
<1>2. PICK n \in 0..MaxCalls : CallsOk(n, tasks, link, channel, connections, inbox, asker, ran, outcome)
  BY DEF CallsInv
<1>3. \A t \in Simulators : DOMAIN inbox'[t] = DOMAIN inbox[t]
  BY <1>1 DEF TypeInv
<1>4. \A t \in Simulators : \A i \in DOMAIN inbox[t] :
        inbox'[t][i] = IF t = s /\ i = 1 THEN [inbox[s][1] EXCEPT !.begun = TRUE] ELSE inbox[t][i]
  BY <1>1 DEF TypeInv
<1>5. /\ [inbox[s][1] EXCEPT !.begun = TRUE].begun = TRUE
      /\ [inbox[s][1] EXCEPT !.begun = TRUE].call = c
      /\ [inbox[s][1] EXCEPT !.begun = TRUE].session = inbox[s][1].session
      /\ [inbox[s][1] EXCEPT !.begun = TRUE].client = inbox[s][1].client
  BY <1>1, EntryType DEF Entry
<1>6. c \in CallIds /\ ran[c] = 0
  BY <1>1, <1>2, EntryType DEF CallsOk, HeldOk
<1>7. \A d \in CallIds : ran'[d] = IF d = c THEN 1 ELSE ran[d]
  BY <1>1, <1>6 DEF TypeInv
<1>8. \A t \in Simulators : \A i \in DOMAIN inbox[t] : inbox'[t][i].call = inbox[t][i].call
  BY <1>4, <1>5, ZenonT(30)
<1> HIDE DEF c
<1>9. \A d : Received(d, inbox') <=> Received(d, inbox)
  BY <1>3, <1>8 DEF Received
<1>10. Received(c, inbox)
  BY <1>1 DEF Received, c
<1>11. \A d \in CallIds : Untouched(d, inbox, ran, outcome) => Untouched(d, inbox', ran', outcome)
  BY <1>7, <1>9, <1>10 DEF Untouched
<1>12. UnsentOk(n, tasks, link, inbox', ran', outcome)
  <2>1. \A i \in DOMAIN tasks : tasks[i].call \in CallIds
    BY TaskType
  <2>2. link.pc # "idle" => link.call \in CallIds
    BY DEF TypeInv, Link
  <2> QED BY <1>2, <1>11, <2>1, <2>2 DEF CallsOk, UnsentOk
<1>13. SentOk(link, channel, inbox', ran', outcome)
  <2>1. link.pc = "wait" => link.call \in CallIds
    BY DEF TypeInv, Link
  <2> QED BY <1>2, <1>7, <1>9, <1>10, <1>11, <2>1 DEF CallsOk, SentOk
<1>14. HeldOk(n, link, channel, connections, inbox', asker, ran', outcome)
  <2> SUFFICES ASSUME NEW t \in Simulators, NEW i \in DOMAIN inbox[t]
               PROVE  LET x == inbox'[t][i] IN
                      /\ x.call <= n /\ x.session <= connections
                      /\ x.client = asker[x.call]
                      /\ ran'[x.call] = IF x.begun THEN 1 ELSE 0
                      /\ outcome[x.call] \in {"nothing", "unavailable"}
                      /\ channel # Nobody /\ x.session = channel.number =>
                           link.pc = "wait" /\ x.call = link.call /\ Silent(channel)
    BY <1>3 DEF HeldOk
  <2>1. HeldOk(n, link, channel, connections, inbox, asker, ran, outcome)
    BY <1>2 DEF CallsOk
  <2>2. CASE t = s /\ i = 1
    <3> DEFINE x == inbox'[t][i]
    <3>1. /\ x.begun = TRUE /\ x.call = c /\ x.session = inbox[s][1].session
          /\ x.client = inbox[s][1].client
      BY <1>4, <1>5, <2>2
    <3>2. /\ c <= n /\ inbox[s][1].session <= connections
          /\ inbox[s][1].client = asker[c]
          /\ outcome[c] \in {"nothing", "unavailable"}
          /\ channel # Nobody /\ inbox[s][1].session = channel.number =>
               link.pc = "wait" /\ c = link.call /\ Silent(channel)
      BY <1>1, <2>1 DEF HeldOk, c
    <3>3. ran'[c] = 1
      BY <1>6, <1>7
    <3> HIDE DEF x
    <3>4. /\ x.call <= n /\ x.session <= connections
          /\ x.client = asker[x.call]
          /\ ran'[x.call] = IF x.begun THEN 1 ELSE 0
          /\ outcome[x.call] \in {"nothing", "unavailable"}
          /\ channel # Nobody /\ x.session = channel.number =>
               link.pc = "wait" /\ x.call = link.call /\ Silent(channel)
      BY <3>1, <3>2, <3>3
    <3> QED BY <3>4 DEF x
  <2>3. CASE ~(t = s /\ i = 1)
    <3>1. inbox'[t][i] = inbox[t][i]
      BY <1>4, <2>3
    <3>2. inbox[t][i].call # c
      BY <1>1, <1>2, <2>3 DEF CallsOk, OnceOk, c
    <3>3. inbox[t][i].call \in CallIds
      BY EntryType
    <3> QED BY <1>7, <2>1, <3>1, <3>2, <3>3 DEF HeldOk
  <2> QED BY <2>2, <2>3
<1>15. OnceOk(inbox')
  BY <1>2, <1>3, <1>8 DEF CallsOk, OnceOk
<1>16. \A d \in CallIds : ran'[d] \in {0, 1}
  BY <1>2, <1>7 DEF CallsOk
<1> QED BY <1>1, <1>2, <1>12, <1>13, <1>14, <1>15, <1>16 DEF CallsOk, CallsInv

LEMMA CallsLine ==
  ASSUME Assumed, TypeInv, TypeInv', LinkInv, CallsInv, ClientLine
  PROVE  /\ CallsInv'
         /\ \/ UNCHANGED <<asker, outcome>>
            \/ \E c \in CallIds :
                 /\ c \notin Asked /\ Asked' = Asked \cup {c}
                 /\ UNCHANGED outcome \/ outcome' = [outcome EXCEPT ![c] = "refused"]
<1>1. PICK n \in 0..MaxCalls : CallsOk(n, tasks, link, channel, connections, inbox, asker, ran, outcome)
  BY DEF CallsInv
<1>2. UNCHANGED <<link, connections, channel, ran, inbox>>
  BY DEF ClientLine, simVars
<1>3. CASE UNCHANGED <<asker, tasks, outcome>>
  BY <1>1, <1>2, <1>3 DEF CallsInv
<1>4. CASE ~UNCHANGED <<asker, tasks, outcome>>
  <2>1. MaxCalls \in Nat /\ n \in Nat
    BY DEF Assumed, LinkAssumption
  <2> DEFINE c == n + 1
  <2>2. AskedOk(n, asker) /\ Asked = 1..n /\ 1 + Cardinality(Asked) = c
    BY <1>1, <2>1, AskedIs DEF CallsOk
  <2>3. PICK name \in Clients :
          /\ c \in CallIds /\ asker' = [asker EXCEPT ![c] = name]
          /\ \/ tasks' = Append(tasks, [call |-> c, client |-> name]) /\ UNCHANGED outcome
             \/ Told(c, "refused") /\ UNCHANGED tasks
    <3>1. PICK l \in Lines :
        LET step == OnLine(session, l) IN
          /\ step.outcome = "call"
          /\ LET k == 1 + Cardinality(Asked) IN
               /\ k \in CallIds
               /\ asker' = [asker EXCEPT ![k] =
                              IF l.era = "modern" THEN l.client ELSE session.legacy]
               /\ IF Len(tasks) < MaxTasks
                  THEN /\ tasks' = Append(tasks, [call |-> k, client |-> step.session.current])
                       /\ UNCHANGED outcome
                  ELSE Told(k, "refused") /\ UNCHANGED tasks
      BY <1>4 DEF ClientLine
    <3>2. l \in Line /\ session \in SessionType /\ NamesAssumption
      BY DEF Assumed, LinkAssumption, TypeInv
    <3>3. /\ OnLine(session, l).session.current = IF l.era = "modern" THEN l.client ELSE session.legacy
          /\ OnLine(session, l).session.current \in Clients
      BY <3>1, <3>2, LineOfCaller
    <3> QED BY <2>2, <3>1, <3>3
  <2>4. name # Nobody /\ c \in Nat /\ c > n
    BY <2>1, NothingIsNobody
  <2> HIDE DEF c
  <2>5. \A d \in CallIds : asker'[d] = IF d = c THEN name ELSE asker[d]
    BY <2>3 DEF TypeInv
  <2>6. \A d \in CallIds : d <= n => d # c /\ asker'[d] = asker[d]
    BY <2>1, <2>4, <2>5 DEF CallIds
  <2>7. c \in 0..MaxCalls /\ AskedOk(c, asker')
    <3>1. c \in 0..MaxCalls
      BY <2>3 DEF CallIds
    <3>2. \A d \in CallIds : d <= c <=> d <= n \/ d = c
      BY <2>1 DEF CallIds, c
    <3> QED BY <2>2, <2>4, <2>5, <3>1, <3>2 DEF AskedOk
  <2>8. Asked' = Asked \cup {c} /\ c \notin Asked
    BY <2>2, <2>3, <2>4, <2>5 DEF Asked, AskedOk
  <2>9. Untouched(c, inbox, ran, outcome)
    BY <1>1, <2>3, <2>4 DEF CallsOk, UnsentOk
  <2>10. HeldOk(c, link, channel, connections, inbox, asker', ran, outcome')
    <3> SUFFICES ASSUME NEW s \in Simulators, NEW i \in DOMAIN inbox[s]
                 PROVE  LET e == inbox[s][i] IN
                      /\ e.call <= c /\ e.session <= connections
                      /\ e.client = asker'[e.call]
                      /\ ran[e.call] = IF e.begun THEN 1 ELSE 0
                      /\ outcome'[e.call] \in {"nothing", "unavailable"}
                      /\ channel # Nobody /\ e.session = channel.number =>
                           link.pc = "wait" /\ e.call = link.call /\ Silent(channel)
      BY DEF HeldOk
    <3>1. inbox[s][i].call \in CallIds /\ inbox[s][i].call <= n
      BY <1>1, EntryType DEF CallsOk, HeldOk
    <3>2. inbox[s][i].call <= c
      BY <2>1, <2>4, <3>1 DEF CallIds
    <3>3. outcome'[inbox[s][i].call] = outcome[inbox[s][i].call]
      BY <2>3, <2>6, <3>1 DEF Told, TypeInv
    <3>4. HeldOk(n, link, channel, connections, inbox, asker, ran, outcome)
      BY <1>1 DEF CallsOk
    <3> QED BY <2>6, <3>1, <3>2, <3>3, <3>4 DEF HeldOk
  <2>11. \A d \in CallIds : d # c => outcome'[d] = outcome[d]
    BY <2>3 DEF Told, TypeInv
  <2>12. link.pc # "idle" => link.call \in CallIds /\ link.call <= n /\ link.call # c
    <3>1. link.pc # "idle" => link.call \in CallIds /\ link.call <= n
      BY <1>1 DEF TypeInv, Link, CallsOk, OrderOk
    <3> QED BY <2>6, <3>1
  <2>13. SentOk(link, channel, inbox, ran, outcome')
    BY <1>1, <2>11, <2>12 DEF CallsOk, SentOk, Untouched
  <2>14. \A i \in DOMAIN tasks : /\ tasks[i].call \in CallIds /\ tasks[i].call \in Nat
                                 /\ tasks[i].call <= n /\ tasks[i].call # c
    <3>1. \A i \in DOMAIN tasks : tasks[i].call \in CallIds /\ tasks[i].call \in Nat /\ tasks[i].call <= n
      BY <1>1, TaskType DEF CallsOk, OrderOk
    <3> QED BY <2>6, <3>1
  <2> DEFINE x == [call |-> c, client |-> name]
  <2>15. \A i \in DOMAIN tasks' : \/ i \in DOMAIN tasks /\ tasks'[i] = tasks[i]
                                  \/ /\ UNCHANGED outcome /\ i = Len(tasks) + 1
                                     /\ tasks'[i].call = c /\ tasks'[i].client = name
    <3>1. CASE UNCHANGED tasks
      BY <3>1
    <3>2. CASE tasks' = Append(tasks, x) /\ UNCHANGED outcome
      <4>1. x \in Task /\ x.call = c /\ x.client = name /\ tasks \in Seq(Task)
        BY <2>3 DEF Task, TypeInv
      <4> HIDE DEF x
      <4>2. \A i \in DOMAIN Append(tasks, x) :
              \/ i \in DOMAIN tasks /\ Append(tasks, x)[i] = tasks[i]
              \/ i = Len(tasks) + 1 /\ Append(tasks, x)[i] = x
        BY <4>1, AppendProperties
      <4> QED BY <3>2, <4>1, <4>2
    <3> QED BY <2>3, <3>1, <3>2
  <2>16. tasks \in Seq(Task) /\ tasks' \in Seq(Task)
    BY DEF TypeInv
  <2>17. OrderOk(c, tasks', link, asker')
    <3>1. \A i \in DOMAIN tasks' : tasks'[i].call <= c /\ tasks'[i].client = asker'[tasks'[i].call]
      <4> SUFFICES ASSUME NEW i \in DOMAIN tasks'
                   PROVE  tasks'[i].call <= c /\ tasks'[i].client = asker'[tasks'[i].call]
        OBVIOUS
      <4>1. CASE tasks'[i].call = c /\ tasks'[i].client = name
        BY <2>3, <2>4, <2>5, <4>1
      <4>2. CASE i \in DOMAIN tasks /\ tasks'[i] = tasks[i]
        <5>1. tasks[i].call \in Nat /\ tasks[i].call <= n /\ tasks[i].client = asker[tasks[i].call]
              /\ asker'[tasks[i].call] = asker[tasks[i].call]
          BY <1>1, <2>6, <2>14, <4>2 DEF CallsOk, OrderOk
        <5> QED BY <2>1, <2>4, <4>2, <5>1
      <4> QED BY <2>15, <4>1, <4>2
    <3>2. \A i, j \in DOMAIN tasks' : i < j => tasks'[i].call < tasks'[j].call
      <4> SUFFICES ASSUME NEW i \in DOMAIN tasks', NEW j \in DOMAIN tasks', i < j
                   PROVE  tasks'[i].call < tasks'[j].call
        OBVIOUS
      <4>1. i \in Nat /\ j \in Nat /\ j <= Len(tasks')
        BY <2>16
      <4>2. i \in DOMAIN tasks /\ tasks'[i] = tasks[i]
        <5>1. Len(tasks') <= Len(tasks) + 1
          BY <2>3, <2>16
        <5> QED BY <2>15, <2>16, <4>1, <5>1
      <4>3. CASE j \in DOMAIN tasks /\ tasks'[j] = tasks[j]
        BY <1>1, <4>2, <4>3 DEF CallsOk, OrderOk
      <4>4. CASE tasks'[j].call = c
        BY <2>1, <2>4, <2>14, <4>2, <4>4
      <4> QED BY <2>15, <4>3, <4>4
    <3>3. link.pc # "idle" => /\ link.call <= c /\ link.client = asker'[link.call]
                              /\ \A i \in DOMAIN tasks' : link.call < tasks'[i].call
      <4> SUFFICES ASSUME link.pc # "idle"
                   PROVE  /\ link.call <= c /\ link.client = asker'[link.call]
                          /\ \A i \in DOMAIN tasks' : link.call < tasks'[i].call
        OBVIOUS
      <4>1. link.call \in Nat /\ link.call <= n /\ asker'[link.call] = asker[link.call]
        BY <2>6, <2>12 DEF CallIds
      <4>2. /\ link.client = asker[link.call]
            /\ \A i \in DOMAIN tasks : link.call < tasks[i].call
        BY <1>1 DEF CallsOk, OrderOk
      <4>3. link.call < c
        BY <2>1, <2>4, <4>1
      <4> QED BY <2>4, <2>15, <4>1, <4>2, <4>3
    <3> QED BY <3>1, <3>2, <3>3 DEF OrderOk
  <2>18. DialsOk(c, tasks', link, channel, connections)
    <3>1. connections \in Nat /\ connections <= n
      BY <1>1 DEF TypeInv, CallsOk, DialsOk
    <3>2. connections < c
      BY <2>1, <2>4, <3>1
    <3> QED BY <1>1, <2>4, <2>15, <3>1, <3>2 DEF CallsOk, DialsOk
  <2>19. UnsentOk(c, tasks', link, inbox, ran, outcome')
    <3>1. \A d \in CallIds : d > c => d > n /\ d # c
      BY <2>1, <2>4 DEF CallIds
    <3>2. \A d \in CallIds : d # c => (Untouched(d, inbox, ran, outcome) => Untouched(d, inbox, ran, outcome'))
      BY <2>11 DEF Untouched
    <3>3. \A d \in CallIds : d > c => Untouched(d, inbox, ran, outcome')
      BY <1>1, <3>1, <3>2 DEF CallsOk, UnsentOk
    <3>4. \A i \in DOMAIN tasks' : Untouched(tasks'[i].call, inbox, ran, outcome')
      <4> SUFFICES ASSUME NEW i \in DOMAIN tasks'
                   PROVE  Untouched(tasks'[i].call, inbox, ran, outcome')
        OBVIOUS
      <4>1. CASE UNCHANGED outcome /\ tasks'[i].call = c
        BY <2>9, <4>1
      <4>2. CASE i \in DOMAIN tasks /\ tasks'[i] = tasks[i]
        BY <1>1, <2>14, <3>2, <4>2 DEF CallsOk, UnsentOk
      <4> QED BY <2>15, <4>1, <4>2
    <3>5. link.pc \in {"call", "dial", "hello"} => Untouched(link.call, inbox, ran, outcome')
      BY <1>1, <2>12, <3>2 DEF CallsOk, UnsentOk
    <3> QED BY <3>3, <3>4, <3>5 DEF UnsentOk
  <2>20. CallsOk(c, tasks', link, channel, connections, inbox, asker', ran, outcome')
    BY <1>1, <2>7, <2>10, <2>13, <2>17, <2>18, <2>19 DEF CallsOk
  <2>21. CallsInv'
    BY <1>2, <2>7, <2>20 DEF CallsInv
  <2> QED BY <2>3, <2>8, <2>21 DEF Told
<1> QED BY <1>3, <1>4

LEMMA CallsReturned ==
  ASSUME Assumed, TypeInv, TypeInv', LinkInv, NEW n \in 0..MaxCalls,
         CallsOk(n, tasks, link, channel, connections, inbox, asker, ran, outcome),
         link.pc # "idle", NEW what \in Tellings, Return(what),
         UNCHANGED <<tasks, connections, inbox, asker, ran>>,
         what = "unavailable" \/ ~Received(link.call, inbox),
         channel' # Nobody => \A s \in Simulators : \A i \in DOMAIN inbox[s] : inbox[s][i].session # channel'.number
  PROVE  CallsInv'
<1>1. link'.pc = "idle" /\ \A d \in CallIds : outcome'[d] = IF d = link.call THEN what ELSE outcome[d]
  BY DEF Return, Told, IdleLink, TypeInv
<1>2. link.call \in CallIds /\ link.call <= n /\ link.call \in Nat
  BY DEF TypeInv, Link, CallsOk, OrderOk, CallIds
<1>3. \A i \in DOMAIN tasks : tasks[i].call \in CallIds /\ tasks[i].call # link.call
  <2>1. \A i \in DOMAIN tasks : link.call < tasks[i].call
    BY DEF CallsOk, OrderOk
  <2> QED BY <1>2, <2>1, TaskType
<1>4. \A d \in CallIds : d # link.call => (Untouched(d, inbox, ran, outcome) => Untouched(d, inbox, ran, outcome'))
  BY <1>1 DEF Untouched
<1>5. \A d \in CallIds : d > n => d # link.call
  BY <1>2 DEF CallIds
<1>6. UnsentOk(n, tasks, link', inbox, ran, outcome')
  BY <1>1, <1>3, <1>4, <1>5 DEF CallsOk, UnsentOk
<1>7. OrderOk(n, tasks, link', asker) /\ DialsOk(n, tasks, link', channel', connections)
      /\ SentOk(link', channel', inbox, ran, outcome')
  BY <1>1 DEF CallsOk, OrderOk, DialsOk, SentOk
<1>8. HeldOk(n, link', channel', connections, inbox, asker, ran, outcome')
  <2> SUFFICES ASSUME NEW s \in Simulators, NEW i \in DOMAIN inbox[s]
               PROVE  LET e == inbox[s][i] IN
                      /\ e.call <= n /\ e.session <= connections
                      /\ e.client = asker[e.call]
                      /\ ran[e.call] = IF e.begun THEN 1 ELSE 0
                      /\ outcome'[e.call] \in {"nothing", "unavailable"}
                      /\ channel' # Nobody /\ e.session = channel'.number =>
                           link'.pc = "wait" /\ e.call = link'.call /\ Silent(channel')
    BY DEF HeldOk
  <2>1. HeldOk(n, link, channel, connections, inbox, asker, ran, outcome)
    BY DEF CallsOk
  <2>2. inbox[s][i].call \in CallIds
    BY EntryType
  <2>3. inbox[s][i].call = link.call => what = "unavailable"
    BY DEF Received
  <2>4. outcome'[inbox[s][i].call] \in {"nothing", "unavailable"}
    BY <1>1, <2>1, <2>2, <2>3 DEF HeldOk
  <2> QED BY <2>1, <2>4 DEF HeldOk
<1> QED BY <1>6, <1>7, <1>8 DEF CallsOk, CallsInv

LEMMA CallsMoved ==
  ASSUME Assumed, TypeInv, TypeInv', LinkInv, NEW n \in 0..MaxCalls,
         CallsOk(n, tasks, link, channel, connections, inbox, asker, ran, outcome),
         link.pc \in {"call", "dial", "hello"}, link'.pc \in {"call", "dial", "hello", "wait"},
         link'.call = link.call, link'.client = link.client,
         UNCHANGED <<tasks, inbox, asker, ran, outcome>>,
         connections <= connections', connections' <= link.call,
         channel' = Nobody => connections' < link.call,
         link'.pc = "wait" => channel'.down = Nobody,
         channel' # Nobody => \A s \in Simulators : \A i \in DOMAIN inbox[s] : inbox[s][i].session # channel'.number
  PROVE  CallsInv'
<1>1. link.call \in Nat /\ link.call <= n /\ n \in Nat /\ connections \in Nat /\ connections' \in Nat
  BY DEF TypeInv, Link, CallsOk, OrderOk, CallIds
<1>2. \A i \in DOMAIN tasks : link.call < tasks[i].call /\ tasks[i].call \in Nat
  BY TaskType DEF CallsOk, OrderOk
<1>3. OrderOk(n, tasks, link', asker)
  BY DEF CallsOk, OrderOk
<1>4. DialsOk(n, tasks, link', channel', connections')
  <2>1. connections' <= n
    BY <1>1
  <2>2. \A i \in DOMAIN tasks : connections' < tasks[i].call
    BY <1>1, <1>2
  <2> QED BY <2>1, <2>2 DEF DialsOk
<1>5. UnsentOk(n, tasks, link', inbox, ran, outcome) /\ SentOk(link', channel', inbox, ran, outcome)
  BY DEF CallsOk, UnsentOk, SentOk, Untouched
<1>6. HeldOk(n, link', channel', connections', inbox, asker, ran, outcome)
  <2> SUFFICES ASSUME NEW s \in Simulators, NEW i \in DOMAIN inbox[s]
               PROVE  LET e == inbox[s][i] IN
                      /\ e.call <= n /\ e.session <= connections'
                      /\ e.client = asker[e.call]
                      /\ ran[e.call] = IF e.begun THEN 1 ELSE 0
                      /\ outcome[e.call] \in {"nothing", "unavailable"}
                      /\ channel' # Nobody /\ e.session = channel'.number =>
                           link'.pc = "wait" /\ e.call = link'.call /\ Silent(channel')
    BY DEF HeldOk
  <2>1. HeldOk(n, link, channel, connections, inbox, asker, ran, outcome)
    BY DEF CallsOk
  <2>2. inbox[s][i].session \in Nat /\ inbox[s][i].session <= connections
    BY <2>1, EntryType DEF HeldOk
  <2>3. inbox[s][i].session <= connections'
    BY <1>1, <2>2
  <2> QED BY <2>1, <2>3 DEF HeldOk
<1> QED BY <1>3, <1>4, <1>5, <1>6 DEF CallsOk, CallsInv

LEMMA CallsTaken ==
  ASSUME Assumed, TypeInv, TypeInv', LinkInv, CallsInv, TakeTask
  PROVE  CallsInv'
<1>1. PICK n \in 0..MaxCalls : CallsOk(n, tasks, link, channel, connections, inbox, asker, ran, outcome)
  BY DEF CallsInv
<1>2. UNCHANGED <<connections, inbox, asker, ran, outcome>> /\ link.pc = "idle" /\ tasks' = Tail(tasks)
      /\ channel' \in {channel, Nobody}
  BY DEF TakeTask, simVars, ChannelFor
<1>3. /\ 1 \in DOMAIN tasks /\ link'.pc = "call" /\ link'.client = tasks[1].client /\ link'.call = tasks[1].call
  BY TypeOfTake
<1>4. \A i \in DOMAIN tasks' : /\ i + 1 \in DOMAIN tasks /\ tasks'[i] = tasks[i + 1]
                               /\ i \in Nat /\ 1 < i + 1
  <2>1. tasks \in Seq(Task) /\ tasks # <<>>
    BY DEF TypeInv, TakeTask
  <2>2. /\ Tail(tasks) \in Seq(Task) /\ Len(Tail(tasks)) = Len(tasks) - 1
        /\ \A i \in 1..Len(Tail(tasks)) : Tail(tasks)[i] = tasks[i + 1]
    BY <2>1, HeadTailProperties
  <2> QED BY <1>2, <2>1, <2>2
<1>5. OrderOk(n, tasks, link, asker) /\ DialsOk(n, tasks, link, channel, connections)
      /\ UnsentOk(n, tasks, link, inbox, ran, outcome)
      /\ HeldOk(n, link, channel, connections, inbox, asker, ran, outcome)
  BY <1>1 DEF CallsOk
<1>6. OrderOk(n, tasks', link', asker)
  <2>1. \A i, j \in DOMAIN tasks' : i < j => tasks'[i].call < tasks'[j].call
    <3>1. \A i, j \in DOMAIN tasks' : i < j => i + 1 < j + 1
      BY <1>4
    <3> QED BY <1>4, <1>5, <3>1 DEF OrderOk
  <2> QED BY <1>3, <1>4, <1>5, <2>1 DEF OrderOk
<1>7. DialsOk(n, tasks', link', channel', connections)
  <2>1. connections < tasks[1].call /\ connections \in Nat /\ tasks[1].call \in Nat
    BY <1>3, <1>5, TaskType DEF DialsOk, TypeInv
  <2>2. connections <= tasks[1].call
    BY <2>1
  <2> QED BY <1>3, <1>4, <1>5, <2>1, <2>2 DEF DialsOk
<1>8. UnsentOk(n, tasks', link', inbox, ran, outcome) /\ SentOk(link', channel', inbox, ran, outcome)
  BY <1>3, <1>4, <1>5 DEF UnsentOk, SentOk
<1>9. HeldOk(n, link', channel', connections, inbox, asker, ran, outcome)
  BY <1>2, <1>5 DEF HeldOk
<1> QED BY <1>1, <1>2, <1>6, <1>7, <1>8, <1>9 DEF CallsOk, CallsInv

\* The caller thread answers a call as CallService says, and does nothing else to it.
LEMMA CallsOfLink ==
  ASSUME Assumed, TypeInv, TypeInv', LinkInv, CallsInv, LinkStep
  PROVE  /\ CallsInv' /\ UNCHANGED <<asker, ran>>
         /\ UNCHANGED outcome \/ \E c \in CallIds, t \in Tellings \ {"nothing"} : Service!Tell(c, t)
<1>1. PICK n \in 0..MaxCalls : CallsOk(n, tasks, link, channel, connections, inbox, asker, ran, outcome)
  BY DEF CallsInv
<1>2. UNCHANGED <<inbox, asker, ran>>
  BY DEF LinkStep, TakeTask, ReadEndpoint, Dial, ReadGreeting, SendCall, ReadReply, GiveUp, simVars
<1>3. ASSUME TakeTask
      PROVE  CallsInv' /\ UNCHANGED outcome
  BY <1>3, CallsTaken DEF TakeTask
<1> DEFINE Tells(what) ==
      /\ Return(what) /\ UNCHANGED <<tasks, connections>> /\ link.pc # "idle"
      /\ outcome[link.call] = "nothing"
      /\ what \in Tellings \ {"nothing"}
      /\ what = "unavailable" \/ ~Received(link.call, inbox)
      /\ what = "done" => ran[link.call] = 1
      /\ what \in {"refused", "mismatch"} => ran[link.call] = 0
      /\ channel' # Nobody => \A s \in Simulators : \A i \in DOMAIN inbox[s] :
                                inbox[s][i].session # channel'.number
    Moves ==
      /\ link.pc \in {"call", "dial", "hello"} /\ link'.pc \in {"call", "dial", "hello", "wait"}
      /\ link'.call = link.call /\ link'.client = link.client
      /\ UNCHANGED <<tasks, outcome>>
      /\ connections <= connections' /\ connections' <= link.call
      /\ channel' = Nobody => connections' < link.call
      /\ link'.pc = "wait" => channel'.down = Nobody
      /\ channel' # Nobody => \A s \in Simulators : \A i \in DOMAIN inbox[s] :
                                inbox[s][i].session # channel'.number
<1>4. ASSUME NEW what, Tells(what)
      PROVE  CallsInv' /\ \E c \in CallIds, t \in Tellings \ {"nothing"} : Service!Tell(c, t)
  <2>1. CallsInv'
    BY <1>1, <1>2, <1>4, CallsReturned
  <2>2. link.call \in CallIds /\ link.call <= n
    BY <1>1, <1>4 DEF TypeInv, Link, CallsOk, OrderOk
  <2>3. link.call \in Asked
    BY <1>1, <2>2 DEF CallsOk, AskedOk, Asked
  <2>4. Service!Tell(link.call, what)
    BY <1>2, <1>4, <2>3 DEF Service!Tell, Return, Told, Asked
  <2> QED BY <1>4, <2>1, <2>2, <2>4
<1>5. Moves => CallsInv' /\ UNCHANGED outcome
  BY <1>1, <1>2, CallsMoved
<1>6. connections \in Nat /\ (link.pc # "idle" => link.call \in Nat /\ connections <= link.call)
  BY <1>1 DEF TypeInv, Link, CallIds, CallsOk, DialsOk
<1>7. channel # Nobody /\ link.pc # "wait" =>
        \A s \in Simulators : \A i \in DOMAIN inbox[s] : inbox[s][i].session # channel.number
  BY <1>1 DEF CallsOk, HeldOk
<1>8. link.pc \in {"call", "dial", "hello"} => Untouched(link.call, inbox, ran, outcome)
  BY <1>1 DEF CallsOk, UnsentOk
<1>9. {"done", "busy", "refused", "mismatch", "unavailable"} \subseteq Tellings \ {"nothing"}
  BY DEF Tellings
<1>10. \A pc \in Pcs \ {"idle"} : link.pc # "idle" /\ link' = [link EXCEPT !.pc = pc] =>
         link'.pc = pc /\ link'.client = link.client /\ link'.read = link.read /\ link'.call = link.call
  BY DEF TypeInv, Link
<1> HIDE DEF Moves, Tells
<1>11. ASSUME ReadEndpoint
       PROVE  Moves \/ \E what : Tells(what)
  <2>1. channel = Nobody /\ channel' = Nobody /\ link.pc = "call" /\ UNCHANGED <<tasks, connections>>
    BY <1>11 DEF ReadEndpoint, Connected
  <2>2. ASSUME NEW what \in {"unavailable", "mismatch"}, Return(what)
        PROVE  Tells(what)
    BY <1>8, <1>9, <2>1, <2>2 DEF Tells, Untouched
  <2>3. ASSUME link' = [link EXCEPT !.pc = "dial", !.read = EndpointRead], UNCHANGED outcome
        PROVE  Moves
    <3>1. link'.pc = "dial" /\ link'.call = link.call /\ link'.client = link.client
      BY <2>3 DEF TypeInv, Link
    <3>2. connections < link.call
      BY <1>1, <2>1 DEF CallsOk, DialsOk
    <3> QED BY <1>6, <2>1, <2>3, <3>1, <3>2 DEF Moves
  <2> QED BY <1>11, <2>2, <2>3 DEF ReadEndpoint
<1>12. ASSUME Dial
       PROVE  Moves \/ \E what : Tells(what)
  <2>1. link.pc = "dial" /\ UNCHANGED tasks /\ channel = Nobody
    BY <1>12 DEF Dial, LinkInv, LinkOk
  <2>2. CASE ~PortTaken(link.read.port)
    <3>1. Return("unavailable") /\ UNCHANGED <<connections, channel>>
      BY <1>12, <2>2 DEF Dial
    <3>2. Tells("unavailable")
      BY <1>8, <1>9, <2>1, <3>1 DEF Tells, Untouched
    <3> QED BY <3>2
  <2>3. CASE PortTaken(link.read.port)
    <3>1. channel' # Nobody /\ connections' = connections + 1 /\ UNCHANGED outcome
          /\ link' = [link EXCEPT !.pc = "hello"]
      BY <1>12, <2>3, DialedIsOpen DEF Dial
    <3>2. channel'.number = connections + 1
      BY <1>12, <2>3 DEF Dial, NewChannel
    <3>3. \A s \in Simulators : \A i \in DOMAIN inbox[s] : inbox[s][i].session # channel'.number
      <4>1. \A s \in Simulators : \A i \in DOMAIN inbox[s] :
              inbox[s][i].session \in Nat /\ inbox[s][i].session <= connections
        BY <1>1, EntryType DEF CallsOk, HeldOk
      <4> QED BY <1>6, <3>2, <4>1
    <3>4. connections < link.call
      BY <1>1, <2>1 DEF CallsOk, DialsOk
    <3>5. link'.pc = "hello" /\ link'.call = link.call /\ link'.client = link.client
      BY <1>10, <2>1, <3>1 DEF Pcs
    <3>6. connections <= connections' /\ connections' <= link.call
      BY <1>6, <2>1, <3>1, <3>4
    <3> QED BY <2>1, <3>1, <3>3, <3>5, <3>6 DEF Moves
  <2> QED BY <2>2, <2>3
<1>13. ASSUME ReadGreeting
       PROVE  Moves \/ \E what : Tells(what)
  <2>1. link.pc = "hello" /\ channel # Nobody /\ UNCHANGED <<tasks, connections>>
    BY <1>13 DEF ReadGreeting, Reads, Connected
  <2>2. ASSUME NEW what \in {"unavailable", "mismatch"}, ReturnDropped(what)
        PROVE  Tells(what)
    BY <1>8, <1>9, <2>1, <2>2 DEF Tells, Untouched, ReturnDropped
  <2>3. ASSUME link' = [link EXCEPT !.pc = "call"], channel' = [channel EXCEPT !.down = Nobody], UNCHANGED outcome
        PROVE  Moves
    <3>1. link'.pc = "call" /\ link'.call = link.call /\ link'.client = link.client
      BY <1>10, <2>1, <2>3 DEF Pcs
    <3>2. channel \in Channel /\ channel'.number = channel.number
      BY <2>1, <2>3 DEF TypeInv, Channel
    <3>3. channel' # Nobody
      <4>1. [kind |-> "call", call |-> link.call] \in Ups /\ link.client \in Clients
        BY <2>1, Messages DEF TypeInv, Link
      <4> QED BY <2>3, <3>2, <4>1, Changed, NothingIsNobody
    <3> QED BY <1>6, <1>7, <2>1, <2>3, <3>1, <3>2, <3>3 DEF Moves
  <2> QED BY <1>13, <2>2, <2>3 DEF ReadGreeting
<1>14. ASSUME SendCall
       PROVE  Moves
  <2>1. link.pc = "call" /\ channel # Nobody /\ channel \in Channel /\ UNCHANGED <<tasks, connections, outcome>>
        /\ link' = [link EXCEPT !.pc = "wait"]
    BY <1>14 DEF SendCall, Connected, TypeInv
  <2>2. link'.pc = "wait" /\ link'.call = link.call /\ link'.client = link.client
    BY <1>10, <2>1 DEF Pcs
  <2>3. channel' # Nobody
    BY <2>2, LinkOfStep DEF LinkInv, LinkOk
  <2>4. channel'.number = channel.number /\ channel'.down = Nobody
    <3>1. channel.down = Nobody
      BY <2>1 DEF LinkInv, LinkOk, Silent
    <3>2. CASE channel' = channel
      BY <3>1, <3>2
    <3>3. CASE channel' = [channel EXCEPT !.up = [kind |-> "call", call |-> link.call]]
      <4>1. [kind |-> "call", call |-> link.call] \in Ups /\ link.client \in Clients
        BY <2>1, Messages DEF TypeInv, Link
      <4> QED BY <2>1, <3>1, <3>3, <4>1, Changed
    <3> QED BY <1>14, <3>2, <3>3 DEF SendCall
  <2> QED BY <1>6, <1>7, <2>1, <2>2, <2>3, <2>4 DEF Moves
<1>15. ASSUME ReadReply
       PROVE  \E what : Tells(what)
  <2> DEFINE what == Meaning(channel.down.kind)
  <2>1. link.pc = "wait" /\ channel # Nobody /\ channel.down # Nobody /\ UNCHANGED <<tasks, connections>>
        /\ Return(what)
    BY <1>15 DEF ReadReply, Reads, Connected
  <2>2. what \in {"done", "busy", "refused", "unavailable"}
        /\ (what = "done" => channel.down.kind = "result")
        /\ (what = "refused" => channel.down.kind = "refused")
    BY DEF Meaning
  <2>3. /\ outcome[link.call] = "nothing" /\ ~Received(link.call, inbox)
        /\ channel.down.kind = "result" => ran[link.call] = 1
        /\ channel.down.kind = "refused" => ran[link.call] = 0
    BY <1>1, <2>1 DEF CallsOk, SentOk
  <2>4. channel' # Nobody => \A s \in Simulators : \A i \in DOMAIN inbox[s] :
                               inbox[s][i].session # channel'.number
    <3> SUFFICES ASSUME channel' # Nobody
                 PROVE  \A s \in Simulators : \A i \in DOMAIN inbox[s] : inbox[s][i].session # channel'.number
      OBVIOUS
    <3>1. channel' = [channel EXCEPT !.down = Nobody] /\ channel \in Channel
      BY <1>15, <2>1 DEF ReadReply, TypeInv
    <3>2. channel'.number = channel.number
      BY <3>1 DEF Channel
    <3>3. \A s \in Simulators : \A i \in DOMAIN inbox[s] : inbox[s][i].session # channel.number
      BY <1>1, <2>1 DEF CallsOk, HeldOk, Silent
    <3> QED BY <3>2, <3>3
  <2> HIDE DEF what
  <2>5. Tells(what)
    BY <1>9, <2>1, <2>2, <2>3, <2>4 DEF Tells
  <2> QED BY <2>5
<1>16. ASSUME GiveUp
       PROVE  \E what : Tells(what)
  <2>1. link.pc \in {"hello", "wait"} /\ UNCHANGED <<tasks, connections>>
        /\ Return("unavailable") /\ channel' = Nobody
    BY <1>16 DEF GiveUp, ReturnDropped
  <2>2. outcome[link.call] = "nothing"
    BY <1>1, <1>8, <2>1 DEF CallsOk, SentOk, Untouched
  <2>3. Tells("unavailable")
    BY <1>9, <2>1, <2>2 DEF Tells
  <2> QED BY <2>3
<1> QED BY <1>2, <1>3, <1>4, <1>5, <1>11, <1>12, <1>13, <1>14, <1>15, <1>16 DEF LinkStep

-----------------------------------------------------------------------------
(* The steps together *)

LinkAndCalls == TypeInv /\ LinkInv /\ CallsInv

\* What a step is to the service: it lets a call in, runs it, answers it, or is nothing.
ServiceStep == Service!Next \/ UNCHANGED Service!vars

LEMMA StepOfSimulator ==
  ASSUME Assumed, LinkAndCalls, NEW s \in Simulators, SimulatorStep(s)
  PROVE  LinkAndCalls' /\ ServiceStep
<1> USE DEF LinkAndCalls
<1>1. TypeInv'
  BY TypeOfSimulator
<1>2. UNCHANGED <<tasks, link, connections, asker, ran, outcome>>
  BY DEF SimulatorStep, StartServer, PublishEndpoint, FailStart, ListenerDies, StopServer,
         LeaveEndpoint, Crash, bridgeVars
<1>3. ServiceStep
  BY <1>2 DEF ServiceStep, Service!vars, Asked
<1>4. CASE StopServer(s)
  BY <1>1, <1>3, <1>4, StepOfStop
<1>5. CASE StartServer(s) \/ PublishEndpoint(s) \/ FailStart(s) \/ ListenerDies(s) \/ LeaveEndpoint(s) \/ Crash(s)
  <2>1. LeftOf(inbox', inbox)
    <3>1. inbox' = inbox \/ inbox' = [inbox EXCEPT ![s] = <<>>]
      BY <1>5 DEF StartServer, PublishEndpoint, FailStart, ListenerDies, LeaveEndpoint, Crash
    <3>2. CASE inbox' = inbox
      BY <3>2, LeftSame
    <3>3. CASE inbox' = [inbox EXCEPT ![s] = <<>>]
      BY <3>3, LeftNone
    <3> QED BY <3>1, <3>2, <3>3
  <2>2. channel' = channel \/ (Connected /\ channel' = Hangs(channel))
    BY <1>5 DEF StartServer, PublishEndpoint, FailStart, ListenerDies, LeaveEndpoint, Crash, CloseEnd, Leads
  <2>3. LinkInv'
    BY <1>2, <2>2, LinkQuiet
  <2>4. PICK n \in 0..MaxCalls : CallsOk(n, tasks, link, channel, connections, inbox, asker, ran, outcome)
    BY DEF CallsInv
  <2>5. CallsInv'
    BY <1>1, <1>2, <2>1, <2>2, <2>4, CallsQuiet
  <2> QED BY <1>1, <1>3, <2>3, <2>5
<1> QED BY <1>4, <1>5 DEF SimulatorStep

LEMMA StepOfServer ==
  ASSUME Assumed, LinkAndCalls, NEW s \in Simulators, ServerStep(s)
  PROVE  LinkAndCalls' /\ ServiceStep
<1> USE DEF LinkAndCalls
<1>1. TypeInv'
  BY TypeOfServerStep
<1>2. UNCHANGED <<tasks, link, connections, asker, outcome>>
  BY DEF ServerStep, TurnAway, AnswerHello, ReceiveCall, BeginCall, FinishCall, ParkedTooLong, Respond, bridgeVars
<1>3. UNCHANGED ran => ServiceStep
  BY <1>2 DEF ServiceStep, Service!vars, Asked
<1>4. CASE TurnAway(s) \/ AnswerHello(s)
  <2>1. Connected /\ link.pc = "hello" /\ UNCHANGED <<inbox, ran>>
    BY <1>4, HelloIsGreeting DEF TurnAway, AnswerHello, simVars
  <2>2. LinkInv'
    <3>1. CASE TurnAway(s)
      BY <1>2, <2>1, <3>1, LinkPosted, Messages DEF TurnAway
    <3>2. CASE AnswerHello(s)
      BY <3>2, LinkGreeted
    <3> QED BY <1>4, <3>1, <3>2
  <2>3. channel # Nobody /\ channel' # Nobody /\ channel.number = connections /\ channel'.number = connections'
    BY <1>2, <2>1, <2>2 DEF LinkInv, LinkOk, Connected
  <2>4. CallsInv'
    BY <1>2, <2>1, <2>3, CallsGreeting
  <2> QED BY <1>1, <1>3, <2>1, <2>2, <2>4
<1>5. CASE ReceiveCall(s)
  BY <1>1, <1>3, <1>5, LinkReceived, CallsReceived DEF ReceiveCall
<1>6. CASE BeginCall(s)
  <2>1. channel' = channel /\ UNCHANGED <<link, connections>>
    BY <1>6 DEF BeginCall, bridgeVars
  <2>2. LinkInv'
    BY <2>1, LinkQuiet
  <2>3. CallsInv'
    BY <1>1, <1>6, CallsBegun
  <2>4. Service!Next
    <3> DEFINE c == inbox[s][1].call
    <3>1. /\ 1 \in DOMAIN inbox[s] /\ ~inbox[s][1].begun
          /\ ran' = [ran EXCEPT ![c] = @ + 1]
      BY <1>6, TypeOfHolder DEF BeginCall
    <3>2. PICK n \in 0..MaxCalls : CallsOk(n, tasks, link, channel, connections, inbox, asker, ran, outcome)
      BY DEF CallsInv
    <3>3. c \in CallIds /\ c <= n /\ ran[c] = 0 /\ outcome[c] \in {"nothing", "unavailable"}
      BY <3>1, <3>2, EntryType DEF CallsOk, HeldOk
    <3>4. c \in Asked
      BY <3>2, <3>3 DEF CallsOk, AskedOk, Asked
    <3> HIDE DEF c
    <3>5. ran' = [ran EXCEPT ![c] = 1]
      BY <3>1, <3>3
    <3>6. Service!Run(c)
      BY <1>2, <3>3, <3>4, <3>5 DEF Service!Run, Service!Settled, Asked
    <3> QED BY <3>3, <3>6 DEF Service!Next
  <2> QED BY <1>1, <2>2, <2>3, <2>4 DEF ServiceStep
<1>7. CASE FinishCall(s) \/ ParkedTooLong(s)
  <2>1. UNCHANGED ran
    BY <1>7 DEF FinishCall, ParkedTooLong, Respond
  <2> QED BY <1>1, <1>3, <1>7, <2>1, StepOfAnswer
<1> QED BY <1>4, <1>5, <1>6, <1>7 DEF ServerStep

LEMMA LinkAndCallsStep ==
  ASSUME Assumed, LinkAndCalls, [Next]_vars
  PROVE  LinkAndCalls' /\ ServiceStep
<1>1. CASE UNCHANGED vars
  <2>1. ServiceStep
    BY <1>1 DEF vars, simVars, bridgeVars, ServiceStep, Service!vars, Asked
  <2>2. TypeInv'
    BY <1>1, TypeStep DEF LinkAndCalls
  <2>3. LinkInv' /\ CallsInv'
    BY <1>1 DEF vars, simVars, bridgeVars, LinkAndCalls, LinkInv, CallsInv
  <2> QED BY <2>1, <2>2, <2>3 DEF LinkAndCalls
<1>2. CASE \E p \in Ports : TakePort(p)
  <2>1. UNCHANGED <<tasks, link, channel, connections, inbox, asker, ran, outcome>>
    BY <1>2 DEF TakePort, bridgeVars
  <2>2. TypeInv'
    BY TypeStep DEF LinkAndCalls
  <2>3. LinkInv' /\ CallsInv'
    BY <2>1 DEF LinkAndCalls, LinkInv, CallsInv
  <2> QED BY <2>1, <2>2, <2>3 DEF LinkAndCalls, ServiceStep, Service!vars, Asked
<1>3. CASE ForeignAnswers
  <2>1. UNCHANGED <<tasks, link, connections, inbox, asker, ran, outcome>>
    BY <1>3 DEF ForeignAnswers, bridgeVars, simVars
  <2>2. LinkInv' /\ link.pc = "hello"
    BY <1>3, LinkOfForeign DEF LinkAndCalls
  <2>3. channel # Nobody /\ channel' # Nobody /\ channel.number = connections /\ channel'.number = connections'
    BY <2>1, <2>2 DEF LinkAndCalls, LinkInv, LinkOk
  <2>4. CallsInv'
    BY <2>1, <2>2, <2>3, CallsGreeting DEF LinkAndCalls
  <2>5. TypeInv'
    BY TypeStep DEF LinkAndCalls
  <2> QED BY <2>1, <2>2, <2>4, <2>5 DEF LinkAndCalls, ServiceStep, Service!vars, Asked
<1>4. CASE ClientLine
  <2>1. TypeInv'
    BY TypeStep DEF LinkAndCalls
  <2>2. UNCHANGED <<link, channel, connections, ran>>
    BY <1>4 DEF ClientLine
  <2>3. LinkInv'
    BY <2>2 DEF LinkAndCalls, LinkInv
  <2>4. /\ CallsInv'
        /\ \/ UNCHANGED <<asker, outcome>>
           \/ \E c \in CallIds :
                /\ c \notin Asked /\ Asked' = Asked \cup {c}
                /\ UNCHANGED outcome \/ outcome' = [outcome EXCEPT ![c] = "refused"]
    BY <1>4, <2>1, CallsLine DEF LinkAndCalls
  <2>5. ServiceStep
    BY <2>2, <2>4 DEF ServiceStep, Service!Next, Service!Ask, Service!Turn, Service!vars, Asked
  <2> QED BY <2>1, <2>3, <2>4, <2>5 DEF LinkAndCalls
<1>5. CASE LinkStep
  <2>1. TypeInv'
    BY TypeStep DEF LinkAndCalls
  <2>2. LinkInv'
    BY <1>5, LinkOfStep DEF LinkAndCalls
  <2>3. /\ CallsInv' /\ UNCHANGED <<asker, ran>>
        /\ UNCHANGED outcome \/ \E c \in CallIds, t \in Tellings \ {"nothing"} : Service!Tell(c, t)
    BY <1>5, <2>1, CallsOfLink DEF LinkAndCalls
  <2>4. Tellings = Service!Tellings
    BY DEF Tellings, Service!Tellings, Service!Settled
  <2>5. ServiceStep
    BY <2>3, <2>4 DEF ServiceStep, Service!Next, Service!vars, Asked
  <2> QED BY <2>1, <2>2, <2>3, <2>5 DEF LinkAndCalls
<1> QED BY <1>1, <1>2, <1>3, <1>4, <1>5, StepOfSimulator, StepOfServer DEF Next

LEMMA LinkAndCallsInit == Assumed /\ Init => LinkAndCalls /\ Service!Init
<1> SUFFICES ASSUME Assumed, Init PROVE LinkAndCalls /\ Service!Init
  OBVIOUS
<1>1. TypeInv /\ LinkInv
  BY TypeInit, LinkInit
<1>2. CallsOk(0, tasks, link, channel, connections, inbox, asker, ran, outcome)
  <2>1. \A s \in Simulators : DOMAIN inbox[s] = {}
    BY DEF Init
  <2>2. DOMAIN tasks = {} /\ link.pc = "idle"
    BY DEF Init, IdleLink
  <2>3. AskedOk(0, asker)
    BY DEF Init, AskedOk, Assumed, LinkAssumption, CallIds
  <2>4. \A c \in CallIds : Untouched(c, inbox, ran, outcome)
    BY <2>1 DEF Init, Untouched, Received
  <2>5. OrderOk(0, tasks, link, asker) /\ DialsOk(0, tasks, link, channel, connections)
        /\ SentOk(link, channel, inbox, ran, outcome)
    BY <2>2 DEF OrderOk, DialsOk, SentOk, Init
  <2>6. UnsentOk(0, tasks, link, inbox, ran, outcome)
    BY <2>2, <2>4 DEF UnsentOk
  <2>7. HeldOk(0, link, channel, connections, inbox, asker, ran, outcome) /\ OnceOk(inbox)
    BY <2>1 DEF HeldOk, OnceOk
  <2>8. \A c \in CallIds : ran[c] \in {0, 1}
    BY DEF Init
  <2> QED BY <2>3, <2>5, <2>6, <2>7, <2>8 DEF CallsOk
<1>3. 0 \in 0..MaxCalls
  BY DEF Assumed, LinkAssumption
<1>4. Service!Init
  BY DEF Init, Service!Init, Asked
<1> QED BY <1>1, <1>2, <1>3, <1>4 DEF LinkAndCalls, CallsInv

-----------------------------------------------------------------------------
(* The theorems *)

\* The invariant holds for any number of simulators, calls, starts and ports.
THEOREM LinkInvariant == Assumed /\ Spec => []LinkAndCalls
<1> SUFFICES ASSUME Assumed PROVE Spec => []LinkAndCalls
  OBVIOUS
<1>1. Init => LinkAndCalls
  BY LinkAndCallsInit
<1>2. LinkAndCalls /\ [Next]_vars => LinkAndCalls'
  BY LinkAndCallsStep
<1> QED BY <1>1, <1>2, PTL DEF Spec

\* Every variable has its type; a connection and the file name servers that were
\* started, and no call makes two connections (gui_link.cpp, agent_server.cpp).
THEOREM LinkIsTyped == Assumed /\ Spec => []TypeOK
<1> SUFFICES ASSUME Assumed PROVE Spec => []TypeOK
  OBVIOUS
<1>1. LinkAndCalls => TypeOK
  <2> SUFFICES ASSUME LinkAndCalls PROVE TypeOK
    OBVIOUS
  <2> USE DEF LinkAndCalls
  <2>1. PICK n \in 0..MaxCalls : CallsOk(n, tasks, link, channel, connections, inbox, asker, ran, outcome)
    BY DEF CallsInv
  <2>2. connections \in 0..Cardinality(CallIds)
    <3>1. MaxCalls \in Nat /\ connections \in Nat /\ connections <= n
      BY <2>1 DEF Assumed, LinkAssumption, TypeInv, CallsOk, DialsOk
    <3>2. Cardinality(CallIds) = MaxCalls
      BY <3>1, FS_Interval DEF CallIds
    <3> QED BY <3>1, <3>2
  <2>3. server \in [Simulators -> [state : {"off", "opening", "on", "failed", "leaving"},
                                   number : 0..MaxStarts, port : Ports \cup {0}]]
    BY DEF TypeInv, Server, States
  <2>4. \A s \in Simulators : \A i \in DOMAIN inbox[s] : inbox[s][i] \in Entry
    BY EntryType
  <2>5. \A i \in DOMAIN tasks : tasks[i] \in [call : CallIds, client : Names \cup {NoName}]
    BY TaskType DEF Task, Clients
  <2>6. ran \in [CallIds -> 0..1]
    <3>1. \A c \in CallIds : ran[c] \in 0..1
      BY <2>1 DEF CallsOk
    <3> QED BY <3>1 DEF TypeInv
  <2>7. asker \in [CallIds -> Names \cup {NoName, Nobody}]
    <3>1. Clients \cup {Nobody} = Names \cup {NoName, Nobody}
      BY DEF Clients
    <3> QED BY <3>1 DEF TypeInv
  <2>8. link.pc \in Pcs /\ link.call \in CallIds \cup {Nobody}
    BY DEF TypeInv, Link
  <2> QED BY <2>2, <2>3, <2>4, <2>5, <2>6, <2>7, <2>8 DEF TypeOK, TypeInv, Connected, Pcs
<1> QED BY <1>1, LinkInvariant, PTL

\* A call is sent only to the server instance that wrote the endpoint the connection
\* was dialed for, of the bridge's own release, whoever took the port since
\* (the gui_token check of GuiLink::connect).
THEOREM CallsAlwaysReachTheirSimulator == Assumed /\ Spec => []CallsReachTheirSimulator
<1> SUFFICES ASSUME Assumed PROVE Spec => []CallsReachTheirSimulator
  OBVIOUS
<1>1. LinkAndCalls => CallsReachTheirSimulator
  BY DEF LinkAndCalls, LinkInv, LinkOk, Greeting, Proven, Connected, CallsReachTheirSimulator
<1> QED BY <1>1, LinkInvariant, PTL

\* A simulator credits each call to the client that made it, through every change
\* of client in one session (mcp_session.cpp, mcp_bridge.cpp).
THEOREM ClientIsAlwaysTheCaller == Assumed /\ Spec => []ClientIsTheCaller
<1> SUFFICES ASSUME Assumed PROVE Spec => []ClientIsTheCaller
  OBVIOUS
<1>1. LinkAndCalls => ClientIsTheCaller
  BY DEF LinkAndCalls, CallsInv, CallsOk, HeldOk, ClientIsTheCaller
<1> QED BY <1>1, LinkInvariant, PTL

\* While the server that was started last runs, the endpoint file leads to it,
\* however other simulators stop, crash and restart (removeAgentEndpointIfOwned).
THEOREM LastStartedIsAlwaysFound == Assumed /\ Spec => []LastStartedIsFound
<1> SUFFICES ASSUME Assumed PROVE Spec => []LastStartedIsFound
  OBVIOUS
<1>1. Init => LastStartedIsFound
  BY DEF Init, Off, LastStartedIsFound
<1>2. LinkAndCalls /\ LastStartedIsFound /\ [Next]_vars => LastStartedIsFound'
  <2> SUFFICES ASSUME LinkAndCalls, LastStartedIsFound, [Next]_vars PROVE LastStartedIsFound'
    OBVIOUS
  <2>1. server \in [Simulators -> Server]
    BY DEF LinkAndCalls, TypeInv
  <2>2. CASE UNCHANGED <<server, endpoint, starter>>
    BY <2>2 DEF LastStartedIsFound, Gui
  <2>3. ASSUME NEW s \in Simulators, SimulatorStep(s)
        PROVE  LastStartedIsFound'
    <3> SUFFICES ASSUME NEW t \in Simulators, server'[t].state = "on", starter' = <<t, server'[t].number>>
                 PROVE  endpoint' # Nobody /\ endpoint'.gui = <<t, server'[t].number>>
      BY DEF LastStartedIsFound, Gui
    <3>1. CASE PublishEndpoint(s)
      <4>1. t = s /\ server'[t].number = server[t].number
        BY <2>1, <3>1 DEF PublishEndpoint, Gui, Server
      <4>2. endpoint' = [gui |-> Gui(s), port |-> server[s].port, release |-> Release[s]]
        BY <3>1 DEF PublishEndpoint
      <4>3. endpoint' \in Endpoint
        <5>1. Gui(s) \in Instances /\ server[s].port \in Ports /\ Release[s] \in Nat
          <6>1. server[s] \in Server /\ Release[s] \in Nat /\ Gui(s) \in Instances
            BY <3>1, TypeOfServers DEF LinkAndCalls, PublishEndpoint
          <6> QED BY <3>1, <6>1 DEF PublishEndpoint, Server
        <5> QED BY <4>2, <5>1 DEF Endpoint
      <4> QED BY <4>1, <4>2, <4>3, NothingIsNobody DEF Gui
    <3>2. CASE ~PublishEndpoint(s)
      <4>1. starter' = starter /\ (server'[t] = server[t] \/ (t = s /\ server'[t].state # "on"))
        BY <2>1, <2>3, <3>2 DEF SimulatorStep, StartServer, FailStart, ListenerDies, StopServer,
              LeaveEndpoint, Crash, Off, Server
      <4>2. server'[t] = server[t] /\ endpoint # Nobody /\ endpoint.gui = Gui(t)
        BY <4>1 DEF LastStartedIsFound, Gui
      <4>3. endpoint' = endpoint \/ LeaveEndpoint(s)
        BY <2>3, <3>2 DEF SimulatorStep, StartServer, FailStart, ListenerDies, StopServer,
              LeaveEndpoint, Crash
      <4>4. CASE LeaveEndpoint(s)
        <5>1. t # s
          BY <2>1, <4>2, <4>4 DEF LeaveEndpoint, Off
        <5> QED BY <4>2, <4>4, <5>1 DEF LeaveEndpoint, WithoutEndpoint, Gui
      <4> QED BY <4>2, <4>3, <4>4 DEF Gui
    <3> QED BY <3>1, <3>2
  <2>4. \/ \E s \in Simulators : SimulatorStep(s)
        \/ UNCHANGED <<server, endpoint, starter>>
    <3>1. \A s \in Simulators : ServerStep(s) => UNCHANGED <<server, endpoint, starter>>
      BY DEF ServerStep, TurnAway, AnswerHello, ReceiveCall, BeginCall, FinishCall, ParkedTooLong,
             Respond, simVars
    <3>2. LinkStep => UNCHANGED <<server, endpoint, starter>>
      BY DEF LinkStep, TakeTask, ReadEndpoint, Dial, ReadGreeting, SendCall, ReadReply, GiveUp, simVars
    <3> QED BY <3>1, <3>2 DEF Next, vars, simVars, TakePort, ForeignAnswers, ClientLine
  <2> QED BY <2>2, <2>3, <2>4
<1> QED BY <1>1, <1>2, LinkInvariant, PTL DEF Spec

\* Bridge and simulators are the service that CallService describes: a call runs once
\* at most, is answered once at most, and what is answered is what happened, whatever
\* crashes, times out, is turned away or is taken over by another program.
THEOREM CallsAreServedSafely == Assumed /\ Spec => Service!Spec
<1> SUFFICES ASSUME Assumed PROVE Spec => Service!Spec
  OBVIOUS
<1>1. Init => Service!Init
  BY LinkAndCallsInit
<1>2. LinkAndCalls /\ [Next]_vars => [Service!Next]_Service!vars
  BY LinkAndCallsStep DEF ServiceStep
<1> QED BY <1>1, <1>2, LinkInvariant, PTL DEF Spec, Service!Spec
=============================================================================
